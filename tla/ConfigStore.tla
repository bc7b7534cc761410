----------------------------- MODULE ConfigStore ----------------------------
(***************************************************************************)
(* The settings of GovPay+ (src/server/config.go): one Config in memory    *)
(* under an RWMutex, loaded from config.yaml and the environment at start, *)
(* edited on the Settings page by a read, a change and a PUT of the whole  *)
(* endpoint, written back by os.WriteFile, which truncates the file first. *)
(*                                                                         *)
(* A few fields stand for all: two with a default and three without, three *)
(* that the page edits and two that it does not.                           *)
(***************************************************************************)
EXTENDS Integers, Sequences

CONSTANTS
  Editors,      \* uses of the Settings page; one types its own name as a value
  EnvFields,    \* fields a deployment may set in the environment
  Nobody, NoEndpoint, Unparsable,
  MaxStarts     \* bound on the starts of GovPay+ after the first

ASSUME EditorsAssumption ==
  /\ Nobody \notin Editors
  /\ Editors \cap {"", "default", "environment", "deployed", "cut"} = {}
ASSUME StartsAssumption == MaxStarts \in Nat

\* The order of the fields in the file.
Order == << "addr", "baseURL", "updatePath", "clientSecret", "subInstitutions" >>
Fields    == { Order[i] : i \in DOMAIN Order }
Endpoint  == {"baseURL", "updatePath", "clientSecret"}
Defaulted == {"addr", "updatePath"}

ASSUME EnvFieldsAssumption == EnvFields \subseteq Fields \ {"subInstitutions"}

Empty    == ""
Default  == "default"
FromEnv  == "environment"
Deployed == "deployed"       \* the value the file was deployed with
Cut      == "cut"            \* a value broken off in the middle
Values   == {Empty, Default, FromEnv, Deployed, Cut} \cup Editors

Configs   == [Fields -> Values]
Endpoints == [Endpoint -> Values]
NoConfig  == [f \in Fields |-> Empty]

ASSUME NoneAssumption == Unparsable \notin Configs

VARIABLES
  file,      \* what config.yaml holds
  env,       \* the fields set in the environment of this start
  up,        \* GovPay+ runs
  cfg,       \* Store.cfg
  writer,    \* the editor whose PUT holds Store.mu and writes the file
  place,     \* editor -> where it is
  form,      \* editor -> what its page shows
  starts,
  cut,       \* history: the file holds less than was being written to it, and
             \*   GovPay+ has not started from it since
  lost,      \* history: GovPay+ has started from such a file
  version,   \* history: number of changes made by this incarnation
  kept,      \* history: the last of them that was written as a whole
  put,       \* history: editor -> the endpoint it sent
  own, seen  \* history: editor -> version its PUT made, version its answer shows

history == << cut, lost, version, kept, put, own, seen >>
vars == << file, env, up, cfg, writer, place, form, starts, history >>

TypeOK ==
  /\ file \in Configs \cup {Unparsable}
  /\ env \subseteq EnvFields
  /\ up \in BOOLEAN
  /\ cfg \in Configs
  /\ writer \in Editors \cup {Nobody}
  /\ \A e \in Editors : place[e] = "writing" <=> writer = e
  /\ place \in [Editors -> {"idle", "editing", "saving", "writing", "answering",
                            "done", "dead"}]
  /\ form \in [Editors -> Endpoints \cup {NoEndpoint}]
  /\ starts \in 0..MaxStarts
  /\ cut \in BOOLEAN /\ lost \in BOOLEAN
  /\ version \in Nat /\ kept \in Nat
  /\ put \in [Editors -> Endpoints \cup {NoEndpoint}]
  /\ own \in [Editors -> Nat] /\ seen \in [Editors -> Nat]

-----------------------------------------------------------------------------
(* Loading and writing *)

WithDefaults(c) ==
  [f \in Fields |-> IF c[f] = Empty /\ f \in Defaulted THEN Default ELSE c[f]]

\* LoadStore: the file, the defaults, then the environment.
Loaded(c, e) ==
  [f \in Fields |-> IF f \in e THEN FromEnv ELSE WithDefaults(c)[f]]

GoEndpoint(c) == [f \in Endpoint |-> c[f]]

\* Slips: a new Config is built around the endpoint; no defaults are applied.
MutReplacedAlone(c, ep) ==
  WithDefaults([f \in Fields |-> IF f \in Endpoint THEN ep[f] ELSE Empty])

MutReplacedNoDefaults(c, ep) ==
  [f \in Fields |-> IF f \in Endpoint THEN ep[f] ELSE c[f]]

\* UpdateEndpoint's change in memory: the endpoint is replaced as a whole.
Replaced(c, ep) ==
  WithDefaults([f \in Fields |-> IF f \in Endpoint THEN ep[f] ELSE c[f]])

\* A write of c that stops: nothing is written, a beginning whose last value is
\* cut but which parses, or one that does not.
Beginnings(c) ==
  LET Place(f) == CHOOSE i \in DOMAIN Order : Order[i] = f
      Beginning(n) == [f \in Fields |-> IF Place(f) < n THEN c[f]
                                        ELSE IF Place(f) = n THEN Cut ELSE Empty]
  IN  {NoConfig, Unparsable} \cup { Beginning(n) : n \in DOMAIN Order }

Init ==
  /\ file = [f \in Fields |-> Deployed]
  /\ env \in SUBSET EnvFields
  /\ up = TRUE
  /\ cfg = Loaded(file, env)
  /\ writer = Nobody
  /\ place = [a \in Editors |-> "idle"]
  /\ form = [e \in Editors |-> NoEndpoint]
  /\ starts = 0
  /\ cut = FALSE /\ lost = FALSE /\ version = 0 /\ kept = 0
  /\ put = [e \in Editors |-> NoEndpoint]
  /\ own = [e \in Editors |-> 0] /\ seen = [e \in Editors |-> 0]

Goto(a, from, to) == /\ up /\ place[a] = from
                     /\ place' = [place EXCEPT ![a] = to]

Unlocked == writer = Nobody

-----------------------------------------------------------------------------
(* The Settings page *)

\* GET /api/config.
Open(e) ==
  /\ Goto(e, "idle", "editing")
  /\ Unlocked
  /\ form' = [form EXCEPT ![e] = GoEndpoint(cfg)]
  /\ UNCHANGED << file, env, up, cfg, writer, starts, history >>

\* The admin types into a field, or clears it, and saves; handleConfig refuses a
\* PUT without a baseURL.
Save(e) ==
  /\ place[e] = "editing"
  /\ \E f \in Endpoint, v \in {Empty, e} :
    LET ep == [form[e] EXCEPT ![f] = v]
    IN  /\ Goto(e, "editing", IF ep["baseURL"] = Empty THEN "done" ELSE "saving")
        /\ form' = [form EXCEPT ![e] = ep]
        /\ put' = [put EXCEPT ![e] = ep]
        /\ UNCHANGED << file, env, up, cfg, writer, starts,
                        cut, lost, version, kept, own, seen >>

\* Slip: the mutex is held on when the file cannot be opened.
MutUpdateEndpoint(e) ==
  /\ place[e] = "saving" /\ Unlocked
  /\ cfg' = Replaced(cfg, put[e])
  /\ version' = version + 1
  /\ own' = [own EXCEPT ![e] = version + 1]
  /\ writer' = e
  /\ \/ Goto(e, "saving", "answering") /\ UNCHANGED << file, cut >>
     \/ Goto(e, "saving", "writing") /\ file' = NoConfig /\ cut' = TRUE
  /\ UNCHANGED << env, up, form, starts, lost, kept, put, seen >>

\* UpdateEndpoint under the lock, up to persistLocked: the file cannot be opened
\* (a read-only image layer), which is only logged, or it is truncated.
UpdateEndpoint(e) ==
  /\ place[e] = "saving" /\ Unlocked
  /\ cfg' = Replaced(cfg, put[e])
  /\ version' = version + 1
  /\ own' = [own EXCEPT ![e] = version + 1]
  /\ \/ Goto(e, "saving", "answering") /\ UNCHANGED << file, writer, cut >>
     \/ Goto(e, "saving", "writing") /\ file' = NoConfig /\ writer' = e /\ cut' = TRUE
  /\ UNCHANGED << env, up, form, starts, lost, kept, put, seen >>

\* The rest of os.WriteFile, and the unlock.
Write(e) ==
  /\ Goto(e, "writing", "answering")
  /\ file' = cfg
  /\ writer' = Nobody
  /\ cut' = FALSE /\ kept' = version
  /\ UNCHANGED << env, up, cfg, form, starts, lost, version, put, own, seen >>

\* The write fails part of the way (a full disk): only logged.
WriteFails(e) ==
  /\ Goto(e, "writing", "answering")
  /\ file' \in Beginnings(cfg)
  /\ writer' = Nobody
  /\ UNCHANGED << env, up, cfg, form, starts, history >>

\* handleConfig takes a Snapshot for the answer after UpdateEndpoint has unlocked.
AnswerSave(e) ==
  /\ Goto(e, "answering", "done")
  /\ Unlocked
  /\ seen' = [seen EXCEPT ![e] = version]
  /\ form' = [form EXCEPT ![e] = GoEndpoint(cfg)]
  /\ UNCHANGED << file, env, up, cfg, writer, starts,
                  cut, lost, version, kept, put, own >>

-----------------------------------------------------------------------------
(* Stops and starts *)

\* GovPay+ stops, perhaps in the middle of a write.  Only pages that are being
\* edited matter afterwards.
Crash ==
  /\ up /\ up' = FALSE
  /\ cfg' = NoConfig
  /\ writer' = Nobody
  /\ place' = [e \in Editors |->
       IF place[e] \in {"idle", "editing"} THEN place[e] ELSE "dead"]
  /\ IF Unlocked THEN UNCHANGED file ELSE file' \in Beginnings(cfg)
  /\ form' = [e \in Editors |-> IF place[e] = "editing" THEN form[e] ELSE NoEndpoint]
  /\ put' = [e \in Editors |-> NoEndpoint]
  /\ own' = [e \in Editors |-> 0] /\ seen' = [e \in Editors |-> 0]
  /\ version' = 0 /\ kept' = 0
  /\ UNCHANGED << env, starts, cut, lost >>

\* Slip: the environment does not override the file.
MutStart ==
  /\ ~up /\ starts < MaxStarts
  /\ file # Unparsable
  /\ up' = TRUE /\ starts' = starts + 1
  /\ cfg' = WithDefaults(file)
  /\ env' \in SUBSET EnvFields
  /\ lost' = (lost \/ cut) /\ cut' = FALSE
  /\ UNCHANGED << file, writer, place, form, version, kept, put, own, seen >>

\* LoadStore in main: a file that does not parse is fatal.
Start ==
  /\ ~up /\ starts < MaxStarts
  /\ file # Unparsable
  /\ up' = TRUE /\ starts' = starts + 1
  /\ env' \in SUBSET EnvFields
  /\ cfg' = Loaded(file, env')
  /\ lost' = (lost \/ cut) /\ cut' = FALSE
  /\ UNCHANGED << file, writer, place, form, version, kept, put, own, seen >>

-----------------------------------------------------------------------------
EditorStep(e)  == UpdateEndpoint(e) \/ Write(e) \/ WriteFails(e) \/ AnswerSave(e)

Next ==
  \/ \E e \in Editors : Open(e) \/ Save(e) \/ EditorStep(e)
  \/ Crash \/ Start

Spec == Init /\ [][Next]_vars

\* Handlers run, and the file operations return.  As each page saves once, the
\* mutex is in the end free for good for whoever waits for it.
Fairness == \A e \in Editors : WF_vars(EditorStep(e))

FairSpec == Spec /\ Fairness

-----------------------------------------------------------------------------
(* Safety *)

\* What a start in the same environment would bring back, unless the file is
\* being written or the last write to it was cut short: everything in memory but
\* fields the page edits, and of these only such as the environment sets or as
\* were changed after the last whole write, by saves that could not open the file
\* (UpdateEndpoint, persistLocked, LoadStore).  Of a file that is cut nothing is
\* claimed here: a stop then costs settings written before.
RestartKeepsSettings ==
  up /\ ~cut =>
    /\ file # Unparsable
    /\ \A f \in Fields : Loaded(file, env)[f] # cfg[f] =>
         f \in Endpoint /\ (f \in env \/ kept < version)

\* Edits of the endpoint never cost the sub-institutions, whose accounts the
\* payments go to.  They are lost only by a start from a file that a write left
\* cut; if GovPay+ runs on, the next whole write makes the file good again.
ServicesSurvive ==
  lost \/ /\ up => cfg["subInstitutions"] = Deployed
          /\ ~cut => file # Unparsable /\ file["subInstitutions"] = Deployed

\* The answer to a PUT shows the admin the own change, completed by the defaults,
\* or a later one, never an older state, although it is read after the unlock.
AnswerShowsOwnOrLater ==
  \A e \in Editors : place[e] = "done" /\ own[e] > 0 =>
    /\ seen[e] >= own[e]
    /\ seen[e] = own[e] =>
         form[e] = GoEndpoint(WithDefaults([f \in Fields |->
                     IF f \in Endpoint THEN put[e][f] ELSE Empty]))

\* What the proof of the two needs besides: a page that is edited has been filled
\* and one that is saved was sent; memory has its defaults and what the
\* environment sets beyond the page's reach; only a write holds the lock on; what
\* was written was a change.
PagesFilled ==
  \A e \in Editors :
    /\ place[e] = "editing" => form[e] \in Endpoints
    /\ place[e] = "saving" => put[e] \in Endpoints

MemoryComplete ==
  up => /\ \A f \in Defaulted : cfg[f] # Empty
        /\ \A f \in env \ Endpoint : cfg[f] = FromEnv

LockIsAWrite == (~up => Unlocked) /\ (~Unlocked => cut)

KeptIsAVersion == kept <= version

IInv == /\ TypeOK /\ PagesFilled /\ MemoryComplete /\ LockIsAWrite /\ KeptIsAVersion
        /\ RestartKeepsSettings /\ ServicesSurvive

\* "URLs/secrets are not baked into config.yaml" (applyEnvOverrides).
EnvironmentStaysOutOfFile ==
  file # Unparsable => \A f \in Fields : file[f] # FromEnv

-----------------------------------------------------------------------------
(* Liveness *)

\* A save is answered whatever becomes of the write, and does not stop the
\* others (persistLocked keeps the lock over the file operations).
SavesEnd ==
  \A e \in Editors : place[e] = "saving" ~> place[e] \in {"done", "dead"}

=============================================================================
