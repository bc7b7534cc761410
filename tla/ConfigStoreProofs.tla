------------------------- MODULE ConfigStoreProofs --------------------------
(***************************************************************************)
(* What a restart keeps, for any number of editors and starts and any      *)
(* choice of the fields the environment sets.                              *)
(***************************************************************************)
EXTENDS ConfigStore, TLAPS

LEMMA FieldFacts ==
  /\ Fields = {"addr", "baseURL", "updatePath", "clientSecret", "subInstitutions"}
  /\ Endpoint \subseteq Fields /\ Defaulted \subseteq Fields
  /\ "subInstitutions" \in Fields
  /\ "subInstitutions" \notin Endpoint \cup Defaulted \cup EnvFields
<1>1. Fields = {"addr", "baseURL", "updatePath", "clientSecret", "subInstitutions"}
  BY DEF Fields, Order
<1> QED BY <1>1, EnvFieldsAssumption DEF Endpoint, Defaulted

\* Defaults and overrides keep a configuration a configuration, complete it, and
\* do nothing to one that is complete (applyDefaults, applyEnvOverrides).
LEMMA LoadedFacts ==
  ASSUME NEW c \in Configs, NEW e \in SUBSET EnvFields
  PROVE  /\ WithDefaults(c) \in Configs /\ Loaded(c, e) \in Configs
         /\ \A f \in Defaulted : WithDefaults(c)[f] # Empty /\ Loaded(c, e)[f] # Empty
         /\ \A f \in e : Loaded(c, e)[f] = FromEnv
         /\ \A f \in Fields \ Defaulted : WithDefaults(c)[f] = c[f]
         /\ \A f \in Fields \ (Defaulted \cup e) : Loaded(c, e)[f] = c[f]
         /\ (\A f \in Defaulted : c[f] # Empty) =>
              \A f \in Fields \ e : Loaded(c, e)[f] = c[f]
BY FieldFacts, EnvFieldsAssumption
   DEF Configs, Values, WithDefaults, Loaded, Empty, Default, FromEnv

\* Replacing the endpoint completes it and leaves the other fields alone.
LEMMA ReplacedFacts ==
  ASSUME NEW c \in Configs, NEW ep \in Endpoints
  PROVE  /\ Replaced(c, ep) \in Configs
         /\ \A f \in Defaulted : Replaced(c, ep)[f] # Empty
         /\ \A f \in Fields \ (Endpoint \cup Defaulted) : Replaced(c, ep)[f] = c[f]
         /\ \A f \in Fields \ Endpoint :
              c[f] # Empty => Replaced(c, ep)[f] = c[f]
BY FieldFacts DEF Configs, Endpoints, Values, Replaced, WithDefaults, Empty, Default

LEMMA BeginningsType ==
  ASSUME NEW c \in Configs
  PROVE  /\ Beginnings(c) \subseteq Configs \cup {Unparsable}
         /\ NoConfig \in Configs
<1>1. NoConfig \in Configs BY DEF NoConfig, Configs, Values
<1>2. \A n \in DOMAIN Order :
        [f \in Fields |->
           IF (CHOOSE i \in DOMAIN Order : Order[i] = f) < n THEN c[f]
           ELSE IF (CHOOSE i \in DOMAIN Order : Order[i] = f) = n THEN Cut ELSE Empty]
          \in Configs
  BY DEF Configs, Values
<1> QED BY <1>1, <1>2 DEF Beginnings

LEMMA EndpointType ==
  ASSUME NEW c \in Configs
  PROVE  GoEndpoint(c) \in Endpoints
BY FieldFacts DEF GoEndpoint, Configs, Endpoints

LEMMA InitIInv == Init => IInv
<1> SUFFICES ASSUME Init PROVE IInv OBVIOUS
<1> USE DEF Init
<1>1. file \in Configs /\ \A f \in Fields : file[f] = Deployed BY DEF Configs, Values
<1>2. env \in SUBSET EnvFields OBVIOUS
<1>3. cfg \in Configs BY <1>1, <1>2, LoadedFacts
<1>4. TypeOK
  <2>1. \A e \in Editors : place[e] = "idle" /\ writer # e BY EditorsAssumption
  <2>2. /\ place \in [Editors -> {"idle"}] /\ form \in [Editors -> {NoEndpoint}]
        /\ put \in [Editors -> {NoEndpoint}]
        /\ own \in [Editors -> Nat] /\ seen \in [Editors -> Nat]
    OBVIOUS
  <2>3. up \in BOOLEAN /\ cut \in BOOLEAN /\ lost \in BOOLEAN
    BY Zenon
  <2>4. version \in Nat /\ kept \in Nat /\ starts \in 0..MaxStarts
    <3>1. version = 0 /\ kept = 0 /\ starts = 0 OBVIOUS
    <3> HIDE DEF Init
    <3> QED BY <3>1, StartsAssumption
  <2>5. writer = Nobody OBVIOUS
  <2> HIDE DEF Init
  <2> QED BY <1>1, <1>2, <1>3, <2>1, <2>2, <2>3, <2>4, <2>5 DEF TypeOK
<1>5. PagesFilled BY DEF PagesFilled
<1>6. MemoryComplete BY <1>1, <1>2, LoadedFacts DEF MemoryComplete
<1>7. LockIsAWrite BY DEF LockIsAWrite, Unlocked
<1>8. RestartKeepsSettings BY <1>1, NoneAssumption DEF RestartKeepsSettings
<1>9. ServicesSurvive
  BY <1>1, <1>2, LoadedFacts, FieldFacts, NoneAssumption DEF ServicesSurvive
<1>10. KeptIsAVersion BY DEF KeptIsAVersion
<1> QED BY <1>4, <1>5, <1>6, <1>7, <1>8, <1>9, <1>10 DEF IInv

\* Steps that touch neither the settings nor the file keep what is said of them.
LEMMA SettingsKept ==
  ASSUME IInv,
         UNCHANGED << file, env, up, cfg, writer, cut, lost, version, kept >>
  PROVE  /\ MemoryComplete' /\ LockIsAWrite' /\ KeptIsAVersion'
         /\ RestartKeepsSettings' /\ ServicesSurvive'
BY DEF IInv, MemoryComplete, LockIsAWrite, KeptIsAVersion, RestartKeepsSettings,
       ServicesSurvive, Unlocked, Loaded, WithDefaults

LEMMA OpenIInv == ASSUME IInv, NEW e \in Editors, Open(e) PROVE IInv'
<1> USE DEF IInv, Open, Goto, history
<1>1. GoEndpoint(cfg) \in Endpoints BY EndpointType DEF TypeOK
<1>2. TypeOK' BY <1>1, EditorsAssumption DEF TypeOK
<1>3. PagesFilled' BY <1>1, EditorsAssumption DEF PagesFilled, TypeOK
<1> QED BY <1>2, <1>3, SettingsKept

LEMMA SaveIInv == ASSUME IInv, NEW e \in Editors, Save(e) PROVE IInv'
<1>1. PICK f \in Endpoint, v \in {Empty, e} :
        LET ep == [form[e] EXCEPT ![f] = v]
        IN  /\ Goto(e, "editing", IF ep["baseURL"] = Empty THEN "done" ELSE "saving")
            /\ form' = [form EXCEPT ![e] = ep]
            /\ put' = [put EXCEPT ![e] = ep]
            /\ UNCHANGED << file, env, up, cfg, writer, starts,
                            cut, lost, version, kept, own, seen >>
  BY DEF Save
<1> DEFINE ep == [form[e] EXCEPT ![f] = v]
<1>2. form[e] \in Endpoints BY DEF IInv, PagesFilled, Save
<1>3. ep \in Endpoints BY <1>2 DEF Endpoints, Values
<1>4. /\ place[e] = "editing"
      /\ \/ place' = [place EXCEPT ![e] = "done"]
         \/ place' = [place EXCEPT ![e] = "saving"]
  BY <1>1 DEF Goto
<1>5. /\ form' = [form EXCEPT ![e] = ep] /\ put' = [put EXCEPT ![e] = ep]
      /\ UNCHANGED << file, env, up, cfg, writer, starts,
                      cut, lost, version, kept, own, seen >>
  BY <1>1
<1> HIDE DEF ep
<1>6. TypeOK' BY <1>3, <1>4, <1>5, EditorsAssumption DEF IInv, TypeOK
<1>7. PagesFilled' BY <1>3, <1>4, <1>5 DEF IInv, TypeOK, PagesFilled
<1> QED BY <1>5, <1>6, <1>7, SettingsKept DEF IInv

LEMMA UpdateEndpointIInv ==
  ASSUME IInv, NEW e \in Editors, UpdateEndpoint(e) PROVE IInv'
<1> USE DEF IInv
<1>1. put[e] \in Endpoints /\ cfg \in Configs /\ up
  BY DEF PagesFilled, UpdateEndpoint, TypeOK, Goto
<1>2. /\ cfg' \in Configs
      /\ \A f \in Defaulted : cfg'[f] # Empty
      /\ \A f \in Fields \ (Endpoint \cup Defaulted) : cfg'[f] = cfg[f]
      /\ \A f \in Fields \ Endpoint : cfg[f] # Empty => cfg'[f] = cfg[f]
  BY <1>1, ReplacedFacts DEF UpdateEndpoint
<1>3. NoConfig \in Configs BY <1>1, BeginningsType
<1>4. TypeOK'
  <2>1. /\ place[e] = "saving" /\ writer = Nobody /\ version' = version + 1
        /\ own' = [own EXCEPT ![e] = version + 1]
        /\ UNCHANGED << env, up, form, starts, lost, kept, put, seen >>
    BY DEF UpdateEndpoint, Unlocked
  <2>2. \/ place' = [place EXCEPT ![e] = "answering"] /\ file' = file /\ writer' = writer
        \/ place' = [place EXCEPT ![e] = "writing"] /\ file' = NoConfig /\ writer' = e
    BY DEF UpdateEndpoint, Goto
  <2>3. file' \in Configs \cup {Unparsable} /\ writer' \in Editors \cup {Nobody}
    BY <1>3, <2>2 DEF TypeOK
  <2>4. \A a \in Editors : place'[a] = "writing" <=> writer' = a
    <3>1. \A a \in Editors : writer # a /\ place[a] # "writing"
      BY <2>1, EditorsAssumption DEF TypeOK
    <3>2. DOMAIN place = Editors BY DEF TypeOK
    <3>3. CASE place' = [place EXCEPT ![e] = "answering"] /\ writer' = writer
      BY <3>1, <3>2, <3>3
    <3>4. CASE place' = [place EXCEPT ![e] = "writing"] /\ writer' = e
      BY <3>1, <3>2, <3>4
    <3> QED BY <2>2, <3>3, <3>4
  <2>5. place' \in [Editors -> {"idle", "editing", "saving", "writing", "answering",
                                "done", "dead"}]
    BY <2>2 DEF TypeOK
  <2>6. own' \in [Editors -> Nat] /\ version' \in Nat /\ kept' \in Nat
    BY <2>1 DEF TypeOK
  <2>7. up' \in BOOLEAN /\ cut' \in BOOLEAN /\ lost' \in BOOLEAN
    <3>1. cut' = cut \/ cut' = TRUE BY DEF UpdateEndpoint
    <3> QED BY <2>1, <3>1, Zenon DEF TypeOK
  <2>8. UNCHANGED << env, form, starts, put, seen >> BY <2>1
  <2> QED BY <1>2, <2>3, <2>4, <2>5, <2>6, <2>7, <2>8 DEF TypeOK
<1>5. PagesFilled' BY DEF PagesFilled, TypeOK, UpdateEndpoint, Goto
<1>6. MemoryComplete'
  <2>1. env' = env /\ up' = up BY DEF UpdateEndpoint
  <2>2. \A f \in env \ Endpoint : cfg[f] = FromEnv BY <1>1 DEF MemoryComplete
  <2>3. env \subseteq Fields BY EnvFieldsAssumption DEF TypeOK
  <2>4. FromEnv # Empty BY DEF FromEnv, Empty
  <2>5. \A f \in env \ Endpoint : cfg'[f] = FromEnv BY <1>2, <2>2, <2>3, <2>4
  <2> QED BY <1>2, <2>1, <2>5 DEF MemoryComplete
<1>7. LockIsAWrite' BY <1>1 DEF LockIsAWrite, UpdateEndpoint, Unlocked
<1>8. KeptIsAVersion' /\ kept' < version'
  BY DEF KeptIsAVersion, UpdateEndpoint, TypeOK
<1>9. /\ env' = env /\ up' = up /\ lost' = lost
      /\ cut' \/ (file' = file /\ cut' = cut)
  BY DEF UpdateEndpoint
<1>10. RestartKeepsSettings'
  <2>1. SUFFICES ASSUME up, ~cut, file' = file, env' = env
                 PROVE  /\ file # Unparsable
                        /\ \A f \in Fields : Loaded(file, env)[f] # cfg'[f] => f \in Endpoint
    BY <1>8, <1>9 DEF RestartKeepsSettings, Loaded, WithDefaults
  <2>2. \A f \in Fields \ Endpoint : cfg'[f] = cfg[f]
    BY <1>1, <1>2 DEF MemoryComplete
  <2> QED BY <2>1, <2>2 DEF RestartKeepsSettings
<1>11. ServicesSurvive'
  <2>1. cfg'["subInstitutions"] = cfg["subInstitutions"] BY <1>2, FieldFacts
  <2> QED BY <1>1, <1>9, <2>1 DEF ServicesSurvive
<1> QED BY <1>4, <1>5, <1>6, <1>7, <1>8, <1>10, <1>11

LEMMA WriteIInv == ASSUME IInv, NEW e \in Editors, Write(e) PROVE IInv'
<1> USE DEF IInv, Write, Goto
<1>1. cfg \in Configs /\ up /\ env \in SUBSET EnvFields BY DEF TypeOK
<1>2. TypeOK' BY <1>1, EditorsAssumption DEF TypeOK
<1>3. PagesFilled' BY DEF PagesFilled, TypeOK
<1>4. MemoryComplete' BY DEF MemoryComplete
<1>5. LockIsAWrite' BY DEF LockIsAWrite, Unlocked
<1>6. RestartKeepsSettings'
  <2>1. \A f \in Fields \ env : Loaded(cfg, env)[f] = cfg[f]
    BY <1>1, LoadedFacts DEF MemoryComplete
  <2>2. \A f \in env \ Endpoint : Loaded(cfg, env)[f] = cfg[f]
    BY <1>1, LoadedFacts DEF MemoryComplete
  <2>3. file' = cfg /\ env' = env /\ cfg' = cfg OBVIOUS
  <2>4. \A f \in Fields : Loaded(file', env')[f] # cfg'[f] => f \in env \cap Endpoint
    BY <2>1, <2>2, <2>3
  <2> HIDE DEF Write
  <2> QED BY <1>1, <2>3, <2>4, NoneAssumption
           DEF RestartKeepsSettings, Loaded, WithDefaults
<1>7. ServicesSurvive' BY <1>1, NoneAssumption DEF ServicesSurvive
<1>8. KeptIsAVersion' BY DEF KeptIsAVersion, TypeOK
<1> QED BY <1>2, <1>3, <1>4, <1>5, <1>6, <1>7, <1>8

LEMMA WriteFailsIInv == ASSUME IInv, NEW e \in Editors, WriteFails(e) PROVE IInv'
<1> USE DEF IInv, WriteFails, Goto, history
<1>1. file' \in Configs \cup {Unparsable} BY BeginningsType DEF TypeOK
<1>2. cut /\ cut' = cut BY EditorsAssumption DEF TypeOK, LockIsAWrite, Unlocked
<1>3. TypeOK' BY <1>1, EditorsAssumption DEF TypeOK
<1>4. PagesFilled' BY DEF PagesFilled, TypeOK
<1>5. MemoryComplete' BY DEF MemoryComplete
<1>6. LockIsAWrite' BY DEF LockIsAWrite, Unlocked
<1>7. RestartKeepsSettings' BY <1>2 DEF RestartKeepsSettings
<1>8. ServicesSurvive' BY <1>2 DEF ServicesSurvive
<1>9. KeptIsAVersion' BY DEF KeptIsAVersion
<1> QED BY <1>3, <1>4, <1>5, <1>6, <1>7, <1>8, <1>9

LEMMA AnswerSaveIInv == ASSUME IInv, NEW e \in Editors, AnswerSave(e) PROVE IInv'
<1> USE DEF IInv, AnswerSave, Goto
<1>1. GoEndpoint(cfg) \in Endpoints BY EndpointType DEF TypeOK
<1>2. TypeOK' BY <1>1, EditorsAssumption DEF TypeOK
<1>3. PagesFilled' BY DEF PagesFilled, TypeOK
<1> QED BY <1>2, <1>3, SettingsKept

LEMMA CrashIInv == ASSUME IInv, Crash PROVE IInv'
<1> USE DEF IInv
<1>1. cfg' \in Configs BY BeginningsType DEF TypeOK, Crash
<1>2. file' \in Configs \cup {Unparsable} BY BeginningsType DEF TypeOK, Crash
<1>3. TypeOK' BY <1>1, <1>2, EditorsAssumption DEF TypeOK, Crash
<1>4. PagesFilled' BY DEF PagesFilled, TypeOK, Crash
<1>5. MemoryComplete' BY DEF MemoryComplete, Crash
<1>6. LockIsAWrite' BY DEF LockIsAWrite, Unlocked, Crash
<1>7. RestartKeepsSettings' BY DEF RestartKeepsSettings, Crash
<1>8. ServicesSurvive' BY DEF ServicesSurvive, LockIsAWrite, Crash
<1>9. KeptIsAVersion' BY DEF KeptIsAVersion, Crash
<1> QED BY <1>3, <1>4, <1>5, <1>6, <1>7, <1>8, <1>9

LEMMA StartIInv == ASSUME IInv, Start PROVE IInv'
<1> USE DEF IInv
<1>1. file \in Configs /\ env' \in SUBSET EnvFields /\ cfg' = Loaded(file, env')
  BY DEF TypeOK, Start
<1>2. /\ cfg' \in Configs
      /\ \A f \in Defaulted : cfg'[f] # Empty
      /\ \A f \in env' : cfg'[f] = FromEnv
      /\ cfg'["subInstitutions"] = file["subInstitutions"]
  BY <1>1, LoadedFacts, FieldFacts
<1>3. /\ UNCHANGED << file, writer, place, form, version, kept, put, own, seen >>
      /\ ~up /\ up' = TRUE /\ starts' = starts + 1 /\ starts < MaxStarts
      /\ lost' = (lost \/ cut) /\ cut' = FALSE
  BY DEF Start
<1>4. TypeOK'
  <2>1. lost' \in BOOLEAN /\ cut' \in BOOLEAN BY <1>3, Zenon DEF TypeOK
  <2>2. starts' \in 0..MaxStarts BY <1>3, StartsAssumption DEF TypeOK
  <2> QED BY <1>1, <1>2, <1>3, <2>1, <2>2 DEF TypeOK
<1>5. PagesFilled' BY <1>3 DEF PagesFilled
<1>6. MemoryComplete' BY <1>2, <1>3 DEF MemoryComplete
<1>7. LockIsAWrite' BY <1>3 DEF LockIsAWrite, Unlocked
<1>8. RestartKeepsSettings'
  BY <1>1, <1>3, NoneAssumption DEF RestartKeepsSettings, Loaded, WithDefaults
<1>9. ServicesSurvive' BY <1>1, <1>2, <1>3, NoneAssumption DEF ServicesSurvive
<1>10. KeptIsAVersion' BY <1>3 DEF KeptIsAVersion
<1> QED BY <1>4, <1>5, <1>6, <1>7, <1>8, <1>9, <1>10

LEMMA NextIInv == IInv /\ [Next]_vars => IInv'
<1> SUFFICES ASSUME IInv, [Next]_vars PROVE IInv' OBVIOUS
<1>1. CASE \E e \in Editors : Open(e) \/ Save(e) \/ EditorStep(e)
  BY <1>1, OpenIInv, SaveIInv, UpdateEndpointIInv, WriteIInv, WriteFailsIInv,
     AnswerSaveIInv DEF EditorStep
<1>2. CASE Crash BY <1>2, CrashIInv
<1>3. CASE Start BY <1>3, StartIInv
<1>4. CASE UNCHANGED vars
  <2>1. TypeOK' /\ PagesFilled' BY <1>4 DEF IInv, TypeOK, PagesFilled, vars, history
  <2> QED BY <1>4, <2>1, SettingsKept DEF IInv, vars, history
<1> QED BY <1>1, <1>2, <1>3, <1>4 DEF Next

\* The inductive invariant of the settings.
THEOREM Invariance == Spec => []IInv
BY InitIInv, NextIInv, PTL DEF Spec

\* Every variable of the settings keeps its type, and the lock is held on
\* exactly by the PUT that is writing the file.
THEOREM TypeCorrectness == Spec => []TypeOK
<1>1. IInv => TypeOK BY DEF IInv
<1> QED BY <1>1, Invariance, PTL

\* While the file is whole, a start in the same environment would find every
\* setting as it is in memory, but for fields the page edits that the environment
\* sets or that were changed since the last whole write by saves which could not
\* open the file.  Of a file that a write left cut the theorem says nothing.
THEOREM WholeFilesAreCurrent == Spec => []RestartKeepsSettings
<1>1. IInv => RestartKeepsSettings BY DEF IInv
<1> QED BY <1>1, Invariance, PTL

\* Editing never loses the sub-institutions, neither in memory nor in a whole file;
\* only a start from a file that a write left cut can.
THEOREM ServicesAreKept == Spec => []ServicesSurvive
<1>1. IInv => ServicesSurvive BY DEF IInv
<1> QED BY <1>1, Invariance, PTL

-----------------------------------------------------------------------------
(* What the answer to a save shows *)

\* The page's own endpoint, completed by the defaults.
Alone(ep) == [f \in Fields |-> IF f \in Endpoint THEN ep[f] ELSE Empty]
Completed(ep) == GoEndpoint(WithDefaults(Alone(ep)))

\* Only a PUT that has been applied has a version; until the next change memory
\* shows its endpoint; its answer shows that version or a later one.
AnswerState ==
  \A e \in Editors :
    /\ place[e] \in {"idle", "editing", "saving"} \/ ~up => own[e] = 0
    /\ own[e] <= version /\ seen[e] <= version
    /\ own[e] > 0 /\ own[e] = version => GoEndpoint(cfg) = Completed(put[e])
    /\ place[e] = "done" /\ own[e] > 0 =>
         /\ seen[e] >= own[e]
         /\ seen[e] = own[e] => form[e] = Completed(put[e])

\* An applied endpoint is what memory shows, whatever was there.
LEMMA ReplacedShown ==
  ASSUME NEW c \in Configs, NEW ep \in Endpoints
  PROVE  GoEndpoint(Replaced(c, ep)) = Completed(ep)
<1>1. ASSUME NEW f \in Endpoint
      PROVE  Replaced(c, ep)[f] = WithDefaults(Alone(ep))[f]
  BY FieldFacts DEF Replaced, WithDefaults, Alone
<1> QED
  BY <1>1 DEF Completed, GoEndpoint

LEMMA InitAnswers == Init => AnswerState
<1> SUFFICES ASSUME Init PROVE AnswerState
  OBVIOUS
<1>1. version = 0 /\ \A e \in Editors : own[e] = 0 /\ seen[e] = 0
  BY DEF Init
<1>2. ASSUME NEW e \in Editors
      PROVE  own[e] <= version /\ seen[e] <= version /\ ~(own[e] > 0)
  <2>1. version = 0 /\ own[e] = 0 /\ seen[e] = 0
    BY <1>1
  <2> QED
    BY <2>1
<1> QED
  BY <1>1, <1>2 DEF AnswerState

LEMMA NextAnswers == IInv /\ AnswerState /\ [Next]_vars => AnswerState'
<1> SUFFICES ASSUME IInv, AnswerState, [Next]_vars PROVE AnswerState'
  OBVIOUS
<1>1. ASSUME NEW e \in Editors, Open(e) PROVE AnswerState'
  BY <1>1 DEF IInv, TypeOK, Open, Goto, history, AnswerState
<1>2. ASSUME NEW e \in Editors, Save(e) PROVE AnswerState'
  <2>1. /\ place[e] = "editing" /\ place'[e] \in {"saving", "done"} /\ own[e] = 0
        /\ \A d \in Editors \ {e} :
             place'[d] = place[d] /\ form'[d] = form[d] /\ put'[d] = put[d]
        /\ UNCHANGED << up, cfg, version, own, seen >>
    BY <1>2 DEF IInv, TypeOK, AnswerState, Save, Goto
  <2> QED
    BY <2>1 DEF AnswerState
<1>3. ASSUME NEW e \in Editors, UpdateEndpoint(e) PROVE AnswerState'
  <2>1. /\ up /\ place[e] = "saving" /\ place'[e] \in {"answering", "writing"}
        /\ version' = version + 1 /\ own'[e] = version + 1
        /\ \A d \in Editors \ {e} : place'[d] = place[d] /\ own'[d] = own[d]
        /\ UNCHANGED << up, form, put, seen >>
    BY <1>3 DEF IInv, TypeOK, UpdateEndpoint, Goto
  <2>2. GoEndpoint(cfg') = Completed(put[e])
    BY <1>3, ReplacedShown DEF IInv, TypeOK, PagesFilled, UpdateEndpoint
  <2>3. version \in Nat /\ \A d \in Editors : own[d] \in Nat /\ seen[d] \in Nat
    BY DEF IInv, TypeOK
  <2> QED
    BY <2>1, <2>2, <2>3 DEF AnswerState
<1>4. ASSUME NEW e \in Editors, Write(e) \/ WriteFails(e) PROVE AnswerState'
  <2>1. /\ up /\ place[e] = "writing" /\ place'[e] = "answering"
        /\ \A d \in Editors \ {e} : place'[d] = place[d]
        /\ UNCHANGED << up, cfg, form, version, put, own, seen >>
    BY <1>4 DEF IInv, TypeOK, Write, WriteFails, Goto, history
  <2> QED
    BY <2>1 DEF AnswerState
<1>5. ASSUME NEW e \in Editors, AnswerSave(e) PROVE AnswerState'
  <2>1. /\ up /\ place[e] = "answering" /\ place'[e] = "done"
        /\ seen'[e] = version /\ form'[e] = GoEndpoint(cfg)
        /\ \A d \in Editors \ {e} :
             place'[d] = place[d] /\ seen'[d] = seen[d] /\ form'[d] = form[d]
        /\ UNCHANGED << up, cfg, version, put, own >>
    BY <1>5 DEF IInv, TypeOK, AnswerSave, Goto
  <2>2. version \in Nat /\ \A d \in Editors : own[d] \in Nat /\ seen[d] \in Nat
    BY DEF IInv, TypeOK
  <2> QED
    BY <2>1, <2>2 DEF AnswerState
<1>6. CASE Crash
  BY <1>6 DEF Crash, AnswerState
<1>7. CASE Start
  BY <1>7 DEF Start, AnswerState
<1>8. CASE UNCHANGED vars
  BY <1>8 DEF vars, history, AnswerState
<1> QED
  BY <1>1, <1>2, <1>3, <1>4, <1>5, <1>6, <1>7, <1>8 DEF Next, EditorStep

\* The answer to a save, read after the unlock, shows the own change or a later
\* one (handleConfig, UpdateEndpoint).
THEOREM AnswersAreCurrent == Spec => []AnswerShowsOwnOrLater
<1>1. AnswerState => AnswerShowsOwnOrLater
  BY DEF AnswerState, AnswerShowsOwnOrLater, Completed, Alone
<1> QED
  BY <1>1, InitAnswers, NextAnswers, Invariance, PTL DEF Spec

=============================================================================
