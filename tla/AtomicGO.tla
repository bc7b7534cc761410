------------------------------ MODULE AtomicGO ------------------------------
(***************************************************************************)
(* What the GO API promises its callers, whatever the interleaving of its  *)
(* handler goroutines: every request is judged in one indivisible step     *)
(* against the set of paid bills, and an update judged "200" pays its bill *)
(* in that same step.  A restart forgets every payment and every request   *)
(* not judged yet.                                                         *)
(***************************************************************************)
EXTENDS GORequests

CONSTANTS
  Calls,      \* HTTP requests, one handler goroutine each
  NoRequest   \* what a call that has not arrived carries

VARIABLES
  asked,      \* call -> its request, or NoRequest
  verdict,    \* call -> the status decided for it, or NotYet
  lost,       \* calls a restart cut off before they were judged
  paid        \* bills paid since the last restart

vars == << asked, verdict, lost, paid >>

TypeOK ==
  /\ asked \in [Calls -> Requests \cup {NoRequest}]
  /\ verdict \in [Calls -> Statuses]
  /\ lost \in SUBSET Calls
  /\ paid \in SUBSET Bills

Init ==
  /\ asked = [c \in Calls |-> NoRequest]
  /\ verdict = [c \in Calls |-> NotYet]
  /\ lost = {}
  /\ paid = {}

Ask(c, r) ==
  /\ asked[c] = NoRequest
  /\ asked' = [asked EXCEPT ![c] = r]
  /\ UNCHANGED << verdict, lost, paid >>

Pending(c) == asked[c] # NoRequest /\ verdict[c] = NotYet /\ c \notin lost

Judge(c, s) ==
  /\ Pending(c)
  /\ verdict' = [verdict EXCEPT ![c] = s]
  /\ UNCHANGED << asked, lost >>

\* Some check of the request fails: the answer names one of the failed checks.
Reject(c) ==
  \E k \in asked[c].fails : Judge(c, StatusOf[k]) /\ UNCHANGED paid

RefuseUnknown(c) ==
  /\ Judge(c, NotFound)
  /\ asked[c].fails = {}
  /\ asked[c].ref \notin Bills
  /\ UNCHANGED paid

RefusePaid(c) ==
  /\ Judge(c, Conflict)
  /\ asked[c].fails = {}
  /\ asked[c].ref \in paid
  /\ UNCHANGED paid

\* Slip: a presentment sets the paid flag.
MutPresentPays(c) ==
  /\ Judge(c, OK)
  /\ asked[c].op = "presentment"
  /\ asked[c].fails = {}
  /\ asked[c].ref \in Bills \ paid
  /\ paid' = paid \cup {asked[c].ref}

Present(c) ==
  /\ Judge(c, OK)
  /\ asked[c].op = "presentment"
  /\ asked[c].fails = {}
  /\ asked[c].ref \in Bills \ paid
  /\ UNCHANGED paid

Pay(c) ==
  /\ Judge(c, OK)
  /\ asked[c].op = "update"
  /\ asked[c].fails = {}
  /\ asked[c].ref \in Bills \ paid
  /\ paid' = paid \cup {asked[c].ref}

Decide(c) ==
  \/ Pending(c) /\ Reject(c)
  \/ Pending(c) /\ RefuseUnknown(c)
  \/ Pending(c) /\ RefusePaid(c)
  \/ Pending(c) /\ Present(c)
  \/ Pending(c) /\ Pay(c)

\* The pod restarts: the in-memory BillStore starts empty.
Reset ==
  /\ paid' = {}
  /\ lost' = lost \cup { c \in Calls : Pending(c) }
  /\ UNCHANGED << asked, verdict >>

Next ==
  \/ \E c \in Calls, r \in Requests : Ask(c, r)
  \/ \E c \in Calls : Decide(c)
  \/ Reset

Spec == Init /\ [][Next]_vars

=============================================================================
