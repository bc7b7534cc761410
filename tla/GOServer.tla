------------------------------ MODULE GOServer ------------------------------
(***************************************************************************)
(* The GO API of src/client: handler goroutines of /presentment and        *)
(* /update over the shared in-memory BillStore.  A goroutine may be        *)
(* preempted between any two calls to the store, which locks per call, and *)
(* the pod may restart at any moment: the store is rebuilt with no payment *)
(* in it and the handlers in flight die without an answer.                 *)
(***************************************************************************)
EXTENDS GORequests

CONSTANTS
  Calls,        \* HTTP requests, one handler goroutine each
  NoRequest,    \* what a call that has not arrived carries
  MaxRestarts   \* bound on the restarts explored

ASSUME NoRequestAssumption == NoRequest \notin Requests
ASSUME RestartsAssumption  == MaxRestarts \in Nat

VARIABLES
  paid,       \* BillStore.paid: the bills whose flag is set
  pc,         \* call -> where its handler is
  req,        \* call -> its request
  status,     \* call -> the status its handler settled on
  epoch,      \* incarnation of the process
  born,       \* history: call -> the incarnation that received it
  marked,     \* history: the calls for which MarkPaid returned true
  settled     \* history: call -> bills whose payment had been confirmed to
              \*          its payer when the call arrived

store   == << paid, marked >>
handler == << pc, status >>
arrival == << req, born, settled >>
vars    == << paid, pc, req, status, epoch, born, marked, settled >>

Places == {"idle", "decrypt", "lookup", "isPaid", "markPaid", "reply", "done",
           "killed"}

\* A handler is running: its request has arrived and is not answered yet.
Running(c) == pc[c] \in {"decrypt", "lookup", "isPaid", "markPaid", "reply"}

TypeOK ==
  /\ paid \in SUBSET Bills
  /\ pc \in [Calls -> Places]
  /\ req \in [Calls -> Requests \cup {NoRequest}]
  /\ status \in [Calls -> Statuses]
  /\ epoch \in 0..MaxRestarts
  /\ born \in [Calls -> 0..MaxRestarts]
  /\ marked \in SUBSET Calls
  /\ settled \in [Calls -> SUBSET RefNos]

Init ==
  /\ paid = {}
  /\ pc = [c \in Calls |-> "idle"]
  /\ req = [c \in Calls |-> NoRequest]
  /\ status = [c \in Calls |-> NotYet]
  /\ epoch = 0
  /\ born = [c \in Calls |-> 0]
  /\ marked = {}
  /\ settled = [c \in Calls |-> {}]

-----------------------------------------------------------------------------
\* The bills whose update has been answered 200 by this incarnation.
ConfirmedBills ==
  { req[d].ref : d \in { e \in marked : pc[e] = "done" /\ born[e] = epoch } }

\* net/http starts a handler goroutine for the call.
Receive(c, r) ==
  /\ pc[c] = "idle"
  /\ pc' = [pc EXCEPT ![c] = "decrypt"]
  /\ req' = [req EXCEPT ![c] = r]
  /\ born' = [born EXCEPT ![c] = epoch]
  /\ settled' = [settled EXCEPT ![c] = ConfirmedBills]
  /\ UNCHANGED << status, epoch, store >>

\* fail(): the handler writes the status and returns.
Fail(c, s) ==
  /\ pc' = [pc EXCEPT ![c] = "done"]
  /\ status' = [status EXCEPT ![c] = s]

Continue(c, place) ==
  /\ pc' = [pc EXCEPT ![c] = place]
  /\ UNCHANGED status

\* The handler goes on to answer 200; what is left touches no shared state.
Succeed(c) ==
  /\ pc' = [pc EXCEPT ![c] = "reply"]
  /\ status' = [status EXCEPT ![c] = OK]

\* k is the first check the request fails.
FirstFailed(fails, k) ==
  \E i \in 1..8 : /\ k = CheckOrder[i]
                  /\ k \in fails
                  /\ \A j \in 1..(i - 1) : CheckOrder[j] \notin fails

\* Slip: no return after decryptRequest has failed.
MutDecryptRequestGoesOn(c) ==
  /\ pc[c] = "decrypt"
  /\ Continue(c, "lookup")
  /\ UNCHANGED << arrival, epoch, store >>

DecryptRequest(c) ==
  /\ pc[c] = "decrypt"
  /\ \/ \E k \in Checks : FirstFailed(req[c].fails, k) /\ Fail(c, StatusOf[k])
     \/ req[c].fails = {} /\ Continue(c, "lookup")
  /\ UNCHANGED << arrival, epoch, store >>

\* Slip: an unknown refNo goes on.
MutLookupUnchecked(c) ==
  /\ pc[c] = "lookup"
  /\ Continue(c, IF req[c].op = "presentment" THEN "isPaid" ELSE "markPaid")
  /\ UNCHANGED << arrival, epoch, store >>

\* BillStore.Lookup, under its read lock; the bills never change.
Lookup(c) ==
  /\ pc[c] = "lookup"
  /\ IF req[c].ref \in Bills
       THEN Continue(c, IF req[c].op = "presentment" THEN "isPaid" ELSE "markPaid")
       ELSE Fail(c, NotFound)
  /\ UNCHANGED << arrival, epoch, store >>

\* Slip: the presentment handler does not ask whether the bill is paid.
MutIsPaidIgnored(c) ==
  /\ pc[c] = "isPaid"
  /\ Succeed(c)
  /\ UNCHANGED << arrival, epoch, store >>

\* BillStore.IsPaid, a second read lock of the presentment handler.
IsPaid(c) ==
  /\ pc[c] = "isPaid"
  /\ IF req[c].ref \in paid THEN Fail(c, Conflict) ELSE Succeed(c)
  /\ UNCHANGED << arrival, epoch, store >>

\* Slips: no test of the flag; the flag is not set; it is set under another key;
\* the early return leaves the store locked.
MutMarkPaidUntested(c) ==
  /\ pc[c] = "markPaid"
  /\ IF req[c].ref \in Bills
       THEN /\ paid' = paid \cup {req[c].ref}
            /\ marked' = marked \cup {c}
            /\ Succeed(c)
       ELSE Fail(c, Conflict) /\ UNCHANGED store
  /\ UNCHANGED << arrival, epoch >>

MutMarkPaidForgets(c) ==
  /\ pc[c] = "markPaid"
  /\ IF req[c].ref \in Bills /\ req[c].ref \notin paid
       THEN /\ marked' = marked \cup {c}
            /\ Succeed(c)
            /\ UNCHANGED paid
       ELSE Fail(c, Conflict) /\ UNCHANGED store
  /\ UNCHANGED << arrival, epoch >>

MutMarkPaidByCall(c) ==
  /\ pc[c] = "markPaid"
  /\ IF req[c].ref \in Bills /\ c \notin paid
       THEN /\ paid' = paid \cup {c}
            /\ marked' = marked \cup {c}
            /\ Succeed(c)
       ELSE Fail(c, Conflict) /\ UNCHANGED store
  /\ UNCHANGED << arrival, epoch >>

MutMarkPaidHangs(c) ==
  /\ pc[c] = "markPaid"
  /\ req[c].ref \notin paid
  /\ paid' = paid \cup {req[c].ref}
  /\ marked' = marked \cup {c}
  /\ Succeed(c)
  /\ UNCHANGED << arrival, epoch >>

\* BillStore.MarkPaid: test and set under one write lock.
MarkPaid(c) ==
  /\ pc[c] = "markPaid"
  /\ IF req[c].ref \in Bills /\ req[c].ref \notin paid
       THEN /\ paid' = paid \cup {req[c].ref}
            /\ marked' = marked \cup {c}
            /\ Succeed(c)
       ELSE Fail(c, Conflict) /\ UNCHANGED store
  /\ UNCHANGED << arrival, epoch >>

\* Build and encrypt the response, then writeJSON(200).
Reply(c) ==
  /\ pc[c] = "reply"
  /\ Continue(c, "done")
  /\ UNCHANGED << arrival, epoch, store >>

\* The pod restarts: NewBillStore, and no handler of the old process is left.
Restart ==
  /\ epoch < MaxRestarts
  /\ epoch' = epoch + 1
  /\ paid' = {}
  /\ pc' = [c \in Calls |-> IF Running(c) THEN "killed" ELSE pc[c]]
  /\ UNCHANGED << status, marked, arrival >>

Step(c) == DecryptRequest(c) \/ Lookup(c) \/ IsPaid(c) \/ MarkPaid(c) \/ Reply(c)

Next ==
  \/ \E c \in Calls, r \in Requests : Receive(c, r)
  \/ \E c \in Calls : Step(c)
  \/ Restart

Spec == Init /\ [][Next]_vars

\* The Go scheduler runs every runnable goroutine, and no step of a handler
\* waits for another: the store's critical sections contain no blocking call.
Fairness == \A c \in Calls : WF_vars(Step(c))

FairSpec == Spec /\ Fairness

-----------------------------------------------------------------------------
(* Safety *)

\* A bill is confirmed as paid to at most one payer per incarnation of the
\* process: no two updates of one refNo both get MarkPaid's "true", even when
\* their handlers run side by side (billstore.go, MarkPaid).
AtMostOnePayment ==
  \A c, d \in marked :
    (req[c].ref = req[d].ref /\ born[c] = born[d]) => c = d

\* The paid flags are exactly the bills this incarnation marked for an update,
\* and whoever marked one is about to be told, or was told, 200.
PaidIffMarked ==
  /\ paid = { req[c].ref : c \in { d \in marked : born[d] = epoch } }
  /\ \A c \in marked : req[c].op = "update" /\ status[c] = OK

\* A 409 is never wrong: another update of the same incarnation did pay that
\* very bill, whether or not its payer ever learns of it.
ConflictHasCause ==
  \A c \in Calls : status[c] = Conflict =>
    \E d \in marked \ {c} : req[d].ref = req[c].ref /\ born[d] = born[c]

\* Once a payer has been told a bill is paid, no later request of that
\* incarnation is told the bill is payable or paid anew: a call that arrives
\* after the confirmation never gets a 200 for that bill.
NoApprovalAfterConfirmation ==
  \A c \in Calls : status[c] = OK => req[c].ref \notin settled[c]

\* The store answers only requests that pass every check: one that fails any
\* check learns nothing about a bill (no 200, 404 or 409) and marks none.
OnlyCheckedReachStore ==
  \A c \in Calls :
    (c \in marked \/ status[c] \in {OK, NotFound, Conflict}) => req[c].fails = {}

\* What the handlers of the present incarnation rely on, place by place.
HandlerState ==
  \A c \in Calls :
    /\ pc[c] = "idle" <=> req[c] = NoRequest
    /\ born[c] <= epoch
    /\ Running(c) => born[c] = epoch /\ settled[c] \subseteq paid
    /\ pc[c] \in {"idle", "decrypt", "lookup", "isPaid", "markPaid"}
         => status[c] = NotYet
    /\ pc[c] = "reply" => status[c] = OK
    /\ pc[c] = "done" => status[c] # NotYet
    /\ pc[c] \in {"lookup", "isPaid", "markPaid"} => req[c].fails = {}
    /\ pc[c] = "isPaid" => req[c].op = "presentment" /\ req[c].ref \in Bills
    /\ pc[c] = "markPaid" => req[c].op = "update" /\ req[c].ref \in Bills

\* The inductive invariant: every safety property with the state it rests on.
IInv ==
  /\ TypeOK
  /\ HandlerState
  /\ AtMostOnePayment
  /\ PaidIffMarked
  /\ ConflictHasCause
  /\ NoApprovalAfterConfirmation
  /\ OnlyCheckedReachStore

-----------------------------------------------------------------------------
(* Liveness *)

\* Every call that arrives is answered, unless a restart kills its handler.
EveryCallEnds ==
  \A c \in Calls : (pc[c] = "decrypt") ~> (pc[c] \in {"done", "killed"})

-----------------------------------------------------------------------------
(* Refinement: a handler is judged at its last access to the BillStore. *)

Atomic == INSTANCE AtomicGO WITH
  asked   <- req,
  verdict <- status,
  lost    <- { c \in Calls : pc[c] = "killed" /\ status[c] = NotYet },
  paid    <- paid

\* The interleaved handlers implement the service that judges every request in
\* one step.
ImplementsAtomicGO == Atomic!Spec

=============================================================================
