----------------------------- MODULE GORequests -----------------------------
(***************************************************************************)
(* The requests of the GO API (src/client) as its two handlers see them.   *)
(* A request is abstracted to what the handlers tell apart: the operation, *)
(* the reference number its decrypted data carries, and the set of         *)
(* request-local checks it fails.                                          *)
(***************************************************************************)
EXTENDS Naturals

CONSTANTS
  RefNos,   \* reference numbers a request may carry
  Bills,    \* those the BillStore knows
  Faults    \* the sets of checks a request of this environment may fail

Ops == {"presentment", "update"}

\* The checks of decryptRequest in the order the code makes them, then the
\* handler's own check of the decrypted data (validateRefNoOnly, findRefNo).
CheckOrder == << "method", "contentType", "bearer", "missingKey",
                 "transactionKey", "body", "params", "refNo" >>

Checks == { CheckOrder[i] : i \in 1..8 }

\* The status fail() writes for a failed check.
StatusOf == [ method         |-> 405,
              contentType    |-> 400,
              bearer         |-> 401,
              missingKey     |-> 400,
              transactionKey |-> 401,
              body           |-> 400,
              params         |-> 401,
              refNo          |-> 400 ]

Rejections == {400, 401, 405}

NotYet   == 0      \* no status written so far
OK       == 200
NotFound == 404
Conflict == 409

Statuses == Rejections \cup {NotYet, OK, NotFound, Conflict}

Requests == [op : Ops, ref : RefNos, fails : Faults]

ASSUME BillsAssumption  == Bills \subseteq RefNos
ASSUME FaultsAssumption == Faults \subseteq SUBSET Checks

=============================================================================
