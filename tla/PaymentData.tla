----------------------------- MODULE PaymentData ----------------------------
(***************************************************************************)
(* What the two programs make of a bill's data on its way: the GO presents *)
(* objects (buildPresentmentData), GovPay+ derives the amount and the      *)
(* items to echo (extractReturnData), the GO reads these (findRefNo,       *)
(* findParam) and lists them on the receipt (buildPaymentData).  Every     *)
(* value is padded, encrypted, decrypted and unpadded on each way.         *)
(*                                                                         *)
(* GovPay+ may face another GO than the one of this repository; of such a  *)
(* GO only the objects it presents are modelled.  Names are atoms: a name  *)
(* that differs from another in case only is one of its own.               *)
(***************************************************************************)
EXTENDS PKCS7, SequencesExt

CONSTANTS
  Texts,        \* the values that occur
  Number,       \* what a text that is a number means; others count as zero
  Bills,        \* refNos of the bills, of which
  AmountText,   \* formatAmount: bill -> text
  MaxObjects    \* bound on the objects another GO presents

NoText  == << >>
Success == << 83 >>          \* paymentStatusSuccess
Blank   == ""                \* a name that is absent
Names   == {"refNo", "REFNO", "amount", "Amount", "name"}
Lower   == [n \in Names \cup {Blank} |->
              CASE n = "REFNO" -> "refNo" [] n = "Amount" -> "amount" [] OTHER -> n]

ASSUME TextsAssumption ==
  /\ NoText \in Texts /\ Bills \subseteq Texts \ {NoText}
  /\ \A t \in Texts : t \in Seq(Bytes)
  /\ \A t \in DOMAIN Number : Number[t] \in Int
  /\ \A b \in Bills : /\ AmountText[b] \in Texts \cap DOMAIN Number
                      /\ Number[AmountText[b]] > 0
ASSUME MaxObjectsAssumption == MaxObjects \in Nat

Objects == [returned : BOOLEAN, returnedParam : Names \cup {Blank},
            initialValue : Texts, isPaymentAmount : BOOLEAN]

VARIABLES
  stage,     \* "start", "presented", "posted", "paid" or "refused"
  own,       \* whether the GO is the one of this repository
  refNo,     \* the refNo looked up
  objects,   \* the objects as the GO built them
  amount,    \* txnSession.Amount
  data,      \* txnSession.ReturnData
  items,     \* data[] of the update, as the GO decrypts it
  warned,    \* the GO logged that the amount differs from the bill
  receipt    \* the payment items of the answer

vars == << stage, own, refNo, objects, amount, data, items, warned, receipt >>

Items    == [seq : Nat, paramName : Names \cup {"status"}, value : Texts \cup {Success}]
Receipts == [seq : Nat, placeholder : Names \cup {"status", "Receipt Number", "Status"}]

TypeOK ==
  /\ stage \in {"start", "presented", "posted", "paid", "refused"}
  /\ own \in BOOLEAN /\ warned \in BOOLEAN
  /\ refNo \in Texts
  /\ objects \in Seq(Objects)
  /\ amount \in Int
  /\ data \in Seq(Items) /\ items \in Seq(Items)
  /\ receipt \in Seq(Receipts)

-----------------------------------------------------------------------------
(* The GO presents *)

Shown(param, value, isAmount) ==
  [returned |-> TRUE, returnedParam |-> param,
   initialValue |-> value, isPaymentAmount |-> isAmount]

\* One object stands for taxpayer, tax type and period: free text, all alike.
buildPresentmentData(bill, text) ==
  << Shown("refNo", bill, FALSE), Shown("name", text, FALSE),
     Shown("amount", AmountText[bill], TRUE) >>

-----------------------------------------------------------------------------
(* GovPay+ keeps what it has to echo *)

Decrypted(objs) ==
  [i \in DOMAIN objs |-> [objs[i] EXCEPT !.initialValue = Carried(@)]]

toFloat(text) == IF text \in DOMAIN Number THEN Number[text] ELSE 0

Echoed(o) == o.returned /\ o.returnedParam # Blank

\* What extractReturnData's loop has kept after each object (a recursive function:
\* the provers know nothing of SelectSeq).
Kept(objs) ==
  LET kept[i \in 0..Len(objs)] ==
        IF i = 0 THEN << >>
        ELSE IF Echoed(objs[i]) THEN Append(kept[i - 1], objs[i]) ELSE kept[i - 1]
  IN  kept

Returned(objs) == Kept(objs)[Len(objs)]

\* Slip: the flag is not required to be on a returned amount; any object counts.
MutIsAmount(o) == TRUE

IsAmount(o) == o.isPaymentAmount \/ Lower[o.returnedParam] = "amount"

\* extractReturnData overwrites the amount at each amount object it meets.
PayableAmount(objs) ==
  LET k == SelectLastInSeq(Returned(objs), IsAmount)
  IN  IF k = 0 THEN 0 ELSE toFloat(Returned(objs)[k].initialValue)

\* Slips: amounts are echoed as numbers; the refNo is not made sure of.
MutReturnDataAsNumber(objs, r) ==
  LET Canonical(t) == CHOOSE u \in Texts : toFloat(u) = toFloat(t)
      echoed == [i \in DOMAIN Returned(objs) |->
                   LET o == Returned(objs)[i]
                   IN  [seq |-> i, paramName |-> o.returnedParam,
                        value |-> IF IsAmount(o) THEN Canonical(o.initialValue)
                                                 ELSE o.initialValue]]
  IN  IF \E i \in DOMAIN echoed : Lower[echoed[i].paramName] = "refNo"
        THEN echoed
        ELSE << [seq |-> 0, paramName |-> "refNo", value |-> r] >> \o echoed

MutReturnDataUnnamed(objs, r) ==
  [i \in DOMAIN Returned(objs) |->
     LET o == Returned(objs)[i]
     IN  [seq |-> i, paramName |-> o.returnedParam, value |-> o.initialValue]]

ReturnData(objs, r) ==
  LET echoed == [i \in DOMAIN Returned(objs) |->
                   LET o == Returned(objs)[i]
                   IN  [seq |-> i, paramName |-> o.returnedParam, value |-> o.initialValue]]
  IN  IF \E i \in DOMAIN echoed : Lower[echoed[i].paramName] = "refNo"
        THEN echoed
        ELSE << [seq |-> 0, paramName |-> "refNo", value |-> r] >> \o echoed

\* Slip: the number of the item before it.
MutUpdateData(kept) ==
  Append(kept, [seq |-> Len(kept), paramName |-> "status", value |-> Success])

\* handlePay appends the outcome.
UpdateData(kept) ==
  Append(kept, [seq |-> Len(kept) + 1, paramName |-> "status", value |-> Success])

-----------------------------------------------------------------------------
(* The GO reads the update *)

\* findRefNo and findParam: the first item of the name decides.
Find(params, name) ==
  LET k == SelectInSeq(params, LAMBDA p : p.paramName = name)
  IN  IF k = 0 THEN NoText ELSE params[k].value

\* buildPaymentData: the items under their own numbers, then the receipt number
\* and the status under the numbers that follow the count of the items.
BuildPaymentData(params) ==
  LET n == Len(params)
  IN  [i \in 1..n |-> [seq |-> params[i].seq, placeholder |-> params[i].paramName]]
        \o << [seq |-> n + 1, placeholder |-> "Receipt Number"],
              [seq |-> n + 2, placeholder |-> "Status"] >>

-----------------------------------------------------------------------------
Init ==
  /\ stage = "start" /\ own \in BOOLEAN /\ refNo = NoText
  /\ objects = << >> /\ amount = 0 /\ data = << >>
  /\ items = << >> /\ warned = FALSE /\ receipt = << >>

\* handlePresentment: GovPay+ gets the objects and opens the transaction.
Presented(r, objs) ==
  /\ stage = "start" /\ stage' = "presented"
  /\ refNo' = r /\ objects' = objs
  /\ amount' = PayableAmount(Decrypted(objs))
  /\ data' = ReturnData(Decrypted(objs), r)
  /\ UNCHANGED << own, items, warned, receipt >>

Present == own /\ \E b \in Bills, t \in Texts : Presented(b, buildPresentmentData(b, t))

PresentElsewhere ==
  ~own /\ \E r \in Bills, objs \in BoundedSeq(Objects, MaxObjects) : Presented(r, objs)

\* handlePay: without an amount nothing is sent; EncryptParams and DecryptParams.
Pay ==
  /\ stage = "presented"
  /\ IF amount > 0
       THEN /\ stage' = "posted"
            /\ LET sent == UpdateData(data)
               IN  items' = [i \in DOMAIN sent |-> [sent[i] EXCEPT !.value = Carried(@)]]
       ELSE stage' = "refused" /\ UNCHANGED items
  /\ UNCHANGED << own, refNo, objects, amount, data, warned, receipt >>

\* updateHandler on a bill nobody has paid: a differing amount is only logged.
Update ==
  LET r    == Find(items, "refNo")
      paid == Find(items, "amount")
  IN  /\ own /\ stage = "posted"
      /\ IF r \in Bills
           THEN /\ stage' = "paid"
                /\ warned' = (paid # NoText /\ paid # AmountText[r])
                /\ receipt' = BuildPaymentData(items)
           ELSE stage' = "refused" /\ UNCHANGED << warned, receipt >>
      /\ UNCHANGED << own, refNo, objects, amount, data, items >>

Next == Present \/ PresentElsewhere \/ Pay \/ Update

Spec == Init /\ [][Next]_vars

-----------------------------------------------------------------------------
(* What the GO returned comes back to it *)

\* "The webhook compares the amount as a string": each returned object is echoed
\* in its order under its name, with the very text the GO presented, after both
\* encryptions (extractReturnData, EncryptParams, pkcs7Pad).
EchoIsExact ==
  items # << >> =>
    LET given == Returned(objects)
        off   == Len(items) - 1 - Len(given)
    IN  /\ off \in {0, 1}
        /\ \A i \in DOMAIN given :
             /\ items[off + i].paramName = given[i].returnedParam
             /\ items[off + i].value = given[i].initialValue

IsFirst(S, i) == i \in S /\ \A j \in S : i <= j
IsLast(S, i)  == i \in S /\ \A j \in S : j <= i

\* Which bill a GO reads that searches the update for "refNo".  "Guarantee the GO
\* can resolve the bill": the bill looked up with this GO, and with any GO that
\* returned no spelling of the name.  Another GO's own value otherwise, of the
\* first object under the exact name; and nothing at all if it returned other
\* spellings only, which hasParam takes for the name and findRefNo does not.
BillIsNamed ==
  items # << >> =>
    LET given   == Returned(objects)
        spelled == { i \in DOMAIN given : Lower[given[i].returnedParam] = "refNo" }
        exact   == { i \in DOMAIN given : given[i].returnedParam = "refNo" }
        named   == Find(items, "refNo")
    IN  /\ own \/ spelled = {} => named = refNo
        /\ spelled # {} /\ exact = {} => named = NoText
        /\ \A i \in exact : IsFirst(exact, i) => named = given[i].initialValue

\* The objects a reader would call amounts, by flag or by name.
AmountObjects(given) ==
  { i \in DOMAIN given : \/ given[i].isPaymentAmount
                         \/ given[i].returnedParam \in {"amount", "Amount"} }

\* The payer confirms the amount the GO will read: always with this GO, whose
\* amount warning is never raised.  With another GO exactly if the last amount
\* object, which the payer is shown, means the same number as the first under the
\* exact name, which the GO reads (extractReturnData, findParam).
AmountIsTheOneEchoed ==
  items # << >> =>
    /\ own => ~warned
    /\ LET given   == Returned(objects)
           amounts == AmountObjects(given)
           exact   == { i \in DOMAIN given : given[i].returnedParam = "amount" }
           Meant(i) == toFloat(given[i].initialValue)
       IN  \A i \in exact, j \in amounts : IsFirst(exact, i) /\ IsLast(amounts, j) =>
             (amount = toFloat(Find(items, "amount")) <=> Meant(i) = Meant(j))

\* Item numbers grow along the update and along the receipt, with or without the
\* refNo put in front, so the UI, which sorts the receipt by number, shows it in
\* this order with receipt number and status last.
NumbersGrow ==
  /\ \A i, j \in DOMAIN items : i < j => items[i].seq < items[j].seq
  /\ \A i, j \in DOMAIN receipt : i < j => receipt[i].seq < receipt[j].seq

=============================================================================
