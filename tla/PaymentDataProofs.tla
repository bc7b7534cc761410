-------------------------- MODULE PaymentDataProofs --------------------------
(***************************************************************************)
(* Proofs about a bill's data on its way.  They rest on RoundTrip, by      *)
(* which the encryptions change no value, and on what the loop of          *)
(* extractReturnData keeps, which is shown by least counterexample.        *)
(***************************************************************************)
EXTENDS PaymentData, PKCS7Proofs, WellFoundedInduction

-----------------------------------------------------------------------------
(* What the loop keeps *)

\* Induction without an operator: of the numbers that fail there is a least one.
LEMMA LeastElement ==
  ASSUME NEW T \in SUBSET Nat, T # {}
  PROVE  \E n \in T : \A m \in T : n <= m
<1>1. PICK n \in T : \A m \in T : ~(<< m, n >> \in OpToRel(<, Nat))
  BY NatLessThanWellFounded, WFMin
<1>2. \A m \in T : ~(m < n)
  BY <1>1 DEF OpToRel
<1> QED
  BY <1>2

NextKept(objs, i, before) ==
  IF Echoed(objs[i]) THEN Append(before, objs[i]) ELSE before

Keeps(objs, f, n) ==
  f = [i \in 0..n |-> IF i = 0 THEN << >> ELSE NextKept(objs, i, f[i - 1])]

\* The loop has a result for every number of objects.
LEMMA KeptExists ==
  ASSUME NEW objs, NEW len \in Nat
  PROVE  \E f : Keeps(objs, f, len)
<1> DEFINE T == { n \in Nat : ~ \E f : Keeps(objs, f, n) }
<1>1. SUFFICES ASSUME T # {} PROVE FALSE
  OBVIOUS
<1>2. PICK n \in T : \A m \in T : n <= m
  BY <1>1, LeastElement
<1>3. n # 0
  <2> DEFINE f == [i \in 0..0 |-> << >>]
  <2>1. Keeps(objs, f, 0)
    BY DEF Keeps
  <2> QED
    BY <2>1
<1>4. PICK f : Keeps(objs, f, n - 1)
  BY <1>2, <1>3
<1> DEFINE g == [i \in 0..n |-> IF i = n THEN NextKept(objs, n, f[n - 1]) ELSE f[i]]
<1>5. Keeps(objs, g, n)
  <2>1. ASSUME NEW i \in 0..n
        PROVE g[i] = IF i = 0 THEN << >> ELSE NextKept(objs, i, g[i - 1])
    BY <1>3, <1>4 DEF Keeps
  <2>2. g = [i \in 0..n |-> g[i]]
    OBVIOUS
  <2> HIDE DEF g
  <2> QED
    BY <2>1, <2>2 DEF Keeps
<1> QED
  BY <1>5

\* Kept satisfies its recursive definition.
LEMMA KeptFacts ==
  ASSUME NEW objs, Len(objs) \in Nat
  PROVE  /\ Kept(objs)[0] = << >>
         /\ \A i \in 1..Len(objs) :
              Kept(objs)[i] = NextKept(objs, i, Kept(objs)[i - 1])
<1>1. \E f : Keeps(objs, f, Len(objs))
  BY KeptExists
<1>2. Kept(objs) = CHOOSE f : Keeps(objs, f, Len(objs))
  BY DEF Kept, Keeps, NextKept
<1>3. Keeps(objs, Kept(objs), Len(objs))
  BY <1>1, <1>2, Zenon
<1> DEFINE k == Kept(objs)
<1> HIDE DEF k
<1>4. k = [i \in 0..Len(objs) |-> IF i = 0 THEN << >> ELSE NextKept(objs, i, k[i - 1])]
  BY <1>3 DEF Keeps, k
<1> QED
  BY <1>4 DEF k

\* What is returned is a sequence of objects, each of which is to be echoed.
LEMMA ReturnedFacts ==
  ASSUME NEW objs \in Seq(Objects)
  PROVE  /\ Returned(objs) \in Seq(Objects)
         /\ \A i \in DOMAIN Returned(objs) : Returned(objs)[i].returnedParam \in Names
<1> DEFINE Wanted(s) == /\ s \in Seq(Objects)
                        /\ \A i \in 1..Len(s) : Echoed(s[i])
           T == { n \in 0..Len(objs) : ~Wanted(Kept(objs)[n]) }
<1>0. Len(objs) \in Nat /\ \A i \in 1..Len(objs) : objs[i] \in Objects
  BY LenProperties, ElementOfSeq
<1>1. T = {}
  <2>1. SUFFICES ASSUME T # {} PROVE FALSE
    OBVIOUS
  <2>2. PICK n \in T : \A m \in T : n <= m
    <3>1. T \subseteq Nat
      BY <1>0
    <3> HIDE DEF T
    <3> QED
      BY <2>1, <3>1, LeastElement
  <2>3. n # 0
    <3>1. Kept(objs)[0] = << >>
      BY <1>0, KeptFacts
    <3>2. Wanted(<< >>)
      OBVIOUS
    <3> QED
      BY <2>2, <3>1, <3>2
  <2>4. Wanted(Kept(objs)[n - 1]) /\ n \in 1..Len(objs)
    BY <1>0, <2>2, <2>3
  <2>5. Kept(objs)[n] = NextKept(objs, n, Kept(objs)[n - 1])
    BY <1>0, <2>4, KeptFacts
  <2> DEFINE before == Kept(objs)[n - 1]
  <2>6. before \in Seq(Objects) /\ Len(before) \in Nat /\ objs[n] \in Objects
    BY <1>0, <2>4, LenProperties
  <2>7. CASE Echoed(objs[n])
    <3> HIDE DEF before
    <3>1. /\ Append(before, objs[n]) \in Seq(Objects)
          /\ Len(Append(before, objs[n])) = Len(before) + 1
          /\ \A i \in 1..Len(before) + 1 :
               Append(before, objs[n])[i] = IF i <= Len(before) THEN before[i] ELSE objs[n]
      BY <2>6, AppendProperties
    <3>2. Wanted(Append(before, objs[n]))
      BY <2>4, <2>6, <2>7, <3>1 DEF before
    <3> QED
      BY <2>2, <2>5, <2>7, <3>2 DEF NextKept, before
  <2>8. CASE ~Echoed(objs[n])
    BY <2>2, <2>4, <2>5, <2>8 DEF NextKept
  <2> QED
    BY <2>7, <2>8
<1>2. Wanted(Returned(objs))
  BY <1>0, <1>1 DEF Returned
<1>3. \A i \in 1..Len(Returned(objs)) : Returned(objs)[i] \in Objects
  BY <1>2, ElementOfSeq
<1>4. DOMAIN Returned(objs) = 1..Len(Returned(objs))
  BY <1>2, LenProperties
<1> QED
  BY <1>2, <1>3, <1>4 DEF Echoed, Objects

\* The objects of this repository's GO are well formed and all of them returned.
LEMMA OwnObjectsReturned ==
  ASSUME NEW b \in Bills, NEW t \in Texts
  PROVE  LET objs == buildPresentmentData(b, t)
         IN  /\ objs \in Seq(Objects) /\ Len(objs) = 3
             /\ Len(Returned(objs)) = 3
             /\ \A i \in 1..3 : Returned(objs)[i] = objs[i]
<1> DEFINE objs == buildPresentmentData(b, t)
<1>1. /\ objs = << objs[1], objs[2], objs[3] >> /\ Len(objs) = 3
      /\ objs[1] = Shown("refNo", b, FALSE)
      /\ objs[2] = Shown("name", t, FALSE)
      /\ objs[3] = Shown("amount", AmountText[b], TRUE)
  BY DEF buildPresentmentData
<1>0. b \in Texts /\ t \in Texts /\ AmountText[b] \in Texts
  BY TextsAssumption
<1>2. \A i \in 1..3 : objs[i] \in Objects /\ Echoed(objs[i])
  <2>1. ASSUME NEW n \in Names, NEW v \in Texts, NEW f \in BOOLEAN
        PROVE  Shown(n, v, f) \in Objects /\ Echoed(Shown(n, v, f))
    BY DEF Shown, Objects, Echoed, Names, Blank
  <2>2. "refNo" \in Names /\ "name" \in Names /\ "amount" \in Names
    BY DEF Names
  <2> HIDE DEF objs
  <2>3. objs[1] \in Objects /\ Echoed(objs[1])
    BY <1>0, <1>1, <2>1, <2>2
  <2>4. objs[2] \in Objects /\ Echoed(objs[2])
    BY <1>0, <1>1, <2>1, <2>2
  <2>5. objs[3] \in Objects /\ Echoed(objs[3])
    BY <1>0, <1>1, <2>1, <2>2
  <2> QED
    BY <2>3, <2>4, <2>5
<1> HIDE DEF objs
<1>3. objs \in Seq(Objects)
  <2>1. ASSUME NEW x \in Objects, NEW y \in Objects, NEW z \in Objects
        PROVE  << x, y, z >> \in Seq(Objects)
    OBVIOUS
  <2>2. objs[1] \in Objects /\ objs[2] \in Objects /\ objs[3] \in Objects
    BY <1>2
  <2>3. << objs[1], objs[2], objs[3] >> \in Seq(Objects)
    BY <2>1, <2>2
  <2> QED
    BY <1>1, <2>3, Zenon
<1> DEFINE k == Kept(objs)
<1>4. /\ k[0] = << >>
      /\ k[1] = Append(k[0], objs[1])
      /\ k[2] = Append(k[1], objs[2])
      /\ k[3] = Append(k[2], objs[3])
  <2>1. /\ k[0] = << >>
        /\ \A i \in 1..3 : k[i] = NextKept(objs, i, k[i - 1])
    BY <1>1, KeptFacts
  <2> HIDE DEF k
  <2>2. \A i \in 1..3 : k[i] = Append(k[i - 1], objs[i])
    BY <1>2, <2>1 DEF NextKept
  <2> QED
    BY <2>1, <2>2
<1> HIDE DEF k
<1>5. k[1] \in Seq(Objects) /\ Len(k[1]) = 1 /\ k[1][1] = objs[1]
  BY <1>2, <1>4
<1>6. k[2] \in Seq(Objects) /\ Len(k[2]) = 2 /\ k[2][1] = objs[1] /\ k[2][2] = objs[2]
  BY <1>2, <1>4, <1>5
<1>7. k[3] \in Seq(Objects) /\ Len(k[3]) = 3 /\ k[3][1] = objs[1] /\ k[3][2] = objs[2]
      /\ k[3][3] = objs[3]
  BY <1>2, <1>4, <1>6
<1>8. Returned(objs) = k[3]
  BY <1>1 DEF Returned, k
<1>9. \A i \in 1..3 : Returned(objs)[i] = objs[i]
  BY <1>7, <1>8
<1>10. Len(Returned(objs)) = 3
  BY <1>7, <1>8
<1> QED
  BY <1>1, <1>3, <1>9, <1>10 DEF objs

-----------------------------------------------------------------------------
(* Reading by name *)

\* The least number of a set of numbers.
LEMMA MinFacts ==
  ASSUME NEW S \in SUBSET Nat, S # {}
  PROVE  Min(S) \in S /\ \A m \in S : Min(S) <= m
<1>1. \E n \in S : \A m \in S : n <= m
  BY LeastElement
<1> QED
  BY <1>1 DEF Min

\* The greatest number of a finite interval's subset.
LEMMA MaxFacts ==
  ASSUME NEW n \in Nat, NEW S \in SUBSET (1..n), S # {}
  PROVE  Max(S) \in S /\ \A m \in S : m <= Max(S)
<1> DEFINE U == { u \in Nat : \A m \in S : m <= u }
<1>1. PICK u \in U : \A v \in U : u <= v
  <2>1. n \in U
    OBVIOUS
  <2>2. U \in SUBSET Nat /\ U # {}
    BY <2>1
  <2> HIDE DEF U
  <2> QED
    BY <2>2, LeastElement
<1>2. u \in S
  <2>1. SUFFICES ASSUME u \notin S PROVE FALSE
    OBVIOUS
  <2>2. u # 0
    <3>1. PICK m \in S : m \in 1..n
      OBVIOUS
    <3> QED
      BY <1>1, <3>1
  <2>3. u - 1 \in U
    BY <1>1, <2>1, <2>2
  <2> QED
    BY <1>1, <2>3
<1>3. \E x \in S : \A m \in S : m <= x
  BY <1>1, <1>2
<1> QED
  BY <1>3 DEF Max

\* Find returns the value of the first item of the name, or nothing.
LEMMA FindFacts ==
  ASSUME NEW params, NEW name, Len(params) \in Nat
  PROVE  /\ \A k \in 1..Len(params) :
              /\ params[k].paramName = name
              /\ \A j \in 1..(k - 1) : params[j].paramName # name
              => Find(params, name) = params[k].value
         /\ (\A k \in 1..Len(params) : params[k].paramName # name)
              => Find(params, name) = NoText
<1> DEFINE I == { i \in 1..Len(params) : params[i].paramName = name }
           k0 == IF I # {} THEN Min(I) ELSE 0
<1>1. Find(params, name) = IF k0 = 0 THEN NoText ELSE params[k0].value
  BY DEF Find, SelectInSeq
<1>2. I # {} => Min(I) \in I /\ \A m \in I : Min(I) <= m
  <2>1. I \in SUBSET Nat
    OBVIOUS
  <2> HIDE DEF I
  <2> QED
    BY <2>1, MinFacts
<1>3. ASSUME NEW k \in 1..Len(params), params[k].paramName = name,
             \A j \in 1..(k - 1) : params[j].paramName # name
      PROVE  Find(params, name) = params[k].value
  <2>1. k \in I /\ \A m \in I : m >= k
    BY <1>3
  <2>2. Min(I) = k
    <3> HIDE DEF I
    <3>1. Min(I) \in I /\ Min(I) <= k
      BY <1>2, <2>1
    <3>2. Min(I) >= k /\ Min(I) \in Int /\ k \in Int
      BY <2>1, <3>1 DEF I
    <3> QED
      BY <3>1, <3>2
  <2> QED
    BY <1>1, <2>1, <2>2
<1>4. ASSUME \A k \in 1..Len(params) : params[k].paramName # name
      PROVE  Find(params, name) = NoText
  BY <1>1, <1>4
<1> QED
  BY <1>3, <1>4

-----------------------------------------------------------------------------
(* What GovPay+ derives *)

\* The names that EqualFold takes for amount.
LEMMA LowerFacts ==
  /\ Lower["refNo"] = "refNo"
  /\ \A n \in Names : Lower[n] = "amount" <=> n \in {"amount", "Amount"}
<1>1. \A n \in Names : Lower[n] = CASE n = "REFNO" -> "refNo"
                                   [] n = "Amount" -> "amount" [] OTHER -> n
  BY DEF Lower
<1> QED
  BY <1>1 DEF Names

\* The encryptions change no object.
LEMMA DecryptedIsPresented ==
  ASSUME NEW objs \in Seq(Objects)
  PROVE  Decrypted(objs) = objs
<1>1. /\ DOMAIN objs = 1..Len(objs) /\ objs = [i \in DOMAIN objs |-> objs[i]]
      /\ \A i \in 1..Len(objs) : objs[i] \in Objects
  BY LenProperties, ElementOfSeq
<1>2. ASSUME NEW o \in Objects
      PROVE  [o EXCEPT !.initialValue = Carried(@)] = o
  <2>1. o.initialValue \in Seq(Bytes)
    BY TextsAssumption DEF Objects
  <2>2. Carried(o.initialValue) = o.initialValue
    BY <2>1, RoundTrip
  <2> QED
    BY <2>2 DEF Objects
<1>3. \A i \in DOMAIN objs : [objs[i] EXCEPT !.initialValue = Carried(@)] = objs[i]
  BY <1>1, <1>2
<1>4. Decrypted(objs) = [i \in DOMAIN objs |-> objs[i]]
  BY <1>3 DEF Decrypted
<1> QED
  BY <1>1, <1>4

\* The amount is a number, that of the last amount object where there is one.
LEMMA PayableFacts ==
  ASSUME NEW objs \in Seq(Objects)
  PROVE  LET given == Returned(objs)
         IN  /\ PayableAmount(objs) \in Int
             /\ \A i \in 1..Len(given) :
                  /\ IsAmount(given[i])
                  /\ \A j \in 1..Len(given) : IsAmount(given[j]) => j <= i
                  => PayableAmount(objs) = toFloat(given[i].initialValue)
<1> DEFINE given == Returned(objs)
           I == { i \in 1..Len(given) : IsAmount(given[i]) }
           k == IF I # {} THEN Max(I) ELSE 0
<1>1. PayableAmount(objs) = IF k = 0 THEN 0 ELSE toFloat(given[k].initialValue)
  BY DEF PayableAmount, SelectLastInSeq
<1>2. \A text : toFloat(text) \in Int
  BY TextsAssumption DEF toFloat
<1>3. Len(given) \in Nat
  BY ReturnedFacts, LenProperties
<1> HIDE DEF given
<1>4. I # {} => Max(I) \in I /\ \A m \in I : m <= Max(I)
  <2>1. I \in SUBSET (1..Len(given))
    OBVIOUS
  <2> HIDE DEF I
  <2> QED
    BY <1>3, <2>1, MaxFacts
<1>5. ASSUME NEW i \in 1..Len(given), IsAmount(given[i]),
             \A j \in 1..Len(given) : IsAmount(given[j]) => j <= i
      PROVE  PayableAmount(objs) = toFloat(given[i].initialValue)
  <2>1. i \in I /\ \A m \in I : m \in Int /\ m <= i
    BY <1>5
  <2>2. k = i /\ i # 0
    <3> HIDE DEF I
    <3>1. Max(I) \in Int /\ Max(I) <= i /\ i <= Max(I) /\ I # {}
      BY <1>4, <2>1
    <3> QED
      BY <3>1
  <2> QED
    BY <1>1, <2>2
<1>6. PayableAmount(objs) \in Int
  BY <1>1, <1>2
<1> QED
  BY <1>5, <1>6 DEF given

ItemOf(i, o) == [seq |-> i, paramName |-> o.returnedParam, value |-> o.initialValue]
RefNoItem(r) == [seq |-> 0, paramName |-> "refNo", value |-> r]

\* What is kept: an item for each returned object, behind the refNo's when none
\* of them has a name that reads refNo.
KeptShape(given, r, kept, off) ==
  /\ off \in {0, 1}
  /\ Len(kept) = off + Len(given)
  /\ \A i \in 1..Len(given) : kept[off + i] = ItemOf(i, given[i])
  /\ off = 1 => /\ kept[1] = RefNoItem(r)
                /\ \A i \in 1..Len(given) : Lower[given[i].returnedParam] # "refNo"
  /\ off = 0 => \E i \in 1..Len(given) : Lower[given[i].returnedParam] = "refNo"

\* extractReturnData, with hasParam's question answered.
LEMMA ReturnDataShape ==
  ASSUME NEW objs \in Seq(Objects), NEW r \in Texts
  PROVE  /\ ReturnData(objs, r) \in Seq(Items)
         /\ \E off \in {0, 1} : KeptShape(Returned(objs), r, ReturnData(objs, r), off)
<1> DEFINE given  == Returned(objs)
           echoed == [i \in DOMAIN given |-> ItemOf(i, given[i])]
           first  == << RefNoItem(r) >>
<1>1. /\ given \in Seq(Objects) /\ Len(given) \in Nat /\ DOMAIN given = 1..Len(given)
      /\ \A i \in 1..Len(given) : given[i] \in Objects /\ given[i].returnedParam \in Names
  BY ReturnedFacts, LenProperties, ElementOfSeq
<1>2. ReturnData(objs, r) =
        IF \E i \in DOMAIN echoed : Lower[echoed[i].paramName] = "refNo"
          THEN echoed ELSE first \o echoed
  BY DEF ReturnData, ItemOf, RefNoItem
<1> HIDE DEF given
<1>3. \A i \in 1..Len(given) : ItemOf(i, given[i]) \in Items
  BY <1>1 DEF ItemOf, Items, Objects
<1>4. echoed \in Seq(Items) /\ Len(echoed) = Len(given) /\ DOMAIN echoed = 1..Len(given)
  BY <1>1, <1>3
<1>5. first \in Seq(Items) /\ Len(first) = 1 /\ first[1] = RefNoItem(r)
  BY DEF RefNoItem, Items, Names
<1>6. \A i \in 1..Len(given) :
        echoed[i] = ItemOf(i, given[i]) /\ echoed[i].paramName = given[i].returnedParam
  BY <1>1 DEF ItemOf
<1> HIDE DEF echoed, first
<1>7. CASE \E i \in DOMAIN echoed : Lower[echoed[i].paramName] = "refNo"
  <2>1. ReturnData(objs, r) = echoed
    BY <1>2, <1>7
  <2>2. KeptShape(given, r, echoed, 0)
    BY <1>1, <1>4, <1>6, <1>7 DEF KeptShape
  <2> QED
    BY <1>4, <2>1, <2>2 DEF given
<1>8. CASE ~ \E i \in DOMAIN echoed : Lower[echoed[i].paramName] = "refNo"
  <2>1. ReturnData(objs, r) = first \o echoed
    BY <1>2, <1>8
  <2> DEFINE kept == first \o echoed
  <2>2. /\ kept \in Seq(Items)
        /\ Len(kept) = Len(first) + Len(echoed)
        /\ \A i \in 1 .. Len(first) + Len(echoed) :
             kept[i] = IF i <= Len(first) THEN first[i] ELSE echoed[i - Len(first)]
    BY <1>4, <1>5, ConcatProperties, Zenon
  <2> HIDE DEF kept
  <2>3. kept[1] = RefNoItem(r) /\ Len(kept) = 1 + Len(given)
    BY <1>1, <1>4, <1>5, <2>2
  <2>4. ASSUME NEW i \in 1..Len(given)
        PROVE  /\ kept[1 + i] = ItemOf(i, given[i])
               /\ Lower[given[i].returnedParam] # "refNo"
    <3>1. 1 + i \in 1 .. 1 + Len(given) /\ ~(1 + i <= 1) /\ (1 + i) - 1 = i
      BY <1>1
    <3>2. kept[1 + i] = echoed[(1 + i) - 1]
      BY <1>4, <1>5, <2>2, <3>1
    <3> QED
      BY <1>4, <1>6, <1>8, <3>1, <3>2
  <2>5. KeptShape(given, r, kept, 1)
    BY <2>3, <2>4 DEF KeptShape
  <2> QED
    BY <2>1, <2>2, <2>5 DEF given, kept
<1> QED
  BY <1>7, <1>8

\* The update is what is kept and the outcome, numbered on.
UpdateShape(given, r, sent, off) ==
  /\ off \in {0, 1}
  /\ Len(sent) = off + Len(given) + 1
  /\ \A i \in 1..Len(given) : sent[off + i] = ItemOf(i, given[i])
  /\ sent[Len(sent)] = [seq |-> Len(sent), paramName |-> "status", value |-> Success]
  /\ off = 1 => /\ sent[1] = RefNoItem(r)
                /\ \A i \in 1..Len(given) : Lower[given[i].returnedParam] # "refNo"
  /\ off = 0 => \E i \in 1..Len(given) : Lower[given[i].returnedParam] = "refNo"

\* The fields of an echoed item.
LEMMA EchoedItems ==
  ASSUME NEW given, NEW r, NEW sent, NEW off, UpdateShape(given, r, sent, off)
  PROVE  \A i \in 1..Len(given) : /\ sent[off + i].seq = i
                                 /\ sent[off + i].paramName = given[i].returnedParam
                                 /\ sent[off + i].value = given[i].initialValue
<1>1. \A i \in 1..Len(given) : sent[off + i] = ItemOf(i, given[i])
  BY DEF UpdateShape
<1>2. ASSUME NEW i \in 1..Len(given)
      PROVE  /\ ItemOf(i, given[i]).seq = i
             /\ ItemOf(i, given[i]).paramName = given[i].returnedParam
             /\ ItemOf(i, given[i]).value = given[i].initialValue
  BY DEF ItemOf
<1> QED
  BY <1>1, <1>2

\* What handlePay sends has that shape.
LEMMA UpdateDataShape ==
  ASSUME NEW objs \in Seq(Objects), NEW r \in Texts
  PROVE  LET sent == UpdateData(ReturnData(objs, r))
         IN  /\ sent \in Seq(Items) /\ sent # << >>
             /\ \E off \in {0, 1} : UpdateShape(Returned(objs), r, sent, off)
<1> DEFINE given == Returned(objs)
           kept  == ReturnData(objs, r)
           last  == [seq |-> Len(kept) + 1, paramName |-> "status", value |-> Success]
           sent  == UpdateData(kept)
<1>1. kept \in Seq(Items) /\ Len(kept) \in Nat /\ Len(given) \in Nat
  BY ReturnDataShape, ReturnedFacts, LenProperties
<1>2. PICK off \in {0, 1} : KeptShape(given, r, kept, off)
  BY ReturnDataShape
<1>3. last \in Items
  BY <1>1 DEF Items
<1>4. sent = Append(kept, last)
  BY DEF UpdateData
<1> HIDE DEF given, kept, last, sent
<1>5. /\ sent \in Seq(Items) /\ sent # << >>
      /\ Len(sent) = Len(kept) + 1
      /\ \A i \in 1..Len(kept) : sent[i] = kept[i]
      /\ sent[Len(kept) + 1] = last
  BY <1>1, <1>3, <1>4, AppendProperties
<1>6. Len(kept) = off + Len(given)
  BY <1>2 DEF KeptShape
<1>7. \A i \in 1..Len(given) : sent[off + i] = ItemOf(i, given[i])
  BY <1>1, <1>2, <1>5, <1>6 DEF KeptShape
<1>8. sent[Len(sent)] = [seq |-> Len(sent), paramName |-> "status", value |-> Success]
  BY <1>5 DEF last
<1>9. off = 1 => sent[1] = RefNoItem(r)
  <2>1. ASSUME off = 1 PROVE sent[1] = kept[1] /\ kept[1] = RefNoItem(r)
    BY <1>1, <1>2, <1>5, <1>6, <2>1 DEF KeptShape
  <2> QED
    BY <2>1
<1>10. Len(sent) = off + Len(given) + 1
  BY <1>1, <1>5, <1>6
<1>11. UpdateShape(given, r, sent, off)
  BY <1>2, <1>7, <1>8, <1>9, <1>10 DEF UpdateShape, KeptShape
<1> QED
  BY <1>5, <1>11 DEF given, sent, kept

\* The encryptions change no item.
LEMMA DecryptedIsSent ==
  ASSUME NEW sent \in Seq(Items)
  PROVE  [i \in DOMAIN sent |-> [sent[i] EXCEPT !.value = Carried(@)]] = sent
<1>1. /\ DOMAIN sent = 1..Len(sent) /\ sent = [i \in DOMAIN sent |-> sent[i]]
      /\ \A i \in 1..Len(sent) : sent[i] \in Items
  BY LenProperties, ElementOfSeq
<1>2. ASSUME NEW p \in Items
      PROVE  [p EXCEPT !.value = Carried(@)] = p
  <2>1. p.value \in Seq(Bytes)
    <3>1. Success \in Seq(Bytes)
      BY DEF Success, Bytes
    <3> QED
      BY <3>1, TextsAssumption DEF Items
  <2>2. Carried(p.value) = p.value
    BY <2>1, RoundTrip
  <2> QED
    BY <2>2 DEF Items
<1>3. \A i \in DOMAIN sent : [sent[i] EXCEPT !.value = Carried(@)] = sent[i]
  BY <1>1, <1>2
<1> QED
  BY <1>1, <1>3

-----------------------------------------------------------------------------
(* What the GO reads *)

\* This repository's GO finds in the update the bill and the amount it presented.
LEMMA OwnUpdate ==
  ASSUME NEW b \in Bills, NEW t \in Texts
  PROVE  LET sent == UpdateData(ReturnData(buildPresentmentData(b, t), b))
         IN  Find(sent, "refNo") = b /\ Find(sent, "amount") = AmountText[b]
<1> DEFINE objs == buildPresentmentData(b, t)
           sent == UpdateData(ReturnData(objs, b))
<1>1. /\ objs[1] = Shown("refNo", b, FALSE)
      /\ objs[2] = Shown("name", t, FALSE)
      /\ objs[3] = Shown("amount", AmountText[b], TRUE)
  BY DEF buildPresentmentData
<1>2. b \in Texts
  BY TextsAssumption
<1>3. /\ objs \in Seq(Objects) /\ Len(Returned(objs)) = 3
      /\ \A i \in 1..3 : Returned(objs)[i] = objs[i]
  BY OwnObjectsReturned
<1>4. PICK off \in {0, 1} : UpdateShape(Returned(objs), b, sent, off)
  BY <1>2, <1>3, UpdateDataShape
<1> HIDE DEF objs, sent
<1>5. off = 0
  BY <1>1, <1>3, <1>4, LowerFacts DEF UpdateShape, Shown
<1>6. /\ Len(sent) = 4
      /\ \A i \in 1..3 : sent[i] = ItemOf(i, objs[i])
  BY <1>3, <1>4, <1>5 DEF UpdateShape
<1>7. /\ sent[1].paramName = "refNo"  /\ sent[1].value = b
      /\ sent[2].paramName = "name"
      /\ sent[3].paramName = "amount" /\ sent[3].value = AmountText[b]
  BY <1>1, <1>6 DEF ItemOf, Shown
<1>8. Find(sent, "refNo") = b
  <2>1. \A j \in 1..(1 - 1) : sent[j].paramName # "refNo"
    OBVIOUS
  <2> QED
    BY <1>6, <1>7, <2>1, FindFacts
<1>9. Find(sent, "amount") = AmountText[b]
  <2>1. \A j \in 1..(3 - 1) : sent[j].paramName # "amount"
    BY <1>7
  <2> QED
    BY <1>6, <1>7, <2>1, FindFacts
<1> QED
  BY <1>8, <1>9 DEF objs, sent

\* The receipt lists the items under their numbers, then its own two lines.
LEMMA ReceiptShape ==
  ASSUME NEW params \in Seq(Items)
  PROVE  LET lines == BuildPaymentData(params)
         IN  /\ lines \in Seq(Receipts)
             /\ Len(lines) = Len(params) + 2
             /\ \A i \in 1..Len(params) : lines[i].seq = params[i].seq
             /\ lines[Len(params) + 1].seq = Len(params) + 1
             /\ lines[Len(params) + 2].seq = Len(params) + 2
<1> DEFINE n == Len(params)
           listed == [i \in 1..n |->
                        [seq |-> params[i].seq, placeholder |-> params[i].paramName]]
           ending == << [seq |-> n + 1, placeholder |-> "Receipt Number"],
                        [seq |-> n + 2, placeholder |-> "Status"] >>
           lines  == listed \o ending
<1>1. n \in Nat /\ \A i \in 1..n : params[i] \in Items
  BY LenProperties, ElementOfSeq
<1>2. BuildPaymentData(params) = lines
  BY DEF BuildPaymentData
<1> HIDE DEF n
<1>3. /\ listed \in Seq(Receipts) /\ Len(listed) = n
      /\ \A i \in 1..n : listed[i].seq = params[i].seq
  <2> DEFINE Line(p) == [seq |-> p.seq, placeholder |-> p.paramName]
  <2>1. ASSUME NEW p \in Items
        PROVE  Line(p) \in Receipts /\ Line(p).seq = p.seq
    BY DEF Items, Receipts
  <2>2. listed = [i \in 1..n |-> Line(params[i])]
    OBVIOUS
  <2>3. \A i \in 1..n : Line(params[i]) \in Receipts /\ Line(params[i]).seq = params[i].seq
    BY <1>1, <2>1
  <2> HIDE DEF Line, listed
  <2> QED
    BY <1>1, <2>2, <2>3
<1>4. /\ ending \in Seq(Receipts) /\ Len(ending) = 2
      /\ ending[1].seq = n + 1 /\ ending[2].seq = n + 2
  <2>1. /\ [seq |-> n + 1, placeholder |-> "Receipt Number"] \in Receipts
        /\ [seq |-> n + 2, placeholder |-> "Status"] \in Receipts
    BY <1>1 DEF Receipts
  <2>2. ASSUME NEW x \in Receipts, NEW y \in Receipts
        PROVE  /\ << x, y >> \in Seq(Receipts) /\ Len(<< x, y >>) = 2
               /\ << x, y >>[1] = x /\ << x, y >>[2] = y
    OBVIOUS
  <2>3. ending \in Seq(Receipts) /\ Len(ending) = 2
    BY <2>1, <2>2
  <2>4. ending[1].seq = n + 1 /\ ending[2].seq = n + 2
    OBVIOUS
  <2> QED
    BY <2>3, <2>4
<1> HIDE DEF listed, ending
<1>5. /\ lines \in Seq(Receipts)
      /\ Len(lines) = Len(listed) + Len(ending)
      /\ \A i \in 1 .. Len(listed) + Len(ending) :
           lines[i] = IF i <= Len(listed) THEN listed[i] ELSE ending[i - Len(listed)]
  BY <1>3, <1>4, ConcatProperties, Zenon
<1> HIDE DEF lines
<1>6. /\ Len(lines) = n + 2
      /\ \A i \in 1..n : lines[i].seq = params[i].seq
  BY <1>1, <1>3, <1>4, <1>5
<1>7. lines[n + 1] = ending[(n + 1) - n] /\ lines[n + 2] = ending[(n + 2) - n]
  BY <1>1, <1>3, <1>4, <1>5
<1>8. lines[n + 1].seq = n + 1 /\ lines[n + 2].seq = n + 2
  <2>1. (n + 1) - n = 1 /\ (n + 2) - n = 2
    BY <1>1
  <2> QED
    BY <1>4, <1>7, <2>1
<1> QED
  BY <1>2, <1>5, <1>6, <1>8 DEF n

-----------------------------------------------------------------------------
(* The inductive invariant: each stage holds what the one before makes of it *)

Opened ==
  stage # "start" =>
    /\ refNo \in Bills
    /\ amount = PayableAmount(objects)
    /\ data = ReturnData(objects, refNo)
    /\ own => \E t \in Texts : objects = buildPresentmentData(refNo, t)

Sent ==
  /\ stage \in {"start", "presented"} => items = << >>
  /\ stage = "posted" => items # << >>
  /\ items # << >> => items = UpdateData(data)

Answered ==
  /\ receipt # << >> => items # << >> /\ receipt = BuildPaymentData(items)
  /\ own => ~warned

IInv == TypeOK /\ Opened /\ Sent /\ Answered

\* The invariant holds at the start.
LEMMA InitIInv ==
  Init => IInv
<1> SUFFICES ASSUME Init PROVE IInv
  OBVIOUS
<1>1. TypeOK
  <2>1. /\ << >> \in Seq(Objects) /\ << >> \in Seq(Items) /\ << >> \in Seq(Receipts)
        /\ NoText \in Texts
    BY TextsAssumption
  <2>2. /\ stage \in {"start", "presented", "posted", "paid", "refused"}
        /\ warned \in BOOLEAN /\ amount \in Int
    <3>1. stage = "start" /\ warned = FALSE /\ amount = 0
      BY DEF Init
    <3>2. warned \in BOOLEAN
      BY <3>1, Zenon
    <3> QED
      BY <3>1, <3>2
  <2>4. own \in BOOLEAN
    BY Zenon DEF Init
  <2>3. /\ refNo \in Texts /\ objects \in Seq(Objects) /\ data \in Seq(Items)
        /\ items \in Seq(Items) /\ receipt \in Seq(Receipts)
    BY <2>1 DEF Init
  <2> QED
    BY <2>2, <2>3, <2>4 DEF TypeOK
<1>2. Opened
  BY DEF Init, Opened
<1>3. Sent /\ Answered
  BY DEF Init, Sent, Answered
<1> QED
  BY <1>1, <1>2, <1>3 DEF IInv

\* Presentment, of whichever GO.
LEMMA PresentedIInv ==
  ASSUME IInv, NEW r \in Bills, NEW objs \in Seq(Objects), Presented(r, objs),
         own => \E t \in Texts : objs = buildPresentmentData(r, t)
  PROVE  IInv'
<1>1. r \in Texts
  BY TextsAssumption
<1>2. Decrypted(objs) = objs
  BY DecryptedIsPresented
<1>3. /\ stage = "start" /\ stage' = "presented" /\ refNo' = r /\ objects' = objs
      /\ amount' = PayableAmount(objs) /\ data' = ReturnData(objs, r)
      /\ UNCHANGED << own, items, warned, receipt >>
  BY <1>2 DEF Presented
<1>4. PayableAmount(objs) \in Int /\ ReturnData(objs, r) \in Seq(Items)
  BY <1>1, PayableFacts, ReturnDataShape
<1>5. TypeOK'
  BY <1>1, <1>3, <1>4 DEF IInv, TypeOK
<1>6. Opened'
  BY <1>3 DEF Opened
<1>7. Sent'
  BY <1>3 DEF IInv, Sent
<1>8. Answered'
  BY <1>3 DEF IInv, Answered
<1> QED
  BY <1>5, <1>6, <1>7, <1>8 DEF IInv

\* handlePay keeps it: what is decrypted is what was sent.
LEMMA PayIInv ==
  ASSUME IInv, Pay
  PROVE  IInv'
<1> DEFINE sent == UpdateData(data)
<1>1. refNo \in Bills /\ refNo \in Texts /\ objects \in Seq(Objects)
      /\ data = ReturnData(objects, refNo) /\ items = << >>
  BY DEF IInv, TypeOK, Opened, Sent, Pay
<1>2. sent \in Seq(Items) /\ sent # << >>
  BY <1>1, UpdateDataShape
<1>3. [i \in DOMAIN sent |-> [sent[i] EXCEPT !.value = Carried(@)]] = sent
  BY <1>2, DecryptedIsSent
<1>4. /\ stage = "presented"
      /\ \/ stage' = "posted" /\ items' = sent
         \/ stage' = "refused" /\ items' = items
      /\ UNCHANGED << own, refNo, objects, amount, data, warned, receipt >>
  BY <1>3 DEF Pay
<1> HIDE DEF sent
<1>5. TypeOK'
  BY <1>2, <1>4 DEF IInv, TypeOK
<1>6. Opened'
  BY <1>4 DEF IInv, Opened
<1>7. Sent'
  BY <1>1, <1>2, <1>4 DEF IInv, Sent, sent
<1>8. Answered'
  BY <1>1, <1>4 DEF IInv, Answered
<1> QED
  BY <1>5, <1>6, <1>7, <1>8 DEF IInv

\* What this repository's GO reads in an update it has been sent.
LEMMA OwnReads ==
  ASSUME IInv, own, items # << >>
  PROVE  Find(items, "refNo") = refNo /\ Find(items, "amount") = AmountText[refNo]
<1>1. /\ refNo \in Bills /\ items = UpdateData(ReturnData(objects, refNo))
      /\ \E t \in Texts : objects = buildPresentmentData(refNo, t)
  BY DEF IInv, Opened, Sent
<1> QED
  BY <1>1, OwnUpdate

\* updateHandler keeps it: this GO reads its own bill and amount.
LEMMA UpdateIInv ==
  ASSUME IInv, Update
  PROVE  IInv'
<1>1. items # << >> /\ items \in Seq(Items) /\ own /\ ~warned /\ refNo \in Bills
  BY DEF IInv, TypeOK, Opened, Sent, Answered, Update
<1>2. Find(items, "refNo") = refNo /\ Find(items, "amount") = AmountText[refNo]
  BY <1>1, OwnReads
<1>3. /\ stage = "posted" /\ stage' = "paid" /\ ~warned' /\ warned' \in BOOLEAN
      /\ receipt' = BuildPaymentData(items)
      /\ UNCHANGED << own, refNo, objects, amount, data, items >>
  BY <1>1, <1>2 DEF Update
<1>4. BuildPaymentData(items) \in Seq(Receipts)
  BY <1>1, ReceiptShape
<1>5. TypeOK'
  BY <1>3, <1>4 DEF IInv, TypeOK
<1>6. Opened'
  BY <1>3 DEF IInv, Opened
<1>7. Sent'
  BY <1>3 DEF IInv, Sent
<1>8. Answered'
  BY <1>1, <1>3 DEF Answered
<1> QED
  BY <1>5, <1>6, <1>7, <1>8 DEF IInv

\* Every step keeps it.
LEMMA NextIInv ==
  IInv /\ [Next]_vars => IInv'
<1> SUFFICES ASSUME IInv, [Next]_vars PROVE IInv'
  OBVIOUS
<1>1. CASE Present
  <2>1. PICK b \in Bills, t \in Texts : Presented(b, buildPresentmentData(b, t))
    BY <1>1 DEF Present
  <2>2. buildPresentmentData(b, t) \in Seq(Objects)
    BY OwnObjectsReturned
  <2> QED
    BY <2>1, <2>2, PresentedIInv
<1>2. CASE PresentElsewhere
  <2>1. PICK r \in Bills, objs \in BoundedSeq(Objects, MaxObjects) : Presented(r, objs)
    BY <1>2 DEF PresentElsewhere
  <2>2. objs \in Seq(Objects)
    <3>1. PICK m \in 0..MaxObjects : objs \in [1..m -> Objects]
      BY DEF BoundedSeq, SeqOf
    <3> QED
      BY <3>1, MaxObjectsAssumption
  <2>3. ~own
    BY <1>2 DEF PresentElsewhere
  <2> QED
    BY <2>1, <2>2, <2>3, PresentedIInv
<1>3. CASE Pay
  BY <1>3, PayIInv
<1>4. CASE Update
  BY <1>4, UpdateIInv
<1>5. CASE UNCHANGED vars
  BY <1>5 DEF vars, IInv, TypeOK, Opened, Sent, Answered
<1> QED
  BY <1>1, <1>2, <1>3, <1>4, <1>5 DEF Next

\* The invariant holds throughout.
LEMMA Invariance ==
  Spec => []IInv
<1> QED
  BY InitIInv, NextIInv, PTL DEF Spec

-----------------------------------------------------------------------------
(* The theorems *)

\* Every value stays of its type.
THEOREM TypeCorrectness ==
  Spec => []TypeOK
<1>1. IInv => TypeOK
  BY DEF IInv
<1> QED
  BY <1>1, Invariance, PTL

\* An update that was sent, as the GO decrypts it.
LEMMA SentShape ==
  ASSUME IInv, items # << >>
  PROVE  /\ stage # "start" /\ objects \in Seq(Objects) /\ Len(items) \in Nat
         /\ Returned(objects) \in Seq(Objects) /\ Len(Returned(objects)) \in Nat
         /\ DOMAIN Returned(objects) = 1..Len(Returned(objects))
         /\ DOMAIN items = 1..Len(items)
         /\ \E off \in {0, 1} : UpdateShape(Returned(objects), refNo, items, off)
<1>1. /\ stage # "start" /\ objects \in Seq(Objects) /\ refNo \in Texts
      /\ items \in Seq(Items) /\ items = UpdateData(ReturnData(objects, refNo))
  BY DEF IInv, TypeOK, Opened, Sent
<1>2. Returned(objects) \in Seq(Objects)
  BY <1>1, ReturnedFacts
<1> QED
  BY <1>1, <1>2, UpdateDataShape, LenProperties

\* Each returned object comes back in its order under its name with the very text
\* the GO presented (extractReturnData, EncryptParams, pkcs7Pad).
THEOREM EchoesAreExact ==
  Spec => []EchoIsExact
<1>1. ASSUME IInv, items # << >>
      PROVE  LET given == Returned(objects)
                 off   == Len(items) - 1 - Len(given)
             IN  /\ off \in {0, 1}
                 /\ \A i \in DOMAIN given :
                      /\ items[off + i].paramName = given[i].returnedParam
                      /\ items[off + i].value = given[i].initialValue
  <2> DEFINE given == Returned(objects)
  <2>1. PICK off \in {0, 1} : UpdateShape(given, refNo, items, off)
    BY <1>1, SentShape
  <2>2. Len(given) \in Nat /\ DOMAIN given = 1..Len(given)
    BY <1>1, SentShape
  <2> HIDE DEF given
  <2>3. Len(items) - 1 - Len(given) = off
    BY <2>1, <2>2 DEF UpdateShape
  <2>4. \A i \in DOMAIN given : /\ items[off + i].paramName = given[i].returnedParam
                               /\ items[off + i].value = given[i].initialValue
    BY <2>1, <2>2, EchoedItems
  <2> QED
    BY <2>3, <2>4 DEF given
<1>2. IInv => EchoIsExact
  BY <1>1 DEF EchoIsExact
<1> QED
  BY <1>2, Invariance, PTL

\* Of the returned objects of a name, the GO reads the first, also behind a refNo
\* that was put in front.
LEMMA ReadsFirst ==
  ASSUME IInv, items # << >>, NEW name \in {"refNo", "amount"},
         NEW i \in DOMAIN Returned(objects),
         Returned(objects)[i].returnedParam = name,
         \A j \in DOMAIN Returned(objects) :
           Returned(objects)[j].returnedParam = name => i <= j
  PROVE  Find(items, name) = Returned(objects)[i].initialValue
<1> DEFINE given == Returned(objects)
<1>1. PICK off \in {0, 1} : UpdateShape(given, refNo, items, off)
  BY SentShape
<1>2. /\ Len(items) \in Nat /\ Len(given) \in Nat /\ i \in 1..Len(given)
      /\ given[i].returnedParam = name
      /\ \A j \in 1..Len(given) : given[j].returnedParam = name => i <= j
  BY SentShape
<1> HIDE DEF given
<1>3. off = 1 => name # "refNo"
  BY <1>1, <1>2, LowerFacts DEF UpdateShape
<1>4. /\ off + i \in 1..Len(items)
      /\ items[off + i].paramName = name
      /\ items[off + i].value = given[i].initialValue
  <2>1. off + i \in 1..Len(items)
    BY <1>1, <1>2 DEF UpdateShape
  <2> QED
    BY <1>1, <1>2, <2>1, EchoedItems
<1>5. ASSUME NEW j \in 1 .. ((off + i) - 1)
      PROVE  items[j].paramName # name
  <2>1. CASE j - off \in 1..Len(given)
    <3>1. items[off + (j - off)] = ItemOf(j - off, given[j - off])
      BY <1>1, <2>1 DEF UpdateShape
    <3>2. off + (j - off) = j /\ ~(i <= j - off)
      BY <1>2
    <3>3. given[j - off].returnedParam # name
      BY <1>2, <2>1, <3>2
    <3> QED
      BY <3>1, <3>2, <3>3 DEF ItemOf
  <2>2. CASE j - off \notin 1..Len(given)
    <3>1. off = 1 /\ j = 1
      BY <1>2, <2>2
    <3> QED
      BY <1>1, <1>3, <3>1 DEF UpdateShape, RefNoItem
  <2> QED
    BY <2>1, <2>2
<1>6. Find(items, name) = given[i].initialValue
  BY <1>2, <1>4, <1>5, FindFacts
<1> QED
  BY <1>6 DEF given

\* The update names the bill looked up where no spelling of refNo was returned, the
\* first value under the exact name where there is one, and no bill the GO finds
\* where there are other spellings only (hasParam, findRefNo).
THEOREM BillsAreNamed ==
  Spec => []BillIsNamed
<1>1. ASSUME IInv, items # << >>
      PROVE  LET given   == Returned(objects)
                 spelled == { i \in DOMAIN given : Lower[given[i].returnedParam] = "refNo" }
                 exact   == { i \in DOMAIN given : given[i].returnedParam = "refNo" }
                 named   == Find(items, "refNo")
             IN  /\ own \/ spelled = {} => named = refNo
                 /\ spelled # {} /\ exact = {} => named = NoText
                 /\ \A i \in exact : IsFirst(exact, i) => named = given[i].initialValue
  <2> DEFINE given   == Returned(objects)
             spelled == { i \in DOMAIN given : Lower[given[i].returnedParam] = "refNo" }
             exact   == { i \in DOMAIN given : given[i].returnedParam = "refNo" }
             named   == Find(items, "refNo")
  <2>1. PICK off \in {0, 1} : UpdateShape(given, refNo, items, off)
    BY <1>1, SentShape
  <2>2. Len(given) \in Nat /\ Len(items) \in Nat /\ DOMAIN given = 1..Len(given)
    BY <1>1, SentShape
  <2>3. ASSUME own PROVE named = refNo
    BY <1>1, <2>3, OwnReads
  <2>4. ASSUME NEW i \in exact, IsFirst(exact, i)
        PROVE  named = given[i].initialValue
    BY <1>1, <2>4, ReadsFirst DEF IsFirst
  <2> HIDE DEF given
  <2>5. ASSUME spelled = {} PROVE named = refNo
    <3>1. off = 1 /\ items[1] = RefNoItem(refNo) /\ 1 \in 1..Len(items)
      BY <2>1, <2>2, <2>5 DEF UpdateShape
    <3>2. /\ items[1].paramName = "refNo" /\ items[1].value = refNo
          /\ \A j \in 1..(1 - 1) : items[j].paramName # "refNo"
      BY <3>1 DEF RefNoItem
    <3> QED
      BY <2>2, <3>1, <3>2, FindFacts
  <2>6. ASSUME spelled # {}, exact = {} PROVE named = NoText
    <3>1. off = 0 /\ Len(items) = Len(given) + 1
      BY <2>1, <2>2, <2>6 DEF UpdateShape
    <3>2. \A i \in 1..Len(given) : items[i].paramName # "refNo"
      <4>1. \A i \in 1..Len(given) : items[off + i].paramName = given[i].returnedParam
        BY <2>1, EchoedItems
      <4> QED
        BY <2>2, <2>6, <3>1, <4>1
    <3>3. items[Len(items)].paramName = "status"
      BY <2>1 DEF UpdateShape
    <3>4. \A k \in 1..Len(items) : items[k].paramName # "refNo"
      BY <2>2, <3>1, <3>2, <3>3
    <3> QED
      BY <2>2, <3>4, FindFacts
  <2> QED
    BY <2>3, <2>4, <2>5, <2>6 DEF given
<1>2. IInv => BillIsNamed
  BY <1>1 DEF BillIsNamed
<1> QED
  BY <1>2, Invariance, PTL

\* This repository's GO never warns of a differing amount; any GO reads the amount
\* the payer confirmed exactly if the last amount object and the first under the
\* exact name mean the same number (extractReturnData, findParam).
THEOREM AmountsAreTheOnesEchoed ==
  Spec => []AmountIsTheOneEchoed
<1> DEFINE given   == Returned(objects)
           amounts == AmountObjects(given)
           exact   == { i \in DOMAIN given : given[i].returnedParam = "amount" }
           Meant(i) == toFloat(given[i].initialValue)
<1>1. ASSUME IInv, items # << >>, NEW i \in exact, NEW j \in amounts,
             IsFirst(exact, i), IsLast(amounts, j)
      PROVE  amount = toFloat(Find(items, "amount")) <=> Meant(i) = Meant(j)
  <2>1. Find(items, "amount") = given[i].initialValue
    BY <1>1, ReadsFirst DEF IsFirst
  <2>2. /\ objects \in Seq(Objects) /\ Len(given) \in Nat
        /\ DOMAIN given = 1..Len(given) /\ amount = PayableAmount(objects)
    BY <1>1, SentShape DEF IInv, Opened
  <2>3. \A k \in 1..Len(given) : given[k].returnedParam \in Names
    BY <2>2, ReturnedFacts
  <2>4. \A k \in 1..Len(given) : IsAmount(given[k]) <=> k \in amounts
    BY <2>2, <2>3, LowerFacts DEF IsAmount, AmountObjects
  <2>5. j \in 1..Len(given) /\ \A k \in amounts : k <= j
    BY <1>1, <2>2 DEF IsLast, AmountObjects
  <2>6. amount = Meant(j)
    <3>1. IsAmount(given[j]) /\ \A k \in 1..Len(given) : IsAmount(given[k]) => k <= j
      BY <1>1, <2>4, <2>5
    <3> HIDE DEF amounts
    <3> QED
      BY <2>2, <2>5, <3>1, PayableFacts
  <2> QED
    BY <2>1, <2>6
<1>2. IInv /\ own => ~warned
  BY DEF IInv, Answered
<1>3. IInv => AmountIsTheOneEchoed
  BY <1>1, <1>2 DEF AmountIsTheOneEchoed
<1> QED
  BY <1>3, Invariance, PTL

\* The numbers of an update's items grow along it.
LEMMA ItemNumbersGrow ==
  ASSUME IInv, items # << >>
  PROVE  /\ Len(items) \in Nat /\ DOMAIN items = 1..Len(items)
         /\ \A i \in 1..Len(items) : items[i].seq \in Int /\ items[i].seq <= Len(items)
         /\ \A i, j \in 1..Len(items) : i < j => items[i].seq < items[j].seq
<1> DEFINE given == Returned(objects)
<1>1. PICK off \in {0, 1} : UpdateShape(given, refNo, items, off)
  BY SentShape
<1>2. Len(given) \in Nat /\ Len(items) \in Nat /\ DOMAIN items = 1..Len(items)
  BY SentShape
<1> HIDE DEF given
<1>3. Len(items) = off + Len(given) + 1
  BY <1>1 DEF UpdateShape
<1>4. \A i \in 1..Len(given) : items[off + i].seq = i
  BY <1>1, EchoedItems
<1>5. items[Len(items)].seq = Len(items)
  BY <1>1 DEF UpdateShape
<1>6. off = 1 => items[1].seq = 0
  BY <1>1 DEF UpdateShape, RefNoItem
<1>7. ASSUME NEW i \in 1..Len(items), i # Len(items)
      PROVE  items[i].seq = i - off
  <2>1. CASE i - off \in 1..Len(given)
    <3>1. off + (i - off) = i
      OBVIOUS
    <3> QED
      BY <1>4, <2>1, <3>1
  <2>2. CASE i - off \notin 1..Len(given)
    <3>1. off = 1 /\ i = 1
      BY <1>2, <1>3, <1>7, <2>2
    <3> QED
      BY <1>6, <3>1
  <2> QED
    BY <2>1, <2>2
<1>8. \A i \in 1..Len(items) : items[i].seq = IF i = Len(items) THEN i ELSE i - off
  BY <1>5, <1>7
<1>9. off \in Int /\ 0 <= off /\ off <= 1
  OBVIOUS
<1>10. ASSUME NEW i \in 1..Len(items)
       PROVE  items[i].seq \in Int /\ items[i].seq <= Len(items)
  <2>1. i \in Int /\ i - off \in Int /\ i <= Len(items) /\ i - off <= Len(items)
    BY <1>2, <1>9
  <2>2. items[i].seq = i \/ items[i].seq = i - off
    BY <1>8
  <2> QED
    BY <2>1, <2>2
<1>11. ASSUME NEW i \in 1..Len(items), NEW j \in 1..Len(items), i < j
       PROVE  items[i].seq < items[j].seq
  <2> DEFINE n == Len(items)
  <2>0. i \in Int /\ j \in Int /\ n \in Int /\ i < j /\ j <= n
    BY <1>2, <1>11
  <2>1. i \in Int /\ j \in Int /\ i # Len(items)
    <3> HIDE DEF n
    <3>1. i # n
      BY <2>0
    <3> QED
      BY <2>0, <3>1 DEF n
  <2>2. items[i].seq = i - off
    BY <1>7, <2>1
  <2>3. items[j].seq = j \/ items[j].seq = j - off
    BY <1>8
  <2> QED
    BY <1>9, <1>11, <2>1, <2>2, <2>3
<1> QED
  BY <1>2, <1>10, <1>11

\* Item numbers grow along the update and along the receipt, so the UI, which
\* sorts by number, shows them in this order (extractReturnData, buildPaymentData).
THEOREM NumbersOnlyGrow ==
  Spec => []NumbersGrow
<1>1. ASSUME IInv, items # << >>
      PROVE  \A i, j \in DOMAIN items : i < j => items[i].seq < items[j].seq
  BY <1>1, ItemNumbersGrow
<1>2. ASSUME IInv, receipt # << >>, NEW i \in DOMAIN receipt, NEW j \in DOMAIN receipt,
             i < j
      PROVE  receipt[i].seq < receipt[j].seq
  <2> DEFINE n == Len(items)
  <2>1. items # << >> /\ receipt = BuildPaymentData(items) /\ items \in Seq(Items)
    BY <1>2 DEF IInv, TypeOK, Answered
  <2>2. /\ receipt \in Seq(Receipts) /\ Len(receipt) = n + 2
        /\ \A k \in 1..n : receipt[k].seq = items[k].seq
        /\ receipt[n + 1].seq = n + 1 /\ receipt[n + 2].seq = n + 2
    BY <2>1, ReceiptShape
  <2>3. /\ n \in Nat
        /\ \A k \in 1..n : items[k].seq \in Int /\ items[k].seq <= n
        /\ \A k, l \in 1..n : k < l => items[k].seq < items[l].seq
    BY <1>2, <2>1, ItemNumbersGrow
  <2>4. i \in 1..n + 2 /\ j \in 1..n + 2
    BY <2>2, LenProperties
  <2> HIDE DEF n
  <2>5. CASE j \in 1..n
    BY <1>2, <2>2, <2>3, <2>4, <2>5
  <2>6. CASE i \in 1..n /\ j \notin 1..n
    <3>1. receipt[i].seq = items[i].seq /\ items[i].seq \in Int /\ items[i].seq <= n
      BY <2>2, <2>3, <2>6
    <3>2. j = n + 1 \/ j = n + 2
      BY <2>3, <2>4, <2>6
    <3>3. receipt[j].seq = n + 1 \/ receipt[j].seq = n + 2
      BY <2>2, <3>2
    <3> QED
      BY <2>3, <3>1, <3>3
  <2>7. CASE i \notin 1..n /\ j \notin 1..n
    <3>1. i = n + 1 /\ j = n + 2
      BY <1>2, <2>3, <2>4, <2>7
    <3> QED
      BY <2>2, <2>3, <3>1
  <2> QED
    BY <1>2, <2>3, <2>4, <2>5, <2>6, <2>7
<1>3. IInv => NumbersGrow
  BY <1>1, <1>2 DEF NumbersGrow
<1> QED
  BY <1>3, Invariance, PTL

=============================================================================
