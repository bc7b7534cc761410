---------------------------- MODULE PKCS7Proofs -----------------------------
(***************************************************************************)
(* Padding loses nothing and is canonical, for every block size a byte can *)
(* count and every text.                                                   *)
(***************************************************************************)
EXTENDS PKCS7, SequenceTheorems, TLAPS

\* The remainder of a number written as whole blocks and a rest.
LEMMA Remainder ==
  ASSUME NEW q \in Int, NEW r \in 0..(BlockSize - 1)
  PROVE  ((BlockSize * q) + r) % BlockSize = r
<1> DEFINE m == (BlockSize * q) + r
<1>1. m \in Int /\ BlockSize \in Int /\ BlockSize > 0 BY BlockSizeAssumption
<1>2. m = (BlockSize * (m \div BlockSize)) + (m % BlockSize)
  BY <1>1
<1>3. m % BlockSize \in 0..(BlockSize - 1) /\ m \div BlockSize \in Int
  BY <1>1
<1> DEFINE d == m \div BlockSize
           s == m % BlockSize
<1>4. (BlockSize * q) + r = (BlockSize * d) + s BY <1>2
<1> HIDE DEF m, d, s
<1>5. BlockSize * (q - d) = s - r
  BY <1>1, <1>3, <1>4 DEF d, s
<1> QED BY <1>1, <1>3, <1>5 DEF m, d, s

\* The length of the pad is a byte between 1 and the size of a block, and it
\* completes the last block (pkcs7Pad).
LEMMA PadLength ==
  ASSUME NEW n \in Nat
  PROVE  LET pad == BlockSize - (n % BlockSize)
         IN  /\ pad \in 1..BlockSize /\ pad % 256 = pad
             /\ (n + pad) % BlockSize = 0
<1> DEFINE pad == BlockSize - (n % BlockSize)
<1>1. n % BlockSize \in 0..(BlockSize - 1) BY BlockSizeAssumption, SMT
<1>2. pad \in 1..BlockSize /\ pad \in 1..255 BY <1>1, BlockSizeAssumption
<1>3. pad % 256 = pad BY <1>2
<1>4. (n + pad) % BlockSize = 0
  <2>1. n = (BlockSize * (n \div BlockSize)) + (n % BlockSize)
    BY BlockSizeAssumption, SMT
  <2>2. n \div BlockSize \in Int BY BlockSizeAssumption, SMT
  <2> DEFINE q == n \div BlockSize
  <2>3. n + pad = (BlockSize * q) + BlockSize BY <2>1, <2>2, <1>1, BlockSizeAssumption
  <2>4. (BlockSize * q) + BlockSize = BlockSize * (q + 1) BY <2>2, BlockSizeAssumption
  <2>5. (BlockSize * (q + 1)) % BlockSize = 0 BY <2>2, BlockSizeAssumption
  <2> QED BY <2>3, <2>4, <2>5
<1> QED BY <1>2, <1>3, <1>4

\* What pkcs7Pad returns: the text, then the pad, whole blocks in all.
LEMMA PadShape ==
  ASSUME NEW data \in Seq(Bytes)
  PROVE  LET pad == BlockSize - (Len(data) % BlockSize)
             padded == pkcs7Pad(data)
         IN  /\ padded \in Seq(Bytes)
             /\ Len(padded) = Len(data) + pad
             /\ \A i \in 1..Len(data) : padded[i] = data[i]
             /\ \A i \in Len(data) + 1 .. Len(data) + pad : padded[i] = pad
<1> DEFINE pad == BlockSize - (Len(data) % BlockSize)
           tail == Repeat(pad % 256, pad)
<1>1. Len(data) \in Nat BY LenProperties
<1>2. pad \in 1..BlockSize /\ pad % 256 = pad BY <1>1, PadLength
<1>0. pkcs7Pad(data) = data \o tail BY DEF pkcs7Pad
<1> HIDE DEF pad
<1>3. pad \in Bytes BY <1>2, BlockSizeAssumption DEF Bytes
<1>4. /\ tail \in Seq(Bytes) /\ Len(tail) = pad
      /\ \A i \in 1..pad : tail[i] = pad
  BY <1>2, <1>3, BlockSizeAssumption DEF Repeat
<1> HIDE DEF tail
<1>6. /\ data \o tail \in Seq(Bytes)
      /\ Len(data \o tail) = Len(data) + Len(tail)
      /\ \A i \in 1 .. Len(data) + Len(tail) :
           (data \o tail)[i] = IF i <= Len(data) THEN data[i] ELSE tail[i - Len(data)]
  BY <1>4, ConcatProperties
<1>7. \A i \in 1..Len(data) : (data \o tail)[i] = data[i]
  BY <1>1, <1>2, <1>4, <1>6, BlockSizeAssumption
<1>8. \A i \in Len(data) + 1 .. Len(data) + pad : (data \o tail)[i] = pad
  BY <1>1, <1>2, <1>4, <1>6, BlockSizeAssumption
<1> QED BY <1>0, <1>4, <1>6, <1>7, <1>8 DEF pad

\* A padded text passes the checks of pkcs7Unpad.
LEMMA PaddedIsWellPadded ==
  ASSUME NEW data \in Seq(Bytes)
  PROVE  WellPadded(pkcs7Pad(data))
<1> DEFINE pad == BlockSize - (Len(data) % BlockSize)
           padded == pkcs7Pad(data)
<1>1. Len(data) \in Nat BY LenProperties
<1>2. pad \in 1..BlockSize /\ (Len(data) + pad) % BlockSize = 0 BY <1>1, PadLength
<1>3. Len(padded) = Len(data) + pad BY PadShape
<1>4. \A i \in Len(data) + 1 .. Len(data) + pad : padded[i] = pad BY PadShape
<1> HIDE DEF pad, padded
<1>5. padded[Len(padded)] = pad BY <1>1, <1>2, <1>3, <1>4, BlockSizeAssumption
<1> QED BY <1>1, <1>2, <1>3, <1>4, <1>5, BlockSizeAssumption DEF WellPadded, padded

\* A field comes out of encryption and decryption as it went in, whatever its
\* length and whatever bytes it ends with (aesCBCEncrypt, aesCBCDecrypt).
THEOREM RoundTrip ==
  ASSUME NEW data \in Seq(Bytes)
  PROVE  Carried(data) = data
<1> DEFINE pad == BlockSize - (Len(data) % BlockSize)
           padded == pkcs7Pad(data)
           n == Len(data)
<1>1. n \in Nat /\ data \in Seq(Bytes) BY LenProperties
<1>2. pad \in 1..BlockSize BY <1>1, PadLength
<1>3. /\ padded \in Seq(Bytes)
      /\ Len(padded) = n + pad
      /\ \A i \in 1..n : padded[i] = data[i]
      /\ \A i \in n + 1 .. n + pad : padded[i] = pad
  BY PadShape
<1>4. WellPadded(padded) BY PaddedIsWellPadded
<1> HIDE DEF pad, padded, n
<1>5. padded[Len(padded)] = pad BY <1>1, <1>2, <1>3, BlockSizeAssumption
<1>6. Carried(data) = SubSeq(padded, 1, n)
  <2>1. Len(padded) - pad = n BY <1>1, <1>2, <1>3, BlockSizeAssumption
  <2> QED BY <1>4, <1>5, <2>1 DEF Carried, pkcs7Unpad, padded
<1>7. \A i \in 1..n : padded[i] \in Bytes BY <1>1, <1>3, ElementOfSeq DEF n
<1>8. /\ SubSeq(padded, 1, n) \in Seq(Bytes)
      /\ Len(SubSeq(padded, 1, n)) = IF 1 <= n THEN n - 1 + 1 ELSE 0
      /\ \A i \in 1 .. n - 1 + 1 : SubSeq(padded, 1, n)[i] = padded[1 + i - 1]
  BY <1>1, <1>7, SubSeqProperties
<1>9. Len(SubSeq(padded, 1, n)) = Len(data) BY <1>1, <1>8 DEF n
<1>10. \A i \in 1..Len(data) : SubSeq(padded, 1, n)[i] = data[i]
  BY <1>1, <1>3, <1>8 DEF n
<1>11. SubSeq(padded, 1, n) = data BY <1>1, <1>8, <1>9, <1>10, SeqEqual
<1> QED BY <1>6, <1>11

\* Different texts have different padded forms, so no two values a payer could
\* be shown travel as the same blocks (pkcs7Pad).
THEOREM PaddingIsInjective ==
  ASSUME NEW a \in Seq(Bytes), NEW b \in Seq(Bytes),
         pkcs7Pad(a) = pkcs7Pad(b)
  PROVE  a = b
BY RoundTrip DEF Carried

\* Padding is canonical: whatever pkcs7Unpad accepts is the padded form of what
\* it returns, so no two ciphertexts of a key decrypt to one value.
THEOREM UnpadIsCanonical ==
  ASSUME NEW blocks \in Seq(Bytes), WellPadded(blocks)
  PROVE  /\ pkcs7Unpad(blocks) \in Seq(Bytes)
         /\ pkcs7Pad(pkcs7Unpad(blocks)) = blocks
<1> DEFINE n == Len(blocks)
           p == blocks[n]
           text == SubSeq(blocks, 1, n - p)
<1>1. n \in Nat /\ blocks \in Seq(Bytes) BY LenProperties
<1>2. /\ n # 0 /\ n % BlockSize = 0 /\ p \in 1..BlockSize
      /\ \A i \in n - p + 1 .. n : blocks[i] = p
  BY DEF WellPadded
<1> HIDE DEF n, p, text
<1>3. n >= BlockSize
  <2>1. n < BlockSize => n % BlockSize = n BY <1>1, BlockSizeAssumption
  <2> QED BY <1>1, <1>2, <2>1, BlockSizeAssumption
<1>4. n - p \in Nat /\ n - p < n BY <1>1, <1>2, <1>3, BlockSizeAssumption
<1>5. \A i \in 1..n : blocks[i] \in Bytes BY <1>1, ElementOfSeq DEF n
<1>6. /\ text \in Seq(Bytes)
      /\ Len(text) = IF 1 <= n - p THEN (n - p) - 1 + 1 ELSE 0
      /\ \A i \in 1 .. (n - p) - 1 + 1 : text[i] = blocks[1 + i - 1]
  <2>1. \A i \in 1..(n - p) : blocks[i] \in Bytes BY <1>1, <1>4, <1>5
  <2> QED BY <1>4, <2>1, SubSeqProperties DEF text
<1>7. Len(text) = n - p BY <1>4, <1>6
<1>8. \A i \in 1..(n - p) : text[i] = blocks[i] BY <1>4, <1>6
<1>9. BlockSize - (Len(text) % BlockSize) = p
  <2>1. n = (BlockSize * (n \div BlockSize)) + (n % BlockSize)
    BY <1>1, BlockSizeAssumption
  <2>2. n \div BlockSize \in Int BY <1>1, BlockSizeAssumption
  <2> DEFINE q == n \div BlockSize
  <2> HIDE DEF q
  <2>3. n = BlockSize * q /\ q \in Int BY <1>1, <1>2, <2>1, <2>2, BlockSizeAssumption DEF q
  <2>4. n - p = (BlockSize * (q - 1)) + (BlockSize - p)
    BY <2>3, <1>2, BlockSizeAssumption
  <2>5. BlockSize - p \in 0..(BlockSize - 1) BY <1>2, BlockSizeAssumption
  <2>6. ((BlockSize * (q - 1)) + (BlockSize - p)) % BlockSize = BlockSize - p
    BY <2>3, <2>5, Remainder
  <2> QED BY <1>2, <1>7, <2>4, <2>6, BlockSizeAssumption
<1> DEFINE padded == pkcs7Pad(text)
<1>10. /\ padded \in Seq(Bytes)
       /\ Len(padded) = Len(text) + (BlockSize - (Len(text) % BlockSize))
       /\ \A i \in 1..Len(text) : padded[i] = text[i]
       /\ \A i \in Len(text) + 1 .. Len(text) + (BlockSize - (Len(text) % BlockSize)) :
            padded[i] = BlockSize - (Len(text) % BlockSize)
  BY <1>6, PadShape
<1> HIDE DEF padded
<1>11. Len(padded) = n /\ \A i \in (n - p) + 1 .. n : padded[i] = p
  BY <1>1, <1>2, <1>4, <1>7, <1>9, <1>10, BlockSizeAssumption
<1>12. \A i \in 1..n : padded[i] = blocks[i]
  BY <1>1, <1>2, <1>4, <1>7, <1>8, <1>10, <1>11, BlockSizeAssumption
<1>13. padded = blocks BY <1>1, <1>10, <1>11, <1>12, SeqEqual DEF n
<1>14. pkcs7Unpad(blocks) = text BY DEF pkcs7Unpad, text, n, p
<1> QED BY <1>6, <1>13, <1>14 DEF padded

=============================================================================
