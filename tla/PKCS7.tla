------------------------------- MODULE PKCS7 --------------------------------
(***************************************************************************)
(* The padding both programs put around every field before AES-CBC and     *)
(* take off after it (src/server/crypto.go and src/client/crypto.go hold   *)
(* the same code).  Texts are sequences of bytes; AES itself is ideal: the *)
(* same key gives the padded blocks back.                                  *)
(***************************************************************************)
EXTENDS Integers, Sequences

CONSTANTS
  BlockSize,   \* aes.BlockSize in the code; a pad length must fit a byte
  Malformed    \* the error result of pkcs7Unpad

ASSUME BlockSizeAssumption == BlockSize \in 1..255

Bytes == 0..255
Repeat(b, n) == [i \in 1..n |-> b]

\* Slip: no extra block after a text of whole blocks.
MutPkcs7Pad(data) ==
  LET pad == (BlockSize - (Len(data) % BlockSize)) % BlockSize
  IN  data \o Repeat(pad % 256, pad)

\* byte(pad) keeps the lowest eight bits.
pkcs7Pad(data) ==
  LET pad == BlockSize - (Len(data) % BlockSize)
  IN  data \o Repeat(pad % 256, pad)

WellPadded(data) ==
  LET n == Len(data)
  IN  /\ n # 0 /\ n % BlockSize = 0
      /\ data[n] \in 1..BlockSize
      /\ \A i \in n - data[n] + 1 .. n : data[i] = data[n]

pkcs7Unpad(data) ==
  IF WellPadded(data) THEN SubSeq(data, 1, Len(data) - data[Len(data)])
                      ELSE Malformed

\* A field encrypted by one side and decrypted by the other under one key.
Carried(text) == pkcs7Unpad(pkcs7Pad(text))

=============================================================================
