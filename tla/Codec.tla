------------------------------- MODULE Codec --------------------------------
(***************************************************************************)
(* The wire format of a datagram: udpClient writes a loop id and           *)
(* GROUP_STOCK records of five 32-bit numbers, most significant byte       *)
(* first; my_callback and stock::decode read them back through a moving    *)
(* pointer.                                                                *)
(***************************************************************************)
EXTENDS Integers, Sequences

Int32 == {n \in Int : -2147483647 - 1 <= n /\ n <= 2147483647}

(* stock::writeInt and the four assignments of udpClient: a shift keeps    *)
(* the sign, the conversion to a byte keeps the low eight bits.            *)
writeInt(val) ==
  <<(val \div 16777216) % 256, (val \div 65536) % 256, (val \div 256) % 256,
    val % 256>>

(* The topmost bit of a byte as the sign.                                  *)
Signed(b) == IF b >= 128 THEN b - 256 ELSE b

(* Mutant: all bytes are read as signed.                                   *)
readSigned(b) ==
  Signed(b[1]) * 16777216 + Signed(b[2]) * 65536 + Signed(b[3]) * 256
    + Signed(b[4])

(* stock::readInt and the loop id in my_callback: the bytes are unsigned   *)
(* and do not overlap, and the topmost bit becomes the sign.               *)
readInt(b) ==
  Signed(b[1]) * 16777216 + b[2] * 65536 + b[3] * 256 + b[4]

(* stock::encode: 20 bytes.                                                *)
encode(r) ==
  writeInt(r[1]) \o writeInt(r[2]) \o writeInt(r[3]) \o writeInt(r[4])
    \o writeInt(r[5])

(* udpClient: the loop id, and record j copied to offset 20 * j + 4.       *)
datagram(loop, recs) ==
  [k \in 1 .. 4 + 20 * Len(recs) |->
     IF k <= 4 THEN writeInt(loop)[k]
     ELSE encode(recs[((k - 5) \div 20) + 1])[((k - 5) % 20) + 1]]

(* stock::decode of the 20 bytes behind the pointer.                       *)
decode(bytes, at) ==
  [f \in 1 .. 5 |-> readInt(SubSeq(bytes, at + 4 * f - 3, at + 4 * f))]
=============================================================================
