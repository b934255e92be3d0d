--------------------------- MODULE DatagramProofs ---------------------------
(***************************************************************************)
(* A datagram from the client's numbers to the server's, for every number  *)
(* of records, every 32-bit number, every snapshot length that holds a     *)
(* datagram, and any number of frames: first the numbers (Codec), then the *)
(* lengths (FrameParse), then both together (Datagram).                    *)
(***************************************************************************)
EXTENDS Datagram, SequenceTheorems, TLAPS

(* readInt undoes writeInt, for negative numbers too (global.h, lines 97   *)
(* to 112): the digits of a number in base 256 add up to it again when the *)
(* topmost one is taken as signed.                                         *)
THEOREM IntRoundTrip ==
  ASSUME NEW v \in Int32
  PROVE  readInt(writeInt(v)) = v
<1>1. v \in Int /\ -2147483648 <= v /\ v <= 2147483647
  BY SMT DEF Int32
<1> DEFINE a == (v \div 16777216) % 256
           b == (v \div 65536) % 256
           c == (v \div 256) % 256
           d == v % 256
<1>2. v = 256 * (v \div 256) + d /\ d \in 0 .. 255 /\ v \div 256 \in Int
  BY <1>1, SMT
<1>3. /\ v \div 256 = 256 * (v \div 65536) + c
      /\ c \in 0 .. 255 /\ v \div 65536 \in Int
  BY <1>1, SMT
<1>4. /\ v \div 65536 = 256 * (v \div 16777216) + b
      /\ b \in 0 .. 255 /\ v \div 16777216 \in Int
  BY <1>1, SMT
<1>5. v \div 16777216 \in -128 .. 127
  BY <1>1, SMT
<1>6. Signed(a) = v \div 16777216
  BY <1>5, SMT DEF Signed
<1>7. writeInt(v) = <<a, b, c, d>>
  BY SMT DEF writeInt
<1> HIDE DEF a, b, c, d
<1>8. readInt(writeInt(v)) = Signed(a) * 16777216 + b * 65536 + c * 256 + d
  BY <1>7, SMT DEF readInt
<1> QED
  BY <1>1, <1>2, <1>3, <1>4, <1>5, <1>6, <1>8, SMT

-----------------------------------------------------------------------------
(* Where packet points and what capture_len counts before each check.      *)
Position ==
  CASE at = "idle"     -> TRUE
    [] at = "ethernet" -> packet = 0 /\ capture_len = caplen /\ i = 0
    [] at = "ip"       -> /\ packet = ETHER /\ i = 0
                          /\ capture_len >= 0
                          /\ packet + capture_len = caplen
    [] at = "options"  -> /\ packet = ETHER /\ i = 0
                          /\ capture_len >= 0
                          /\ packet + capture_len = caplen
    [] at = "udp"      -> /\ packet = ETHER + IP_header_length /\ i = 0
                          /\ capture_len >= 0
                          /\ packet + capture_len = caplen
    [] at = "payload"  -> /\ packet = ETHER + IP_header_length + UDP /\ i = 0
                          /\ capture_len >= UDP
                          /\ packet + capture_len - UDP = caplen
    [] at = "decode"   -> /\ file[1] = ETHER + IP_header_length + UDP
                          /\ file[2] >= 0
                          /\ file[1] + file[2] = caplen
                          /\ packet = file[1] + LOOP_ID + RECORD * i

(* A frame of the client is whole.                                         *)
ClientShape ==
  at # "idle" /\ frame.client => frame.ip_hl = 5 /\ caplen = CLIENT_LEN

IInv == TypeOK /\ Position /\ ClientShape

(* The frame in the slot is never longer than what the kernel captures.    *)
LEMMA CapturedBound ==
  ASSUME NEW len \in Nat
  PROVE  Captured(len) \in 0 .. SNAPLEN
  BY FrameAssumption DEF Captured

(* The last entry of a sequence belongs to its set.                        *)
LEMMA LastInSet ==
  ASSUME NEW S, NEW s \in Seq(S), s # << >>
  PROVE  s[Len(s)] \in S
  OBVIOUS

(* The captured length of the frame being parsed.                          *)
LEMMA CaplenRange ==
  ASSUME TypeOK, at # "idle"
  PROVE  caplen \in 0 .. SNAPLEN
<1>1. lens \in Seq(0 .. SNAPLEN) /\ lens # << >>
  BY DEF TypeOK
<1> QED
  BY <1>1, LastInSet, Zenon DEF caplen

(* A new frame is at the first check with its whole length to go.          *)
LEMMA ArriveKeeps ==
  ASSUME IInv, NEW len \in Nat, NEW f \in Frames, Arrive(len, f),
         f.client => f.ip_hl = 5 /\ len = CLIENT_LEN
  PROVE  IInv'
<1>1. Captured(len) \in 0 .. SNAPLEN
  BY CapturedBound
<1>2. /\ lens' \in Seq(0 .. SNAPLEN) /\ lens' # << >>
      /\ Len(lens') \in Nat /\ lens'[Len(lens')] = Captured(len)
  BY <1>1 DEF Arrive, IInv, TypeOK
<1>3. TypeOK'
  BY <1>1, <1>2, FrameAssumption DEF Arrive, TypeOK, IInv
<1>4. Position'
  BY <1>2 DEF Arrive, Position, caplen
<1>5. ClientShape'
  BY <1>2, FrameAssumption
     DEF Arrive, ClientShape, caplen, Captured, CLIENT_LEN, ETHER, IP, UDP,
         LOOP_ID, RECORD, MAX_IP
<1> QED
  BY <1>3, <1>4, <1>5 DEF IInv

(* Giving a frame up leaves nothing to track.                              *)
LEMMA RejectKeeps ==
  ASSUME IInv, Reject
  PROVE  IInv'
  BY DEF IInv, Reject, TypeOK, Position, ClientShape, caplen, Frames

(* The position is the same for every frame: each step of the callback     *)
(* keeps it.                                                               *)
LEMMA Inductive ==
  IInv /\ [Next]_vars => IInv'
<1> SUFFICES ASSUME IInv, [Next]_vars PROVE IInv'
  OBVIOUS
<1>0. /\ lens \in Seq(0 .. SNAPLEN) /\ Len(lens) \in Nat
      /\ capture_len \in Int /\ packet \in Nat
      /\ frame.ip_hl \in 0 .. 15 /\ IP_header_length \in 0 .. MAX_IP
      /\ at # "idle" => caplen \in 0 .. SNAPLEN
  <2>1. lens \in Seq(0 .. SNAPLEN) /\ Len(lens) \in Nat
    BY DEF IInv, TypeOK
  <2>2. frame \in Frames /\ capture_len \in Int /\ packet \in Nat
    BY DEF IInv, TypeOK
  <2>3. frame.ip_hl \in 0 .. 15
    BY <2>2 DEF Frames
  <2>4. IP_header_length \in 0 .. MAX_IP
    BY <2>3, SMT DEF IP_header_length, MAX_IP
  <2>5. at # "idle" => caplen \in 0 .. SNAPLEN
    BY CaplenRange DEF IInv
  <2> QED
    BY <2>1, <2>2, <2>3, <2>4, <2>5
<1>1. CASE ClientFrame
  <2>1. CLIENT_LEN \in Nat
    BY FrameAssumption DEF CLIENT_LEN, ETHER, IP, UDP, LOOP_ID, RECORD
  <2> DEFINE f == [ip_hl |-> 5, ip_p |-> "udp", client |-> TRUE]
  <2>2. f \in Frames /\ f.ip_hl = 5
    BY DEF Frames
  <2>3. Arrive(CLIENT_LEN, f)
    BY <1>1 DEF ClientFrame
  <2> HIDE DEF f
  <2> QED
    BY <2>1, <2>2, <2>3, ArriveKeeps
<1>2. CASE ForeignFrame
  <2> PICK len \in FOREIGN_LENS, hl \in 0 .. 15, p \in {"udp", "other"} :
        Arrive(len, [ip_hl |-> hl, ip_p |-> p, client |-> FALSE])
    BY <1>2 DEF ForeignFrame
  <2> DEFINE f == [ip_hl |-> hl, ip_p |-> p, client |-> FALSE]
  <2>1. len \in Nat
    BY FrameAssumption
  <2>2. f \in Frames /\ ~f.client
    BY DEF Frames
  <2>3. Arrive(len, f)
    OBVIOUS
  <2> HIDE DEF f
  <2> QED
    BY <2>1, <2>2, <2>3, ArriveKeeps
<1>3. CASE CheckEthernet
  <2>1. CASE Reject
    BY <2>1, RejectKeeps
  <2>2. CASE ~TooShort(ETHER) /\ Skip(ETHER, "ip")
    BY <1>0, <1>3, <2>2
       DEF IInv, TypeOK, Position, ClientShape, CheckEthernet, TooShort, Skip,
           caplen, ETHER
  <2> QED
    BY <1>3, <2>1, <2>2 DEF CheckEthernet
<1>4. CASE CheckIp
  <2>1. CASE Reject
    BY <2>1, RejectKeeps
  <2>2. CASE ~TooShort(IP) /\ Skip(0, "options")
    BY <1>0, <1>4, <2>2
       DEF IInv, TypeOK, Position, ClientShape, CheckIp, TooShort, Skip,
           caplen, ETHER
  <2> QED
    BY <1>4, <2>1, <2>2 DEF CheckIp
<1>5. CASE CheckOptions
  <2>1. CASE Reject
    BY <2>1, RejectKeeps
  <2>2. CASE ~TooShort(IP_header_length) /\ Skip(IP_header_length, "udp")
    <3>1. /\ at = "options" /\ at' = "udp"
          /\ UNCHANGED <<lens, frame, file, i, IP_header_length>>
          /\ packet' = packet + IP_header_length
          /\ capture_len' = capture_len - IP_header_length
      BY <1>5, <2>2 DEF CheckOptions, Skip, IP_header_length
    <3>0. /\ packet = ETHER /\ i = 0 /\ capture_len >= 0
          /\ packet + capture_len = caplen
      BY <3>1 DEF IInv, Position
    <3>2. capture_len >= IP_header_length
      BY <1>0, <2>2, <3>0 DEF TooShort, MAX_IP
    <3>3. TypeOK'
      BY <1>0, <3>1 DEF IInv, TypeOK, MAX_IP
    <3>4. Position'
      <4>1. caplen' = caplen
        BY <3>1 DEF caplen
      <4>2. /\ packet' = ETHER + IP_header_length'
            /\ capture_len' >= 0 /\ i' = 0
            /\ packet' + capture_len' = caplen'
        BY <1>0, <3>0, <3>1, <3>2, <4>1 DEF ETHER, MAX_IP
      <4> QED
        BY <3>1, <4>2 DEF Position
    <3>5. ClientShape'
      BY <3>1 DEF IInv, ClientShape, caplen
    <3> QED
      BY <3>3, <3>4, <3>5 DEF IInv
  <2> QED
    BY <1>5, <2>1, <2>2 DEF CheckOptions
<1>6. CASE CheckUdp
  <2>1. CASE Reject
    BY <2>1, RejectKeeps
  <2>2. CASE ~TooShort(UDP) /\ packet' = packet + UDP /\ at' = "payload"
             /\ UNCHANGED <<lens, frame, capture_len, file, i>>
    <3>1. /\ at = "udp" /\ at' = "payload"
          /\ UNCHANGED IP_header_length
      BY <1>6, <2>2 DEF CheckUdp, IP_header_length
    <3>2. capture_len >= UDP
      BY <1>0, <2>2, <3>1 DEF IInv, Position, TooShort, UDP
    <3>3. TypeOK'
      BY <1>0, <2>2, <3>1 DEF IInv, TypeOK, UDP
    <3>4. Position'
      BY <1>0, <2>2, <3>1, <3>2 DEF IInv, Position, caplen, ETHER, MAX_IP, UDP
    <3>5. ClientShape'
      BY <2>2, <3>1 DEF IInv, ClientShape, caplen
    <3> QED
      BY <3>3, <3>4, <3>5 DEF IInv
  <2> QED
    BY <1>6, <2>1, <2>2 DEF CheckUdp
<1>7. CASE Payload
  <2>1. /\ at = "payload" /\ at' \in {"idle", "decode"}
        /\ UNCHANGED <<lens, frame, capture_len, i, IP_header_length>>
        /\ file' = <<packet, capture_len - UDP>>
        /\ at' = "decode" => packet' = packet + LOOP_ID
        /\ packet' \in {packet, packet + LOOP_ID}
    BY <1>7 DEF Payload, IP_header_length
  <2>2. TypeOK'
    BY <1>0, <2>1 DEF IInv, TypeOK, UDP, LOOP_ID
  <2>3. Position'
    <3> SUFFICES ASSUME at' = "decode" PROVE Position'
      BY <2>1 DEF Position
    <3>1. /\ packet = ETHER + IP_header_length + UDP /\ i = 0
          /\ capture_len >= UDP /\ packet + capture_len - UDP = caplen
      BY <2>1 DEF IInv, Position
    <3>2. caplen' = caplen /\ RECORD * i = 0 /\ RECORD * i' = 0
      BY <2>1, <3>1 DEF caplen, RECORD
    <3> QED
      BY <1>0, <2>1, <3>1, <3>2 DEF Position, UDP, LOOP_ID, ETHER, MAX_IP
  <2>4. ClientShape'
    BY <2>1 DEF IInv, ClientShape, caplen
  <2> QED
    BY <2>2, <2>3, <2>4 DEF IInv
<1>8. CASE Decode
  <2>1. /\ at = "decode"
        /\ UNCHANGED <<lens, frame, capture_len, file, IP_header_length>>
        /\ \/ i < GROUP_STOCK /\ i' = i + 1 /\ packet' = packet + RECORD
              /\ at' = at
           \/ at' = "idle" /\ UNCHANGED <<i, packet>>
    BY <1>8 DEF Decode, IP_header_length
  <2>2. TypeOK'
    BY <1>0, <2>1, FrameAssumption DEF IInv, TypeOK, RECORD
  <2>3. Position'
    <3>1. i \in Nat /\ file[1] \in Nat
      BY FrameAssumption DEF IInv, TypeOK
    <3>2. CASE at' = "idle"
      BY <3>2 DEF Position
    <3>3. CASE i' = i + 1 /\ packet' = packet + RECORD /\ at' = "decode"
      <4>1. packet = file[1] + LOOP_ID + RECORD * i
        BY <2>1 DEF IInv, Position
      <4>2. packet' = file[1] + LOOP_ID + RECORD * i'
        BY <3>1, <3>3, <4>1 DEF LOOP_ID, RECORD
      <4>3. /\ file[1] = ETHER + IP_header_length + UDP
            /\ file[2] >= 0 /\ file[1] + file[2] = caplen
        BY <2>1 DEF IInv, Position
      <4>4. caplen' = caplen
        BY <2>1 DEF caplen
      <4> QED
        BY <2>1, <3>3, <4>2, <4>3, <4>4 DEF Position
    <3> QED
      BY <2>1, <3>2, <3>3
  <2>4. ClientShape'
    BY <2>1 DEF IInv, ClientShape, caplen
  <2> QED
    BY <2>2, <2>3, <2>4 DEF IInv
<1>9. CASE UNCHANGED vars
  BY <1>9
     DEF vars, IInv, TypeOK, Position, ClientShape, caplen, IP_header_length
<1> QED
  BY <1>1, <1>2, <1>3, <1>4, <1>5, <1>6, <1>7, <1>8, <1>9 DEF Next

(* The position is kept in every behaviour.                                *)
LEMMA Positions ==
  Spec => []IInv
<1>1. Init => IInv
  BY FrameAssumption DEF Init, IInv, TypeOK, Position, ClientShape, Frames
<1> QED
  BY <1>1, Inductive, PTL DEF Spec

(* capture_len is exact and never negative, so the unsigned comparisons    *)
(* decide as signed ones would.                                            *)
THEOREM LengthsTracked ==
  Spec => []LengthTracksPacket
<1>1. IInv => LengthTracksPacket
  <2> SUFFICES ASSUME IInv, at \in {"ethernet", "ip", "options", "udp"}
               PROVE  capture_len >= 0 /\ packet + capture_len = caplen
    BY DEF LengthTracksPacket
  <2>1. caplen \in Nat
    BY CaplenRange, FrameAssumption DEF IInv
  <2> HIDE DEF caplen
  <2>2. CASE at = "ethernet"
    BY <2>1, <2>2 DEF IInv, Position
  <2>3. CASE at = "ip"
    BY <2>3 DEF IInv, Position
  <2>4. CASE at = "options"
    BY <2>4 DEF IInv, Position
  <2>5. CASE at = "udp"
    BY <2>5 DEF IInv, Position
  <2> QED
    BY <2>2, <2>3, <2>4, <2>5
<1> QED
  BY <1>1, Positions, PTL

(* What goes into stocks.db is the captured payload to its end.            *)
THEOREM FilesCaptured ==
  Spec => []FileIsCaptured
<1>1. IInv => FileIsCaptured
  BY DEF IInv, Position, FileIsCaptured
<1> QED
  BY <1>1, Positions, PTL

(* No record is read outside the slot, whatever was captured.              *)
THEOREM DecodesInside ==
  Spec => []DecodeInsideSlot
<1>1. ASSUME IInv, at = "decode"
      PROVE  packet <= SLOT
  <2>1. frame.ip_hl \in 0 .. 15 /\ i \in 0 .. GROUP_STOCK
    BY <1>1 DEF IInv, TypeOK, Frames
  <2>2. packet = ETHER + IP_header_length + UDP + LOOP_ID + RECORD * i
    BY <1>1 DEF IInv, Position
  <2>3. IP_header_length \in 0 .. MAX_IP
    BY <2>1, SMT DEF IP_header_length, MAX_IP
  <2> QED
    BY <2>1, <2>2, <2>3, FrameAssumption
       DEF SLOT, ETHER, MAX_IP, UDP, LOOP_ID, RECORD
<1>2. IInv => DecodeInsideSlot
  BY <1>1 DEF DecodeInsideSlot
<1> QED
  BY <1>2, Positions, PTL

(* The last frame that covers a byte owns it.                              *)
LEMMA OwnerIsLast ==
  ASSUME NEW k \in Nat, Len(lens) \in Nat \ {0}, lens[Len(lens)] > k,
         lens \in Seq(0 .. SNAPLEN)
  PROVE  Owner(k) = Len(lens)
<1> DEFINE Q(n) == /\ n > 0 => lens[n] > k
                   /\ \A m \in n + 1 .. Len(lens) : lens[m] <= k
<1>1. Q(Len(lens))
  OBVIOUS
<1>2. ASSUME NEW n \in 0 .. Len(lens), Q(n)
      PROVE  n = Len(lens)
  <2>1. lens[Len(lens)] \in Int
    BY FrameAssumption
  <2>2. SUFFICES ASSUME n # Len(lens) PROVE FALSE
    OBVIOUS
  <2>3. Len(lens) \in n + 1 .. Len(lens)
    BY <2>2
  <2>4. lens[Len(lens)] <= k
    BY <1>2, <2>3
  <2> QED
    BY <2>1, <2>4
<1>3. \E n \in 0 .. Len(lens) : Q(n)
  BY <1>1
<1>4. Owner(k) \in 0 .. Len(lens) /\ Q(Owner(k))
  <2> HIDE DEF Q
  <2>1. Owner(k) = CHOOSE n \in 0 .. Len(lens) : Q(n)
    BY DEF Owner, Q
  <2> QED
    BY <1>3, <2>1
<1> QED
  BY <1>2, <1>4

(* The records of the client's datagrams are their own, for any history of *)
(* the slot.                                                               *)
THEOREM ClientRecordsKept ==
  Spec => []ClientRecordsOwn
<1>1. ASSUME IInv, at = "decode", frame.client
      PROVE  /\ \A k \in file[1] .. packet - 1 : Owner(k) = Len(lens)
             /\ packet = file[1] + LOOP_ID + RECORD * i
             /\ packet <= file[1] + file[2]
  <2>1. /\ lens \in Seq(0 .. SNAPLEN) /\ Len(lens) \in Nat \ {0}
        /\ packet \in Nat /\ i \in 0 .. GROUP_STOCK
        /\ file[1] \in Nat /\ file[2] \in Int
    BY <1>1 DEF IInv, TypeOK
  <2>2. /\ packet = file[1] + LOOP_ID + RECORD * i
        /\ file[1] + file[2] = caplen
        /\ file[1] = ETHER + 20 + UDP
        /\ caplen = CLIENT_LEN
    BY <1>1 DEF IInv, Position, ClientShape, IP_header_length
  <2>3. packet <= caplen
    BY <2>1, <2>2, FrameAssumption
       DEF CLIENT_LEN, ETHER, IP, UDP, LOOP_ID, RECORD
  <2>4. ASSUME NEW k \in file[1] .. packet - 1
        PROVE  Owner(k) = Len(lens)
    <3>1. k \in Nat /\ k < caplen
      <4>1. caplen \in Int
        BY <1>1, CaplenRange, FrameAssumption DEF IInv
      <4> QED
        BY <2>1, <2>3, <4>1
    <3> QED
      BY <2>1, <3>1, OwnerIsLast DEF caplen
  <2> QED
    BY <2>2, <2>3, <2>4
<1>2. IInv => ClientRecordsOwn
  BY <1>1 DEF ClientRecordsOwn
<1> QED
  BY <1>2, Positions, PTL

-----------------------------------------------------------------------------
(* Four bytes that are those of a number read as that number.              *)
LEMMA ReadBack ==
  ASSUME NEW v \in Int32, NEW b, \A n \in 1 .. 4 : b[n] = writeInt(v)[n]
  PROVE  readInt(b) = v
<1>1. /\ b[1] = writeInt(v)[1] /\ b[2] = writeInt(v)[2]
      /\ b[3] = writeInt(v)[3] /\ b[4] = writeInt(v)[4]
  OBVIOUS
<1>2. readInt(b) = readInt(writeInt(v))
  BY <1>1, SMT DEF readInt
<1> QED
  BY <1>2, IntRoundTrip

(* A number is four bytes.                                                 *)
LEMMA FourBytes ==
  ASSUME NEW v \in Int32
  PROVE  writeInt(v) \in Seq(Int) /\ Len(writeInt(v)) = 4
<1>1. v \in Int
  BY SMT DEF Int32
<1>2. /\ (v \div 16777216) % 256 \in Int /\ (v \div 65536) % 256 \in Int
      /\ (v \div 256) % 256 \in Int /\ v % 256 \in Int
  BY <1>1, SMT
<1> QED
  BY <1>2, SMT DEF writeInt

(* Appending the next four bytes leaves the ones before where they are.    *)
LEMMA NextField ==
  ASSUME NEW s \in Seq(Int), NEW v \in Int32, NEW m \in Nat, Len(s) = m
  PROVE  /\ s \o writeInt(v) \in Seq(Int) /\ Len(s \o writeInt(v)) = m + 4
         /\ \A k \in 1 .. m : (s \o writeInt(v))[k] = s[k]
         /\ \A n \in 1 .. 4 : (s \o writeInt(v))[m + n] = writeInt(v)[n]
<1> DEFINE w == writeInt(v)
<1>1. w \in Seq(Int) /\ Len(w) = 4
  BY FourBytes
<1> HIDE DEF w
<1>2. /\ s \o w \in Seq(Int) /\ Len(s \o w) = Len(s) + Len(w)
      /\ \A k \in 1 .. Len(s) + Len(w) :
           (s \o w)[k] = IF k <= Len(s) THEN s[k] ELSE w[k - Len(s)]
  BY <1>1, ConcatProperties, Zenon
<1>3. \A k \in 1 .. m : k \in 1 .. m + 4 /\ k <= m
  OBVIOUS
<1>4. \A n \in 1 .. 4 : /\ m + n \in 1 .. m + 4 /\ ~(m + n <= m)
                        /\ (m + n) - m = n
  OBVIOUS
<1>5. \A k \in 1 .. m : (s \o w)[k] = s[k]
  BY <1>1, <1>2, <1>3
<1>6. \A n \in 1 .. 4 : (s \o w)[m + n] = w[n]
  BY <1>1, <1>2, <1>4
<1> QED
  BY <1>1, <1>2, <1>5, <1>6 DEF w

(* stock::encode puts field f at offset 4 * (f - 1).                       *)
LEMMA EncodedFields ==
  ASSUME NEW r \in [1 .. 5 -> Int32]
  PROVE  /\ encode(r) \in Seq(Int) /\ Len(encode(r)) = 20
         /\ \A f \in 1 .. 5, n \in 1 .. 4 :
              encode(r)[4 * f - 4 + n] = writeInt(r[f])[n]
<1>0. /\ 4 \in Nat /\ 8 \in Nat /\ 12 \in Nat /\ 16 \in Nat
      /\ 4 + 4 = 8 /\ 8 + 4 = 12 /\ 12 + 4 = 16 /\ 16 + 4 = 20
  OBVIOUS
<1>1. /\ r[1] \in Int32 /\ r[2] \in Int32 /\ r[3] \in Int32
      /\ r[4] \in Int32 /\ r[5] \in Int32
  OBVIOUS
<1> DEFINE a == writeInt(r[1])
           b == a \o writeInt(r[2])
           c == b \o writeInt(r[3])
           d == c \o writeInt(r[4])
           e == d \o writeInt(r[5])
<1>2. a \in Seq(Int) /\ Len(a) = 4
  BY <1>1, FourBytes
<1> HIDE DEF a
<1>3. /\ b \in Seq(Int) /\ Len(b) = 8
      /\ \A k \in 1 .. 4 : b[k] = a[k]
      /\ \A n \in 1 .. 4 : b[4 + n] = writeInt(r[2])[n]
  BY <1>0, <1>1, <1>2, NextField, Zenon
<1> HIDE DEF b
<1>4. /\ c \in Seq(Int) /\ Len(c) = 12
      /\ \A k \in 1 .. 8 : c[k] = b[k]
      /\ \A n \in 1 .. 4 : c[8 + n] = writeInt(r[3])[n]
  <2>1. b \in Seq(Int) /\ Len(b) = 8 /\ 8 \in Nat /\ r[3] \in Int32
    BY <1>0, <1>1, <1>3
  <2> QED
    BY <1>0, <2>1, NextField, Zenon
<1> HIDE DEF c
<1>5. /\ d \in Seq(Int) /\ Len(d) = 16
      /\ \A k \in 1 .. 12 : d[k] = c[k]
      /\ \A n \in 1 .. 4 : d[12 + n] = writeInt(r[4])[n]
  <2>1. c \in Seq(Int) /\ Len(c) = 12 /\ 12 \in Nat /\ r[4] \in Int32
    BY <1>0, <1>1, <1>4
  <2> QED
    BY <1>0, <2>1, NextField, Zenon
<1> HIDE DEF d
<1>6. /\ e \in Seq(Int) /\ Len(e) = 20
      /\ \A k \in 1 .. 16 : e[k] = d[k]
      /\ \A n \in 1 .. 4 : e[16 + n] = writeInt(r[5])[n]
  <2>1. d \in Seq(Int) /\ Len(d) = 16 /\ 16 \in Nat /\ r[5] \in Int32
    BY <1>0, <1>1, <1>5
  <2> QED
    BY <1>0, <2>1, NextField, Zenon
<1> HIDE DEF e
<1>7. encode(r) = e
  BY Zenon DEF encode, a, b, c, d, e
<1>8. ASSUME NEW n \in 1 .. 4
      PROVE  /\ e[n] = writeInt(r[1])[n] /\ e[4 + n] = writeInt(r[2])[n]
             /\ e[8 + n] = writeInt(r[3])[n] /\ e[12 + n] = writeInt(r[4])[n]
             /\ e[16 + n] = writeInt(r[5])[n]
  <2>1. /\ n \in 1 .. 8 /\ n \in 1 .. 12 /\ n \in 1 .. 16
        /\ 4 + n \in 1 .. 8 /\ 4 + n \in 1 .. 12 /\ 4 + n \in 1 .. 16
        /\ 8 + n \in 1 .. 12 /\ 8 + n \in 1 .. 16 /\ 12 + n \in 1 .. 16
    OBVIOUS
  <2>2. e[16 + n] = writeInt(r[5])[n]
    BY <1>6, Zenon
  <2>3. e[12 + n] = d[12 + n] /\ d[12 + n] = writeInt(r[4])[n]
    BY <1>5, <1>6, <2>1, Zenon
  <2>4. /\ e[8 + n] = d[8 + n] /\ d[8 + n] = c[8 + n]
        /\ c[8 + n] = writeInt(r[3])[n]
    BY <1>4, <1>5, <1>6, <2>1, Zenon
  <2>5. /\ e[4 + n] = d[4 + n] /\ d[4 + n] = c[4 + n] /\ c[4 + n] = b[4 + n]
        /\ b[4 + n] = writeInt(r[2])[n]
    BY <1>3, <1>4, <1>5, <1>6, <2>1, Zenon
  <2>6. e[n] = d[n] /\ d[n] = c[n] /\ c[n] = b[n] /\ b[n] = a[n]
    BY <1>3, <1>4, <1>5, <1>6, <2>1, Zenon
  <2> QED
    BY <2>2, <2>3, <2>4, <2>5, <2>6, Zenon DEF a
<1>9. ASSUME NEW f \in 1 .. 5, NEW n \in 1 .. 4
      PROVE  e[4 * f - 4 + n] = writeInt(r[f])[n]
  <2>1. f = 1 \/ f = 2 \/ f = 3 \/ f = 4 \/ f = 5
    OBVIOUS
  <2>2. /\ 4 * 1 - 4 + n = n /\ 4 * 2 - 4 + n = 4 + n
        /\ 4 * 3 - 4 + n = 8 + n /\ 4 * 4 - 4 + n = 12 + n
        /\ 4 * 5 - 4 + n = 16 + n
    OBVIOUS
  <2>3. /\ e[n] = writeInt(r[1])[n] /\ e[4 + n] = writeInt(r[2])[n]
        /\ e[8 + n] = writeInt(r[3])[n] /\ e[12 + n] = writeInt(r[4])[n]
        /\ e[16 + n] = writeInt(r[5])[n]
    BY <1>8, Zenon
  <2>4. CASE f = 1
    BY <2>2, <2>3, <2>4, Zenon
  <2>5. CASE f = 2
    BY <2>2, <2>3, <2>5, Zenon
  <2>6. CASE f = 3
    BY <2>2, <2>3, <2>6, Zenon
  <2>7. CASE f = 4
    BY <2>2, <2>3, <2>7, Zenon
  <2>8. CASE f = 5
    BY <2>2, <2>3, <2>8, Zenon
  <2> QED
    BY <2>1, <2>4, <2>5, <2>6, <2>7, <2>8, Zenon
<1> QED
  BY <1>6, <1>7, <1>9

(* udpClient's datagram: the loop id, and field f of record k at offset    *)
(* 4 + 20 * (k - 1) + 4 * (f - 1).                                         *)
LEMMA DatagramFields ==
  ASSUME NEW loop \in Int32, NEW G \in Nat,
         NEW recs \in [1 .. G -> [1 .. 5 -> Int32]]
  PROVE  /\ datagram(loop, recs) \in Seq(Int)
         /\ Len(datagram(loop, recs)) = 4 + 20 * G
         /\ \A n \in 1 .. 4 : datagram(loop, recs)[n] = writeInt(loop)[n]
         /\ \A k \in 1 .. G, f \in 1 .. 5, n \in 1 .. 4 :
              datagram(loop, recs)[4 + 20 * (k - 1) + 4 * f - 4 + n]
                = writeInt(recs[k][f])[n]
<1> DEFINE g == datagram(loop, recs)
           S == [1 .. 5 -> Int32]
           byte(k) == IF k <= 4 THEN writeInt(loop)[k]
                      ELSE encode(recs[((k - 5) \div 20) + 1])
                                 [((k - 5) % 20) + 1]
<1>1. Len(recs) = G
  <2> HIDE DEF S
  <2>1. recs \in Seq(S)
    BY DEF S
  <2> QED
    BY <2>1, LenProperties
<1>2. g = [k \in 1 .. 4 + 20 * G |-> byte(k)]
  BY <1>1, Zenon DEF datagram
<1> HIDE DEF g
<1>3. ASSUME NEW k \in 1 .. 4 + 20 * G, k > 4
      PROVE  /\ ((k - 5) \div 20) + 1 \in 1 .. G
             /\ ((k - 5) % 20) + 1 \in 1 .. 20
  BY <1>3
<1>4. ASSUME NEW s \in Seq(Int), NEW n \in 1 .. Len(s)
      PROVE  s[n] \in Int
  BY ElementOfSeq, Zenon
<1>5. ASSUME NEW k \in 1 .. 4 + 20 * G
      PROVE  byte(k) \in Int
  <2>1. CASE k <= 4
    <3>1. k \in 1 .. 4
      BY <2>1
    <3>2. writeInt(loop)[k] \in Int
      BY <1>4, <3>1, FourBytes
    <3> QED
      BY <2>1, <3>2, Zenon
  <2>2. CASE ~(k <= 4)
    <3> DEFINE q == ((k - 5) \div 20) + 1
               m == ((k - 5) % 20) + 1
    <3>1. q \in 1 .. G /\ m \in 1 .. 20
      BY <1>3, <2>2
    <3> HIDE DEF q, m
    <3>2. encode(recs[q]) \in Seq(Int) /\ Len(encode(recs[q])) = 20
      BY <3>1, EncodedFields
    <3>3. encode(recs[q])[m] \in Int
      BY <1>4, <3>1, <3>2, Zenon
    <3> QED
      BY <2>2, <3>3, Zenon DEF q, m
  <2> QED
    BY <2>1, <2>2
<1>6. g \in Seq(Int) /\ Len(g) = 4 + 20 * G
  <2> HIDE DEF byte
  <2>1. g \in [1 .. 4 + 20 * G -> Int]
    BY <1>2, <1>5
  <2>2. 4 + 20 * G \in Nat
    OBVIOUS
  <2>3. g \in Seq(Int)
    BY <2>1, <2>2
  <2> QED
    BY <2>1, <2>2, <2>3, LenProperties
<1>7. ASSUME NEW n \in 1 .. 4
      PROVE  g[n] = writeInt(loop)[n]
  <2>1. n \in 1 .. 4 + 20 * G /\ n <= 4
    OBVIOUS
  <2> QED
    BY <1>2, <2>1, Zenon
<1>8. ASSUME NEW k \in 1 .. G, NEW f \in 1 .. 5, NEW n \in 1 .. 4
      PROVE  g[4 + 20 * (k - 1) + 4 * f - 4 + n] = writeInt(recs[k][f])[n]
  <2> DEFINE x == 4 + 20 * (k - 1) + 4 * f - 4 + n
             y == 4 * f - 4 + n
  <2>1. y \in 1 .. 20 /\ x = 4 + 20 * (k - 1) + y
    OBVIOUS
  <2> HIDE DEF x, y
  <2> DEFINE j == k - 1
             z == y - 1
  <2>2. j \in 0 .. G - 1 /\ z \in 0 .. 19 /\ x - 5 = 20 * j + z /\ x \in Int
    BY <2>1
  <2>3. j + 1 = k /\ z + 1 = y
    BY <2>1
  <2> HIDE DEF j, z
  <2>4. x \in 1 .. 4 + 20 * G /\ ~(x <= 4)
    BY <2>2
  <2>5. (20 * j + z) \div 20 = j /\ (20 * j + z) % 20 = z
    BY <2>2
  <2>6. /\ x \in 1 .. 4 + 20 * G /\ ~(x <= 4)
        /\ ((x - 5) \div 20) + 1 = k /\ ((x - 5) % 20) + 1 = y
    BY <2>2, <2>3, <2>4, <2>5, Zenon
  <2>7. g[x] = encode(recs[k])[y]
    BY <1>2, <2>6, Zenon
  <2>8. encode(recs[k])[y] = writeInt(recs[k][f])[n]
    <3>1. recs[k] \in [1 .. 5 -> Int32]
      OBVIOUS
    <3> QED
      BY <3>1, EncodedFields, Zenon DEF y
  <2> QED
    BY <2>7, <2>8, Zenon DEF x
<1> QED
  BY <1>6, <1>7, <1>8, Zenon DEF g

(* What fwrite takes: n bytes behind byte a.                               *)
LEMMA Slice ==
  ASSUME NEW s \in Seq(Int), NEW a \in Nat, NEW n \in Nat, a + n <= Len(s)
  PROVE  /\ SubSeq(s, a + 1, a + n) \in Seq(Int)
         /\ Len(SubSeq(s, a + 1, a + n)) = n
         /\ \A b \in 1 .. n : SubSeq(s, a + 1, a + n)[b] = s[a + b]
<1> DEFINE p == a + 1
           q == a + n
           t == SubSeq(s, p, q)
<1>1. p \in Int /\ q \in Int /\ q - p + 1 = n /\ n >= 0
  OBVIOUS
<1>2. \A k \in p .. q : s[k] \in Int
  <2>1. \A k \in p .. q : k \in 1 .. Len(s)
    BY LenProperties
  <2> QED
    BY <2>1, ElementOfSeq, Zenon
<1>3. /\ p <= q => n = q - p + 1
      /\ ~(p <= q) => n = 0
      /\ \A b \in 1 .. n : p + b - 1 = a + b
  OBVIOUS
<1>4. p \in Int /\ q \in Int
  BY <1>1
<1> HIDE DEF p, q
<1>5. /\ t \in Seq(Int)
      /\ Len(t) = IF p <= q THEN q - p + 1 ELSE 0
      /\ \A b \in 1 .. q - p + 1 : t[b] = s[p + b - 1]
  <2>1. t \in Seq(Int)
    BY <1>2, <1>4, SubSeqProperties
  <2>2. Len(t) = IF p <= q THEN q - p + 1 ELSE 0
    BY <1>2, <1>4, SubSeqProperties
  <2>3. \A b \in 1 .. q - p + 1 : t[b] = s[p + b - 1]
    BY <1>2, <1>4, SubSeqProperties
  <2> QED
    BY <2>1, <2>2, <2>3
<1> HIDE DEF t
<1>6. Len(t) = n
  BY <1>3, <1>5, SMT
<1>7. \A b \in 1 .. n : t[b] = s[a + b]
  BY <1>1, <1>3, <1>5, Zenon
<1> QED
  BY <1>5, <1>6, <1>7, Zenon DEF t, p, q

(* A number whose four bytes lie behind byte p of a sequence is read from  *)
(* there, as my_callback and stock::decode do.                             *)
LEMMA ReadAt ==
  ASSUME NEW bytes \in Seq(Int), NEW p \in Nat, NEW q \in Nat, q = p + 4,
         q <= Len(bytes), NEW v \in Int32,
         \A n \in 1 .. 4 : bytes[p + n] = writeInt(v)[n]
  PROVE  readInt(SubSeq(bytes, p + 1, q)) = v
<1> DEFINE b == SubSeq(bytes, p + 1, q)
<1>1. \A n \in 1 .. 4 : b[n] = bytes[p + n]
  <2>1. /\ p + 1 \in 1 .. q + 1 /\ q \in p + 1 - 1 .. Len(bytes)
        /\ q - (p + 1) + 1 = 4
    BY LenProperties
  <2> QED
    BY <2>1
<1> HIDE DEF b
<1>2. \A n \in 1 .. 4 : b[n] = writeInt(v)[n]
  BY <1>1
<1> QED
  BY <1>2, ReadBack, Zenon DEF b

(* Every field lies inside the datagram.                                   *)
LEMMA FieldOffset ==
  ASSUME NEW base \in Nat, NEW G \in Nat, NEW k \in 1 .. G, NEW f \in 1 .. 5
  PROVE  LET p == base + 4 + 20 * (k - 1) + 4 * f - 4
             q == base + 4 + 20 * (k - 1) + 4 * f
             c == 4 + 20 * (k - 1) + 4 * f - 4
         IN  /\ p \in Nat /\ q \in Nat /\ q = p + 4
             /\ p + 1 = base + 4 + 20 * (k - 1) + 4 * f - 3
             /\ q <= base + 4 + 20 * G
             /\ p = base + c /\ c \in Nat /\ c + 4 <= 4 + 20 * G
<1> DEFINE t == 20 * (k - 1)
<1>1. t \in Nat /\ t + 20 <= 20 * G
  OBVIOUS
<1>2. 20 * G \in Nat
  OBVIOUS
<1> HIDE DEF t
<1>3. ASSUME NEW u \in Nat, t + 20 <= u
      PROVE  LET p == base + 4 + t + 4 * f - 4
                 q == base + 4 + t + 4 * f
                 c == 4 + t + 4 * f - 4
             IN  /\ p \in Nat /\ q \in Nat /\ q = p + 4
                 /\ p + 1 = base + 4 + t + 4 * f - 3
                 /\ q <= base + 4 + u
                 /\ p = base + c /\ c \in Nat /\ c + 4 <= 4 + u
  BY <1>1, <1>3
<1> QED
  BY <1>1, <1>2, <1>3, Zenon DEF t

(* Bytes that are those of a datagram decode to its numbers.               *)
LEMMA Decoded ==
  ASSUME NEW loop \in Int32, NEW G \in Nat,
         NEW recs \in [1 .. G -> [1 .. 5 -> Int32]],
         NEW bytes \in Seq(Int), NEW base \in Nat,
         base + 4 + 20 * G <= Len(bytes),
         \A b \in 1 .. 4 + 20 * G : bytes[base + b] = datagram(loop, recs)[b]
  PROVE  /\ readInt(SubSeq(bytes, base + 1, base + 4)) = loop
         /\ \A k \in 1 .. G :
              decode(bytes, base + 4 + 20 * (k - 1)) = recs[k]
<1> DEFINE g == datagram(loop, recs)
<1>0. Len(bytes) \in Nat
  BY LenProperties
<1>1. /\ \A n \in 1 .. 4 : g[n] = writeInt(loop)[n]
      /\ \A k \in 1 .. G, f \in 1 .. 5, n \in 1 .. 4 :
           g[4 + 20 * (k - 1) + 4 * f - 4 + n] = writeInt(recs[k][f])[n]
  BY DatagramFields
<1> HIDE DEF g
<1>2. readInt(SubSeq(bytes, base + 1, base + 4)) = loop
  <2>1. /\ base + 4 \in Nat /\ base + 4 <= Len(bytes)
        /\ \A n \in 1 .. 4 : n \in 1 .. 4 + 20 * G
    BY <1>0
  <2>2. \A n \in 1 .. 4 : bytes[base + n] = writeInt(loop)[n]
    BY <1>1, <2>1, Zenon DEF g
  <2> QED
    BY <2>1, <2>2, ReadAt
<1>3. ASSUME NEW k \in 1 .. G, NEW f \in 1 .. 5
      PROVE  readInt(SubSeq(bytes, base + 4 + 20 * (k - 1) + 4 * f - 3,
                            base + 4 + 20 * (k - 1) + 4 * f)) = recs[k][f]
  <2> DEFINE p == base + 4 + 20 * (k - 1) + 4 * f - 4
             q == base + 4 + 20 * (k - 1) + 4 * f
             c == 4 + 20 * (k - 1) + 4 * f - 4
  <2>1. /\ p \in Nat /\ q \in Nat /\ q = p + 4
        /\ p + 1 = base + 4 + 20 * (k - 1) + 4 * f - 3
        /\ q <= base + 4 + 20 * G
        /\ p = base + c /\ c \in Nat /\ c + 4 <= 4 + 20 * G
    BY FieldOffset
  <2> HIDE DEF p, q, c
  <2>2. /\ q <= Len(bytes)
        /\ \A n \in 1 .. 4 : /\ p + n = base + (c + n)
                              /\ c + n \in 1 .. 4 + 20 * G
    BY <1>0, <2>1
  <2>3. \A n \in 1 .. 4 : g[c + n] = writeInt(recs[k][f])[n]
    BY <1>1, Zenon DEF c
  <2>4. \A n \in 1 .. 4 : bytes[p + n] = writeInt(recs[k][f])[n]
    BY <2>2, <2>3, Zenon DEF g
  <2>5. recs[k][f] \in Int32
    OBVIOUS
  <2>6. readInt(SubSeq(bytes, p + 1, q)) = recs[k][f]
    <3>1. p \in Nat /\ q \in Nat /\ q = p + 4 /\ q <= Len(bytes)
      BY <2>1, <2>2
    <3>2. \A v \in Int32 :
            (\A n \in 1 .. 4 : bytes[p + n] = writeInt(v)[n])
              => readInt(SubSeq(bytes, p + 1, q)) = v
      BY <3>1, ReadAt, ZenonT(60)
    <3> QED
      BY <3>2, <2>4, <2>5, ZenonT(60)
  <2> QED
    BY <2>1, <2>6, Zenon DEF q
<1>4. ASSUME NEW k \in 1 .. G
      PROVE  decode(bytes, base + 4 + 20 * (k - 1)) = recs[k]
  <2> DEFINE dd == decode(bytes, base + 4 + 20 * (k - 1))
  <2>1. dd = [f \in 1 .. 5 |-> recs[k][f]]
    BY <1>3, Zenon DEF decode
  <2>2. recs[k] \in [1 .. 5 -> Int32]
    OBVIOUS
  <2>3. recs[k] = [f \in 1 .. 5 |-> recs[k][f]]
    BY <2>2
  <2> QED
    BY <2>1, <2>3, Zenon
<1> QED
  BY <1>2, <1>4

-----------------------------------------------------------------------------
(* The bytes of a payload of the client.                                   *)
Length == LOOP_ID + RECORD * GROUP_STOCK

(* From its arrival on, a client's datagram lies behind the headers of its *)
(* frame.                                                                  *)
WireInv ==
  at # "idle" /\ frame.client =>
    /\ sent \in Datagrams
    /\ \A b \in 1 .. Length :
         slot[HEADERS + b] = datagram(sent.loop, sent.recs)[b]

(* What the callback has found in it so far.                               *)
FoundInv ==
  /\ at \notin {"idle", "decode"} => stocks = << >>
  /\ at = "decode" /\ frame.client =>
       /\ loop_id = sent.loop
       /\ stocks \in [1 .. i -> [1 .. 5 -> Int32]]
       /\ \A k \in 1 .. i : stocks[k] = sent.recs[k]

DatagramInv ==
  /\ IInv
  /\ slot \in [1 .. SLOT -> Int]
  /\ WireInv
  /\ FoundInv

(* The parser of Datagram is that of FrameParse.                           *)
LEMMA ParserSteps ==
  [DatagramNext]_datagramvars => [Next]_vars
  BY DEF DatagramNext, datagramvars, Next, ClientSends, ForeignSends,
         CheckHeaders, ReadLoopId, DecodeRecord

(* What the client sends has the form of udpClient's records.              *)
LEMMA SentForm ==
  ASSUME NEW d \in Datagrams
  PROVE  d.loop \in Int32 /\ d.recs \in [1 .. GROUP_STOCK -> [1 .. 5 -> Int32]]
  BY DatagramsAssumption

(* A slot that holds a client's datagram behind HEADERS bytes decodes to   *)
(* it: in memory, and after fwrite in the file.                            *)
LEMMA SlotDecodes ==
  ASSUME DatagramInv, at # "idle", frame.client
  PROVE  /\ readInt(SubSeq(slot, HEADERS + 1, HEADERS + 4)) = sent.loop
         /\ \A k \in 1 .. GROUP_STOCK :
              decode(slot, HEADERS + 4 + 20 * (k - 1)) = sent.recs[k]
<1>1. sent \in Datagrams
  BY DEF DatagramInv, WireInv
<1>2. /\ sent.loop \in Int32
      /\ sent.recs \in [1 .. GROUP_STOCK -> [1 .. 5 -> Int32]]
  BY <1>1, SentForm
<1>3. /\ slot \in Seq(Int) /\ Len(slot) = SLOT
      /\ HEADERS \in Nat /\ HEADERS + 4 + 20 * GROUP_STOCK <= SLOT
      /\ GROUP_STOCK \in Nat
  BY FrameAssumption
     DEF DatagramInv, SLOT, HEADERS, ETHER, IP, UDP, MAX_IP, LOOP_ID, RECORD
<1>4. \A b \in 1 .. 4 + 20 * GROUP_STOCK :
        slot[HEADERS + b] = datagram(sent.loop, sent.recs)[b]
  BY DEF DatagramInv, WireInv, Length, LOOP_ID, RECORD
<1> QED
  BY <1>2, <1>3, <1>4, Decoded

(* A new datagram lies whole in the slot, whatever was there before.       *)
LEMMA SendKeeps ==
  ASSUME DatagramInv, IInv', NEW d \in Datagrams, ClientSends(d)
  PROVE  DatagramInv'
<1> DEFINE g == datagram(d.loop, d.recs)
           h == [k \in 1 .. HEADERS |-> JUNK]
<1>1. /\ GROUP_STOCK \in Nat /\ SLOT \in Nat /\ Length \in Nat
      /\ HEADERS = 42 /\ CLIENT_LEN = HEADERS + Length
      /\ Length = 4 + 20 * GROUP_STOCK /\ CLIENT_LEN <= SLOT
  BY FrameAssumption
     DEF SLOT, HEADERS, ETHER, IP, UDP, MAX_IP, LOOP_ID, RECORD, CLIENT_LEN,
         Length
<1>2. g \in Seq(Int) /\ Len(g) = Length
  BY <1>1, SentForm, DatagramFields
<1>3. h \in Seq(Int) /\ Len(h) = 42
  BY <1>1 DEF JUNK
<1> HIDE DEF g, h
<1>4. /\ h \o g \in Seq(Int) /\ Len(h \o g) = Len(h) + Len(g)
      /\ \A k \in 1 .. Len(h) + Len(g) :
           (h \o g)[k] = IF k <= Len(h) THEN h[k] ELSE g[k - Len(h)]
  BY <1>2, <1>3, ConcatProperties, Zenon
<1>5. at' = "ethernet" /\ frame'.client /\ caplen' = CLIENT_LEN
  <2>1. at' = "ethernet" /\ frame'.client
    BY DEF ClientSends, ClientFrame, Arrive
  <2> QED
    BY <2>1 DEF IInv, ClientShape
<1>6. slot' = [k \in 1 .. SLOT |-> IF k <= CLIENT_LEN THEN (h \o g)[k]
                                                      ELSE slot[k]]
  BY <1>5, Zenon DEF ClientSends, Overwritten, h, g
<1>7. slot' \in [1 .. SLOT -> Int]
  <2>1. ASSUME NEW k \in 1 .. SLOT, k <= CLIENT_LEN
        PROVE  (h \o g)[k] \in Int
    <3>1. k \in 1 .. Len(h \o g)
      BY <1>1, <1>2, <1>3, <1>4, <2>1
    <3> QED
      BY <1>4, <3>1, ElementOfSeq, Zenon
  <2>2. slot \in [1 .. SLOT -> Int]
    BY DEF DatagramInv
  <2> QED
    BY <1>6, <2>1, <2>2
<1>8. ASSUME NEW b \in 1 .. Length
      PROVE  slot'[HEADERS + b] = g[b]
  <2> DEFINE k == 42 + b
  <2>1. /\ k \in 1 .. SLOT /\ k <= CLIENT_LEN /\ k \in 1 .. 42 + Length
        /\ ~(k <= 42) /\ k - 42 = b
    BY <1>1
  <2> HIDE DEF k
  <2>2. slot'[k] = (h \o g)[k]
    BY <1>6, <2>1, Zenon
  <2>3. (h \o g)[k] = g[b]
    BY <1>2, <1>3, <1>4, <2>1, Zenon
  <2> QED
    BY <1>1, <2>2, <2>3 DEF k
<1>9. sent' = d /\ stocks' = << >>
  BY DEF ClientSends
<1>10. WireInv'
  BY <1>8, <1>9, Zenon DEF WireInv, g
<1>11. FoundInv'
  BY <1>5, <1>9 DEF FoundInv
<1> QED
  BY <1>7, <1>10, <1>11 DEF DatagramInv

(* Every step of the callback keeps what it found true to the datagram.    *)
LEMMA DatagramInductive ==
  DatagramInv /\ [DatagramNext]_datagramvars => DatagramInv'
<1> SUFFICES ASSUME DatagramInv, [DatagramNext]_datagramvars
             PROVE  DatagramInv'
  OBVIOUS
<1>0. IInv'
  BY ParserSteps, Inductive DEF DatagramInv
<1>1. ASSUME NEW d \in Datagrams, ClientSends(d)
      PROVE  DatagramInv'
  BY <1>0, <1>1, SendKeeps
<1>2. CASE ForeignSends
  <2>1. at' = "ethernet" /\ ~frame'.client /\ stocks' = << >>
    BY <1>2 DEF ForeignSends, ForeignFrame, Arrive
  <2>2. slot' = [k \in 1 .. SLOT |->
                   IF k <= caplen' THEN [n \in 1 .. SLOT |-> JUNK][k]
                                   ELSE slot[k]]
    BY <1>2, Zenon DEF ForeignSends, Overwritten
  <2>3. slot' \in [1 .. SLOT -> Int]
    BY <2>2 DEF DatagramInv, JUNK
  <2>4. WireInv' /\ FoundInv'
    BY <2>1 DEF WireInv, FoundInv
  <2> QED
    BY <1>0, <2>3, <2>4 DEF DatagramInv
<1>3. CASE CheckHeaders
  <2>1. /\ at \notin {"idle", "decode"} /\ at' # "decode"
        /\ UNCHANGED <<sent, slot, loop_id, stocks, frame>>
    BY <1>3 DEF CheckHeaders, CheckEthernet, CheckIp, CheckOptions, CheckUdp,
                Reject, Skip, found
  <2>2. WireInv' /\ FoundInv'
    BY <2>1 DEF DatagramInv, WireInv, FoundInv
  <2> QED
    BY <1>0, <2>1, <2>2 DEF DatagramInv
<1>4. CASE ReadLoopId
  <2>1. /\ at = "payload" /\ at' \in {"idle", "decode"}
        /\ loop_id' = readInt(SubSeq(slot, packet + 1, packet + 4))
        /\ UNCHANGED <<sent, slot, stocks, frame, i>>
    BY <1>4 DEF ReadLoopId, Payload
  <2>2. i = 0 /\ stocks = << >>
    BY <2>1 DEF DatagramInv, IInv, Position, FoundInv
  <2>3. ASSUME frame.client PROVE loop_id' = sent.loop
    <3>1. packet = HEADERS
      BY <2>1, <2>3
         DEF DatagramInv, IInv, Position, ClientShape, IP_header_length,
             HEADERS, IP
    <3> QED
      BY <2>1, <2>3, <3>1, SlotDecodes
  <2>4. stocks' \in [1 .. i' -> [1 .. 5 -> Int32]]
    BY <2>1, <2>2
  <2>5. WireInv'
    BY <2>1 DEF DatagramInv, WireInv
  <2>6. FoundInv'
    BY <2>1, <2>2, <2>3, <2>4 DEF FoundInv
  <2> QED
    BY <1>0, <2>1, <2>5, <2>6 DEF DatagramInv
<1>5. CASE DecodeRecord
  <2>1. /\ at = "decode" /\ at' \in {"decode", "idle"}
        /\ UNCHANGED <<sent, slot, loop_id, frame>>
        /\ at' = "decode" => /\ i < GROUP_STOCK /\ i' = i + 1
                             /\ stocks' = Append(stocks, decode(slot, packet))
    BY <1>5 DEF DecodeRecord, Decode
  <2>2. WireInv'
    BY <2>1 DEF DatagramInv, WireInv
  <2>3. ASSUME at' = "decode", frame.client
        PROVE  /\ stocks' \in [1 .. i' -> [1 .. 5 -> Int32]]
               /\ \A k \in 1 .. i' : stocks'[k] = sent.recs[k]
    <3>1. /\ i \in Nat /\ i + 1 \in 1 .. GROUP_STOCK /\ i' = i + 1
          /\ GROUP_STOCK \in Nat
      BY <2>1, <2>3, FrameAssumption DEF DatagramInv, IInv, TypeOK
    <3>2. packet = HEADERS + 4 + 20 * ((i + 1) - 1)
      <4>1. packet = ETHER + IP + UDP + LOOP_ID + RECORD * i
        BY <2>1, <2>3
           DEF DatagramInv, IInv, Position, ClientShape, IP_header_length, IP
      <4> QED
        BY <3>1, <4>1 DEF HEADERS, ETHER, IP, UDP, LOOP_ID, RECORD
    <3>3. decode(slot, packet) = sent.recs[i + 1]
      BY <2>1, <2>3, <3>1, <3>2, SlotDecodes, Zenon
    <3>4. sent.recs[i + 1] \in [1 .. 5 -> Int32]
      BY <2>1, <2>3, <3>1, SentForm DEF DatagramInv, WireInv
    <3> DEFINE R == [1 .. 5 -> Int32]
               r == sent.recs[i + 1]
    <3>5. /\ stocks \in [1 .. i -> R] /\ r \in R
          /\ \A k \in 1 .. i : stocks[k] = sent.recs[k]
          /\ stocks' = Append(stocks, r)
      BY <2>1, <2>3, <3>3, <3>4 DEF DatagramInv, FoundInv
    <3> HIDE DEF R
    <3>6. stocks \in Seq(R) /\ Len(stocks) = i
      BY <3>1, <3>5
    <3>7. /\ stocks' \in [1 .. i + 1 -> R] /\ stocks'[i + 1] = r
          /\ \A k \in 1 .. i : stocks'[k] = stocks[k]
      <4> HIDE DEF r
      <4>1. /\ stocks' \in Seq(R) /\ Len(stocks') = i + 1
            /\ \A k \in 1 .. Len(stocks) : stocks'[k] = stocks[k]
            /\ stocks'[Len(stocks) + 1] = r
        <5>1. r \in R /\ stocks' = Append(stocks, r)
          BY <3>5
        <5> QED
          BY <3>6, <5>1, AppendProperties, Zenon
      <4>2. stocks' \in [1 .. Len(stocks') -> R]
        BY <4>1, LenProperties, Zenon
      <4> QED
        BY <3>6, <4>1, <4>2, Zenon
    <3>8. ASSUME NEW k \in 1 .. i + 1
          PROVE  stocks'[k] = sent.recs[k]
      <4>1. k \in 1 .. i \/ k = i + 1
        BY <3>1
      <4> QED
        BY <3>5, <3>7, <4>1
    <3> QED
      BY <3>1, <3>7, <3>8 DEF R
  <2>4. at = "decode" /\ frame.client => loop_id = sent.loop
    BY DEF DatagramInv, FoundInv
  <2>5. FoundInv'
    BY <2>1, <2>3, <2>4 DEF FoundInv
  <2> QED
    BY <1>0, <2>1, <2>2, <2>5 DEF DatagramInv
<1>6. CASE UNCHANGED datagramvars
  BY <1>0, <1>6
     DEF datagramvars, vars, found, DatagramInv, WireInv, FoundInv
<1> QED
  BY <1>1, <1>2, <1>3, <1>4, <1>5, <1>6 DEF DatagramNext

(* Every number of every datagram of the client arrives: in the callback's *)
(* records as in the bytes that go into stocks.db, for all numbers, all    *)
(* numbers of records, and whatever frames used the slot before.           *)
THEOREM NumbersArrive ==
  DatagramSpec => []RoundTrip
<1>1. DatagramInit => DatagramInv
  <2> SUFFICES ASSUME DatagramInit PROVE DatagramInv
    OBVIOUS
  <2>1. IInv
    BY FrameAssumption
       DEF DatagramInit, Init, IInv, TypeOK, Position, ClientShape, Frames
  <2>2. at = "idle" /\ slot \in [1 .. SLOT -> Int]
    BY DEF DatagramInit, Init
  <2> QED
    BY <2>1, <2>2 DEF DatagramInv, WireInv, FoundInv
<1>2. ASSUME DatagramInv, at = "decode", frame.client
      PROVE  LET saved == SubSeq(slot, file[1] + 1, file[1] + file[2])
             IN  /\ readInt(SubSeq(saved, 1, 4)) = sent.loop
                 /\ \A k \in 1 .. GROUP_STOCK :
                      decode(saved, LOOP_ID + RECORD * (k - 1)) = sent.recs[k]
  <2> DEFINE saved == SubSeq(slot, file[1] + 1, file[1] + file[2])
             n == 4 + 20 * GROUP_STOCK
  <2>1. sent \in Datagrams
    BY <1>2 DEF DatagramInv, WireInv
  <2>2. /\ sent.loop \in Int32
        /\ sent.recs \in [1 .. GROUP_STOCK -> [1 .. 5 -> Int32]]
    BY <2>1, SentForm
  <2>3. /\ file[1] = 42 /\ file[2] \in Int /\ file[1] + file[2] = 42 + n
        /\ GROUP_STOCK \in Nat
    <3>1. /\ file[1] = ETHER + IP_header_length + UDP
          /\ file[1] + file[2] = caplen
          /\ caplen = CLIENT_LEN /\ IP_header_length = 20
          /\ file[2] \in Int
      BY <1>2 DEF DatagramInv, IInv, TypeOK, Position, ClientShape,
                  IP_header_length
    <3> QED
      BY <3>1, FrameAssumption
         DEF CLIENT_LEN, ETHER, IP, UDP, LOOP_ID, RECORD
  <2>4. /\ slot \in Seq(Int) /\ Len(slot) = SLOT /\ SLOT \in Nat
        /\ n \in Nat /\ 42 + n <= SLOT
    BY <1>2, FrameAssumption
       DEF DatagramInv, SLOT, ETHER, IP, UDP, MAX_IP, LOOP_ID, RECORD
  <2>5. \A b \in 1 .. n :
          slot[42 + b] = datagram(sent.loop, sent.recs)[b]
    BY <1>2 DEF DatagramInv, WireInv, Length, LOOP_ID, RECORD, HEADERS, ETHER,
                IP, UDP
  <2> HIDE DEF n
  <2>6. saved = SubSeq(slot, 43, 42 + n)
    BY <2>3
  <2>7. /\ saved \in Seq(Int) /\ Len(saved) = n
        /\ \A b \in 1 .. n : saved[b] = slot[42 + b]
    <3>1. 42 \in Nat /\ 42 + 1 = 43 /\ 42 + n <= Len(slot)
      BY <2>4
    <3> QED
      <4> DEFINE a == 42
      <4>1. a \in Nat /\ a + n <= Len(slot) /\ slot \in Seq(Int) /\ n \in Nat
        BY <2>4, <3>1
      <4>2. saved = SubSeq(slot, a + 1, a + n)
        BY <2>6, <3>1
      <4> HIDE DEF a, saved
      <4>3. /\ saved \in Seq(Int) /\ Len(saved) = n
            /\ \A b \in 1 .. n : saved[b] = slot[a + b]
        BY <4>1, <4>2, Slice, Zenon
      <4> QED
        BY <4>3 DEF a
  <2> HIDE DEF saved
  <2>8. \A b \in 1 .. n : saved[0 + b] = datagram(sent.loop, sent.recs)[b]
    BY <2>4, <2>5, <2>7
  <2>9. /\ readInt(SubSeq(saved, 0 + 1, 0 + 4)) = sent.loop
        /\ \A k \in 1 .. GROUP_STOCK :
             decode(saved, 0 + 4 + 20 * (k - 1)) = sent.recs[k]
    <3>1. 0 \in Nat /\ 0 + 4 + 20 * GROUP_STOCK <= Len(saved)
      BY <2>3, <2>4, <2>7 DEF n
    <3>2. \A b \in 1 .. 4 + 20 * GROUP_STOCK :
            saved[0 + b] = datagram(sent.loop, sent.recs)[b]
      BY <2>8, Zenon DEF n
    <3>3. saved \in Seq(Int) /\ GROUP_STOCK \in Nat
      BY <2>3, <2>7
    <3> QED
      BY <2>2, <3>1, <3>2, <3>3, Decoded, Zenon
  <2>10. 0 + 1 = 1 /\ 0 + 4 = 4 /\ LOOP_ID = 4 /\ RECORD = 20
    BY DEF LOOP_ID, RECORD
  <2> QED
    BY <2>9, <2>10, Zenon DEF saved
<1>3. DatagramInv => RoundTrip
  BY <1>2, Zenon DEF RoundTrip, DatagramInv, FoundInv
<1> QED
  BY <1>1, <1>3, DatagramInductive, PTL DEF DatagramSpec
=============================================================================
