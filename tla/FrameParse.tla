----------------------------- MODULE FrameParse -----------------------------
(***************************************************************************)
(* How my_callback finds its way through a captured frame: the lengths of  *)
(* the Ethernet, IP and UDP headers, what goes into stocks.db, and which   *)
(* bytes the records are decoded from.                                     *)
(*                                                                         *)
(* The frame lies in a slot of the packet ring.  The kernel overwrites as  *)
(* many bytes of the slot as it captured; what earlier, longer frames left *)
(* behind them stays.  The callback checks that every header was captured, *)
(* but not the payload: a short one is decoded from what is left over.     *)
(***************************************************************************)
EXTENDS Integers, Sequences

CONSTANTS
  GROUP_STOCK,   \* records of a payload
  SNAPLEN,       \* BUFSIZ, the snapshot length given to pcap_open_live
  FOREIGN_LENS,  \* lengths of the frames of other senders
  MAX_FRAMES     \* bound: frames that use the slot

ETHER == 14    \* sizeof(struct ether_header)
IP == 20       \* sizeof(struct ip)
UDP == 8       \* sizeof(struct UDP_hdr)
LOOP_ID == 4   \* bytes of the loop id
RECORD == 20   \* bytes of a record
MAX_IP == 60   \* ip_hl has four bits and counts words of four bytes

(* BUFSIZ is 8192, and the reads of a callback end at 486.                 *)
ASSUME FrameAssumption ==
  /\ GROUP_STOCK \in Nat
  /\ SNAPLEN \in Nat
  /\ SNAPLEN >= ETHER + MAX_IP + UDP + LOOP_ID + RECORD * GROUP_STOCK
  /\ FOREIGN_LENS \subseteq Nat

VARIABLES
  lens,         \* pkthdr->caplen of the frames the slot has held
  frame,        \* the frame in the slot: its ip_hl, its ip_p, its sender
  at,           \* the check that comes next
  capture_len,  \* what is left of the frame, as the callback counts it
  packet,       \* the byte of the frame that packet points to
  file,         \* what fwrite appended: its first byte and its length
  i             \* records decoded

vars == <<lens, frame, at, capture_len, packet, file, i>>

Frames ==
  [ip_hl : 0 .. 15, ip_p : {"udp", "other"}, client : BOOLEAN]

caplen == lens[Len(lens)]

(* The length of a datagram of the client on the wire.                     *)
CLIENT_LEN == ETHER + IP + UDP + LOOP_ID + RECORD * GROUP_STOCK

(* create_ring makes the slots wide enough for the snapshot length, and    *)
(* the kernel captures no more than that.  The ring is zeroed when it is   *)
(* created.  (On an Ethernet device without offload create_ring also cuts  *)
(* the slot to mtu + 18, the longest frame such a device receives; the mtu *)
(* of the loopback device is above the snapshot length.)                   *)
SLOT == SNAPLEN
Captured(len) == IF len < SNAPLEN THEN len ELSE SNAPLEN

Init ==
  /\ lens = << >>
  /\ frame = [ip_hl |-> 0, ip_p |-> "other", client |-> FALSE]
  /\ at = "idle"
  /\ capture_len = 0
  /\ packet = 0
  /\ file = <<0, 0>>
  /\ i = 0

(* The kernel puts a frame into the slot and libpcap passes it on.         *)
Arrive(len, f) ==
  /\ at = "idle"
  /\ Len(lens) < MAX_FRAMES
  /\ lens' = Append(lens, Captured(len))
  /\ frame' = f
  /\ at' = "ethernet"
  /\ capture_len' = Captured(len)
  /\ packet' = 0
  /\ file' = <<0, 0>>
  /\ i' = 0

ClientFrame ==
  Arrive(CLIENT_LEN, [ip_hl |-> 5, ip_p |-> "udp", client |-> TRUE])

ForeignFrame ==
  \E len \in FOREIGN_LENS, hl \in 0 .. 15, p \in {"udp", "other"} :
    Arrive(len, [ip_hl |-> hl, ip_p |-> p, client |-> FALSE])

-----------------------------------------------------------------------------
(* capture_len is an int and is compared with an unsigned size: a negative *)
(* length is taken for a very large one, and never found too short.        *)
TooShort(n) == capture_len >= 0 /\ capture_len < n

IP_header_length == frame.ip_hl * 4

(* A frame fails the check for n bytes and the callback returns.           *)
Reject ==
  /\ at' = "idle"
  /\ UNCHANGED <<lens, frame, capture_len, packet, file, i>>

Skip(n, next) ==
  /\ packet' = packet + n
  /\ capture_len' = capture_len - n
  /\ at' = next
  /\ UNCHANGED <<lens, frame, file, i>>

CheckEthernet ==
  /\ at = "ethernet"
  /\ IF TooShort(ETHER) THEN Reject ELSE Skip(ETHER, "ip")

CheckIp ==
  /\ at = "ip"
  /\ IF TooShort(IP) THEN Reject ELSE Skip(0, "options")

(* Mutant: the header with its options is taken to be complete.            *)
CheckOptionsNot ==
  /\ at = "options"
  /\ IF frame.ip_p # "udp" THEN Reject ELSE Skip(IP_header_length, "udp")

(* ip_hl comes from the frame: it may claim more than was captured, or     *)
(* less than a header.                                                     *)
CheckOptions ==
  /\ at = "options"
  /\ IF TooShort(IP_header_length) \/ frame.ip_p # "udp"
     THEN Reject
     ELSE Skip(IP_header_length, "udp")

(* capture_len keeps counting the UDP header: size is subtracted where the *)
(* payload is written.                                                     *)
CheckUdp ==
  /\ at = "udp"
  /\ IF TooShort(UDP)
     THEN Reject
     ELSE /\ packet' = packet + UDP
          /\ at' = "payload"
          /\ UNCHANGED <<lens, frame, capture_len, file, i>>

(* Mutant: the loop id is skipped where it is read, and skipped again.     *)
PayloadSkipsTwice ==
  /\ at = "payload"
  /\ file' = <<packet, capture_len - UDP>>
  /\ \/ at' = "idle" /\ UNCHANGED packet
     \/ at' = "decode" /\ packet' = packet + 2 * LOOP_ID
  /\ UNCHANGED <<lens, frame, capture_len, i>>

(* The loop id is read and the payload written, whatever its length.  The  *)
(* callback returns if the loop id, which can be any number, is            *)
(* g_last_done_loop.                                                       *)
Payload ==
  /\ at = "payload"
  /\ file' = <<packet, capture_len - UDP>>
  /\ \/ at' = "idle" /\ UNCHANGED packet
     \/ at' = "decode" /\ packet' = packet + LOOP_ID
  /\ UNCHANGED <<lens, frame, capture_len, i>>

(* Mutant: one record more than the payload has.                           *)
DecodeOneMore ==
  /\ at = "decode"
  /\ IF i <= GROUP_STOCK
     THEN i' = i + 1 /\ packet' = packet + RECORD /\ UNCHANGED at
     ELSE at' = "idle" /\ UNCHANGED <<i, packet>>
  /\ UNCHANGED <<lens, frame, capture_len, file>>

Decode ==
  /\ at = "decode"
  /\ IF i < GROUP_STOCK
     THEN i' = i + 1 /\ packet' = packet + RECORD /\ UNCHANGED at
     ELSE at' = "idle" /\ UNCHANGED <<i, packet>>
  /\ UNCHANGED <<lens, frame, capture_len, file>>

Next ==
  \/ ClientFrame \/ ForeignFrame
  \/ CheckEthernet \/ CheckIp \/ CheckOptions \/ CheckUdp
  \/ Payload \/ Decode

Spec == Init /\ [][Next]_vars

-----------------------------------------------------------------------------
TypeOK ==
  /\ lens \in Seq(0 .. SNAPLEN)
  /\ frame \in Frames
  /\ at \in {"idle", "ethernet", "ip", "options", "udp", "payload", "decode"}
  /\ capture_len \in Int
  /\ packet \in Nat
  /\ file \in Nat \X Int
  /\ i \in 0 .. GROUP_STOCK
  /\ at # "idle" => lens # << >>

(* Up to the UDP header, capture_len is what has been captured from packet *)
(* on, and is not negative.  The unsigned comparisons cannot see a         *)
(* negative length, so each check depends on all the earlier ones, for     *)
(* every ip_hl a frame may claim.                                          *)
LengthTracksPacket ==
  at \in {"ethernet", "ip", "options", "udp"} =>
    capture_len >= 0 /\ packet + capture_len = caplen

(* stocks.db gets captured bytes only: whatever the header lengths say, a  *)
(* payload goes from behind the UDP header to the end of the frame, and    *)
(* its length, a size_t, does not come from a negative number.             *)
FileIsCaptured ==
  at = "decode" => file[2] >= 0 /\ file[1] + file[2] = caplen

(* A record is read inside the slot the frame lies in, also when the       *)
(* payload is shorter than the records, or empty, and the IP header has    *)
(* all its options.                                                        *)
DecodeInsideSlot == at = "decode" => packet <= SLOT

(* The frame that wrote byte k of the slot last; 0 is the kernel, which    *)
(* clears the ring.                                                        *)
Owner(k) ==
  CHOOSE n \in 0 .. Len(lens) :
    /\ n > 0 => lens[n] > k
    /\ \A m \in n + 1 .. Len(lens) : lens[m] <= k

(* Records of a datagram of the client come from the bytes of this         *)
(* datagram, whatever was in the slot before, and all of them are in the   *)
(* file.  A datagram of somebody else, if it is shorter, is decoded from   *)
(* an earlier datagram's bytes, that are not in the file at this place.    *)
ClientRecordsOwn ==
  at = "decode" /\ frame.client =>
    /\ \A k \in file[1] .. packet - 1 : Owner(k) = Len(lens)
    /\ packet = file[1] + LOOP_ID + RECORD * i
    /\ packet <= file[1] + file[2]
=============================================================================
