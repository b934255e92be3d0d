------------------------------ MODULE Datagram ------------------------------
(***************************************************************************)
(* A datagram from udpClient's records to those that my_callback decodes:  *)
(* the bytes of Codec in the slot that FrameParse finds its way through.   *)
(* Of the headers only what FrameParse says is known; the bytes of foreign *)
(* frames are junk.                                                        *)
(***************************************************************************)
EXTENDS FrameParse, Codec

CONSTANT Datagrams  \* what the client sends: a loop id and records

ASSUME DatagramsAssumption ==
  \A d \in Datagrams :
    /\ d.loop \in Int32
    /\ d.recs \in [1 .. GROUP_STOCK -> [1 .. 5 -> Int32]]

VARIABLES
  sent,     \* auxiliary: the client's last datagram
  slot,     \* the bytes of the slot
  loop_id,  \* what the callback found
  stocks

found == <<loop_id, stocks>>
datagramvars == <<vars, sent, slot, found>>

DatagramInit ==
  /\ Init
  /\ sent = << >>
  /\ slot = [k \in 1 .. SLOT |-> 0]
  /\ loop_id = 0 /\ stocks = << >>

HEADERS == ETHER + IP + UDP
JUNK == 170

(* The kernel overwrites what it captured of the frame.                    *)
Overwritten(bytes) ==
  [k \in 1 .. SLOT |-> IF k <= caplen' THEN bytes[k] ELSE slot[k]]

ClientSends(d) ==
  /\ ClientFrame
  /\ sent' = d
  /\ slot' = Overwritten([k \in 1 .. HEADERS |-> JUNK]
                           \o datagram(d.loop, d.recs))
  /\ loop_id' = 0 /\ stocks' = << >>

ForeignSends ==
  /\ ForeignFrame
  /\ slot' = Overwritten([k \in 1 .. SLOT |-> JUNK])
  /\ loop_id' = 0 /\ stocks' = << >>
  /\ UNCHANGED sent

CheckHeaders ==
  /\ CheckEthernet \/ CheckIp \/ CheckOptions \/ CheckUdp
  /\ UNCHANGED <<sent, slot, found>>

ReadLoopId ==
  /\ Payload
  /\ loop_id' = readInt(SubSeq(slot, packet + 1, packet + 4))
  /\ UNCHANGED <<sent, slot, stocks>>

DecodeRecord ==
  /\ Decode
  /\ stocks' = IF i < GROUP_STOCK THEN Append(stocks, decode(slot, packet))
                                  ELSE stocks
  /\ UNCHANGED <<sent, slot, loop_id>>

DatagramNext ==
  \/ \E d \in Datagrams : ClientSends(d)
  \/ ForeignSends \/ CheckHeaders \/ ReadLoopId \/ DecodeRecord

DatagramSpec == DatagramInit /\ [][DatagramNext]_datagramvars

-----------------------------------------------------------------------------
(* From the client's records to the server's: the callback decodes exactly *)
(* the numbers the client encoded, for the whole range of int, whatever    *)
(* was in the slot before, and stocks.db has the bytes from which they can *)
(* be decoded again.                                                       *)
RoundTrip ==
  at = "decode" /\ frame.client =>
    LET saved == SubSeq(slot, file[1] + 1, file[1] + file[2])
    IN  /\ loop_id = sent.loop
        /\ \A k \in 1 .. i : stocks[k] = sent.recs[k]
        /\ readInt(SubSeq(saved, 1, 4)) = sent.loop
        /\ \A k \in 1 .. GROUP_STOCK :
             decode(saved, LOOP_ID + RECORD * (k - 1)) = sent.recs[k]
=============================================================================
