------------------------------ MODULE Capture -------------------------------
(***************************************************************************)
(* What lies between the client's sendto and the server's my_callback: the *)
(* loopback device, the packet ring the kernel shares with libpcap, and    *)
(* libpcap's pcap_loop and pcap_read_linux_mmap.                           *)
(*                                                                         *)
(* The kernel shows every loopback packet twice, as it goes out and as it  *)
(* comes in.  libpcap hands the callback a pointer into the ring slot, so  *)
(* the slot has to stay with the program until the callback has returned.  *)
(***************************************************************************)
EXTENDS Integers, Sequences

CONSTANTS
  RING_SLOTS,          \* handle->cc: slots of the ring
  BACKLOG,             \* datagrams the loopback receive queue holds
  SERVER_STOCK_COUNT,  \* package_count of pcap_loop
  KERNEL               \* a slot with tp_status TP_STATUS_KERNEL

VARIABLES
  backlog,  \* datagrams sent, not yet received by the loopback device
  ring,     \* the slots: KERNEL, or the frame the kernel gave to the user
  head,     \* slot the kernel fills next
  offset,   \* handle->offset: slot libpcap reads next
  cnt,      \* packets pcap_loop still has to deliver
  pkts,     \* packets delivered by the current call of read_op
  pcap,     \* where the capture is
  lost      \* auxiliary: datagrams that did not get into the ring

kernel == <<backlog, head, lost>>
reader == <<offset, cnt, pkts, pcap>>
vars == <<backlog, ring, head, offset, cnt, pkts, pcap, lost>>

Frame(dir, data) == [dir |-> dir, data |-> data]
RingSlot == 0 .. RING_SLOTS - 1
Advance(k) == IF k + 1 >= RING_SLOTS THEN 0 ELSE k + 1

(* pcap: "closed" before pcap_open_live, then at the entry of read_op, in  *)
(* poll, in the delivery loop, in the callback, or out of pcap_loop.       *)
PcapState == {"closed", "read", "poll", "drain", "callback", "returned"}

Init ==
  /\ backlog = << >>
  /\ ring = [k \in RingSlot |-> KERNEL]
  /\ head = 0
  /\ offset = 0
  /\ cnt = SERVER_STOCK_COUNT
  /\ pkts = 0
  /\ pcap = "closed"
  /\ lost = 0

-----------------------------------------------------------------------------
(* The kernel (external): a frame goes into the slot at head if that slot  *)
(* has been given back, and is dropped otherwise.                          *)
Listening == pcap \notin {"closed", "returned"}
CanStore == Listening /\ ring[head] = KERNEL

Store(f) ==
  IF CanStore
  THEN ring' = [ring EXCEPT ![head] = f] /\ head' = Advance(head)
  ELSE UNCHANGED <<ring, head>>

(* sendto puts the outgoing copy into the ring and queues the datagram for *)
(* reception; a full queue drops it.                                       *)
Transmit(d) ==
  /\ Store(Frame("out", d))
  /\ IF Len(backlog) < BACKLOG
     THEN backlog' = Append(backlog, d) /\ UNCHANGED lost
     ELSE lost' = lost + 1 /\ UNCHANGED backlog
  /\ UNCHANGED reader

(* The loopback device receives the oldest queued datagram.                *)
Receive ==
  /\ backlog # << >>
  /\ Store(Frame("in", Head(backlog)))
  /\ lost' = IF CanStore THEN lost ELSE lost + 1
  /\ backlog' = Tail(backlog)
  /\ UNCHANGED reader

-----------------------------------------------------------------------------
(* pcap_open_live, pcap_compile and pcap_setfilter succeed: the ring is    *)
(* mapped and the program is in pcap_loop.                                 *)
Open ==
  /\ pcap = "closed"
  /\ pcap' = "read"
  /\ UNCHANGED <<backlog, ring, head, offset, cnt, pkts, lost>>

(* One of them fails: pcapServer returns 2.                                *)
OpenFails ==
  /\ pcap = "closed"
  /\ pcap' = "returned"
  /\ UNCHANGED <<backlog, ring, head, offset, cnt, pkts, lost>>

(* pcap_get_ring_frame: the slot at offset belongs to the user.            *)
FrameReady == ring[offset] # KERNEL

(* read_op starts: without a frame it waits in poll.                       *)
ReadOp ==
  /\ pcap = "read"
  /\ pkts' = 0
  /\ pcap' = IF FrameReady THEN "drain" ELSE "poll"
  /\ UNCHANGED <<backlog, ring, head, offset, cnt, lost>>

(* poll ends with a frame or with its timeout; both go on to the loop.     *)
PollReturns ==
  /\ pcap = "poll"
  /\ pcap' = "drain"
  /\ UNCHANGED <<backlog, ring, head, offset, cnt, pkts, lost>>

(* poll reports an error: pcap_loop passes it on.                          *)
PollFails ==
  /\ pcap = "poll"
  /\ pcap' = "returned"
  /\ UNCHANGED <<backlog, ring, head, offset, cnt, pkts, lost>>

Draining == pcap = "drain" /\ pkts < cnt /\ FrameReady

(* Mutant: the copy that goes out is passed on as well.                    *)
RejectNone(f) == FALSE

(* An outgoing copy is rejected on the loopback device.                    *)
Rejected(f) == f.dir = "out"

(* Mutant: the reader stays where it is.                                   *)
ReleaseOnly ==
  /\ ring' = [ring EXCEPT ![offset] = KERNEL]
  /\ UNCHANGED offset

(* label skip: the slot goes back to the kernel, the reader moves on.      *)
ReleaseSlot ==
  /\ ring' = [ring EXCEPT ![offset] = KERNEL]
  /\ offset' = Advance(offset)

SkipFrame ==
  /\ Draining
  /\ Rejected(ring[offset])
  /\ ReleaseSlot
  /\ UNCHANGED <<backlog, head, cnt, pkts, pcap, lost>>

(* Mutant: the slot is given back before the callback runs.                *)
ReleaseThenPass ==
  /\ Draining
  /\ ~Rejected(ring[offset])
  /\ pkts' = pkts + 1
  /\ pcap' = "callback"
  /\ ring' = [ring EXCEPT ![offset] = KERNEL]
  /\ UNCHANGED <<backlog, head, offset, cnt, lost>>

(* The packet is passed to the user: the callback gets the slot itself.    *)
PassToUser ==
  /\ Draining
  /\ ~Rejected(ring[offset])
  /\ pkts' = pkts + 1
  /\ pcap' = "callback"
  /\ UNCHANGED <<backlog, ring, head, offset, cnt, lost>>

(* The callback has returned.                                              *)
CallbackReturned ==
  /\ pcap = "callback"
  /\ ReleaseSlot
  /\ pcap' = "drain"
  /\ UNCHANGED <<backlog, head, cnt, pkts, lost>>

(* Mutant: pcap_loop forgets what read_op has handed over.                 *)
ReadReturnsUncounted ==
  /\ pcap = "drain"
  /\ pkts < cnt
  /\ ~FrameReady
  /\ pcap' = "read"
  /\ UNCHANGED <<backlog, ring, head, offset, cnt, pkts, lost>>

(* read_op returns with the ring empty: pcap_loop counts and reads again.   *)
ReadReturns ==
  /\ pcap = "drain"
  /\ pkts < cnt
  /\ ~FrameReady
  /\ cnt' = cnt - pkts
  /\ pcap' = "read"
  /\ UNCHANGED <<backlog, ring, head, offset, pkts, lost>>

(* Mutant: pcap_loop wants one packet more than its count.                 *)
LoopReturnsLate ==
  /\ pcap = "drain"
  /\ pkts > cnt
  /\ cnt' = cnt - pkts
  /\ pcap' = "returned"
  /\ UNCHANGED <<backlog, ring, head, offset, pkts, lost>>

(* read_op returns with the count used up, and so does pcap_loop.          *)
LoopReturns ==
  /\ pcap = "drain"
  /\ pkts >= cnt
  /\ cnt' = cnt - pkts
  /\ pcap' = "returned"
  /\ UNCHANGED <<backlog, ring, head, offset, pkts, lost>>

(* The process dies in the callback: the socket and the ring go with it.   *)
ProcessDies ==
  /\ pcap = "callback"
  /\ pcap' = "returned"
  /\ UNCHANGED <<backlog, ring, head, offset, cnt, pkts, lost>>
=============================================================================
