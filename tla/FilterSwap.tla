----------------------------- MODULE FilterSwap -----------------------------
(***************************************************************************)
(* pcap_setfilter on a capture that is already running.  pcap_open_live    *)
(* starts to capture every packet of the device; the filter comes later,   *)
(* so the ring may hold frames that do not match it.  my_callback does not *)
(* look at ports: a foreign frame that got through would be decoded as     *)
(* prices.                                                                 *)
(*                                                                         *)
(* The filter is installed in the kernel if that works, and libpcap then   *)
(* filters as many frames as the ring may hold; otherwise libpcap filters  *)
(* every frame.  The kernel goes on filling the ring at every moment, and  *)
(* a frame that has passed the old filter may reach the ring after the new *)
(* filter is attached.                                                     *)
(***************************************************************************)
EXTENDS Integers, FiniteSets

CONSTANTS
  RING_SLOTS,  \* handle->cc
  KERNEL,      \* a slot with tp_status TP_STATUS_KERNEL
  FRAMES,      \* bound: frames that arrive
  IN_FLIGHT    \* bound: frames between the kernel's filter and the ring

VARIABLES
  kfilter,  \* the filter on the socket: "none", "total" or "new"
  flight,   \* frames that have passed the filter, not yet in the ring
  arrived,  \* frames that have come so far
  ring,     \* the slots: KERNEL, or the kind of the frame
  head,     \* slot the kernel fills next
  pc,       \* where pcap_setfilter_linux_mmap is, then "read" or "failed"
  offset,   \* handle->offset
  saved,    \* the local variable offset
  n,        \* free slots counted
  use_bpf,  \* handle->md.use_bpf
  stuck,    \* auxiliary: SO_DETACH_FILTER calls that failed
  late,     \* auxiliary: foreign frames stored after counting began
  foreign   \* auxiliary: foreign frames passed to the callback

network == <<flight, arrived, ring, head>>
vars == <<kfilter, flight, arrived, ring, head, pc, offset, saved, n, use_bpf,
          stuck, late, foreign>>

RingSlot == 0 .. RING_SLOTS - 1
Advance(k) == IF k + 1 >= RING_SLOTS THEN 0 ELSE k + 1
Back(k) == IF k - 1 < 0 THEN RING_SLOTS - 1 ELSE k - 1

Kind == {"matching", "foreign"}

(* fix_program keeps the meaning of the filter: the kernel and libpcap     *)
(* accept the same frames.                                                 *)
Accepts(filter, kind) ==
  CASE filter = "none"  -> TRUE
    [] filter = "total" -> FALSE
    [] filter = "new"   -> kind = "matching"

(* The socket is open and bound, the ring is empty.                        *)
Init ==
  /\ kfilter = "none"
  /\ flight = [k \in Kind |-> 0]
  /\ arrived = 0
  /\ ring = [k \in RingSlot |-> KERNEL]
  /\ head = 0
  /\ pc = "install"
  /\ offset = 0
  /\ saved = 0
  /\ n = 0
  /\ use_bpf = 0
  /\ stuck = 0
  /\ late = 0
  /\ foreign = 0

-----------------------------------------------------------------------------
(* The kernel (external).                                                  *)
RunFilter(kind) ==
  /\ arrived < FRAMES
  /\ arrived' = arrived + 1
  /\ flight["matching"] + flight["foreign"] < IN_FLIGHT
  /\ flight' = IF Accepts(kfilter, kind)
               THEN [flight EXCEPT ![kind] = @ + 1] ELSE flight
  /\ UNCHANGED <<kfilter, ring, head, pc, offset, saved, n, use_bpf, stuck,
                 late, foreign>>

StoreFrame(kind) ==
  /\ flight[kind] > 0
  /\ flight' = [flight EXCEPT ![kind] = @ - 1]
  /\ IF ring[head] = KERNEL
     THEN /\ ring' = [ring EXCEPT ![head] = kind]
          /\ head' = Advance(head)
          /\ late' = IF kind = "foreign" /\ pc \in {"walk", "read"}
                     THEN late + 1 ELSE late
     ELSE UNCHANGED <<ring, head, late>>
  /\ UNCHANGED <<kfilter, arrived, pc, offset, saved, n, use_bpf, stuck,
                 foreign>>

-----------------------------------------------------------------------------
(* pcap_setfilter_linux_common.                                            *)
Goto(next) ==
  /\ pc' = next
  /\ UNCHANGED <<offset, saved, n, late, foreign>>
  /\ UNCHANGED network

(* install_bpf_program copies the filter, and fix_program makes the        *)
(* kernel's copy, if the kernel can run it.  Either may fail.              *)
Install ==
  /\ pc = "install"
  /\ use_bpf' = 0
  /\ \E next \in {"total", "unused", "failed"} : Goto(next)
  /\ UNCHANGED <<kfilter, stuck>>

(* set_kernel_filter: the total filter keeps more frames from coming while *)
(* the socket is drained.  Without it there is no draining.                *)
AttachTotal ==
  /\ pc = "total"
  /\ \/ kfilter' = "total" /\ Goto("drain")
     \/ UNCHANGED kfilter /\ Goto("attach")
  /\ UNCHANGED <<use_bpf, stuck>>

(* The ring is not affected by recv.  An error other than EAGAIN is fatal. *)
Drain ==
  /\ pc = "drain"
  /\ Goto("attach") \/ Goto("drainfailed")
  /\ UNCHANGED <<kfilter, use_bpf, stuck>>

(* reset_kernel_filter: nothing is done about a failure.                   *)
Reset ==
  \/ kfilter' = "none" /\ UNCHANGED stuck
  \/ stuck' = stuck + 1 /\ UNCHANGED kfilter

(* Mutant: the fatal error leaves the total filter on.                     *)
DrainFailedAsIs ==
  /\ pc = "drainfailed"
  /\ Goto("failed")
  /\ UNCHANGED <<kfilter, use_bpf, stuck>>

(* set_kernel_filter resets the filter, returns -2, and                    *)
(* pcap_setfilter_linux_common resets it once more.                        *)
DrainFailed ==
  /\ pc = "drainfailed"
  /\ Reset
  /\ Goto("unusedfatal")
  /\ UNCHANGED use_bpf

AttachNew ==
  /\ pc = "attach"
  /\ kfilter' = "new"
  /\ use_bpf' = 1
  /\ Goto("count")
  /\ UNCHANGED stuck

(* The total filter is taken off if it was put on.                         *)
AttachNewFails ==
  /\ pc = "attach"
  /\ IF kfilter = "total" THEN Reset ELSE UNCHANGED <<kfilter, stuck>>
  /\ Goto("unused")
  /\ UNCHANGED use_bpf

(* "If we're not using the kernel filter, get rid of any kernel filter".   *)
Unused ==
  /\ pc \in {"unused", "unusedfatal"}
  /\ Reset
  /\ Goto(IF pc = "unused" THEN "read" ELSE "failed")
  /\ UNCHANGED use_bpf

-----------------------------------------------------------------------------
(* pcap_setfilter_linux_mmap walks the ring backward and counts the free   *)
(* slots, with handle->offset itself.                                      *)
StartWalk ==
  /\ pc = "count"
  /\ saved' = offset
  /\ offset' = Back(offset)
  /\ n' = 0
  /\ pc' = "walk"
  /\ UNCHANGED <<kfilter, use_bpf, stuck, late, foreign>>
  /\ UNCHANGED network

WalkFree ==
  /\ pc = "walk"
  /\ n < RING_SLOTS
  /\ ring[Back(offset)] = KERNEL
  /\ offset' = Back(offset)
  /\ n' = n + 1
  /\ UNCHANGED <<kfilter, pc, saved, use_bpf, stuck, late, foreign>>
  /\ UNCHANGED network

(* Mutant: the free slots are taken for the frames.                        *)
CountFree == 1 + n

(* The number of frames that libpcap has to filter, plus one.              *)
Count == 1 + (RING_SLOTS - n)

(* Mutant: the ring position stays where the walk ended.                   *)
WalkEndsThere ==
  /\ pc = "walk"
  /\ n >= RING_SLOTS \/ ring[Back(offset)] # KERNEL
  /\ use_bpf' = Count
  /\ pc' = "read"
  /\ UNCHANGED <<kfilter, offset, saved, n, stuck, late, foreign>>
  /\ UNCHANGED network

WalkEnds ==
  /\ pc = "walk"
  /\ n >= RING_SLOTS \/ ring[Back(offset)] # KERNEL
  /\ offset' = saved
  /\ use_bpf' = Count
  /\ pc' = "read"
  /\ saved' = 0 /\ n' = 0
  /\ UNCHANGED <<kfilter, stuck, late, foreign>>
  /\ UNCHANGED network

-----------------------------------------------------------------------------
CountDown == IF use_bpf > 1 THEN use_bpf - 1 ELSE use_bpf

(* pcap_read_linux_mmap filters a frame, or passes it to the callback, and *)
(* gives the slot back.                                                    *)
ReadFrame ==
  /\ pc = "read"
  /\ ring[offset] # KERNEL
  /\ LET run_bpf == use_bpf = 0 \/ use_bpf > 1
         pass    == run_bpf => Accepts("new", ring[offset])
     IN  foreign' = IF pass /\ ring[offset] = "foreign"
                    THEN foreign + 1 ELSE foreign
  /\ use_bpf' = CountDown
  /\ ring' = [ring EXCEPT ![offset] = KERNEL]
  /\ offset' = Advance(offset)
  /\ UNCHANGED <<kfilter, flight, arrived, head, pc, saved, n, stuck, late>>

Network == \E kind \in Kind : RunFilter(kind) \/ StoreFrame(kind)

SetFilter ==
  \/ Install \/ AttachTotal \/ Drain \/ DrainFailed
  \/ AttachNew \/ AttachNewFails \/ Unused
  \/ StartWalk \/ WalkFree \/ WalkEnds

(* The handle is closed, or the process ends.                              *)
Forget ==
  /\ kfilter' = "none" /\ flight' = [k \in Kind |-> 0] /\ arrived' = 0
  /\ ring' = [k \in RingSlot |-> KERNEL] /\ head' = 0
  /\ pc' = "install"
  /\ offset' = 0 /\ saved' = 0 /\ n' = 0 /\ use_bpf' = 0
  /\ stuck' = 0 /\ late' = 0 /\ foreign' = 0

-----------------------------------------------------------------------------
(* A foreign frame reaches my_callback only if it passed the old filter    *)
(* before the new one was attached and came into the ring after libpcap    *)
(* had begun to count: the backward walk, while the kernel adds frames,    *)
(* never counts too few.                                                   *)
ForeignOnlyLate == foreign <= late

(* The filter that rejects everything stays on the socket only if taking   *)
(* it off failed twice: otherwise every way through the failures of        *)
(* set_kernel_filter leaves a capture that can receive, or an error.       *)
TotalOnlyIfStuck ==
  pc \in {"read", "failed"} /\ kfilter = "total" => stuck >= 2

(* The slots that hold a frame.                                            *)
InUse == {k \in RingSlot : ring[k] # KERNEL}
=============================================================================
