--------------------------- MODULE ServerProcess ---------------------------
(***************************************************************************)
(* pcapServer up to pcap_loop, and to the end of the process: the devices  *)
(* are listed (DeviceList), the capture is opened (Activation, whose       *)
(* create_ring is RingLayout), the filter is installed while frames        *)
(* already arrive (FilterSwap), the frames are read, and the handle is     *)
(* closed, or not.                                                         *)
(*                                                                         *)
(* The process is sequential: a part takes steps only while the others     *)
(* wait for it.  When a part is done, what nothing looks at any more is    *)
(* forgotten.                                                              *)
(***************************************************************************)
EXTENDS Activation, Sequences

CONSTANTS
  NETDEVS, ADDRESSED, LOOPBACKS, USBDEVS, instance, ADDRESSES, sockaddrs, CHANGES,
  SNAPSHOTS, MTUS, BUFFER_SIZE, PAGE,
  RING_SLOTS, KERNEL, FRAMES, IN_FLIGHT

ASSUME ProcessAssumption ==
  /\ ADDRESSED \subseteq NETDEVS /\ LOOPBACKS \subseteq NETDEVS
  /\ instance \in [NETDEVS \cup USBDEVS -> Nat]
  /\ SNAPSHOTS \subseteq Nat /\ MTUS \subseteq Nat
  /\ IsFiniteSet(ADDRESSED) /\ ADDRESSES \in Nat \ {0}
  /\ sockaddrs \in [1 .. Cardinality(ADDRESSED) * ADDRESSES ->
                      SUBSET {"addr", "netmask", "broadaddr", "dstaddr"}]
  /\ BUFFER_SIZE \in Nat /\ PAGE \in Nat \ {0}
  /\ RING_SLOTS \in Nat \ {0}
  /\ KERNEL \notin {"matching", "foreign"}

VARIABLES
  list_pc, state, open, changes, ifap, names, devlist, heap, steady, scanned,
  unread,
  ring_pc, frame_size, tp_frame_size, tp_frame_nr, tp_block_size, tp_block_nr,
  buffer, cc, i, j, base,
  filter_pc, kfilter, flight, arrived, ring, head, offset, saved, n, use_bpf,
  stuck, late, foreign

D == INSTANCE DeviceList WITH pc <- list_pc
R == INSTANCE RingLayout WITH pc <- ring_pc
F == INSTANCE FilterSwap WITH pc <- filter_pc

device == <<list_pc, state, open, changes, ifap, names, devlist, heap, steady,
            scanned, unread>>
layout == <<ring_pc, frame_size, tp_frame_size, tp_frame_nr, tp_block_size,
            tp_block_nr, buffer, cc, i, j, base>>
filter == <<filter_pc, kfilter, flight, arrived, ring, head, offset, saved, n,
            use_bpf, stuck, late, foreign>>
allvars == <<vars, device, layout, filter>>

ServerInit == Init /\ D!Init /\ R!Init /\ F!Init

-----------------------------------------------------------------------------
(* listAllDevice                                                           *)
FindAllDevs ==
  D!pcap_findalldevs /\ UNCHANGED vars /\ UNCHANGED <<layout, filter>>
DevicesChange ==
  /\ list_pc # "printed" /\ D!Change
  /\ UNCHANGED vars /\ UNCHANGED <<layout, filter>>

ForgetDevices ==
  /\ list_pc' = "printed"
  /\ state' = [d \in NETDEVS |-> "up"] /\ open' = {} /\ changes' = 0
  /\ ifap' = << >> /\ names' = {} /\ devlist' = << >> /\ heap' = {}
  /\ steady' = {} /\ scanned' = FALSE /\ unread' = {}

(* The names are printed; alldevsp is advanced to the end and the list     *)
(* never freed.                                                            *)
PrintDevices ==
  /\ list_pc = "done"
  /\ ForgetDevices
  /\ UNCHANGED vars /\ UNCHANGED <<layout, filter>>

(* exit(1)                                                                 *)
NoDevices ==
  /\ list_pc = "failed"
  /\ ForgetDevices
  /\ Fail("exit") /\ UNCHANGED mode
  /\ UNCHANGED <<layout, filter>>

-----------------------------------------------------------------------------
(* pcap_open_live, but for create_ring, and the end of the process.        *)
Listed == list_pc = "printed" /\ UNCHANGED device

OpenLive ==
  /\ Listed /\ ring_pc = "idle"
  /\ Open \/ End
  /\ UNCHANGED <<layout, filter>>

(* create_ring computes the request and makes it smaller while there is no *)
(* memory for it.                                                          *)
Layout ==
  /\ Listed
  /\ \/ pc = "ring" /\ (R!Enter \/ R!NoMemory)
     \/ R!DoubleBlock \/ R!Retry
     \/ R!FillFrame \/ R!FillBlock \/ R!Filled \/ R!Leave
  /\ UNCHANGED vars /\ UNCHANGED filter

(* The request, the mapping and the header ring.                           *)
MakeRing ==
  /\ Listed /\ ring_pc = "request"
  /\ CreateRing \/ MapRing \/ HeaderRing
  /\ CASE pc' \in {"plain", "fail"} -> R!RingFails
       [] pc' = "open"              -> R!RingCreated
       [] OTHER                     -> UNCHANGED layout
  /\ UNCHANGED filter

-----------------------------------------------------------------------------
Capturing ==
  cleanup_op = "mmap" /\ ring_pc = "idle" /\ pc \in {"open", "loop"}

FramesArrive ==
  /\ Listed /\ Capturing /\ EN10MB
  /\ F!Network
  /\ UNCHANGED vars /\ UNCHANGED layout

InstallFilter ==
  /\ Listed /\ Capturing /\ pc = "open" /\ EN10MB
  /\ F!SetFilter
  /\ UNCHANGED vars /\ UNCHANGED layout

(* The link type is wrong, pcap_compile fails, or pcap_setfilter returns.  *)
FilterDone ==
  /\ Listed /\ ring_pc = "idle"
  /\ Setfilter
  /\ cleanup_op = "mmap" =>
       filter_pc \in CASE pc' = "loop"       -> {"read"}
                       [] "fcode" \in held'  -> {"failed"}
                       [] OTHER              -> {"install", "failed"}
  /\ IF pc' = "exit" THEN F!Forget ELSE UNCHANGED filter
  /\ UNCHANGED layout

Read ==
  /\ Listed /\ Capturing /\ pc = "loop"
  /\ F!ReadFrame
  /\ UNCHANGED vars /\ UNCHANGED layout

(* pcap_loop returns and the handle is closed, or the callback aborts.     *)
LoopEnds ==
  /\ Listed
  /\ LoopReturns \/ Abort
  /\ F!Forget
  /\ UNCHANGED layout

Process ==
  \/ FindAllDevs \/ PrintDevices \/ NoDevices \/ OpenLive \/ Layout \/ MakeRing
  \/ InstallFilter \/ FilterDone \/ Read

ServerNext == Process \/ LoopEnds \/ DevicesChange \/ FramesArrive

(* Every step of the process is a call that returns or a step of a loop;   *)
(* pcap_loop need not end.                                                 *)
ServerSpec == ServerInit /\ [][ServerNext]_allvars /\ WF_allvars(Process)

-----------------------------------------------------------------------------
(* If pcap_findalldevs succeeds, every interface that was up and could be  *)
(* opened all the time is in the list, with addresses or without, whatever *)
(* happened to the others: unless it has no address and there was neither  *)
(* directory nor file, or its ifindex could not be looked at.              *)
SteadyListed == D!SteadyListed

(* The memory in use is that of the list, and none when the call failed,   *)
(* in whichever part of an entry or of an address memory ran out and       *)
(* whichever parts are NULL; and no block was freed that was not in use.   *)
NothingLost == D!NothingLost

(* The slots of the ring lie in the mapping, each in one block, apart, and *)
(* their pointers fill what was allocated for them.                        *)
SlotsDisjoint == R!SlotsDisjoint

(* A foreign frame reaches my_callback only if it passed the old filter    *)
(* before the new one was attached and came into the ring after libpcap    *)
(* had begun to count.                                                     *)
ForeignOnlyLate == F!ForeignOnlyLate

(* The filter that rejects everything stays on the socket only if taking   *)
(* it off failed twice.                                                    *)
TotalOnlyIfStuck == F!TotalOnlyIfStuck

(* Whatever fails, and however often a request is repeated, the server     *)
(* gets to pcap_loop or to the end of the process; pcap_close_all empties  *)
(* its list.                                                               *)
StartEnds == pc \notin {"loop", "aborted"} ~> pc \in {"loop", "exited"}

(* In pcap_loop the frames of the ring are read, from where the kernel has *)
(* put them: again and again the ring is empty, or the loop ends.          *)
RingDrained ==
  pc = "loop" /\ cleanup_op = "mmap" ~> (pc # "loop" \/ F!InUse = {})
=============================================================================
