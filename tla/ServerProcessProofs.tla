------------------------ MODULE ServerProcessProofs -------------------------
(***************************************************************************)
(* The start and the end of the server process, for any interfaces, any    *)
(* sizes and any number of ring slots and frames.                          *)
(*                                                                         *)
(* The process is sequential, so that each part has an invariant of its    *)
(* own: what the handle owns (Activation), where the slots of the ring lie *)
(* (RingLayout), which frames libpcap still filters (FilterSwap), and what *)
(* the list of devices holds (DeviceList).                                 *)
(***************************************************************************)
EXTENDS ServerProcess, SequenceTheorems, FiniteSetTheorems,
        WellFoundedInduction, TLAPS

-----------------------------------------------------------------------------
(* Activation.                                                             *)

(* The socket is in a local variable of activate_new.                      *)
Unnoted == {"type", "cooked", "bind", "options"}

RingMade == {"ring", "map", "headers"}

(* pcap_activate_linux has begun; the handle is there, with its device.    *)
Working ==
  Unnoted \cup RingMade \cup
  {"new", "old", "oldtype", "oldpromisc", "oldbuffer", "mmap", "plain", "open",
   "loop", "fail"}

RingParts == {"oneshot", "kring", "map"}

(* The fields of the handle point to what it owns, but for the handle      *)
(* itself, the list that was lost, and a socket not yet noted; only        *)
(* oneshot_buffer may point to what was freed.                             *)
Pointers ==
  /\ ptr \subseteq Resource \ {"handle", "lost"}
  /\ ptr \subseteq held \cup {"oneshot"}
  /\ held \subseteq ptr \cup {"handle", "lost"}
                        \cup (IF pc \in Unnoted THEN {"fd"} ELSE {})

(* What each step of the activation may rely on.                           *)
Progress ==
  /\ pc = "create" => held = {} /\ ptr = {}
  /\ pc = "activate" => held = {"handle", "source"} /\ ptr = {"source"}
  /\ pc = "new" => "fd" \notin ptr
  /\ pc \in Working \cup {"activate", "failed"} => "handle" \in held
  /\ pc \in Working => "device" \in held
  /\ pc \in Unnoted => "fd" \in held /\ "fd" \notin ptr
  /\ pc = "failed" => /\ held \subseteq {"handle", "source", "lost"}
                      /\ ptr \subseteq {"source", "oneshot"}
  /\ pc \in {"null", "closed"} => held \subseteq {"lost"} /\ ptr = {}

(* What there is of the ring.                                              *)
RingHeld ==
  /\ pc = "ring" => "oneshot" \in held /\ {"kring", "map"} \cap held = {}
  /\ pc = "map" => {"oneshot", "kring"} \subseteq held /\ "map" \notin held
  /\ pc = "headers" => RingParts \subseteq held
  /\ pc \notin RingMade /\ cleanup_op # "mmap" => RingParts \cap held = {}
  /\ cleanup_op = "mmap" =>
       /\ pc \in {"open", "loop", "closed", "exit", "exited", "aborted"}
       /\ "oneshot" \in ptr => "oneshot" \in held
  /\ pc \in Working => cleanup_op \in {"linux", "mmap"}

(* Only an Ethernet device can lose its list of link types.                *)
ListLost ==
  /\ "lost" \in held => arptype = "ether"
  /\ pc \in {"activate", "new", "type"} => "dlt_list" \notin ptr
  /\ pc \in {"bind", "old", "oldtype"} /\ "dlt_list" \in ptr => arptype = "ether"

(* Whoever switched the mode on will be told to switch it off.             *)
ModeNoted ==
  /\ promisc => to_close \/ restore = "failed"
  /\ to_close =>
       /\ must_clear /\ {"handle", "device"} \subseteq held
       /\ cleanup_op \in {"linux", "mmap"}
       /\ pc \notin {"closed", "null", "exited", "failed", "create", "activate"}

(* Nothing is opened before the devices are listed.                        *)
ListedFirst == list_pc # "printed" => pc = "create"

OwnInv ==
  /\ NoBadFree
  /\ Pointers
  /\ Progress
  /\ RingHeld
  /\ ListLost
  /\ ModeNoted
  /\ ListedFirst

-----------------------------------------------------------------------------
(* RingLayout.                                                             *)

SizeInv ==
  /\ tp_frame_nr \in Nat /\ tp_block_nr \in Nat
  /\ ring_pc = "idle" => buffer = << >> /\ cc = 0 /\ i = 0 /\ j = 0 /\ base = 0
  /\ ring_pc # "idle" => /\ tp_frame_size \in Nat \ {0}
                         /\ tp_block_size \in Nat \ {0}
  /\ ring_pc \notin {"idle", "block"} => tp_frame_size <= tp_block_size
  /\ ring_pc \in {"request", "fill", "ready"} =>
       tp_frame_nr = tp_block_nr * R!frames_per_block

(* The loops that fill the ring of pointers.                               *)
FillInv ==
  /\ buffer \in Seq(Nat)
  /\ cc \in Nat /\ i \in Nat /\ j \in Nat /\ base \in Nat
  /\ ring_pc \in {"block", "retry", "request", "failed"} =>
       buffer = << >> /\ cc = 0 /\ i = 0 /\ j = 0 /\ base = 0
  /\ ring_pc \in {"fill", "ready"} =>
       /\ cc = tp_frame_nr
       /\ i <= tp_block_nr /\ j <= R!frames_per_block
       /\ i = tp_block_nr => j = 0
       /\ Len(buffer) = i * R!frames_per_block + j
       /\ base = i * tp_block_size + j * tp_frame_size
       /\ Len(buffer) > 0 => buffer[Len(buffer)] + tp_frame_size <= base
  /\ ring_pc = "ready" => i = tp_block_nr

LayoutInv == SizeInv /\ FillInv /\ SlotsDisjoint

-----------------------------------------------------------------------------
(* FilterSwap.                                                             *)

(* How often taking the total filter off has failed.                       *)
TotalInv ==
  /\ stuck \in Nat
  /\ filter_pc \in {"install", "total"} => kfilter = "none"
  /\ filter_pc \in {"count", "walk"} => kfilter = "new"
  /\ filter_pc \in {"unused", "unusedfatal"} /\ kfilter = "total" => stuck >= 1
  /\ TotalOnlyIfStuck

(* The slot that is read first; the walk keeps it in saved.                *)
Start == IF filter_pc = "walk" THEN saved ELSE offset

(* How far a slot is from it.                                              *)
Rank(o, k) == IF k >= o THEN k - o ELSE k - o + RING_SLOTS

SwapType ==
  /\ ring \in [F!RingSlot -> F!Kind \cup {KERNEL}]
  /\ head \in F!RingSlot /\ offset \in F!RingSlot /\ saved \in F!RingSlot
  /\ n \in 0 .. RING_SLOTS /\ use_bpf \in Nat
  /\ late \in Nat /\ foreign \in Nat

(* The frames lie one behind the other.                                    *)
Dense ==
  /\ ring[head] # KERNEL => head = Start
  /\ \A k \in F!RingSlot :
       ring[k] # KERNEL <=>
         ring[head] # KERNEL \/ Rank(Start, k) < Rank(Start, head)

(* Where the walk is.                                                      *)
WalkAt ==
  filter_pc = "walk" =>
    Rank(saved, offset) =
      IF n = RING_SLOTS THEN RING_SLOTS - 1 ELSE RING_SLOTS - 1 - n

(* The foreign frames of a ring that are r or more slots away from o.      *)
ForeignFrom(slots, o, r) ==
  {k \in 0 .. RING_SLOTS - 1 : slots[k] = "foreign" /\ Rank(o, k) >= r}

(* The foreign frames that libpcap will not filter came late.              *)
LateInv ==
  /\ filter_pc # "read" => foreign = 0
  /\ filter_pc \in {"install", "total", "unused", "drain", "attach"} =>
       use_bpf = 0
  /\ filter_pc = "read" /\ use_bpf = 0 => foreign = 0
  /\ filter_pc = "read" /\ use_bpf > 0 =>
       foreign + Cardinality(ForeignFrom(ring, Start, use_bpf - 1)) <= late
  /\ filter_pc = "walk" /\ n > 0 =>
       Cardinality(ForeignFrom(ring, Start, RING_SLOTS - 1 - n)) <= late

SwapInv == TotalInv /\ SwapType /\ Dense /\ WalkAt /\ LateInv

-----------------------------------------------------------------------------
(* DeviceList.                                                             *)

Entry == [name : D!Devices, addresses : Seq(DOMAIN sockaddrs)]
IfAddr == [name : ADDRESSED, addr : DOMAIN sockaddrs, up : BOOLEAN]

InList(list, d) == D!Index(list, d) # {}
OnList(list, a) == \E k \in 1 .. Len(list) : a \in D!ToSet(list[k].addresses)

DeviceType ==
  /\ devlist \in Seq(Entry) /\ ifap \in Seq(IfAddr)
  /\ names \subseteq D!Devices
  /\ steady \subseteq D!Steady
  /\ state \in [NETDEVS -> {"up", "down", "gone"}]
  /\ list_pc \in {"scansys", "scanproc"} => names \subseteq NETDEVS

(* No address is listed twice.                                             *)
Fresh ==
  /\ list_pc = "getifaddrs" => devlist = << >>
  /\ list_pc = "addresses" =>
       /\ \A k \in 1 .. Len(ifap) : ~OnList(devlist, ifap[k].addr)
       /\ \A k, q \in 1 .. Len(ifap) : k # q => ifap[k].addr # ifap[q].addr

(* A steady interface is in the list as soon as its last entry has been    *)
(* looked at, but for the name in /sys/class/net that was not.             *)
Covered ==
  /\ scanned =>
       list_pc \in {"scansys", "scanproc", "any", "usb", "done", "failed"}
  /\ list_pc \in {"scansys", "scanproc"} => scanned
  /\ list_pc = "addresses" =>
       \A d \in steady \cap ADDRESSED :
         \/ InList(devlist, d)
         \/ \E k \in 1 .. Len(ifap) : ifap[k].name = d /\ ifap[k].up
  /\ list_pc \notin {"getifaddrs", "addresses", "failed"} =>
       \A d \in steady \cap ADDRESSED : InList(devlist, d)
  /\ list_pc \in {"scansys", "scanproc"} =>
       \A d \in (steady \cap NETDEVS) \ names : InList(devlist, d) \/ d \in unread
  /\ list_pc \in {"any", "usb", "done"} /\ scanned =>
       \A d \in steady \cap NETDEVS : InList(devlist, d) \/ d \in unread
  /\ list_pc \in {"usb", "done"} =>
       \A d \in steady \cap {"any"} : InList(devlist, d)

DeviceInv == DeviceType /\ NothingLost /\ Fresh /\ Covered

-----------------------------------------------------------------------------
(* A step of pcap_open_live, of the server's use of the handle, or of the  *)
(* end of the process, keeps every resource accounted for.                 *)
LEMMA ActivationKeeps ==
  ASSUME OwnInv, list_pc = "printed", list_pc' = list_pc,
         Open \/ CreateRing \/ MapRing \/ HeaderRing \/ Setfilter
           \/ LoopReturns \/ Abort \/ End
  PROVE  OwnInv'
<1> USE DEF own, mode, Acquire, Release, FreeOnly, Goto, Fail, MapType,
    HasList,
            CloseSocket, ClearPromisc, Common, Cleanup, PcapClose, EN10MB
<1> USE DEF NoBadFree, Pointers, Progress, RingHeld, ListLost, ModeNoted,
            Unnoted, RingMade, Working, RingParts, Resource
<1>0. /\ NoBadFree /\ Pointers /\ Progress /\ RingHeld /\ ListLost /\ ModeNoted
  BY DEF OwnInv
<1>1. CASE PcapCreate
  <2>1. NoBadFree'
    BY <1>0, <1>1 DEF PcapCreate
  <2>2. Pointers'
    BY <1>0, <1>1 DEF PcapCreate
  <2>3. Progress'
    BY <1>0, <1>1 DEF PcapCreate
  <2>4. RingHeld' /\ ListLost'
    BY <1>0, <1>1 DEF PcapCreate
  <2>5. ModeNoted'
    BY <1>0, <1>1 DEF PcapCreate
  <2> QED
    BY <2>1, <2>2, <2>3, <2>4, <2>5 DEF OwnInv, ListedFirst
<1>2. CASE StartActivate
  <2>1. NoBadFree'
    BY <1>0, <1>2 DEF StartActivate
  <2>2. Pointers'
    BY <1>0, <1>2 DEF StartActivate
  <2>3. Progress'
    BY <1>0, <1>2 DEF StartActivate
  <2>4. RingHeld' /\ ListLost'
    BY <1>0, <1>2 DEF StartActivate
  <2>5. ModeNoted'
    BY <1>0, <1>2 DEF StartActivate
  <2> QED
    BY <2>1, <2>2, <2>3, <2>4, <2>5 DEF OwnInv, ListedFirst
<1>3. CASE NewSocket
  <2>1. NoBadFree'
    BY <1>0, <1>3 DEF NewSocket
  <2>2. Pointers'
    BY <1>0, <1>3 DEF NewSocket
  <2>3. Progress'
    BY <1>0, <1>3 DEF NewSocket
  <2>4. RingHeld' /\ ListLost'
    BY <1>0, <1>3 DEF NewSocket
  <2>5. ModeNoted'
    BY <1>0, <1>3 DEF NewSocket
  <2> QED
    BY <2>1, <2>2, <2>3, <2>4, <2>5 DEF OwnInv, ListedFirst
<1>4. CASE NewType
  <2>1. NoBadFree'
    BY <1>0, <1>4 DEF NewType
  <2>2. Pointers'
    BY <1>0, <1>4 DEF NewType
  <2>3. Progress'
    BY <1>0, <1>4 DEF NewType
  <2>4. RingHeld' /\ ListLost'
    BY <1>0, <1>4 DEF NewType
  <2>5. ModeNoted'
    BY <1>0, <1>4 DEF NewType
  <2> QED
    BY <2>1, <2>2, <2>3, <2>4, <2>5 DEF OwnInv, ListedFirst
<1>5. CASE Reopen
  <2>1. NoBadFree'
    BY <1>0, <1>5 DEF Reopen
  <2>2. Pointers'
    BY <1>0, <1>5 DEF Reopen
  <2>3. Progress'
    BY <1>0, <1>5 DEF Reopen
  <2>4. RingHeld' /\ ListLost'
    BY <1>0, <1>5 DEF Reopen
  <2>5. ModeNoted'
    BY <1>0, <1>5 DEF Reopen
  <2> QED
    BY <2>1, <2>2, <2>3, <2>4, <2>5 DEF OwnInv, ListedFirst
<1>6. CASE NewBind
  <2>1. NoBadFree'
    BY <1>0, <1>6 DEF NewBind
  <2>2. Pointers'
    BY <1>0, <1>6 DEF NewBind
  <2>3. Progress'
    BY <1>0, <1>6 DEF NewBind
  <2>4. RingHeld' /\ ListLost'
    BY <1>0, <1>6 DEF NewBind
  <2>5. ModeNoted'
    BY <1>0, <1>6 DEF NewBind
  <2> QED
    BY <2>1, <2>2, <2>3, <2>4, <2>5 DEF OwnInv, ListedFirst
<1>7. CASE NewOptions
  <2>1. NoBadFree'
    BY <1>0, <1>7 DEF NewOptions
  <2>2. Pointers'
    BY <1>0, <1>7 DEF NewOptions
  <2>3. Progress'
    BY <1>0, <1>7 DEF NewOptions
  <2>4. RingHeld' /\ ListLost'
    BY <1>0, <1>7 DEF NewOptions
  <2>5. ModeNoted'
    BY <1>0, <1>7 DEF NewOptions
  <2> QED
    BY <2>1, <2>2, <2>3, <2>4, <2>5 DEF OwnInv, ListedFirst
<1>8. CASE Mmap
  <2>1. NoBadFree'
    BY <1>0, <1>8 DEF Mmap
  <2>2. Pointers'
    BY <1>0, <1>8 DEF Mmap
  <2>3. Progress'
    BY <1>0, <1>8 DEF Mmap
  <2>4. RingHeld' /\ ListLost'
    BY <1>0, <1>8 DEF Mmap
  <2>5. ModeNoted'
    BY <1>0, <1>8 DEF Mmap
  <2> QED
    BY <2>1, <2>2, <2>3, <2>4, <2>5 DEF OwnInv, ListedFirst
<1>9. CASE CreateRing
  <2>1. NoBadFree'
    BY <1>0, <1>9 DEF CreateRing
  <2>2. Pointers'
    BY <1>0, <1>9 DEF CreateRing
  <2>3. Progress'
    BY <1>0, <1>9 DEF CreateRing
  <2>4. RingHeld' /\ ListLost'
    BY <1>0, <1>9 DEF CreateRing
  <2>5. ModeNoted'
    BY <1>0, <1>9 DEF CreateRing
  <2> QED
    BY <2>1, <2>2, <2>3, <2>4, <2>5 DEF OwnInv, ListedFirst
<1>10. CASE MapRing
  <2>1. NoBadFree'
    BY <1>0, <1>10 DEF MapRing
  <2>2. Pointers'
    BY <1>0, <1>10 DEF MapRing
  <2>3. Progress'
    BY <1>0, <1>10 DEF MapRing
  <2>4. RingHeld' /\ ListLost'
    BY <1>0, <1>10 DEF MapRing
  <2>5. ModeNoted'
    BY <1>0, <1>10 DEF MapRing
  <2> QED
    BY <2>1, <2>2, <2>3, <2>4, <2>5 DEF OwnInv, ListedFirst
<1>11. CASE HeaderRing
  <2>1. NoBadFree'
    BY <1>0, <1>11 DEF HeaderRing
  <2>2. Pointers'
    BY <1>0, <1>11 DEF HeaderRing
  <2>3. Progress'
    BY <1>0, <1>11 DEF HeaderRing
  <2>4. RingHeld' /\ ListLost'
    BY <1>0, <1>11 DEF HeaderRing
  <2>5. ModeNoted'
    BY <1>0, <1>11 DEF HeaderRing
  <2> QED
    BY <2>1, <2>2, <2>3, <2>4, <2>5 DEF OwnInv, ListedFirst
<1>12. CASE Plain
  <2>1. NoBadFree'
    BY <1>0, <1>12 DEF Plain
  <2>2. Pointers'
    BY <1>0, <1>12 DEF Plain
  <2>3. Progress'
    BY <1>0, <1>12 DEF Plain
  <2>4. RingHeld' /\ ListLost'
    BY <1>0, <1>12 DEF Plain
  <2>5. ModeNoted'
    BY <1>0, <1>12 DEF Plain
  <2> QED
    BY <2>1, <2>2, <2>3, <2>4, <2>5 DEF OwnInv, ListedFirst
<1>13. CASE OldSocket
  <2>1. NoBadFree'
    BY <1>0, <1>13 DEF OldSocket
  <2>2. Pointers'
    BY <1>0, <1>13 DEF OldSocket
  <2>3. Progress'
    BY <1>0, <1>13 DEF OldSocket
  <2>4. RingHeld' /\ ListLost'
    BY <1>0, <1>13 DEF OldSocket
  <2>5. ModeNoted'
    BY <1>0, <1>13 DEF OldSocket
  <2> QED
    BY <2>1, <2>2, <2>3, <2>4, <2>5 DEF OwnInv, ListedFirst
<1>14. CASE OldType
  <2>1. NoBadFree'
    BY <1>0, <1>14 DEF OldType
  <2>2. Pointers'
    BY <1>0, <1>14 DEF OldType
  <2>3. Progress'
    BY <1>0, <1>14 DEF OldType
  <2>4. RingHeld' /\ ListLost'
    BY <1>0, <1>14 DEF OldType
  <2>5. ModeNoted'
    BY <1>0, <1>14 DEF OldType
  <2> QED
    BY <2>1, <2>2, <2>3, <2>4, <2>5 DEF OwnInv, ListedFirst
<1>15. CASE OldPromisc
  <2>1. NoBadFree'
    BY <1>0, <1>15 DEF OldPromisc
  <2>2. Pointers'
    BY <1>0, <1>15 DEF OldPromisc
  <2>3. Progress'
    BY <1>0, <1>15 DEF OldPromisc
  <2>4. RingHeld' /\ ListLost'
    BY <1>0, <1>15 DEF OldPromisc
  <2>5. ModeNoted'
    BY <1>0, <1>15 DEF OldPromisc
  <2> QED
    BY <2>1, <2>2, <2>3, <2>4, <2>5 DEF OwnInv, ListedFirst
<1>16. CASE OldBuffer
  <2>1. NoBadFree'
    BY <1>0, <1>16 DEF OldBuffer
  <2>2. Pointers'
    BY <1>0, <1>16 DEF OldBuffer
  <2>3. Progress'
    BY <1>0, <1>16 DEF OldBuffer
  <2>4. RingHeld' /\ ListLost'
    BY <1>0, <1>16 DEF OldBuffer
  <2>5. ModeNoted'
    BY <1>0, <1>16 DEF OldBuffer
  <2> QED
    BY <2>1, <2>2, <2>3, <2>4, <2>5 DEF OwnInv, ListedFirst
<1>17. CASE CleanupFailed
  <2>1. NoBadFree'
    BY <1>0, <1>17 DEF CleanupFailed
  <2>2. Pointers'
    BY <1>0, <1>17 DEF CleanupFailed
  <2>3. Progress'
    BY <1>0, <1>17 DEF CleanupFailed
  <2>4. RingHeld' /\ ListLost'
    BY <1>0, <1>17 DEF CleanupFailed
  <2>5. ModeNoted'
    BY <1>0, <1>17 DEF CleanupFailed
  <2> QED
    BY <2>1, <2>2, <2>3, <2>4, <2>5 DEF OwnInv, ListedFirst
<1>18. CASE OpenLiveFails
  <2>1. NoBadFree'
    BY <1>0, <1>18 DEF OpenLiveFails
  <2>2. Pointers'
    BY <1>0, <1>18 DEF OpenLiveFails
  <2>3. Progress'
    BY <1>0, <1>18 DEF OpenLiveFails
  <2>4. RingHeld' /\ ListLost'
    BY <1>0, <1>18 DEF OpenLiveFails
  <2>5. ModeNoted'
    BY <1>0, <1>18 DEF OpenLiveFails
  <2> QED
    BY <2>1, <2>2, <2>3, <2>4, <2>5 DEF OwnInv, ListedFirst
<1>19. CASE Setfilter
  <2>1. NoBadFree'
    BY <1>0, <1>19 DEF Setfilter
  <2>2. Pointers'
    BY <1>0, <1>19 DEF Setfilter
  <2>3. Progress'
    BY <1>0, <1>19 DEF Setfilter
  <2>4. RingHeld' /\ ListLost'
    BY <1>0, <1>19 DEF Setfilter
  <2>5. ModeNoted'
    BY <1>0, <1>19 DEF Setfilter
  <2> QED
    BY <2>1, <2>2, <2>3, <2>4, <2>5 DEF OwnInv, ListedFirst
<1>20. CASE LoopReturns
  <2>1. NoBadFree'
    BY <1>0, <1>20 DEF LoopReturns
  <2>2. Pointers'
    BY <1>0, <1>20 DEF LoopReturns
  <2>3. Progress'
    BY <1>0, <1>20 DEF LoopReturns
  <2>4. RingHeld' /\ ListLost'
    BY <1>0, <1>20 DEF LoopReturns
  <2>5. ModeNoted'
    BY <1>0, <1>20 DEF LoopReturns
  <2> QED
    BY <2>1, <2>2, <2>3, <2>4, <2>5 DEF OwnInv, ListedFirst
<1>21. CASE Abort
  BY <1>0, <1>21 DEF Abort, OwnInv, ListedFirst
<1>22. CASE Return
  BY <1>0, <1>22 DEF Return, OwnInv, ListedFirst
<1>23. CASE CloseAll
  <2>1. NoBadFree'
    BY <1>0, <1>23 DEF CloseAll
  <2>2. Pointers'
    BY <1>0, <1>23 DEF CloseAll
  <2>3. Progress'
    BY <1>0, <1>23 DEF CloseAll
  <2>4. RingHeld' /\ ListLost'
    BY <1>0, <1>23 DEF CloseAll
  <2>5. ModeNoted'
    BY <1>0, <1>23 DEF CloseAll
  <2> QED
    BY <2>1, <2>2, <2>3, <2>4, <2>5 DEF OwnInv, ListedFirst
<1>24. CASE Exit
  BY <1>0, <1>24 DEF Exit, OwnInv, ListedFirst
<1> QED
  BY <1>1, <1>2, <1>3, <1>4, <1>5, <1>6, <1>7, <1>8, <1>9, <1>10, <1>11,
     <1>12, <1>13, <1>14, <1>15, <1>16, <1>17, <1>18, <1>19, <1>20, <1>21,
     <1>22, <1>23, <1>24 DEF Open, End

(* The steps of the other parts leave the handle alone.  If the devices    *)
(* could not be listed, exit(1) comes before anything was opened.          *)
LEMMA OwnInvStep == OwnInv /\ [ServerNext]_allvars => OwnInv'
<1> SUFFICES ASSUME OwnInv, [ServerNext]_allvars  PROVE OwnInv'
  OBVIOUS
<1>1. ASSUME UNCHANGED vars, list_pc = "printed" => list_pc' = "printed"
      PROVE  OwnInv'
  <2>1. /\ NoBadFree' /\ Pointers' /\ Progress' /\ RingHeld' /\ ListLost'
        /\ ModeNoted'
    BY <1>1 DEF vars, OwnInv, NoBadFree, Pointers, Progress, RingHeld,
       ListLost,
                ModeNoted
  <2>2. ListedFirst'
    BY <1>1 DEF vars, OwnInv, ListedFirst
  <2> QED
    BY <2>1, <2>2 DEF OwnInv
<1>2. CASE FindAllDevs \/ DevicesChange
  <2>1. list_pc # "printed"
    BY <1>2 DEF FindAllDevs, DevicesChange, D!pcap_findalldevs, D!Getifaddrs,
      D!Address, D!AddressesEnd, D!OpenSys, D!OpenProc, D!OpenSource,
      D!ScanSys, D!ScanProc, D!ScanUsb, D!ScanBreaks, D!ScanEnds, D!AddAny,
      D!UsbEnds
  <2> QED
    BY <2>1, <1>1, <1>2 DEF FindAllDevs, DevicesChange
<1>3. CASE PrintDevices
  BY <1>1, <1>3 DEF PrintDevices, ForgetDevices
<1>4. CASE NoDevices
  <2>1. /\ list_pc' = "printed" /\ pc = "create" /\ pc' = "exit"
        /\ held' = held /\ ptr' = ptr /\ bad' = bad
        /\ arptype' = arptype /\ cleanup_op' = cleanup_op
        /\ must_clear' = must_clear /\ to_close' = to_close
        /\ promisc' = promisc /\ restore' = restore
    BY <1>4 DEF NoDevices, ForgetDevices, Fail, Goto, own, mode, OwnInv,
                ListedFirst
  <2>2. NoBadFree' /\ Pointers' /\ Progress'
    BY <2>1 DEF OwnInv, NoBadFree, Pointers, Progress, Unnoted, RingMade,
       Working
  <2>3. RingHeld' /\ ListLost' /\ ModeNoted' /\ ListedFirst'
    BY <2>1 DEF OwnInv, RingHeld, ListLost, ModeNoted, ListedFirst, RingMade,
                Working, Unnoted
  <2> QED
    BY <2>2, <2>3 DEF OwnInv
<1>5. CASE OpenLive \/ MakeRing \/ FilterDone \/ LoopEnds
  <2>1. list_pc = "printed" /\ list_pc' = list_pc
    BY <1>5 DEF OpenLive, MakeRing, FilterDone, LoopEnds, Listed, device
  <2> QED
    BY <2>1, <1>5, ActivationKeeps DEF OpenLive, MakeRing, FilterDone, LoopEnds
<1>6. CASE Layout \/ InstallFilter \/ Read \/ FramesArrive
  BY <1>1, <1>6 DEF Layout, InstallFilter, Read, FramesArrive, Listed, device
<1>7. CASE UNCHANGED allvars
  BY <1>1, <1>7 DEF allvars, device
<1> QED
  BY <1>2, <1>3, <1>4, <1>5, <1>6, <1>7 DEF ServerNext, Process

-----------------------------------------------------------------------------
(* Division with remainder, as create_ring's sizes need it.                *)
LEMMA DivMod ==
  ASSUME NEW a \in Nat, NEW b \in Nat \ {0}
  PROVE  /\ a \div b \in Nat
         /\ b * (a \div b) <= a
         /\ a < b * (a \div b) + b
  OBVIOUS

(* A product of sizes is a size.                                           *)
LEMMA Product ==
  ASSUME NEW a \in Nat, NEW b \in Nat
  PROVE  a * b \in Nat
  OBVIOUS

(* A slot has room for more than its header.                               *)
LEMMA Aligned ==
  ASSUME NEW a \in Nat
  PROVE  ((68 + a + 16 - 1) \div 16) * 16 \in Nat \ {0}
  OBVIOUS

(* A number between q * b and q * b + b lies in the block q.               *)
LEMMA DivUnique ==
  ASSUME NEW q \in Nat, NEW b \in Nat \ {0}, NEW a \in Nat,
         q * b <= a, a < q * b + b
  PROVE  a \div b = q
<1> DEFINE d == a \div b
<1>1. d \in Nat /\ b * d <= a /\ a < b * d + b
  BY DivMod
<1> HIDE DEF d
<1>2. ASSUME d < q  PROVE FALSE
  <2>1. PICK e \in Nat : q = d + 1 + e
    <3>1. q - d - 1 \in Nat /\ q = d + 1 + (q - d - 1)
      BY <1>1, <1>2
    <3> QED
      BY <3>1
  <2>2. q * b = b * d + b + e * b /\ e * b >= 0
    BY <2>1, <1>1
  <2> QED
    BY <2>2, <1>1
<1>3. ASSUME q < d  PROVE FALSE
  <2>1. PICK e \in Nat : d = q + 1 + e
    <3>1. d - q - 1 \in Nat /\ d = q + 1 + (d - q - 1)
      BY <1>1, <1>3
    <3> QED
      BY <3>1
  <2>2. b * d = q * b + b + e * b /\ e * b >= 0
    BY <2>1, <1>1
  <2> QED
    BY <2>2, <1>1
<1> QED
  BY <1>1, <1>2, <1>3 DEF d

(* A number smaller than the divisor is its own remainder.                 *)
LEMMA SmallMod ==
  ASSUME NEW b \in Nat \ {0}, NEW a \in Nat, a < b
  PROVE  a % b = a
<1> DEFINE d == a \div b
           r == a % b
<1>1. a = b * d + r /\ r \in Int
  OBVIOUS
<1>2. d = 0
  <2>1. 0 * b = 0
    OBVIOUS
  <2>2. 0 \in Nat /\ 0 * b <= a /\ a < 0 * b + b
    BY <2>1
  <2> QED
    BY <2>2, DivUnique, Zenon
<1> HIDE DEF d, r
<1>3. b * d = 0
  BY <1>2
<1>4. a = r
  BY <1>1, <1>3
<1> QED
  BY <1>4 DEF r

(* At least one frame fits in a block, and all of them do.                 *)
LEMMA FramesFit ==
  ASSUME tp_frame_size \in Nat \ {0}, tp_block_size \in Nat \ {0},
         tp_frame_size <= tp_block_size
  PROVE  /\ R!frames_per_block \in Nat \ {0}
         /\ R!frames_per_block * tp_frame_size <= tp_block_size
<1> DEFINE f == tp_block_size \div tp_frame_size
<1>1. /\ f \in Nat /\ tp_frame_size * f <= tp_block_size
      /\ tp_block_size < tp_frame_size * f + tp_frame_size
  BY DivMod
<1> HIDE DEF f
<1>2. f # 0
  <2>1. f = 0 => tp_frame_size * f = 0
    OBVIOUS
  <2> QED
    BY <2>1, <1>1
<1>3. f * tp_frame_size = tp_frame_size * f
  BY <1>1
<1> QED
  BY <1>1, <1>2, <1>3 DEF R!frames_per_block, f

(* While the sizes are settled there are no pointers yet.                  *)
LEMMA SizesKeep ==
  ASSUME LayoutInv, ProcessAssumption,
         R!Enter \/ R!DoubleBlock \/ R!Retry \/ R!NoMemory
  PROVE  LayoutInv'
<1> USE DEF R!fill, LayoutInv
<1>1. ring_pc \in {"idle", "block", "retry", "request"}
  BY DEF R!Enter, R!DoubleBlock, R!Retry, R!NoMemory
<1>2. /\ buffer = << >> /\ cc = 0 /\ i = 0 /\ j = 0 /\ base = 0
      /\ buffer' = << >> /\ cc' = 0 /\ i' = 0 /\ j' = 0 /\ base' = 0
  BY <1>1 DEF R!Enter, R!DoubleBlock, R!Retry, R!NoMemory, SizeInv, FillInv
<1>3. ring_pc' \in {"block", "retry", "request"}
  BY DEF R!Enter, R!DoubleBlock, R!Retry, R!NoMemory
<1>4. FillInv'
  BY <1>2, <1>3 DEF FillInv
<1>5. SlotsDisjoint'
  BY <1>2, <1>3 DEF SlotsDisjoint, R!SlotsDisjoint
<1>6. SizeInv'
  <2>1. CASE R!Enter
    <3>1. frame_size' \in Nat
      BY <2>1 DEF R!Enter, ProcessAssumption
    <3>2. tp_frame_size' = R!TPACKET_ALIGN(R!macoff + frame_size')
      BY <2>1 DEF R!Enter
    <3>3. R!macoff = 68
      BY DEF R!macoff, R!TPACKET_ALIGN, R!TPACKET_ALIGNMENT, R!TP_HDRLEN,
             R!SOCKADDR_LL, R!MAX_LINKHEADER_SIZE, R!TP_RESERVE
    <3>4. tp_frame_size' \in Nat \ {0}
      <4>1. tp_frame_size' = ((68 + frame_size' + 16 - 1) \div 16) * 16
        BY <3>1, <3>2, <3>3 DEF R!TPACKET_ALIGN, R!TPACKET_ALIGNMENT
      <4> QED
        BY <4>1, <3>1, Aligned
    <3>5. tp_frame_nr' \in Nat
      BY <2>1, <3>4, DivMod DEF R!Enter, ProcessAssumption
    <3> QED
      BY <2>1, <3>4, <3>5 DEF R!Enter, SizeInv, ProcessAssumption
  <2>2. CASE R!DoubleBlock
    BY <2>2 DEF R!DoubleBlock, SizeInv
  <2>3. CASE R!Retry
    <3>1. /\ tp_frame_size \in Nat \ {0} /\ tp_block_size \in Nat \ {0}
          /\ tp_frame_size <= tp_block_size /\ tp_frame_nr \in Nat
      BY <2>3 DEF R!Retry, SizeInv
    <3>2. R!frames_per_block \in Nat \ {0}
      BY <3>1, FramesFit
    <3>3. tp_block_nr' = tp_frame_nr \div R!frames_per_block
      BY <2>3 DEF R!Retry, R!MatchBlocks
    <3>4. tp_block_nr' \in Nat
      BY <3>1, <3>2, <3>3, DivMod
    <3>5. R!frames_per_block' = R!frames_per_block
      BY <2>3 DEF R!Retry, R!frames_per_block
    <3>6. /\ tp_frame_nr' = tp_block_nr' * R!frames_per_block
          /\ ring_pc' = "request" /\ tp_frame_size' = tp_frame_size
          /\ tp_block_size' = tp_block_size
      BY <2>3 DEF R!Retry, R!MatchBlocks
    <3>7. tp_frame_nr' \in Nat
      BY <3>2, <3>4, <3>6, Product
    <3> QED
      BY <3>1, <3>4, <3>5, <3>6, <3>7 DEF SizeInv
  <2>4. CASE R!NoMemory
    <3>1. /\ tp_frame_size \in Nat \ {0} /\ tp_block_size \in Nat \ {0}
          /\ tp_frame_size <= tp_block_size /\ tp_frame_nr \in Nat
          /\ tp_block_nr \in Nat /\ tp_block_nr > 1
          /\ tp_frame_nr = tp_block_nr * R!frames_per_block
      BY <2>4 DEF R!NoMemory, SizeInv
    <3>2. R!frames_per_block \in Nat \ {0}
      BY <3>1, FramesFit
    <3>3. tp_frame_nr # 0
      BY <3>1, <3>2
    <3>4. R!Less \in Nat
      BY <3>1, <3>3 DEF R!Less
    <3> QED
      BY <2>4, <3>1, <3>4 DEF R!NoMemory, SizeInv
  <2> QED
    BY <2>1, <2>2, <2>3, <2>4
<1> QED
  BY <1>4, <1>5, <1>6

(* The first entry of the header ring is the start of the first block.     *)
LEMMA RingCreatedKeeps ==
  ASSUME LayoutInv, R!RingCreated
  PROVE  LayoutInv'
<1>1. /\ ring_pc = "request" /\ ring_pc' = "fill" /\ cc' = tp_frame_nr
      /\ buffer' = buffer /\ i' = i /\ j' = j /\ base' = base
      /\ tp_frame_size' = tp_frame_size /\ tp_frame_nr' = tp_frame_nr
      /\ tp_block_size' = tp_block_size /\ tp_block_nr' = tp_block_nr
  BY DEF R!RingCreated, R!req
<1>2. buffer = << >> /\ i = 0 /\ j = 0 /\ base = 0
  BY <1>1 DEF LayoutInv, FillInv
<1>3. /\ tp_frame_size \in Nat \ {0} /\ tp_block_size \in Nat \ {0}
      /\ tp_frame_size <= tp_block_size /\ tp_frame_nr \in Nat
      /\ tp_block_nr \in Nat
  BY <1>1 DEF LayoutInv, SizeInv
<1>4. R!frames_per_block \in Nat \ {0}
  BY <1>3, FramesFit
<1>5. R!frames_per_block' = R!frames_per_block
  BY <1>1 DEF R!frames_per_block
<1>6. SizeInv'
  BY <1>1, <1>5 DEF LayoutInv, SizeInv
<1>7. /\ i * R!frames_per_block + j = 0
      /\ i * tp_block_size + j * tp_frame_size = 0
  BY <1>2, <1>3, <1>4
<1>8. FillInv'
  BY <1>1, <1>2, <1>3, <1>4, <1>5, <1>7 DEF FillInv
<1>9. SlotsDisjoint'
  BY <1>1, <1>2, <1>3 DEF SlotsDisjoint, R!SlotsDisjoint
<1> QED
  BY <1>6, <1>8, <1>9 DEF LayoutInv

(* A pointer more: the slot at base is in block i, behind all slots before *)
(* it, and as j counts the slots of the block it does not reach past it.   *)
LEMMA FillFrameKeeps ==
  ASSUME LayoutInv, R!FillFrame
  PROVE  LayoutInv'
<1> DEFINE f == R!frames_per_block
           fs == tp_frame_size
           bs == tp_block_size
<1>1. /\ ring_pc = "fill" /\ ring_pc' = "fill" /\ cc' = cc /\ i' = i
      /\ i < tp_block_nr /\ j < f
      /\ buffer' = Append(buffer, base) /\ base' = base + fs /\ j' = j + 1
      /\ tp_frame_size' = tp_frame_size /\ tp_frame_nr' = tp_frame_nr
      /\ tp_block_size' = tp_block_size /\ tp_block_nr' = tp_block_nr
  BY DEF R!FillFrame, R!req
<1>2. /\ fs \in Nat \ {0} /\ bs \in Nat \ {0} /\ fs <= bs
      /\ tp_frame_nr \in Nat /\ tp_block_nr \in Nat
      /\ tp_frame_nr = tp_block_nr * f
  BY <1>1 DEF LayoutInv, SizeInv
<1>3. f \in Nat \ {0} /\ f * fs <= bs /\ f' = f
  <2>1. f' = f
    BY <1>1 DEF R!frames_per_block
  <2> QED
    BY <2>1, <1>2, FramesFit
<1>4. /\ buffer \in Seq(Nat) /\ Len(buffer) \in Nat /\ cc = tp_frame_nr
      /\ i \in Nat /\ j \in Nat /\ base \in Nat
      /\ Len(buffer) = i * f + j /\ base = i * bs + j * fs
      /\ Len(buffer) > 0 => buffer[Len(buffer)] + fs <= base
  BY <1>1 DEF LayoutInv, FillInv
<1>5. \A k \in 1 .. Len(buffer) :
        /\ buffer[k] + fs <= tp_block_nr * bs
        /\ buffer[k] \div bs = (buffer[k] + fs - 1) \div bs
        /\ k > 1 => buffer[k] >= buffer[k - 1] + fs
  BY DEF LayoutInv, SlotsDisjoint, R!SlotsDisjoint
<1>6. /\ Len(buffer') = Len(buffer) + 1 /\ buffer' \in Seq(Nat)
      /\ \A k \in 1 .. Len(buffer) : buffer'[k] = buffer[k]
      /\ buffer'[Len(buffer) + 1] = base
  BY <1>1, <1>4
<1> HIDE DEF f, fs, bs
<1>7. /\ j * fs + fs <= bs
      /\ j * fs \in Nat /\ i * bs \in Nat /\ i * f \in Nat
  <2>1. PICK e \in Nat : f = j + 1 + e
    <3>1. f - j - 1 \in Nat /\ f = j + 1 + (f - j - 1)
      BY <1>1, <1>3, <1>4
    <3> QED
      BY <3>1
  <2>2. f * fs = j * fs + fs + e * fs /\ e * fs \in Nat
    BY <2>1, <1>2, <1>4
  <2>3. j * fs \in Nat /\ i * bs \in Nat /\ i * f \in Nat
    BY <1>2, <1>3, <1>4, Product
  <2>4. f * fs \in Nat
    BY <1>2, <1>3, Product
  <2> QED
    BY <2>2, <2>3, <2>4, <1>2, <1>3
<1>8. i * bs + bs <= tp_block_nr * bs
  <2>1. PICK e \in Nat : tp_block_nr = i + 1 + e
    <3>1. tp_block_nr - i - 1 \in Nat /\ tp_block_nr = i + 1 + (tp_block_nr - i - 1)
      BY <1>1, <1>2, <1>4
    <3> QED
      BY <3>1
  <2>2. tp_block_nr * bs = i * bs + bs + e * bs /\ e * bs \in Nat
    BY <2>1, <1>2, <1>4
  <2> QED
    BY <2>2, <1>2, <1>7
<1>9. i * f + f <= tp_block_nr * f /\ tp_block_nr * f \in Nat
  <2>1. PICK e \in Nat : tp_block_nr = i + 1 + e
    <3>1. tp_block_nr - i - 1 \in Nat /\ tp_block_nr = i + 1 + (tp_block_nr - i - 1)
      BY <1>1, <1>2, <1>4
    <3> QED
      BY <3>1
  <2>2. tp_block_nr * f = i * f + f + e * f /\ e * f \in Nat
    BY <2>1, <1>3, <1>4
  <2> QED
    BY <2>2, <1>3, <1>7
<1>10. tp_block_nr * bs \in Nat
  BY <1>2, Product
<1>11. base + fs <= tp_block_nr * bs
  <2>1. \A p, q, m \in Nat : p + fs <= bs /\ q + bs <= m => (q + p) + fs <= m
    BY <1>2
  <2> QED
    BY <2>1, <1>4, <1>7, <1>8, <1>10
<1>12. base \div bs = i /\ (base + fs - 1) \div bs = i
  <2>1. i * bs <= base /\ base < i * bs + bs
    BY <1>2, <1>4, <1>7
  <2>2. /\ base + fs - 1 \in Nat
        /\ i * bs <= base + fs - 1 /\ base + fs - 1 < i * bs + bs
    BY <1>2, <1>4, <1>7
  <2> QED
    BY <2>1, <2>2, <1>2, <1>4, DivUnique
<1>13. \A k \in 1 .. Len(buffer') :
         /\ buffer'[k] + fs <= tp_block_nr * bs
         /\ buffer'[k] \div bs = (buffer'[k] + fs - 1) \div bs
         /\ k > 1 => buffer'[k] >= buffer'[k - 1] + fs
  <2> SUFFICES ASSUME NEW k \in 1 .. Len(buffer')
               PROVE  /\ buffer'[k] + fs <= tp_block_nr * bs
                      /\ buffer'[k] \div bs = (buffer'[k] + fs - 1) \div bs
                      /\ k > 1 => buffer'[k] >= buffer'[k - 1] + fs
    OBVIOUS
  <2>1. CASE k <= Len(buffer)
    <3>1. k \in 1 .. Len(buffer) /\ (k > 1 => k - 1 \in 1 .. Len(buffer))
      BY <2>1, <1>4, <1>6
    <3> QED
      BY <3>1, <1>5, <1>6
  <2>2. CASE k = Len(buffer) + 1
    <3>1. k > 1 => k - 1 \in 1 .. Len(buffer) /\ k - 1 = Len(buffer)
      BY <2>2, <1>4
    <3>2. k > 1 => buffer'[k] >= buffer'[k - 1] + fs
      BY <3>1, <2>2, <1>2, <1>4, <1>6
    <3> QED
      BY <3>2, <2>2, <1>6, <1>11, <1>12
  <2> QED
    BY <2>1, <2>2, <1>4, <1>6
<1>14. Len(buffer') <= cc
  <2>1. \A p, m \in Nat : p + f <= m => (p + j) + 1 <= m
    BY <1>1, <1>3, <1>4
  <2> QED
    BY <2>1, <1>2, <1>4, <1>6, <1>7, <1>9
<1>15. SlotsDisjoint'
  BY <1>1, <1>13, <1>14 DEF SlotsDisjoint, R!SlotsDisjoint, fs, bs
<1>16. SizeInv'
  BY <1>1, <1>2, <1>3 DEF LayoutInv, SizeInv, f, fs, bs
<1>17. /\ Len(buffer') = i * f + (j + 1) /\ base' \in Nat /\ j' \in Nat
       /\ base' = i * bs + (j + 1) * fs
       /\ buffer'[Len(buffer')] + fs <= base'
       /\ j + 1 <= f /\ i <= tp_block_nr /\ i # tp_block_nr
  <2>1. (j + 1) * fs = j * fs + fs
    BY <1>2, <1>4
  <2> QED
    BY <2>1, <1>1, <1>2, <1>3, <1>4, <1>6, <1>7
<1>18. FillInv'
  <2>1. buffer' \in Seq(Nat) /\ cc' \in Nat /\ i' \in Nat
    BY <1>1, <1>2, <1>4, <1>6
  <2> QED
    BY <2>1, <1>1, <1>3, <1>4, <1>17 DEF FillInv, f, fs, bs
<1> QED
  BY <1>15, <1>16, <1>18 DEF LayoutInv

(* The next block: what is left of the last one is skipped.                *)
LEMMA FillBlockKeeps ==
  ASSUME LayoutInv, R!FillBlock
  PROVE  LayoutInv'
<1> DEFINE f == R!frames_per_block
           fs == tp_frame_size
           bs == tp_block_size
<1>1. /\ ring_pc = "fill" /\ ring_pc' = "fill" /\ cc' = cc
      /\ i < tp_block_nr /\ j >= f /\ i' = i + 1 /\ j' = 0
      /\ buffer' = buffer /\ base' = (i + 1) * bs
      /\ tp_frame_size' = tp_frame_size /\ tp_frame_nr' = tp_frame_nr
      /\ tp_block_size' = tp_block_size /\ tp_block_nr' = tp_block_nr
  BY DEF R!FillBlock, R!req
<1>2. /\ fs \in Nat \ {0} /\ bs \in Nat \ {0} /\ fs <= bs
      /\ tp_frame_nr \in Nat /\ tp_block_nr \in Nat
      /\ tp_frame_nr = tp_block_nr * f
  BY <1>1 DEF LayoutInv, SizeInv
<1>3. f \in Nat \ {0} /\ f * fs <= bs /\ f' = f
  <2>1. f' = f
    BY <1>1 DEF R!frames_per_block
  <2> QED
    BY <2>1, <1>2, FramesFit
<1>4. /\ buffer \in Seq(Nat) /\ Len(buffer) \in Nat /\ cc = tp_frame_nr
      /\ cc \in Nat /\ i \in Nat /\ j \in Nat /\ base \in Nat /\ j <= f
      /\ Len(buffer) = i * f + j /\ base = i * bs + j * fs
      /\ Len(buffer) > 0 => buffer[Len(buffer)] + fs <= base
      /\ Len(buffer) > 0 => buffer[Len(buffer)] \in Nat
  BY <1>1 DEF LayoutInv, FillInv
<1> HIDE DEF f, fs, bs
<1>5. j = f
  BY <1>1, <1>3, <1>4
<1>6. SizeInv'
  BY <1>1, <1>2, <1>3 DEF LayoutInv, SizeInv, f, fs, bs
<1>7. SlotsDisjoint'
  BY <1>1 DEF LayoutInv, SlotsDisjoint, R!SlotsDisjoint
<1>8. /\ Len(buffer) = (i + 1) * f + 0
      /\ (i + 1) * bs = (i + 1) * bs + 0 * fs /\ (i + 1) * bs \in Nat
  BY <1>2, <1>3, <1>4, <1>5
<1>9. base <= (i + 1) * bs
  <2>1. (i + 1) * bs = i * bs + bs /\ i * bs \in Nat /\ f * fs \in Nat
    BY <1>2, <1>3, <1>4
  <2>2. \A p, q \in Nat : p <= bs => q + p <= q + bs
    BY <1>2
  <2>3. base = i * bs + f * fs
    BY <1>4, <1>5
  <2> QED
    BY <2>1, <2>2, <2>3, <1>3
<1>10. Len(buffer) > 0 => buffer[Len(buffer)] + fs <= (i + 1) * bs
  BY <1>2, <1>4, <1>8, <1>9
<1>11. FillInv'
  <2>1. buffer' \in Seq(Nat) /\ cc' \in Nat /\ i' \in Nat /\ j' \in Nat
    BY <1>1, <1>4
  <2>2. i + 1 <= tp_block_nr /\ 0 <= f
    BY <1>1, <1>2, <1>3, <1>4
  <2> QED
    BY <2>1, <2>2, <1>1, <1>3, <1>4, <1>8, <1>10 DEF FillInv, f, fs, bs
<1> QED
  BY <1>6, <1>7, <1>11 DEF LayoutInv

(* The loops end with every pointer set.                                   *)
LEMMA FilledKeeps ==
  ASSUME LayoutInv, R!Filled
  PROVE  LayoutInv'
<1>1. /\ ring_pc = "fill" /\ ring_pc' = "ready" /\ cc' = cc
      /\ i >= tp_block_nr /\ i' = i /\ j' = j /\ buffer' = buffer
      /\ base' = base
      /\ tp_frame_size' = tp_frame_size /\ tp_frame_nr' = tp_frame_nr
      /\ tp_block_size' = tp_block_size /\ tp_block_nr' = tp_block_nr
  BY DEF R!Filled, R!req, R!fill
<1>2. /\ tp_frame_size \in Nat \ {0} /\ tp_block_size \in Nat \ {0}
      /\ tp_frame_size <= tp_block_size /\ tp_block_nr \in Nat
      /\ tp_frame_nr = tp_block_nr * R!frames_per_block /\ tp_frame_nr \in Nat
  BY <1>1 DEF LayoutInv, SizeInv
<1>3. R!frames_per_block' = R!frames_per_block
  BY <1>1 DEF R!frames_per_block
<1>4. R!frames_per_block \in Nat
  BY <1>2, FramesFit
<1>5. i = tp_block_nr /\ j = 0 /\ Len(buffer) = i * R!frames_per_block + j
  BY <1>1, <1>2 DEF LayoutInv, FillInv
<1>6. Len(buffer) = cc
  <2>1. tp_block_nr * R!frames_per_block + 0 = tp_frame_nr
    BY <1>2
  <2>2. cc = tp_frame_nr
    BY <1>1 DEF LayoutInv, FillInv
  <2> QED
    BY <2>1, <2>2, <1>5
<1>7. SizeInv'
  BY <1>1, <1>3 DEF LayoutInv, SizeInv
<1>8. FillInv'
  BY <1>1, <1>3, <1>5 DEF LayoutInv, FillInv
<1>9. SlotsDisjoint'
  BY <1>1, <1>6 DEF LayoutInv, SlotsDisjoint, R!SlotsDisjoint
<1> QED
  BY <1>7, <1>8, <1>9 DEF LayoutInv

(* create_ring fails, or returns.                                          *)
LEMMA RingEndKeeps ==
  ASSUME LayoutInv, R!RingFails \/ R!Leave
  PROVE  LayoutInv'
<1>1. CASE R!RingFails
  <2>1. /\ ring_pc = "request" /\ ring_pc' = "failed" /\ cc' = cc
        /\ i' = i /\ j' = j /\ buffer' = buffer /\ base' = base
        /\ tp_frame_size' = tp_frame_size /\ tp_frame_nr' = tp_frame_nr
        /\ tp_block_size' = tp_block_size /\ tp_block_nr' = tp_block_nr
    BY <1>1 DEF R!RingFails, R!req, R!fill
  <2>2. SizeInv'
    BY <2>1 DEF LayoutInv, SizeInv
  <2>3. FillInv'
    BY <2>1 DEF LayoutInv, FillInv
  <2>4. SlotsDisjoint'
    BY <2>1 DEF LayoutInv, SlotsDisjoint, R!SlotsDisjoint
  <2> QED
    BY <2>2, <2>3, <2>4 DEF LayoutInv
<1>2. CASE R!Leave
  <2>1. /\ ring_pc' = "idle" /\ cc' = 0 /\ i' = 0 /\ j' = 0 /\ base' = 0
        /\ buffer' = << >> /\ tp_frame_nr' = 0 /\ tp_block_nr' = 0
    BY <1>2 DEF R!Leave
  <2>2. SizeInv' /\ FillInv' /\ SlotsDisjoint'
    BY <2>1 DEF SizeInv, FillInv, SlotsDisjoint, R!SlotsDisjoint
  <2> QED
    BY <2>2 DEF LayoutInv
<1> QED
  BY <1>1, <1>2

(* Every other step of the server leaves the layout alone.                 *)
LEMMA LayoutInvStep == LayoutInv /\ [ServerNext]_allvars => LayoutInv'
<1> SUFFICES ASSUME LayoutInv, [ServerNext]_allvars  PROVE LayoutInv'
  OBVIOUS
<1>1. ASSUME UNCHANGED layout  PROVE LayoutInv'
  <2>1. R!frames_per_block' = R!frames_per_block
    BY <1>1 DEF layout, R!frames_per_block
  <2>2. SizeInv' /\ FillInv'
    BY <2>1, <1>1 DEF layout, LayoutInv, SizeInv, FillInv
  <2>3. SlotsDisjoint'
    BY <1>1 DEF layout, LayoutInv, SlotsDisjoint, R!SlotsDisjoint
  <2> QED
    BY <2>2, <2>3 DEF LayoutInv
<1>2. CASE Layout
  BY <1>2, ProcessAssumption, SizesKeep, FillFrameKeeps, FillBlockKeeps,
     FilledKeeps, RingEndKeeps DEF Layout
<1>3. CASE MakeRing
  <2>1. R!RingFails \/ R!RingCreated \/ UNCHANGED layout
    BY <1>3 DEF MakeRing
  <2> QED
    BY <2>1, <1>1, RingCreatedKeeps, RingEndKeeps
<1>4. CASE \/ FindAllDevs \/ PrintDevices \/ NoDevices \/ OpenLive
           \/ InstallFilter \/ FilterDone \/ Read \/ LoopEnds \/ DevicesChange
           \/ FramesArrive \/ UNCHANGED allvars
  BY <1>1, <1>4 DEF FindAllDevs, PrintDevices, NoDevices, OpenLive,
     InstallFilter, FilterDone, Read, LoopEnds, DevicesChange, FramesArrive,
     allvars
<1> QED
  BY <1>2, <1>3, <1>4 DEF ServerNext, Process

-----------------------------------------------------------------------------
(* Every way through the failures of set_kernel_filter counts those to     *)
(* take the total filter off.                                              *)
LEMMA TotalKeeps ==
  ASSUME TotalInv,
         F!SetFilter \/ F!Network \/ F!ReadFrame \/ F!Forget
  PROVE  TotalInv'
<1> USE DEF TotalInv, TotalOnlyIfStuck, F!TotalOnlyIfStuck, F!Goto, F!Reset,
            F!network
<1>1. CASE F!Install \/ F!AttachTotal \/ F!Drain
  BY <1>1 DEF F!Install, F!AttachTotal, F!Drain
<1>2. CASE F!DrainFailed
  BY <1>2 DEF F!DrainFailed
<1>3. CASE F!AttachNew
  BY <1>3 DEF F!AttachNew
<1>4. CASE F!AttachNewFails
  BY <1>4 DEF F!AttachNewFails
<1>5. CASE F!Unused
  BY <1>5 DEF F!Unused
<1>6. CASE F!StartWalk \/ F!WalkFree \/ F!WalkEnds
  BY <1>6 DEF F!StartWalk, F!WalkFree, F!WalkEnds
<1>7. CASE F!Network
  BY <1>7 DEF F!Network, F!RunFilter, F!StoreFrame
<1>8. CASE F!ReadFrame
  BY <1>8 DEF F!ReadFrame
<1>9. CASE F!Forget
  BY <1>9 DEF F!Forget
<1> QED
  BY <1>1, <1>2, <1>3, <1>4, <1>5, <1>6, <1>7, <1>8, <1>9 DEF F!SetFilter

(* How the distance of a slot changes when one of the two moves on.        *)
LEMMA RankMoves ==
  ASSUME RING_SLOTS \in Nat \ {0},
         NEW o \in F!RingSlot, NEW k \in F!RingSlot
  PROVE  /\ Rank(o, k) \in 0 .. RING_SLOTS - 1
         /\ Rank(o, k) = 0 <=> k = o
         /\ F!Advance(k) \in F!RingSlot /\ F!Back(k) \in F!RingSlot
         /\ Rank(F!Advance(o), k) =
              IF k = o THEN RING_SLOTS - 1 ELSE Rank(o, k) - 1
         /\ Rank(o, F!Advance(k)) =
              IF Rank(o, k) = RING_SLOTS - 1 THEN 0 ELSE Rank(o, k) + 1
         /\ Rank(o, F!Back(k)) =
              IF k = o THEN RING_SLOTS - 1 ELSE Rank(o, k) - 1
  BY DEF Rank, F!RingSlot, F!Advance, F!Back

(* No two slots are at the same distance.                                  *)
LEMMA RankInjective ==
  ASSUME RING_SLOTS \in Nat \ {0}, NEW o \in F!RingSlot,
         NEW a \in F!RingSlot, NEW b \in F!RingSlot, Rank(o, a) = Rank(o, b)
  PROVE  a = b
  BY DEF Rank, F!RingSlot

(* The foreign frames can be counted, and farther away there are fewer.    *)
LEMMA ForeignCount ==
  ASSUME RING_SLOTS \in Nat \ {0}, NEW slots, NEW o, NEW r,
         NEW S, S \subseteq ForeignFrom(slots, o, r)
  PROVE  /\ IsFiniteSet(S) /\ IsFiniteSet(ForeignFrom(slots, o, r))
         /\ Cardinality(S) \in Nat
         /\ Cardinality(ForeignFrom(slots, o, r)) \in Nat
         /\ Cardinality(S) <= Cardinality(ForeignFrom(slots, o, r))
<1>1. IsFiniteSet(0 .. RING_SLOTS - 1)
  BY FS_Interval
<1>2. ForeignFrom(slots, o, r) \in SUBSET (0 .. RING_SLOTS - 1)
  BY DEF ForeignFrom
<1>3. IsFiniteSet(ForeignFrom(slots, o, r))
  BY <1>1, <1>2, FS_Subset
<1>4. IsFiniteSet(S) /\ Cardinality(S) <= Cardinality(ForeignFrom(slots, o, r))
  BY <1>3, FS_Subset
<1> QED
  BY <1>3, <1>4, FS_CardinalityType

Slots == SwapType /\ Dense /\ WalkAt /\ LateInv

(* Until the new filter is attached, or given up, nothing was passed to    *)
(* the callback, and installing filters does not touch the ring.           *)
LEMMA SetupKeeps ==
  ASSUME Slots, RING_SLOTS \in Nat \ {0},
         \/ F!Install \/ F!AttachTotal \/ F!Drain \/ F!DrainFailed
         \/ F!AttachNew \/ F!AttachNewFails \/ F!Unused
  PROVE  Slots'
<1> USE DEF Slots, F!Goto, F!network, F!Reset
<1>1. /\ ring' = ring /\ head' = head /\ offset' = offset /\ saved' = saved
      /\ n' = n /\ late' = late /\ foreign' = foreign
      /\ filter_pc # "walk" /\ filter_pc' # "walk" /\ filter_pc # "read"
  BY DEF F!Install, F!AttachTotal, F!Drain, F!DrainFailed, F!AttachNew,
         F!AttachNewFails, F!Unused
<1>2. /\ use_bpf' \in Nat
      /\ filter_pc' = "read" => use_bpf' = 0
      /\ filter_pc' \in {"install", "total", "unused", "drain", "attach"} =>
           use_bpf' = 0
  BY DEF F!Install, F!AttachTotal, F!Drain, F!DrainFailed, F!AttachNew,
         F!AttachNewFails, F!Unused, SwapType, LateInv
<1>3. Start' = offset /\ Start = offset
  BY <1>1 DEF Start
<1>4. SwapType'
  BY <1>1, <1>2 DEF SwapType, F!RingSlot, F!Kind
<1>5. Dense'
  BY <1>1, <1>3 DEF Dense, F!RingSlot
<1>6. WalkAt'
  BY <1>1 DEF WalkAt
<1>7. LateInv'
  BY <1>1, <1>2 DEF LateInv
<1> QED
  BY <1>4, <1>5, <1>6, <1>7

(* The walk begins in front of the slot that is read first.                *)
LEMMA StartWalkKeeps ==
  ASSUME Slots, RING_SLOTS \in Nat \ {0}, F!StartWalk
  PROVE  Slots'
<1>1. /\ filter_pc = "count" /\ filter_pc' = "walk" /\ saved' = offset
      /\ offset' = F!Back(offset) /\ n' = 0
      /\ ring' = ring /\ head' = head /\ late' = late /\ foreign' = foreign
      /\ use_bpf' = use_bpf
  BY DEF F!StartWalk, F!network
<1>2. offset \in F!RingSlot /\ foreign = 0
  BY <1>1 DEF Slots, SwapType, LateInv
<1>3. /\ offset' \in F!RingSlot
      /\ Rank(offset, offset') = RING_SLOTS - 1
  BY <1>1, <1>2, RankMoves
<1>4. Start' = offset /\ Start = offset
  BY <1>1 DEF Start
<1>5. SwapType'
  BY <1>1, <1>2, <1>3 DEF Slots, SwapType, F!RingSlot, F!Kind
<1>6. Dense'
  BY <1>1, <1>4 DEF Slots, Dense, F!RingSlot
<1>7. WalkAt'
  BY <1>1, <1>3 DEF WalkAt
<1>8. LateInv'
  BY <1>1, <1>2 DEF LateInv
<1> QED
  BY <1>5, <1>6, <1>7, <1>8 DEF Slots

(* A free slot found by the walk has only free slots behind it, so that    *)
(* what lies there afterwards came late.                                   *)
LEMMA WalkFreeKeeps ==
  ASSUME Slots, RING_SLOTS \in Nat \ {0}, F!WalkFree
  PROVE  Slots'
<1>1. /\ filter_pc = "walk" /\ filter_pc' = "walk" /\ saved' = saved
      /\ offset' = F!Back(offset) /\ n' = n + 1 /\ n < RING_SLOTS
      /\ ring[F!Back(offset)] = KERNEL
      /\ ring' = ring /\ head' = head /\ late' = late /\ foreign' = foreign
      /\ use_bpf' = use_bpf
  BY DEF F!WalkFree, F!network
<1>2. /\ offset \in F!RingSlot /\ saved \in F!RingSlot /\ head \in F!RingSlot
      /\ n \in Nat /\ late \in Nat /\ foreign = 0
      /\ Rank(saved, offset) = RING_SLOTS - 1 - n
  BY <1>1 DEF Slots, SwapType, LateInv, WalkAt
<1>3. Start' = saved /\ Start = saved
  BY <1>1 DEF Start
<1>4. /\ offset' \in F!RingSlot
      /\ Rank(saved, offset') =
           IF offset = saved THEN RING_SLOTS - 1 ELSE Rank(saved, offset) - 1
      /\ offset = saved <=> Rank(saved, offset) = 0
  BY <1>1, <1>2, RankMoves
<1>5. SwapType'
  BY <1>1, <1>2, <1>4 DEF Slots, SwapType, F!RingSlot, F!Kind
<1>6. Dense'
  BY <1>1, <1>3 DEF Slots, Dense, F!RingSlot
<1>7. WalkAt'
  BY <1>1, <1>2, <1>4 DEF WalkAt
<1>8. Cardinality(ForeignFrom(ring, saved, RING_SLOTS - 1 - (n + 1))) <= late
  <2> DEFINE X == ForeignFrom(ring, saved, RING_SLOTS - 1 - (n + 1))
  <2>1. CASE n + 1 < RING_SLOTS \/ n = 0
    <3>1. \A k \in F!RingSlot :
            Rank(saved, k) >= RING_SLOTS - 1 - (n + 1) => ring[k] = KERNEL
      <4>1. ring[head] = KERNEL /\ Rank(saved, offset') >= Rank(saved, head)
        <5>1. Rank(saved, head) \in Nat /\ Rank(saved, offset') \in Nat
          BY <1>2, <1>4, RankMoves
        <5> QED
          BY <5>1, <1>1, <1>3, <1>4 DEF Slots, Dense
      <4>2. \A k \in F!RingSlot : Rank(saved, k) \in 0 .. RING_SLOTS - 1
        BY <1>2, RankMoves
      <4>3. Rank(saved, offset') = IF n + 1 < RING_SLOTS
                                   THEN RING_SLOTS - 1 - (n + 1) ELSE 0
        BY <2>1, <1>1, <1>2, <1>4
      <4>4. ASSUME NEW k \in F!RingSlot,
                   Rank(saved, k) >= RING_SLOTS - 1 - (n + 1)
            PROVE  ~(Rank(saved, k) < Rank(saved, head))
        BY <4>1, <4>2, <4>3, <4>4, <1>1, <1>2
      <4> QED
        BY <4>1, <4>4, <1>3 DEF Slots, Dense
    <3>2. X = {}
      BY <3>1, ProcessAssumption DEF ForeignFrom, F!RingSlot, ProcessAssumption
    <3> QED
      BY <3>2, <1>2, FS_EmptySet
  <2>2. CASE n + 1 = RING_SLOTS /\ n > 0
    <3>1. X \subseteq ForeignFrom(ring, saved, RING_SLOTS - 1 - n)
      <4>1. \A k \in F!RingSlot : Rank(saved, k) \in 0 .. RING_SLOTS - 1
        BY <1>2, RankMoves
      <4> QED
        BY <4>1, <2>2, <1>2 DEF ForeignFrom, F!RingSlot
    <3>2. Cardinality(ForeignFrom(ring, saved, RING_SLOTS - 1 - n)) <= late
      BY <2>2, <1>1, <1>3 DEF Slots, LateInv
    <3>3. /\ Cardinality(X) \in Nat
          /\ Cardinality(ForeignFrom(ring, saved, RING_SLOTS - 1 - n)) \in Nat
          /\ Cardinality(X) <=
               Cardinality(ForeignFrom(ring, saved, RING_SLOTS - 1 - n))
      BY <3>1, ForeignCount
    <3> HIDE DEF X
    <3> QED
      BY <3>2, <3>3, <1>2 DEF X
  <2> QED
    BY <2>1, <2>2, <1>1, <1>2
<1>9. LateInv'
  BY <1>1, <1>2, <1>3, <1>8 DEF LateInv
<1> QED
  BY <1>5, <1>6, <1>7, <1>9 DEF Slots

(* The walk ends: what libpcap filters reaches as far as the walk did not. *)
LEMMA WalkEndsKeeps ==
  ASSUME Slots, RING_SLOTS \in Nat \ {0}, F!WalkEnds
  PROVE  Slots'
<1>1. /\ filter_pc = "walk" /\ filter_pc' = "read" /\ offset' = saved
      /\ saved' = 0 /\ n' = 0 /\ use_bpf' = 1 + (RING_SLOTS - n)
      /\ ring' = ring /\ head' = head /\ late' = late /\ foreign' = foreign
  BY DEF F!WalkEnds, F!network, F!Count
<1>2. /\ saved \in F!RingSlot /\ n \in 0 .. RING_SLOTS
      /\ late \in Nat /\ foreign = 0
  BY <1>1 DEF Slots, SwapType, LateInv
<1>3. Start' = saved /\ Start = saved
  BY <1>1 DEF Start
<1>4. SwapType'
  BY <1>1, <1>2 DEF Slots, SwapType, F!RingSlot, F!Kind
<1>5. Dense'
  BY <1>1, <1>3 DEF Slots, Dense, F!RingSlot
<1>6. WalkAt'
  BY <1>1 DEF WalkAt
<1>7. use_bpf' - 1 = RING_SLOTS - n /\ use_bpf' > 0
  BY <1>1, <1>2
<1>8. Cardinality(ForeignFrom(ring, saved, RING_SLOTS - n)) <= late
  <2> DEFINE X == ForeignFrom(ring, saved, RING_SLOTS - n)
  <2>1. \A k \in F!RingSlot : Rank(saved, k) \in 0 .. RING_SLOTS - 1
    BY <1>2, RankMoves
  <2>2. CASE n = 0
    <3>1. X = {}
      BY <2>1, <2>2 DEF ForeignFrom, F!RingSlot
    <3> QED
      BY <3>1, <1>2, FS_EmptySet
  <2>3. CASE n > 0
    <3>1. X \subseteq ForeignFrom(ring, saved, RING_SLOTS - 1 - n)
      BY <2>1, <1>2 DEF ForeignFrom, F!RingSlot
    <3>2. Cardinality(ForeignFrom(ring, saved, RING_SLOTS - 1 - n)) <= late
      BY <2>3, <1>1, <1>3 DEF Slots, LateInv
    <3>3. /\ Cardinality(X) \in Nat
          /\ Cardinality(ForeignFrom(ring, saved, RING_SLOTS - 1 - n)) \in Nat
          /\ Cardinality(X) <=
               Cardinality(ForeignFrom(ring, saved, RING_SLOTS - 1 - n))
      BY <3>1, ForeignCount
    <3> HIDE DEF X
    <3> QED
      BY <3>2, <3>3, <1>2 DEF X
  <2> QED
    BY <2>2, <2>3, <1>2
<1>9. LateInv'
  <2>1. 0 + Cardinality(ForeignFrom(ring, saved, RING_SLOTS - n)) <= late
    <3>1. Cardinality(ForeignFrom(ring, saved, RING_SLOTS - n)) \in Nat
      BY ForeignCount
    <3> QED
      BY <3>1, <1>8
  <2> QED
    BY <2>1, <1>1, <1>2, <1>3, <1>7 DEF LateInv
<1> QED
  BY <1>4, <1>5, <1>6, <1>9 DEF Slots

(* The kernel stores a frame behind the others; a foreign one that comes   *)
(* when libpcap has begun to count is late.                                *)
LEMMA StoreFrameKeeps ==
  ASSUME Slots, ProcessAssumption, NEW kind \in F!Kind, F!StoreFrame(kind)
  PROVE  Slots'
<1> USE DEF Slots
<1>1. /\ filter_pc' = filter_pc /\ offset' = offset /\ saved' = saved /\ n' = n
      /\ use_bpf' = use_bpf /\ foreign' = foreign
  BY DEF F!StoreFrame
<1>2. RING_SLOTS \in Nat \ {0} /\ kind # KERNEL
  BY DEF ProcessAssumption, F!Kind
<1>3. Start' = Start /\ Start \in F!RingSlot /\ head \in F!RingSlot
  BY <1>1 DEF Start, SwapType
<1>4. CASE ring[head] # KERNEL
  <2>1. ring' = ring /\ head' = head /\ late' = late
    BY <1>4 DEF F!StoreFrame
  <2>2. SwapType' /\ Dense'
    BY <2>1, <1>1, <1>3 DEF SwapType, Dense, F!RingSlot, F!Kind
  <2>3. WalkAt' /\ LateInv'
    BY <2>1, <1>1, <1>3 DEF WalkAt, LateInv
  <2> QED
    BY <2>2, <2>3
<1>5. CASE ring[head] = KERNEL
  <2>1. /\ ring' = [ring EXCEPT ![head] = kind] /\ head' = F!Advance(head)
        /\ late' = IF kind = "foreign" /\ filter_pc \in {"walk", "read"}
                   THEN late + 1 ELSE late
    BY <1>5 DEF F!StoreFrame
  <2>2. /\ late \in Nat /\ late' \in Nat
        /\ ring \in [F!RingSlot -> F!Kind \cup {KERNEL}]
    BY <2>1 DEF SwapType
  <2>3. /\ ring'[head] = kind
        /\ \A k \in F!RingSlot : k # head => ring'[k] = ring[k]
    BY <2>1, <2>2, <1>3
  <2>4. SwapType'
    <3>1. head' \in F!RingSlot
      BY <2>1, <1>2, <1>3, RankMoves
    <3>2. ring' \in [F!RingSlot -> F!Kind \cup {KERNEL}]
      BY <2>1, <2>2
    <3> QED
      BY <3>1, <3>2, <2>2, <1>1 DEF SwapType, F!RingSlot, F!Kind
  <2>5. \A k \in F!RingSlot :
          ring[k] # KERNEL <=> Rank(Start, k) < Rank(Start, head)
    BY <1>5 DEF Dense
  <2>6. \A k \in F!RingSlot :
          /\ Rank(Start, k) \in 0 .. RING_SLOTS - 1
          /\ Rank(Start, k) = 0 <=> k = Start
          /\ Rank(Start, k) = Rank(Start, head) => k = head
    BY <1>2, <1>3, RankMoves, RankInjective
  <2>7. /\ head' \in F!RingSlot
        /\ Rank(Start, head') = IF Rank(Start, head) = RING_SLOTS - 1
                                THEN 0 ELSE Rank(Start, head) + 1
    <3>1. head' = F!Advance(head)
      BY <2>1, Zenon
    <3>2. RING_SLOTS \in Nat \ {0} /\ Start \in F!RingSlot /\ head \in F!RingSlot
      BY <1>2, <1>3, Zenon
    <3>3. /\ F!Advance(head) \in F!RingSlot
          /\ Rank(Start, F!Advance(head)) =
               IF Rank(Start, head) = RING_SLOTS - 1 THEN 0 ELSE Rank(Start, head) + 1
      BY <3>2, RankMoves
    <3> QED
      BY <3>1, <3>3, Zenon
  <2>8. Dense'
    <3>1. CASE Rank(Start, head) = RING_SLOTS - 1
      <4>1. head' = Start
        BY <3>1, <2>6, <2>7
      <4>2. ASSUME NEW k \in F!RingSlot  PROVE ring'[k] # KERNEL
        <5>1. k # head => Rank(Start, k) < Rank(Start, head)
          BY <3>1, <2>6, <1>2, <1>3
        <5> QED
          BY <5>1, <2>3, <2>5, <1>2
      <4> QED
        BY <4>1, <4>2, <2>7, <1>3 DEF Dense, F!RingSlot
    <3>2. CASE Rank(Start, head) # RING_SLOTS - 1
      <4>1. Rank(Start, head') = Rank(Start, head) + 1
        BY <3>2, <2>7
      <4>2. head' # head /\ ring'[head'] = KERNEL
        <5>1. Rank(Start, head) \in Nat /\ Rank(Start, head') \in Nat
          BY <2>6, <2>7, <1>3
        <5>2. head' # head /\ ~(Rank(Start, head') < Rank(Start, head))
          BY <5>1, <4>1
        <5> QED
          BY <5>2, <2>3, <2>5, <2>7
      <4>3. ASSUME NEW k \in F!RingSlot
            PROVE  ring'[k] # KERNEL <=> Rank(Start, k) < Rank(Start, head')
        <5>1. CASE k = head
          BY <5>1, <4>1, <2>3, <2>6, <1>2, <1>3
        <5>2. CASE k # head
          <6>1. /\ Rank(Start, k) \in Nat /\ Rank(Start, head) \in Nat
                /\ Rank(Start, k) # Rank(Start, head)
            BY <5>2, <2>6, <1>3
          <6>2. Rank(Start, k) < Rank(Start, head)
                  <=> Rank(Start, k) < Rank(Start, head')
            BY <6>1, <4>1
          <6> QED
            BY <6>2, <5>2, <2>3, <2>5
        <5> QED
          BY <5>1, <5>2
      <4> QED
        BY <4>2, <4>3, <1>3 DEF Dense, F!RingSlot
    <3> QED
      BY <3>1, <3>2
  <2>9. WalkAt'
    BY <1>1 DEF WalkAt
  <2>10. ASSUME NEW r, filter_pc \in {"walk", "read"}
         PROVE  /\ Cardinality(ForeignFrom(ring', Start, r)) \in Nat
                /\ Cardinality(ForeignFrom(ring, Start, r)) \in Nat
                /\ Cardinality(ForeignFrom(ring', Start, r)) - late' <=
                     Cardinality(ForeignFrom(ring, Start, r)) - late
    <3> DEFINE X == ForeignFrom(ring, Start, r)
               Y == ForeignFrom(ring', Start, r)
    <3>1. IsFiniteSet(X) /\ IsFiniteSet(Y)
      BY <1>2, ForeignCount
    <3>2. Cardinality(X) \in Nat /\ Cardinality(Y) \in Nat
      BY <3>1, FS_CardinalityType
    <3>3. CASE kind = "foreign"
      <4>1. Y \subseteq X \cup {head}
        BY <2>3 DEF ForeignFrom, F!RingSlot
      <4>2. /\ IsFiniteSet(X \cup {head})
            /\ Cardinality(X \cup {head}) <= Cardinality(X) + 1
            /\ Cardinality(X \cup {head}) \in Nat
        <5> HIDE DEF X
        <5>1. /\ IsFiniteSet(X \cup {head})
              /\ Cardinality(X \cup {head}) =
                   IF head \in X THEN Cardinality(X) ELSE Cardinality(X) + 1
          BY <3>1, FS_AddElement
        <5> QED
          BY <5>1, <3>2
      <4>3. Cardinality(Y) <= Cardinality(X \cup {head})
        BY <4>1, <4>2, FS_Subset
      <4>4. late' = late + 1
        BY <2>1, <2>10, <3>3
      <4> HIDE DEF X, Y
      <4>5. Cardinality(Y) - late' <= Cardinality(X) - late
        BY <4>2, <4>3, <4>4, <3>2, <2>2
      <4> QED
        BY <4>5, <3>2 DEF X, Y
    <3>4. CASE kind # "foreign"
      <4>1. Y \subseteq X
        BY <3>4, <2>3 DEF ForeignFrom, F!RingSlot
      <4>2. Cardinality(Y) <= Cardinality(X)
        BY <4>1, <3>1, FS_Subset
      <4>3. late' = late
        BY <2>1, <3>4
      <4> HIDE DEF X, Y
      <4>4. Cardinality(Y) - late' <= Cardinality(X) - late
        BY <4>2, <4>3, <3>2, <2>2
      <4> QED
        BY <4>4, <3>2 DEF X, Y
    <3> QED
      BY <3>3, <3>4
  <2>11. foreign \in Nat
    BY DEF SwapType
  <2>12. LateInv'
    <3>1. ASSUME filter_pc = "read", use_bpf > 0
          PROVE  foreign + Cardinality(ForeignFrom(ring', Start, use_bpf - 1))
                   <= late'
      <4>1. foreign + Cardinality(ForeignFrom(ring, Start, use_bpf - 1)) <= late
        BY <3>1 DEF LateInv
      <4> QED
        BY <4>1, <3>1, <2>2, <2>10, <2>11
    <3>2. ASSUME filter_pc = "walk", n > 0
          PROVE  Cardinality(ForeignFrom(ring', Start, RING_SLOTS - 1 - n))
                   <= late'
      <4>1. Cardinality(ForeignFrom(ring, Start, RING_SLOTS - 1 - n)) <= late
        BY <3>2 DEF LateInv
      <4> QED
        BY <4>1, <3>2, <2>2, <2>10
    <3> QED
      BY <3>1, <3>2, <1>1, <1>3 DEF LateInv
  <2> QED
    BY <2>4, <2>8, <2>9, <2>12
<1> QED
  BY <1>4, <1>5

(* A frame is read: those behind it move up, and so does the end of what   *)
(* libpcap filters.                                                        *)
LEMMA ReadFrameKeeps ==
  ASSUME Slots, ProcessAssumption, F!ReadFrame
  PROVE  Slots'
<1> USE DEF Slots
<1>1. /\ filter_pc = "read" /\ filter_pc' = "read" /\ ring[offset] # KERNEL
      /\ use_bpf' = IF use_bpf > 1 THEN use_bpf - 1 ELSE use_bpf
      /\ ring' = [ring EXCEPT ![offset] = KERNEL]
      /\ offset' = F!Advance(offset) /\ head' = head /\ saved' = saved
      /\ n' = n /\ late' = late
      /\ foreign' = IF /\ use_bpf = 0 \/ use_bpf > 1 =>
                            F!Accepts("new", ring[offset])
                       /\ ring[offset] = "foreign"
                    THEN foreign + 1 ELSE foreign
  BY DEF F!ReadFrame, F!CountDown
<1>2. RING_SLOTS \in Nat \ {0} /\ KERNEL # "foreign"
  BY DEF ProcessAssumption
<1>3. /\ offset \in F!RingSlot /\ head \in F!RingSlot /\ use_bpf \in Nat
      /\ late \in Nat /\ foreign \in Nat
      /\ ring \in [F!RingSlot -> F!Kind \cup {KERNEL}]
  BY DEF SwapType
<1>4. Start = offset /\ Start' = offset' /\ offset' \in F!RingSlot
  BY <1>1, <1>2, <1>3, RankMoves DEF Start
<1>5. /\ ring'[offset] = KERNEL
      /\ \A k \in F!RingSlot : k # offset => ring'[k] = ring[k]
      /\ ring' \in [F!RingSlot -> F!Kind \cup {KERNEL}]
  BY <1>1, <1>3
<1>6. foreign' = IF use_bpf = 1 /\ ring[offset] = "foreign"
                 THEN foreign + 1 ELSE foreign
  BY <1>1, <1>3 DEF F!Accepts
<1>7. use_bpf' \in Nat /\ foreign' \in Nat
  BY <1>1, <1>3, <1>6
<1>8. SwapType'
  BY <1>1, <1>3, <1>4, <1>5, <1>7 DEF SwapType, F!RingSlot, F!Kind
<1>9. \A k \in F!RingSlot :
        /\ Rank(offset, k) \in 0 .. RING_SLOTS - 1
        /\ Rank(offset, k) = 0 <=> k = offset
        /\ Rank(offset', k) =
             IF k = offset THEN RING_SLOTS - 1 ELSE Rank(offset, k) - 1
  <2>1. offset' = F!Advance(offset)
    BY <1>1, Zenon
  <2>2. RING_SLOTS \in Nat \ {0} /\ offset \in F!RingSlot
    BY <1>2, <1>3, Zenon
  <2>3. \A k \in F!RingSlot :
          /\ Rank(offset, k) \in 0 .. RING_SLOTS - 1
          /\ Rank(offset, k) = 0 <=> k = offset
          /\ Rank(F!Advance(offset), k) =
               IF k = offset THEN RING_SLOTS - 1 ELSE Rank(offset, k) - 1
    BY <2>2, RankMoves
  <2> QED
    BY <2>1, <2>3, Zenon
<1>10. Dense'
  <2>1. CASE ring[head] # KERNEL
    <3>1. head = offset /\ \A k \in F!RingSlot : ring[k] # KERNEL
      BY <2>1, <1>4 DEF Dense
    <3>2. ring'[head] = KERNEL /\ Rank(offset', head) = RING_SLOTS - 1
      BY <3>1, <1>3, <1>5, <1>9
    <3>3. ASSUME NEW k \in F!RingSlot
          PROVE  ring'[k] # KERNEL <=> Rank(offset', k) < Rank(offset', head)
      <4>1. CASE k = offset
        BY <4>1, <3>2, <1>2, <1>5, <1>9
      <4>2. CASE k # offset
        BY <4>2, <3>1, <3>2, <1>2, <1>5, <1>9
      <4> QED
        BY <4>1, <4>2
    <3> QED
      BY <3>2, <3>3, <1>1, <1>4 DEF Dense, F!RingSlot
  <2>2. CASE ring[head] = KERNEL
    <3>1. \A k \in F!RingSlot :
            ring[k] # KERNEL <=> Rank(offset, k) < Rank(offset, head)
      BY <2>2, <1>4 DEF Dense
    <3>2. head # offset /\ ring'[head] = KERNEL
      BY <2>2, <1>1, <1>3, <1>5
    <3>3. Rank(offset', head) = Rank(offset, head) - 1
      BY <3>2, <1>3, <1>9
    <3>4. ASSUME NEW k \in F!RingSlot
          PROVE  ring'[k] # KERNEL <=> Rank(offset', k) < Rank(offset', head)
      <4>1. CASE k = offset
        <5>1. ~(Rank(offset', k) < Rank(offset', head))
          BY <4>1, <3>3, <1>2, <1>3, <1>9
        <5> QED
          BY <5>1, <4>1, <1>5
      <4>2. CASE k # offset
        <5>1. Rank(offset, k) < Rank(offset, head)
                <=> Rank(offset', k) < Rank(offset', head)
          BY <4>2, <3>3, <1>2, <1>3, <1>9
        <5> QED
          BY <5>1, <4>2, <3>1, <1>5
      <4> QED
        BY <4>1, <4>2
    <3> QED
      BY <3>2, <3>4, <1>1, <1>4 DEF Dense, F!RingSlot
  <2> QED
    BY <2>1, <2>2
<1>11. WalkAt'
  BY <1>1 DEF WalkAt
<1>12. LateInv'
  <2>1. CASE use_bpf = 0
    BY <2>1, <1>1, <1>6 DEF LateInv
  <2>2. CASE use_bpf > 0
    <3> DEFINE X == ForeignFrom(ring, offset, use_bpf - 1)
               Y == ForeignFrom(ring', offset', use_bpf' - 1)
    <3>1. IsFiniteSet(X) /\ IsFiniteSet(Y)
      BY <1>2, ForeignCount
    <3>2. Cardinality(X) \in Nat /\ Cardinality(Y) \in Nat
      BY <3>1, FS_CardinalityType
    <3>3. foreign + Cardinality(X) <= late
      BY <2>2, <1>1, <1>4 DEF LateInv
    <3>4. offset \notin Y
      BY <1>2, <1>5 DEF ForeignFrom
    <3>5. Y \subseteq X
      <4>1. ASSUME NEW k \in F!RingSlot, k # offset, ring'[k] = "foreign",
                   Rank(offset', k) >= use_bpf' - 1
            PROVE  ring[k] = "foreign" /\ Rank(offset, k) >= use_bpf - 1
        BY <4>1, <2>2, <1>1, <1>2, <1>3, <1>5, <1>9
      <4> QED
        BY <4>1, <3>4 DEF ForeignFrom, F!RingSlot
    <3>6. use_bpf = 1 /\ ring[offset] = "foreign" => offset \in X
      <4>1. Rank(offset, offset) = 0
        BY <1>3, <1>9
      <4> QED
        BY <4>1, <1>3 DEF ForeignFrom, F!RingSlot
    <3>7. foreign' + Cardinality(Y) <= late
      <4>1. CASE use_bpf = 1 /\ ring[offset] = "foreign"
        <5>1. /\ IsFiniteSet(X \ {offset})
              /\ Cardinality(X \ {offset}) = Cardinality(X) - 1
          BY <4>1, <3>1, <3>6, FS_RemoveElement
        <5>2. Y \subseteq X \ {offset}
          BY <3>4, <3>5
        <5>3. Cardinality(Y) <= Cardinality(X \ {offset})
          BY <5>1, <5>2, FS_Subset
        <5> HIDE DEF X, Y
        <5> QED
          BY <5>1, <5>3, <4>1, <3>2, <3>3, <1>3, <1>6
      <4>2. CASE ~(use_bpf = 1 /\ ring[offset] = "foreign")
        <5>1. Cardinality(Y) <= Cardinality(X)
          BY <3>1, <3>5, FS_Subset
        <5> HIDE DEF X, Y
        <5> QED
          BY <5>1, <4>2, <3>2, <3>3, <1>3, <1>6
      <4> QED
        BY <4>1, <4>2
    <3>8. use_bpf' > 0
      BY <2>2, <1>1, <1>3
    <3> QED
      BY <3>7, <3>8, <1>1, <1>4, <1>7 DEF LateInv
  <2> QED
    BY <2>1, <2>2, <1>3
<1> QED
  BY <1>8, <1>10, <1>11, <1>12

(* A frame that passes the kernel's filter is not in the ring yet; when    *)
(* the handle is closed there is no ring.                                  *)
LEMMA SwapRest ==
  ASSUME Slots, ProcessAssumption,
         (\E kind \in F!Kind : F!RunFilter(kind)) \/ F!Forget
  PROVE  Slots'
<1> USE DEF Slots
<1>1. CASE \E kind \in F!Kind : F!RunFilter(kind)
  <2>1. /\ filter_pc' = filter_pc /\ offset' = offset /\ saved' = saved
        /\ n' = n /\ use_bpf' = use_bpf /\ foreign' = foreign
        /\ ring' = ring /\ head' = head /\ late' = late
    BY <1>1 DEF F!RunFilter
  <2>2. Start' = Start
    BY <2>1 DEF Start
  <2>3. SwapType' /\ Dense'
    BY <2>1, <2>2 DEF SwapType, Dense, F!RingSlot, F!Kind
  <2>4. WalkAt' /\ LateInv'
    BY <2>1, <2>2 DEF WalkAt, LateInv
  <2> QED
    BY <2>3, <2>4
<1>2. CASE F!Forget
  <2>1. /\ filter_pc' = "install" /\ offset' = 0 /\ saved' = 0 /\ n' = 0
        /\ use_bpf' = 0 /\ foreign' = 0 /\ late' = 0 /\ head' = 0
        /\ ring' = [k \in F!RingSlot |-> KERNEL]
    BY <1>2 DEF F!Forget
  <2>2. RING_SLOTS \in Nat \ {0}
    BY DEF ProcessAssumption
  <2>3. 0 \in F!RingSlot
    BY <2>2 DEF F!RingSlot
  <2>4. Start' = 0
    BY <2>1 DEF Start
  <2>5. SwapType'
    BY <2>1, <2>2, <2>3 DEF SwapType, F!RingSlot, F!Kind
  <2>6. \A k \in F!RingSlot : ring'[k] = KERNEL
    BY <2>1
  <2>7. Rank(0, 0) = 0 /\ \A k \in F!RingSlot : ~(Rank(0, k) < 0)
    BY <2>2 DEF Rank, F!RingSlot
  <2>8. Dense'
    BY <2>1, <2>3, <2>4, <2>6, <2>7 DEF Dense, F!RingSlot
  <2>9. WalkAt' /\ LateInv'
    BY <2>1 DEF WalkAt, LateInv
  <2> QED
    BY <2>5, <2>8, <2>9
<1> QED
  BY <1>1, <1>2

(* The steps of pcap_setfilter, the kernel and pcap_loop; the others leave *)
(* socket and ring alone.                                                  *)
LEMMA SwapInvStep == SwapInv /\ [ServerNext]_allvars => SwapInv'
<1> SUFFICES ASSUME SwapInv, [ServerNext]_allvars  PROVE SwapInv'
  OBVIOUS
<1>1. SwapInv <=> TotalInv /\ Slots
  BY DEF SwapInv, Slots
<1>2. SwapInv' <=> TotalInv' /\ Slots'
  BY DEF SwapInv, Slots
<1>3. RING_SLOTS \in Nat \ {0}
  BY ProcessAssumption DEF ProcessAssumption
<1>4. ASSUME UNCHANGED filter  PROVE SwapInv'
  <2>1. Start' = Start
    BY <1>4 DEF filter, Start
  <2>2. TotalInv'
    BY <1>1, <1>4 DEF filter, TotalInv, TotalOnlyIfStuck, F!TotalOnlyIfStuck
  <2>3. SwapType' /\ Dense'
    BY <2>1, <1>1, <1>4 DEF filter, Slots, SwapType, Dense, F!RingSlot, F!Kind
  <2>4. WalkAt' /\ LateInv'
    BY <2>1, <1>1, <1>4 DEF filter, Slots, WalkAt, LateInv
  <2> QED
    BY <2>2, <2>3, <2>4, <1>2 DEF Slots
<1>5. CASE InstallFilter
  <2>1. F!SetFilter
    BY <1>5 DEF InstallFilter
  <2>2. Slots'
    BY <2>1, <1>1, <1>3, SetupKeeps, StartWalkKeeps, WalkFreeKeeps,
       WalkEndsKeeps DEF F!SetFilter
  <2> QED
    BY <2>1, <2>2, <1>1, <1>2, TotalKeeps
<1>6. CASE FramesArrive
  <2>1. F!Network
    BY <1>6 DEF FramesArrive
  <2>2. Slots'
    BY <2>1, <1>1, ProcessAssumption, StoreFrameKeeps, SwapRest DEF F!Network
  <2> QED
    BY <2>1, <2>2, <1>1, <1>2, TotalKeeps
<1>7. CASE Read
  <2>1. F!ReadFrame
    BY <1>7 DEF Read
  <2> QED
    BY <2>1, <1>1, <1>2, ProcessAssumption, ReadFrameKeeps, TotalKeeps
<1>8. CASE FilterDone \/ LoopEnds
  <2>1. F!Forget \/ UNCHANGED filter
    BY <1>8 DEF FilterDone, LoopEnds
  <2> QED
    BY <2>1, <1>1, <1>2, <1>4, ProcessAssumption, SwapRest, TotalKeeps
<1>9. CASE \/ FindAllDevs \/ PrintDevices \/ NoDevices \/ OpenLive \/ Layout
           \/ MakeRing \/ DevicesChange \/ UNCHANGED allvars
  BY <1>4, <1>9 DEF FindAllDevs, PrintDevices, NoDevices, OpenLive, Layout,
     MakeRing, DevicesChange, allvars
<1> QED
  BY <1>5, <1>6, <1>7, <1>8, <1>9 DEF ServerNext, Process

-----------------------------------------------------------------------------
(* A set of numbers that is not empty has a smallest one.                  *)
LEMMA SmallestOf ==
  ASSUME NEW S \in SUBSET Nat, S # {}
  PROVE  D!Min(S) \in S
<1> DEFINE Less == OpToRel(<, Nat)
<1>1. IsWellFoundedOn(Less, Nat)
  BY NatLessThanWellFounded, Zenon
<1>3. \A x, y \in Nat : y < x => <<y, x>> \in Less
  BY DEF OpToRel
<1> HIDE DEF Less
<1>4. PICK x \in S : \A y \in S : ~(<<y, x>> \in Less)
  BY <1>1, WFMin, Zenon
<1>5. ASSUME NEW y \in S  PROVE x <= y
  <2>1. ~(y < x)
    BY <1>3, <1>4, Zenon
  <2> QED
    BY <2>1
<1> QED
  BY <1>5 DEF D!Min

(* The walk along the list ends in the list or behind it, and the new      *)
(* entry goes there: the entries that were there stay.                     *)
LEMMA InsertedLemma ==
  ASSUME NEW list \in Seq(Entry), NEW d \in D!Devices
  PROVE  /\ D!Inserted(list, d) \in Seq(Entry)
         /\ \A e : (\E k \in 1 .. Len(D!Inserted(list, d)) :
                      D!Inserted(list, d)[k] = e)
                   <=> \/ \E k \in 1 .. Len(list) : list[k] = e
                       \/ e = [name |-> d, addresses |-> << >>]
<1> DEFINE e0 == [name |-> d, addresses |-> << >>]
           I == {k \in 1 .. Len(list) : D!GoesBefore(d, list[k].name)}
           m == IF I = {} THEN Len(list) + 1 ELSE D!Min(I)
           new == D!Inserted(list, d)
<1>1. m \in 1 .. Len(list) + 1
  <2>1. I \in SUBSET Nat /\ I \subseteq 1 .. Len(list)
    OBVIOUS
  <2>2. I # {} => D!Min(I) \in I
    BY <2>1, SmallestOf
  <2> QED
    BY <2>1, <2>2
<1>2. new = D!InsertAt(list, m, e0)
  <2>1. I # {} => D!Min(I) # 0
    <3>1. I \in SUBSET Nat /\ 0 \notin I
      OBVIOUS
    <3> QED
      BY <3>1, SmallestOf
  <2>2. new = D!InsertAt(list,
                IF (IF I # {} THEN D!Min(I) ELSE 0) = 0 THEN Len(list) + 1
                ELSE (IF I # {} THEN D!Min(I) ELSE 0), e0)
    BY DEF D!Inserted, D!SelectInSeq
  <2> QED
    BY <2>1, <2>2
<1>3. e0 \in Entry
  BY DEF Entry
<1> HIDE DEF e0, m
<1> DEFINE front == SubSeq(list, 1, m - 1)
           back  == SubSeq(list, m, Len(list))
<1>4. /\ front \in Seq(Entry) /\ back \in Seq(Entry) /\ <<e0>> \in Seq(Entry)
      /\ Len(front) = m - 1 /\ Len(back) = Len(list) + 1 - m /\ Len(<<e0>>) = 1
      /\ \A k \in 1 .. m - 1 : front[k] = list[k]
      /\ \A k \in 1 .. Len(list) + 1 - m : back[k] = list[m + k - 1]
  BY <1>1, <1>3
<1>5. new = (front \o <<e0>>) \o back
  BY <1>2 DEF D!InsertAt
<1> HIDE DEF front, back
<1> DEFINE fe == front \o <<e0>>
<1>6. /\ fe \in Seq(Entry) /\ Len(fe) = m
      /\ \A k \in 1 .. m - 1 : fe[k] = front[k]
      /\ fe[m] = e0
  BY <1>1, <1>3, <1>4
<1> HIDE DEF fe, new
<1>7. /\ new \in Seq(Entry) /\ Len(new) = Len(list) + 1
      /\ \A k \in 1 .. m : new[k] = fe[k]
      /\ \A k \in m + 1 .. Len(list) + 1 : new[k] = back[k - m]
  <2>1. new = fe \o back
    BY <1>5 DEF fe
  <2>2. new \in Seq(Entry) /\ Len(new) = Len(fe) + Len(back)
    <3>1. fe \in Seq(Entry) /\ back \in Seq(Entry)
      BY <1>4, <1>6
    <3> QED
      BY <2>1, <3>1, ConcatProperties, Zenon
  <2>3. Len(new) = Len(list) + 1
    BY <2>2, <1>1, <1>4, <1>6
  <2>4. \A k \in 1 .. Len(fe) + Len(back) :
          new[k] = IF k <= Len(fe) THEN fe[k] ELSE back[k - Len(fe)]
    <3>1. fe \in Seq(Entry) /\ back \in Seq(Entry)
      BY <1>4, <1>6
    <3> QED
      BY <2>1, <3>1, ConcatProperties, Zenon
  <2>5. ASSUME NEW k \in 1 .. m  PROVE new[k] = fe[k]
    <3>1. k \in 1 .. Len(fe) + Len(back) /\ k <= Len(fe)
      BY <1>1, <1>4, <1>6
    <3> QED
      BY <3>1, <2>4
  <2>6. ASSUME NEW k \in m + 1 .. Len(list) + 1  PROVE new[k] = back[k - m]
    <3>1. k \in 1 .. Len(fe) + Len(back) /\ ~(k <= Len(fe)) /\ Len(fe) = m
      BY <1>1, <1>4, <1>6
    <3> QED
      BY <3>1, <2>4
  <2> QED
    BY <2>2, <2>3, <2>5, <2>6
<1>8. /\ \A k \in 1 .. m - 1 : new[k] = list[k]
      /\ new[m] = e0
      /\ \A k \in m + 1 .. Len(list) + 1 : new[k] = list[k - 1]
  <2>1. \A k \in 1 .. m - 1 : new[k] = list[k]
    BY <1>1, <1>4, <1>6, <1>7
  <2>2. new[m] = e0
    BY <1>1, <1>6, <1>7
  <2>3. ASSUME NEW k \in m + 1 .. Len(list) + 1  PROVE new[k] = list[k - 1]
    <3>1. k - m \in 1 .. Len(list) + 1 - m /\ m + (k - m) - 1 = k - 1
      BY <1>1
    <3> QED
      BY <3>1, <1>4, <1>7
  <2> QED
    BY <2>1, <2>2, <2>3
<1>9. ASSUME NEW e
      PROVE  (\E k \in 1 .. Len(new) : new[k] = e)
               <=> (\E k \in 1 .. Len(list) : list[k] = e) \/ e = e0
  <2>1. ASSUME NEW k \in 1 .. Len(new), new[k] = e
        PROVE  (\E q \in 1 .. Len(list) : list[q] = e) \/ e = e0
    <3>1. CASE k < m
      <4>1. k \in 1 .. Len(list) /\ k \in 1 .. m - 1
        BY <3>1, <1>1, <1>7
      <4> QED
        BY <4>1, <2>1, <1>8
    <3>2. CASE k = m
      BY <3>2, <2>1, <1>8
    <3>3. CASE k > m
      <4>1. k - 1 \in 1 .. Len(list) /\ k \in m + 1 .. Len(list) + 1
        BY <3>3, <1>1, <1>7
      <4> QED
        BY <4>1, <2>1, <1>8
    <3> QED
      BY <3>1, <3>2, <3>3, <1>1, <1>7
  <2>2. ASSUME NEW q \in 1 .. Len(list), list[q] = e
        PROVE  \E k \in 1 .. Len(new) : new[k] = e
    <3>1. CASE q < m
      <4>1. q \in 1 .. m - 1 /\ q \in 1 .. Len(new)
        BY <3>1, <1>1, <1>7
      <4> QED
        BY <4>1, <2>2, <1>8
    <3>2. CASE q >= m
      <4>1. /\ q + 1 \in m + 1 .. Len(list) + 1 /\ q + 1 \in 1 .. Len(new)
            /\ (q + 1) - 1 = q
        BY <3>2, <1>1, <1>7
      <4>2. new[q + 1] = list[q]
        BY <4>1, <1>8
      <4> QED
        BY <4>1, <4>2, <2>2
    <3> QED
      BY <3>1, <3>2, <1>1
  <2>3. m \in 1 .. Len(new)
    BY <1>1, <1>7
  <2> QED
    BY <2>1, <2>2, <2>3, <1>8
<1> QED
  BY <1>7, <1>9 DEF new, e0

(* The memory of one entry.                                                *)
EntryHeap(e) ==
  D!EntryBlocks(e.name)
    \cup UNION {D!AddressBlocks(e.name, a) : a \in D!ToSet(e.addresses)}

(* The memory of the list is that of its entries.                          *)
LEMMA ListHeap ==
  ASSUME NEW list
  PROVE  \A x : x \in D!BlocksOf(list)
                  <=> \E k \in 1 .. Len(list) : x \in EntryHeap(list[k])
<1>1. D!BlocksOf(list) = UNION {EntryHeap(list[k]) : k \in 1 .. Len(list)}
  BY DEF D!BlocksOf, EntryHeap
<1> QED
  BY <1>1

(* A new entry: its own memory, and one more device in the list.           *)
LEMMA InsertedHeap ==
  ASSUME NEW list \in Seq(Entry), NEW d \in D!Devices
  PROVE  LET new == D!Inserted(list, d)
         IN  /\ new \in Seq(Entry)
             /\ D!BlocksOf(new) = D!BlocksOf(list) \cup D!EntryBlocks(d)
             /\ \A x : InList(new, x) <=> InList(list, x) \/ x = d
             /\ \A x : OnList(new, x) <=> OnList(list, x)
<1> DEFINE e0 == [name |-> d, addresses |-> << >>]
           new == D!Inserted(list, d)
<1>1. new \in Seq(Entry)
  BY InsertedLemma
<1>2. \A e : (\E k \in 1 .. Len(new) : new[k] = e)
              <=> (\E k \in 1 .. Len(list) : list[k] = e) \/ e = e0
  BY InsertedLemma
<1>3. EntryHeap(e0) = D!EntryBlocks(d)
  <2>1. D!ToSet(<< >>) = {}
    BY DEF D!ToSet
  <2>2. e0.name = d /\ e0.addresses = << >>
    OBVIOUS
  <2> QED
    BY <2>1, <2>2 DEF EntryHeap
<1>4. e0.name = d /\ D!ToSet(e0.addresses) = {}
  BY DEF D!ToSet
<1> HIDE DEF new, e0
<1>5. ASSUME NEW x
      PROVE  x \in D!BlocksOf(new)
               <=> x \in D!BlocksOf(list) \/ x \in D!EntryBlocks(d)
  <2>1. x \in D!BlocksOf(new)
          <=> \E k \in 1 .. Len(new) : x \in EntryHeap(new[k])
    BY ListHeap, Zenon
  <2>2. x \in D!BlocksOf(list)
          <=> \E k \in 1 .. Len(list) : x \in EntryHeap(list[k])
    BY ListHeap, Zenon
  <2> QED
    BY <2>1, <2>2, <1>2, <1>3, Zenon
<1>6. ASSUME NEW x  PROVE InList(new, x) <=> InList(list, x) \/ x = d
  <2>1. InList(new, x) <=> \E k \in 1 .. Len(new) : new[k].name = x
    BY DEF InList, D!Index
  <2>2. InList(list, x) <=> \E k \in 1 .. Len(list) : list[k].name = x
    BY DEF InList, D!Index
  <2>3. ASSUME InList(new, x)  PROVE InList(list, x) \/ x = d
    <3>1. PICK k \in 1 .. Len(new) : new[k].name = x
      BY <2>1, <2>3
    <3>2. (\E m \in 1 .. Len(list) : list[m] = new[k]) \/ new[k] = e0
      BY <1>2, ZenonT(60)
    <3> QED
      BY <3>1, <3>2, <2>2, <1>4, ZenonT(60)
  <2>4. ASSUME InList(list, x)  PROVE InList(new, x)
    <3>1. PICK k \in 1 .. Len(list) : list[k].name = x
      BY <2>2, <2>4
    <3>2. \E m \in 1 .. Len(new) : new[m] = list[k]
      BY <1>2, ZenonT(60)
    <3> QED
      BY <3>1, <3>2, <2>1, ZenonT(60)
  <2>5. ASSUME x = d  PROVE InList(new, x)
    <3>1. \E m \in 1 .. Len(new) : new[m] = e0
      BY <1>2, ZenonT(60)
    <3> QED
      BY <3>1, <2>5, <2>1, <1>4, ZenonT(60)
  <2> QED
    BY <2>3, <2>4, <2>5
<1>7. D!BlocksOf(new) = D!BlocksOf(list) \cup D!EntryBlocks(d)
  BY <1>5
<1>8. ASSUME NEW x  PROVE OnList(new, x) <=> OnList(list, x)
  <2>1. x \notin D!ToSet(e0.addresses)
    BY <1>4
  <2> QED
    BY <2>1, <1>2, Zenon DEF OnList
<1> QED
  BY <1>1, <1>6, <1>7, <1>8 DEF new

(* A new address: its own memory, and the list of the same devices.        *)
LEMMA AppendedHeap ==
  ASSUME NEW list \in Seq(Entry), NEW d, NEW a \in DOMAIN sockaddrs,
         NEW k \in D!Index(list, d)
  PROVE  LET new == [list EXCEPT ![k].addresses = Append(@, a)]
         IN  /\ new \in Seq(Entry)
             /\ D!BlocksOf(new) = D!BlocksOf(list) \cup D!AddressBlocks(d, a)
             /\ \A x : InList(new, x) <=> InList(list, x)
             /\ \A x : OnList(new, x) <=> OnList(list, x) \/ x = a
<1> DEFINE new == [list EXCEPT ![k].addresses = Append(@, a)]
           as == list[k].addresses
<1>1. k \in 1 .. Len(list) /\ list[k].name = d /\ list[k] \in Entry
  BY DEF D!Index
<1>2. as \in Seq(DOMAIN sockaddrs) /\ Append(as, a) \in Seq(DOMAIN sockaddrs)
  BY <1>1 DEF Entry
<1>3. /\ Len(new) = Len(list)
      /\ \A q \in 1 .. Len(list) : q # k => new[q] = list[q]
  BY <1>1
<1>4. new[k] = [list[k] EXCEPT !.addresses = Append(as, a)]
  BY <1>1
<1>5. new[k].name = d /\ new[k].addresses = Append(as, a) /\ new[k] \in Entry
  BY <1>1, <1>2, <1>4 DEF Entry
<1>6. new \in Seq(Entry)
  BY <1>1, <1>3, <1>5
<1>7. D!ToSet(Append(as, a)) = D!ToSet(as) \cup {a}
  <2>1. /\ Len(Append(as, a)) = Len(as) + 1 /\ Append(as, a)[Len(as) + 1] = a
        /\ \A q \in 1 .. Len(as) : Append(as, a)[q] = as[q]
        /\ Len(as) \in Nat
    BY <1>2
  <2>2. \A x : x \in D!ToSet(as) <=> \E q \in 1 .. Len(as) : as[q] = x
    BY <1>2 DEF D!ToSet
  <2>3. \A x : x \in D!ToSet(Append(as, a))
                 <=> \E q \in 1 .. Len(as) + 1 : Append(as, a)[q] = x
    <3>1. DOMAIN Append(as, a) = 1 .. Len(as) + 1
      BY <1>2, <2>1
    <3> HIDE DEF as
    <3> QED
      BY <3>1, Zenon DEF D!ToSet
  <2>4. \A q \in 1 .. Len(as) + 1 : q \in 1 .. Len(as) \/ q = Len(as) + 1
    BY <2>1
  <2>5. Len(as) + 1 \in 1 .. Len(as) + 1
        /\ \A q \in 1 .. Len(as) : q \in 1 .. Len(as) + 1
    BY <2>1
  <2>6. \A x : x \in D!ToSet(Append(as, a)) <=> x \in D!ToSet(as) \/ x = a
    BY <2>1, <2>2, <2>3, <2>4, <2>5, Zenon
  <2> QED
    BY <2>6
<1>8. EntryHeap(new[k]) = EntryHeap(list[k]) \cup D!AddressBlocks(d, a)
  <2> DEFINE T == D!ToSet(as)
             T2 == D!ToSet(Append(as, a))
             U1 == UNION {D!AddressBlocks(d, y) : y \in T}
             U2 == UNION {D!AddressBlocks(d, y) : y \in T2}
  <2> HIDE DEF new
  <2>1. EntryHeap(list[k]) = D!EntryBlocks(d) \cup U1
    BY <1>1 DEF EntryHeap
  <2>2. EntryHeap(new[k]) = D!EntryBlocks(d) \cup U2
    BY <1>5 DEF EntryHeap
  <2>3. T2 = T \cup {a}
    BY <1>7
  <2> HIDE DEF T, T2
  <2>4. \A z : z \in U1 <=> \E y \in T : z \in D!AddressBlocks(d, y)
    OBVIOUS
  <2>5. \A z : z \in U2 <=> \E y \in T2 : z \in D!AddressBlocks(d, y)
    OBVIOUS
  <2> HIDE DEF U1, U2
  <2>6. \A z : z \in U2 <=> z \in U1 \/ z \in D!AddressBlocks(d, a)
    BY <2>3, <2>4, <2>5, Zenon
  <2> QED
    BY <2>1, <2>2, <2>6
<1>12. ASSUME NEW x  PROVE OnList(new, x) <=> OnList(list, x) \/ x = a
  <2>1. OnList(new, x)
          <=> \E q \in 1 .. Len(list) : x \in D!ToSet(new[q].addresses)
    BY <1>3 DEF OnList
  <2>2. OnList(list, x)
          <=> \E q \in 1 .. Len(list) : x \in D!ToSet(list[q].addresses)
    BY DEF OnList
  <2>3. x \in D!ToSet(new[k].addresses)
          <=> x \in D!ToSet(list[k].addresses) \/ x = a
    BY <1>5, <1>7
  <2> HIDE DEF new, as
  <2> QED
    BY <2>1, <2>2, <2>3, <1>1, <1>3, Zenon
<1> HIDE DEF new, as
<1>9. ASSUME NEW x
      PROVE  x \in D!BlocksOf(new)
               <=> x \in D!BlocksOf(list) \/ x \in D!AddressBlocks(d, a)
  <2>1. x \in D!BlocksOf(new)
          <=> \E q \in 1 .. Len(list) : x \in EntryHeap(new[q])
    BY <1>3, ListHeap, Zenon
  <2>2. x \in D!BlocksOf(list)
          <=> \E q \in 1 .. Len(list) : x \in EntryHeap(list[q])
    BY ListHeap, Zenon
  <2>3. x \in EntryHeap(new[k])
          <=> x \in EntryHeap(list[k]) \/ x \in D!AddressBlocks(d, a)
    BY <1>8
  <2> QED
    BY <2>1, <2>2, <2>3, <1>1, <1>3, Zenon
<1>10. ASSUME NEW x  PROVE InList(new, x) <=> InList(list, x)
  <2>1. InList(new, x) <=> \E q \in 1 .. Len(list) : new[q].name = x
    BY <1>3 DEF InList, D!Index
  <2>2. InList(list, x) <=> \E q \in 1 .. Len(list) : list[q].name = x
    BY DEF InList, D!Index
  <2> QED
    BY <2>1, <2>2, <1>1, <1>3, <1>5, Zenon
<1>11. D!BlocksOf(new) = D!BlocksOf(list) \cup D!AddressBlocks(d, a)
  BY <1>9
<1> QED
  BY <1>6, <1>10, <1>11, <1>12 DEF new

-----------------------------------------------------------------------------
(* The parts of an address.                                                *)
LEMMA PartsOf ==
  ASSUME NEW a \in DOMAIN sockaddrs
  PROVE  /\ sockaddrs[a] \subseteq {"addr", "netmask", "broadaddr", "dstaddr"}
         /\ a \in Nat
BY ProcessAssumption DEF ProcessAssumption

(* Blocks that were not in use before, allocated and freed again, leave    *)
(* the memory as it was.                                                   *)
LEMMA FreeAgain ==
  ASSUME NEW blocks, NEW X, X \cap blocks = {}
  PROVE  D!Free(blocks \cup X, X) = blocks
BY DEF D!Free

(* So does an entry of which a part got no memory: what is freed on the    *)
(* way out is what was allocated (inet.c, lines 215 to 250).               *)
LEMMA EntryUndone ==
  ASSUME NEW d, NEW blocks, D!EntryBlocks(d) \cap blocks = {},
         NEW b \in D!NoMemory(D!EntryOrder, D!EntryParts(d), D!EntryFrees, d,
                              blocks)
  PROVE  b = blocks
<1> DEFINE parts == D!EntryParts(d)
           before(k) == {D!EntryOrder[i_1] : i_1 \in 1 .. k - 1} \cap parts
           frees(k) == D!EntryFrees[D!EntryOrder[k]] \cap parts
<1>1. PICK k \in 1 .. 3 :
        b = D!Free(blocks \cup (before(k) \X {d}), frees(k) \X {d})
  BY DEF D!NoMemory, D!EntryOrder
<1>2. before(k) = frees(k)
  <2>1. CASE k = 1
    BY <2>1 DEF D!EntryOrder, D!EntryFrees
  <2>2. CASE k = 2
    <3>1. 1 .. k - 1 = {1}
      BY <2>2
    <3> QED
      BY <2>2, <3>1 DEF D!EntryOrder, D!EntryFrees
  <2>3. CASE k = 3
    <3>1. 1 .. k - 1 = {1, 2}
      BY <2>3
    <3> QED
      BY <2>3, <3>1 DEF D!EntryOrder, D!EntryFrees
  <2> QED
    BY <2>1, <2>2, <2>3
<1>3. (frees(k) \X {d}) \cap blocks = {}
  BY DEF D!EntryBlocks
<1> HIDE DEF before, frees
<1> QED
  BY <1>1, <1>2, <1>3, FreeAgain

(* And an address, whichever of its parts are NULL (inet.c, lines 513 to   *)
(* 575).                                                                   *)
LEMMA AddressUndone ==
  ASSUME NEW d, NEW a, NEW blocks, D!AddressBlocks(d, a) \cap blocks = {},
         NEW b \in D!NoMemory(D!AddressOrder, D!AddressParts(a),
                              D!AddressFrees, <<d, a>>, blocks)
  PROVE  b = blocks
<1> DEFINE parts == D!AddressParts(a)
           before(k) == {D!AddressOrder[i_1] : i_1 \in 1 .. k - 1} \cap parts
           frees(k) == D!AddressFrees[D!AddressOrder[k]] \cap parts
<1>1. PICK k \in 1 .. 5 :
        b = D!Free(blocks \cup (before(k) \X {<<d, a>>}), frees(k) \X {<<d, a>>})
  BY DEF D!NoMemory, D!AddressOrder
<1>2. before(k) = frees(k)
  <2>1. CASE k = 1
    BY <2>1 DEF D!AddressOrder, D!AddressFrees
  <2>2. CASE k = 2
    <3>1. 1 .. k - 1 = {1}
      BY <2>2
    <3> QED
      BY <2>2, <3>1 DEF D!AddressOrder, D!AddressFrees
  <2>3. CASE k = 3
    <3>1. 1 .. k - 1 = {1, 2}
      BY <2>3
    <3> QED
      BY <2>3, <3>1 DEF D!AddressOrder, D!AddressFrees
  <2>4. CASE k = 4
    <3>1. 1 .. k - 1 = {1, 2, 3}
      BY <2>4
    <3> QED
      BY <2>4, <3>1 DEF D!AddressOrder, D!AddressFrees
  <2>5. CASE k = 5
    <3>1. 1 .. k - 1 = {1, 2, 3, 4}
      BY <2>5
    <3> QED
      BY <2>5, <3>1 DEF D!AddressOrder, D!AddressFrees
  <2> QED
    BY <2>1, <2>2, <2>3, <2>4, <2>5
<1>3. (frees(k) \X {<<d, a>>}) \cap blocks = {}
  BY DEF D!AddressBlocks
<1> HIDE DEF before, frees
<1> QED
  BY <1>1, <1>2, <1>3, FreeAgain

(* The blocks of a device that is not in the list are not in use.          *)
LEMMA NewEntryBlocks ==
  ASSUME NEW list \in Seq(Entry), NEW d, ~InList(list, d)
  PROVE  D!EntryBlocks(d) \cap D!BlocksOf(list) = {}
<1> SUFFICES ASSUME NEW p \in D!EntryParts(d), <<p, d>> \in D!BlocksOf(list)
             PROVE  FALSE
  BY DEF D!EntryBlocks
<1>1. PICK k \in 1 .. Len(list) : <<p, d>> \in EntryHeap(list[k])
  BY ListHeap
<1>2. list[k] \in Entry /\ list[k].name # d
  BY DEF InList, D!Index
<1>3. \A a \in D!ToSet(list[k].addresses) : a \in DOMAIN sockaddrs
  BY <1>2 DEF Entry, D!ToSet
<1>4. PICK a \in D!ToSet(list[k].addresses) :
        <<p, d>> \in D!AddressBlocks(list[k].name, a)
  BY <1>1, <1>2 DEF EntryHeap, D!EntryBlocks
<1>5. p \in D!AddressParts(a)
  BY <1>4 DEF D!AddressBlocks
<1> QED
  BY <1>3, <1>5, PartsOf DEF D!EntryParts, D!AddressParts

(* Nor are those of an address that is not in the list.                    *)
LEMMA NewAddressBlocks ==
  ASSUME NEW list \in Seq(Entry), NEW d, NEW a \in DOMAIN sockaddrs,
         ~OnList(list, a)
  PROVE  D!AddressBlocks(d, a) \cap D!BlocksOf(list) = {}
<1> SUFFICES ASSUME NEW p \in D!AddressParts(a),
                    <<p, <<d, a>>>> \in D!BlocksOf(list)
             PROVE  FALSE
  BY DEF D!AddressBlocks
<1>1. PICK k \in 1 .. Len(list) : <<p, <<d, a>>>> \in EntryHeap(list[k])
  BY ListHeap
<1>2. p \notin D!EntryParts(list[k].name)
  BY PartsOf DEF D!EntryParts, D!AddressParts
<1>3. PICK x \in D!ToSet(list[k].addresses) :
        <<p, <<d, a>>>> \in D!AddressBlocks(list[k].name, x)
  BY <1>1, <1>2 DEF EntryHeap, D!EntryBlocks
<1>4. <<d, a>> = <<list[k].name, x>>
  BY <1>3 DEF D!AddressBlocks
<1> QED
  BY <1>3, <1>4 DEF OnList

(* What a function that adds to the list leaves, in whichever way it ends: *)
(* the memory is that of the list, no device has left the list, the one it *)
(* was called for is in it unless it could not be opened, and of addresses *)
(* at most those of A are new.                                             *)
Sound(r, d, A) ==
  /\ r.list \in Seq(Entry) /\ r.heap = D!BlocksOf(r.list)
  /\ \A x : InList(devlist, x) => InList(r.list, x)
  /\ \A x : OnList(r.list, x) => OnList(devlist, x) \/ x \in A
  /\ r.ret \in {"entry", "none", "error"}
  /\ r.ret = "entry" => InList(r.list, d)
  /\ r.ret = "none" => ~D!Usable(d)

(* add_or_find_if finds the entry, makes one, or does neither.             *)
LEMMA AddOrFind ==
  ASSUME devlist \in Seq(Entry), heap = D!BlocksOf(devlist),
         NEW d \in D!Devices, NEW r \in D!add_or_find_if(d)
  PROVE  Sound(r, d, {})
<1>1. CASE D!Index(devlist, d) # {}
  <2>1. r = D!Result(devlist, heap, "entry")
    BY <1>1 DEF D!add_or_find_if
  <2>2. r.list = devlist /\ r.heap = heap /\ r.ret = "entry"
    BY <2>1 DEF D!Result
  <2> QED
    BY <2>2, <1>1 DEF Sound, InList
<1>2. CASE D!Index(devlist, d) = {} /\ ~D!Usable(d)
  <2>1. r = D!Result(devlist, heap, "none")
    BY <1>2 DEF D!add_or_find_if
  <2>2. r.list = devlist /\ r.heap = heap /\ r.ret = "none"
    BY <2>1 DEF D!Result
  <2> QED
    BY <2>2, <1>2 DEF Sound
<1>3. CASE D!Index(devlist, d) = {} /\ D!Usable(d)
  <2> DEFINE new == D!Inserted(devlist, d)
             lost == D!NoMemory(D!EntryOrder, D!EntryParts(d), D!EntryFrees, d,
                                heap)
  <2>1. \/ r = D!Result(new, heap \cup D!EntryBlocks(d), "entry")
        \/ \E b \in lost : r = D!Result(devlist, b, "error")
    BY <1>3 DEF D!add_or_find_if, D!NewEntry
  <2>2. /\ new \in Seq(Entry)
        /\ D!BlocksOf(new) = D!BlocksOf(devlist) \cup D!EntryBlocks(d)
        /\ \A x : InList(new, x) <=> InList(devlist, x) \/ x = d
        /\ \A x : OnList(new, x) <=> OnList(devlist, x)
    BY InsertedHeap, Zenon
  <2>3. \A b \in lost : b = heap
    <3>1. ~InList(devlist, d)
      BY <1>3 DEF InList
    <3>2. D!EntryBlocks(d) \cap heap = {}
      BY <3>1, NewEntryBlocks
    <3> QED
      BY <3>2, EntryUndone
  <2> HIDE DEF new, lost
  <2>4. CASE r = D!Result(new, heap \cup D!EntryBlocks(d), "entry")
    <3>1. /\ r.list = new /\ r.heap = heap \cup D!EntryBlocks(d)
          /\ r.ret = "entry"
      BY <2>4 DEF D!Result
    <3> QED
      BY <3>1, <2>2 DEF Sound
  <2>5. CASE r = D!Result(devlist, heap, "error")
    <3>1. r.list = devlist /\ r.heap = heap /\ r.ret = "error"
      BY <2>5 DEF D!Result
    <3> QED
      BY <3>1 DEF Sound
  <2> QED
    BY <2>1, <2>3, <2>4, <2>5
<1> QED
  BY <1>1, <1>2, <1>3

(* add_addr_to_iflist also adds the address, or runs out of memory.        *)
LEMMA AddAddress ==
  ASSUME devlist \in Seq(Entry), heap = D!BlocksOf(devlist),
         NEW d \in D!Devices, NEW a \in DOMAIN sockaddrs, ~OnList(devlist, a),
         NEW r \in D!add_addr_to_iflist(d, a)
  PROVE  Sound(r, d, {a})
<1>1. PICK f \in D!add_or_find_if(d) :
        r \in (IF f.ret = "entry" THEN D!Addressed(f, d, a) ELSE {f})
  BY DEF D!add_addr_to_iflist
<1>2. Sound(f, d, {})
  BY AddOrFind
<1>3. CASE f.ret = "entry"
  <2> DEFINE k == CHOOSE q \in D!Index(f.list, d) : TRUE
             new == [f.list EXCEPT ![k].addresses = Append(@, a)]
             lost == D!NoMemory(D!AddressOrder, D!AddressParts(a),
                                D!AddressFrees, <<d, a>>, f.heap)
  <2>1. /\ f.list \in Seq(Entry) /\ InList(f.list, d)
        /\ f.heap = D!BlocksOf(f.list)
        /\ \A x : InList(devlist, x) => InList(f.list, x)
        /\ \A x : OnList(f.list, x) => OnList(devlist, x)
    BY <1>2, <1>3 DEF Sound
  <2>2. k \in D!Index(f.list, d)
    BY <2>1 DEF InList
  <2>3. \/ r = D!Result(new, f.heap \cup D!AddressBlocks(d, a), "entry")
        \/ \E b \in lost : r = D!Result(f.list, b, "error")
    BY <1>1, <1>3 DEF D!Addressed
  <2> HIDE DEF k
  <2>4. /\ new \in Seq(Entry)
        /\ D!BlocksOf(new) = D!BlocksOf(f.list) \cup D!AddressBlocks(d, a)
        /\ \A x : InList(new, x) <=> InList(f.list, x)
        /\ \A x : OnList(new, x) <=> OnList(f.list, x) \/ x = a
    BY <2>1, <2>2, AppendedHeap, Zenon
  <2>5. \A b \in lost : b = f.heap
    <3>1. D!AddressBlocks(d, a) \cap f.heap = {}
      BY <2>1, NewAddressBlocks
    <3> QED
      BY <3>1, AddressUndone
  <2> HIDE DEF new, lost
  <2>6. CASE r = D!Result(new, f.heap \cup D!AddressBlocks(d, a), "entry")
    <3>1. /\ r.list = new /\ r.heap = f.heap \cup D!AddressBlocks(d, a)
          /\ r.ret = "entry"
      BY <2>6 DEF D!Result
    <3> QED
      BY <3>1, <2>1, <2>4 DEF Sound
  <2>7. CASE r = D!Result(f.list, f.heap, "error")
    <3>1. r.list = f.list /\ r.heap = f.heap /\ r.ret = "error"
      BY <2>7 DEF D!Result
    <3> QED
      BY <3>1, <2>1 DEF Sound
  <2> QED
    BY <2>3, <2>5, <2>6, <2>7
<1>4. CASE f.ret # "entry"
  BY <1>1, <1>2, <1>4 DEF Sound
<1> QED
  BY <1>3, <1>4

(* The list is freed, and nothing is left.                                 *)
Freed == list_pc' = "failed" /\ devlist' = << >> /\ heap' = {}

(* The list has what it had, d if d could be opened, and no addresses but  *)
(* those of A are new.                                                     *)
Grown(d, A) ==
  /\ list_pc' = list_pc
  /\ devlist' \in Seq(Entry) /\ heap' = D!BlocksOf(devlist')
  /\ \A x : InList(devlist, x) => InList(devlist', x)
  /\ \A x : OnList(devlist', x) => OnList(devlist, x) \/ x \in A
  /\ D!Usable(d) => InList(devlist', d)

(* pcap_freealldevs frees the blocks of an entry: the parts of the         *)
(* addresses that are not NULL, and a description only where there is one. *)
LEMMA EntryFreed ==
  ASSUME NEW e \in Entry
  PROVE  D!FreedWith(e) = EntryHeap(e)
<1> DEFINE S == D!ToSet(e.addresses)
           given == {"addr", "netmask", "broadaddr", "dstaddr"}
           freed(a) == ((given \cap sockaddrs[a]) \cup {"pcap_addr_t"})
                         \X {<<e.name, a>>}
           blocks(a) == D!AddressBlocks(e.name, a)
<1>1. ASSUME NEW a \in S
      PROVE  freed(a) = blocks(a)
  <2>1. a \in DOMAIN sockaddrs
    BY DEF Entry, D!ToSet
  <2>2. (given \cap sockaddrs[a]) \cup {"pcap_addr_t"} = D!AddressParts(a)
    BY <2>1, PartsOf DEF D!AddressParts
  <2> QED
    BY <2>2 DEF D!AddressBlocks
<1>2. ({"name", "pcap_if_t"} \X {e.name})
        \cup (({"description"} \cap D!EntryParts(e.name)) \X {e.name})
        = D!EntryBlocks(e.name)
  BY DEF D!EntryBlocks, D!EntryParts
<1>3. /\ D!FreedWith(e) =
           ({"name", "pcap_if_t"} \X {e.name})
             \cup (({"description"} \cap D!EntryParts(e.name)) \X {e.name})
             \cup UNION {freed(a) : a \in S}
      /\ EntryHeap(e) = D!EntryBlocks(e.name) \cup UNION {blocks(a) : a \in S}
  BY DEF D!FreedWith, EntryHeap
<1> HIDE DEF S, freed, blocks
<1>4. UNION {freed(a) : a \in S} = UNION {blocks(a) : a \in S}
  BY <1>1
<1> DEFINE U == UNION {freed(a) : a \in S}
           N == {"name", "pcap_if_t"} \X {e.name}
           T == ({"description"} \cap D!EntryParts(e.name)) \X {e.name}
           B == D!EntryBlocks(e.name)
<1>5. D!FreedWith(e) = N \cup T \cup U /\ EntryHeap(e) = B \cup U /\ N \cup T = B
  BY <1>2, <1>3, <1>4
<1> HIDE DEF U, N, T, B
<1>6. N \cup T \cup U = B \cup U
  BY <1>5
<1> QED
  BY <1>5, <1>6

(* pcap_freealldevs frees the blocks of every entry and every address.     *)
LEMMA FreedAll ==
  ASSUME NEW r, r.list \in Seq(Entry), r.heap = D!BlocksOf(r.list), D!Fail(r)
  PROVE  Freed
<1> DEFINE X == UNION {D!FreedWith(r.list[k]) : k \in 1 .. Len(r.list)}
<1>1. \A k \in 1 .. Len(r.list) : D!FreedWith(r.list[k]) = EntryHeap(r.list[k])
  BY EntryFreed
<1>2. \A x : x \in X <=> \E k \in 1 .. Len(r.list) : x \in EntryHeap(r.list[k])
  BY <1>1
<1>3. heap' = D!Free(r.heap, X) /\ list_pc' = "failed" /\ devlist' = << >>
  BY DEF D!Fail, D!pcap_freealldevs
<1> HIDE DEF X
<1>4. X = r.heap
  BY <1>2, ListHeap
<1>5. D!Free(X, X) = {}
  BY DEF D!Free
<1> QED
  BY <1>3, <1>4, <1>5 DEF Freed

(* So does a source that cannot be read.                                   *)
LEMMA BrokenFrees ==
  ASSUME devlist \in Seq(Entry), heap = D!BlocksOf(devlist), D!Broken
  PROVE  Freed
<1> DEFINE r == D!Result(devlist, heap, "error")
<1>1. D!Fail(r) /\ r.heap = heap /\ r.list = devlist
  BY DEF D!Broken, D!Result
<1> HIDE DEF r
<1> QED
  BY <1>1, FreedAll

(* After an entry or an address was added, or memory ran out.              *)
LEMMA Applied ==
  ASSUME NEW r, NEW d, NEW A, Sound(r, d, A), D!Apply(r)
  PROVE  Freed \/ Grown(d, A)
<1>1. CASE r.ret = "error"
  BY <1>1, FreedAll DEF Sound, D!Apply
<1>2. CASE r.ret # "error"
  <2>1. devlist' = r.list /\ heap' = r.heap /\ list_pc' = list_pc
    BY <1>2 DEF D!Apply
  <2> QED
    BY <1>2, <2>1 DEF Sound, Grown
<1> QED
  BY <1>1, <1>2

(* No memory without an entry.                                             *)
LEMMA EmptyHeap == D!BlocksOf(<< >>) = {}
BY DEF D!BlocksOf

(* A call that fails leaves nothing to account for.                        *)
LEMMA FreedKeeps ==
  ASSUME Freed, ifap' \in Seq(IfAddr), names' \subseteq D!Devices,
         steady' \subseteq D!Steady',
         state' \in [NETDEVS -> {"up", "down", "gone"}]
  PROVE  DeviceInv'
<1>1. devlist' \in Seq(Entry) /\ heap' = D!BlocksOf(devlist')
  BY EmptyHeap DEF Freed
<1>2. DeviceType'
  BY <1>1 DEF Freed, DeviceType, D!Devices, Entry, IfAddr
<1>3. NothingLost'
  BY <1>1 DEF Freed, NothingLost, D!NothingLost
<1>4. Covered'
  BY DEF Freed, Covered
<1>5. Fresh'
  BY DEF Freed, Fresh
<1> QED
  BY <1>2, <1>3, <1>4, <1>5 DEF DeviceInv

(* A step that leaves the devices alone leaves the steady ones steady.     *)
LEMMA EnvKept ==
  ASSUME DeviceType, UNCHANGED D!env
  PROVE  /\ steady' = steady /\ steady' \subseteq D!Steady'
         /\ state' \in [NETDEVS -> {"up", "down", "gone"}]
BY DEF DeviceType, D!env, D!Steady, D!Usable, D!Devices

(* The list and its memory after a step that succeeds.                     *)
ListKept ==
  /\ devlist' \in Seq(Entry) /\ heap' = D!BlocksOf(devlist')
  /\ \A x : InList(devlist, x) => InList(devlist', x)

(* A step of a source: the list may grow, one entry less is left, and a    *)
(* steady interface whose last entry that was is listed.                   *)
LEMMA SourceKeeps ==
  ASSUME DeviceInv, ListKept, Fresh', UNCHANGED D!env, scanned' = scanned,
         unread \subseteq unread',
         list_pc' = list_pc, list_pc # "failed",
         ifap' \in Seq(IfAddr), names' \subseteq names,
         list_pc = "addresses" =>
           \A d \in steady \cap ADDRESSED :
             \/ InList(devlist', d)
             \/ \E k \in 1 .. Len(ifap') : ifap'[k].name = d /\ ifap'[k].up,
         list_pc \in {"scansys", "scanproc"} =>
           \A d \in (steady \cap NETDEVS) \ names' :
             InList(devlist', d) \/ d \in unread'
  PROVE  DeviceInv'
<1>1. /\ steady' = steady /\ steady' \subseteq D!Steady'
      /\ state' \in [NETDEVS -> {"up", "down", "gone"}]
  BY EnvKept DEF DeviceInv
<1>2. DeviceType'
  BY <1>1 DEF ListKept, DeviceInv, DeviceType, D!Devices, Entry, IfAddr
<1>3. NothingLost'
  BY DEF ListKept, NothingLost, D!NothingLost
<1>4. \A x : InList(devlist, x) => InList(devlist', x)
  BY DEF ListKept
<1>5. Covered
  BY DEF DeviceInv
<1>6. Covered'
  BY <1>1, <1>4, <1>5 DEF Covered
<1> QED
  BY <1>2, <1>3, <1>6 DEF DeviceInv

(* From one source to the next: the list is what it was.                   *)
LEMMA NextSource ==
  ASSUME DeviceInv, UNCHANGED <<devlist, heap, ifap>>, UNCHANGED D!env,
         list_pc' \notin {"getifaddrs", "addresses", "failed"},
         names' \subseteq D!Devices, Covered',
         list_pc' \in {"scansys", "scanproc"} => names' \subseteq NETDEVS
  PROVE  DeviceInv'
<1>1. /\ steady' = steady /\ steady' \subseteq D!Steady'
      /\ state' \in [NETDEVS -> {"up", "down", "gone"}]
  BY EnvKept DEF DeviceInv
<1>2. DeviceType'
  BY <1>1 DEF DeviceInv, DeviceType, D!Devices, Entry, IfAddr
<1>3. NothingLost'
  BY DEF DeviceInv, NothingLost, D!NothingLost
<1>4. Fresh'
  BY DEF Fresh
<1> QED
  BY <1>2, <1>3, <1>4 DEF DeviceInv

(* Cardinality is one operator, whichever module it is used in.            *)
LEMMA CardinalityOf ==
  D!Cardinality(ADDRESSED) = Cardinality(ADDRESSED)
BY Zenon DEF D!Cardinality, Cardinality

(* SetToSeq names every interface that has an address.                     *)
LEMMA EveryInterface ==
  ASSUME ProcessAssumption
  PROVE  LET m == Cardinality(ADDRESSED)
             order == D!SetToSeq(ADDRESSED)
         IN  /\ m \in Nat
             /\ order \in [1 .. m -> ADDRESSED]
             /\ \A d \in ADDRESSED : \E k \in 1 .. m : order[k] = d
<1> DEFINE m == Cardinality(ADDRESSED)
           order == D!SetToSeq(ADDRESSED)
<1>1. IsFiniteSet(ADDRESSED)
  BY DEF ProcessAssumption
<1>2. m \in Nat /\ ExistsBijection(1 .. m, ADDRESSED)
  BY <1>1, FS_CardinalityType
<1>3. \E f \in [1 .. m -> ADDRESSED] : D!IsInjective(f)
  BY <1>2 DEF ExistsBijection, Bijection, Injection, IsInjective,
     D!IsInjective
<1>4. order \in [1 .. m -> ADDRESSED] /\ D!IsInjective(order)
  BY <1>3, CardinalityOf, Zenon DEF D!SetToSeq
<1> HIDE DEF order
<1>5. order \in Injection(1 .. m, ADDRESSED)
  BY <1>4 DEF Injection, IsInjective, D!IsInjective
<1>6. Cardinality(1 .. m) = m
  BY <1>2, FS_Interval
<1> HIDE DEF m
<1>7. Cardinality(1 .. m) = Cardinality(ADDRESSED)
  BY <1>6 DEF m
<1>8. order \in Surjection(1 .. m, ADDRESSED)
  BY <1>1, <1>5, <1>7, FS_Injection
<1>9. \A d \in ADDRESSED : \E k \in 1 .. m : order[k] = d
  BY <1>8 DEF Surjection
<1> QED
  BY <1>2, <1>4, <1>9 DEF m, order

(* getifaddrs has an entry for every interface that has an address.        *)
LEMMA GetifaddrsKeeps ==
  ASSUME ProcessAssumption, DeviceInv, D!Getifaddrs
  PROVE  DeviceInv'
<1>1. /\ devlist \in Seq(Entry) /\ ifap \in Seq(IfAddr)
      /\ names \subseteq D!Devices /\ heap = D!BlocksOf(devlist)
      /\ DeviceType /\ Covered /\ Fresh /\ steady \subseteq D!Steady
  BY DEF DeviceInv, DeviceType, NothingLost, D!NothingLost
<1>2. /\ steady' = steady /\ steady' \subseteq D!Steady'
      /\ state' \in [NETDEVS -> {"up", "down", "gone"}]
  BY <1>1, EnvKept DEF D!Getifaddrs
<1>3. names' = names /\ scanned' = scanned /\ list_pc = "getifaddrs"
  BY DEF D!Getifaddrs
<1>4. CASE D!Broken /\ UNCHANGED ifap
  BY <1>1, <1>2, <1>3, <1>4, BrokenFrees, FreedKeeps
<1>5. CASE ~(D!Broken /\ UNCHANGED ifap)
  <2> DEFINE m == Cardinality(ADDRESSED)
             order == D!SetToSeq(ADDRESSED)
             entry(k) == [name |-> order[((k - 1) % m) + 1],
                          addr |-> k,
                          up |-> state[order[((k - 1) % m) + 1]] = "up"]
  <2>1. /\ m \in Nat
        /\ order \in [1 .. m -> ADDRESSED]
        /\ \A d \in ADDRESSED : \E k \in 1 .. m : order[k] = d
    BY EveryInterface
  <2>2. ifap' = [k \in 1 .. m * ADDRESSES |-> entry(k)]
    BY <1>5, CardinalityOf DEF D!Getifaddrs
  <2>3. /\ list_pc' = "addresses" /\ devlist' = devlist /\ heap' = heap
    BY <1>5 DEF D!Getifaddrs, D!Goto
  <2> HIDE DEF m, order
  <2>4. ADDRESSES \in Nat \ {0}
    BY DEF ProcessAssumption
  <2>5. m * ADDRESSES \in Nat /\ m <= m * ADDRESSES
    <3>1. PICK q \in Nat : ADDRESSES = q + 1
      <4>1. ADDRESSES - 1 \in Nat /\ ADDRESSES = (ADDRESSES - 1) + 1
        BY <2>4
      <4> QED
        BY <4>1
    <3>2. m * (q + 1) = m * q + m /\ m * q \in Nat
      BY <2>1
    <3> QED
      BY <2>1, <3>1, <3>2
  <2>6. ASSUME NEW k \in 1 .. m * ADDRESSES
        PROVE  /\ ((k - 1) % m) + 1 \in 1 .. m
               /\ k \in DOMAIN sockaddrs
    <3>1. m > 0
      <4>1. CASE m = 0
        <5>1. m * ADDRESSES = 0
          BY <4>1, <2>4
        <5> QED
          BY <5>1
      <4> QED
        BY <4>1, <2>1
    <3>2. k - 1 \in Nat
      BY <2>5
    <3>3. k \in DOMAIN sockaddrs
      BY ProcessAssumption DEF ProcessAssumption, m
    <3> QED
      BY <3>1, <3>2, <3>3, <2>1, DivMod
  <2>7. \A k \in 1 .. m * ADDRESSES : entry(k) \in IfAddr
    BY <2>1, <2>6 DEF IfAddr
  <2>8. ifap' \in Seq(IfAddr) /\ Len(ifap') = m * ADDRESSES
    BY <2>2, <2>5, <2>7
  <2>9. ASSUME NEW d \in steady \cap ADDRESSED
        PROVE  \E k \in 1 .. Len(ifap') : ifap'[k].name = d /\ ifap'[k].up
    <3>1. PICK k \in 1 .. m : order[k] = d
      BY <2>1
    <3>2. state[d] = "up"
      BY <1>1, ProcessAssumption DEF D!Steady, ProcessAssumption
    <3>3. k \in 1 .. m * ADDRESSES /\ ((k - 1) % m) + 1 = k
      <4> DEFINE all == m * ADDRESSES
      <4>1. all \in Nat /\ m <= all
        BY <2>5
      <4> HIDE DEF all
      <4>2. k \in 1 .. all
        BY <2>1, <4>1
      <4>4. k - 1 \in Nat /\ k - 1 < m /\ m \in Nat \ {0}
        BY <2>1
      <4>5. (k - 1) % m = k - 1
        BY <4>4, SmallMod, Zenon
      <4> QED
        BY <4>2, <4>5, <2>1 DEF all
    <3>4. ifap'[k] = entry(k)
      BY <2>2, <3>3
    <3>5. /\ ifap'[k].name = order[((k - 1) % m) + 1]
          /\ ifap'[k].up = (state[order[((k - 1) % m) + 1]] = "up")
      BY <3>4
    <3>6. ifap'[k].name = d /\ ifap'[k].up
      BY <3>1, <3>2, <3>3, <3>5, Zenon
    <3> QED
      BY <3>3, <3>6, <2>8
  <2>10. DeviceType'
    BY <1>1, <1>2, <1>3, <2>3, <2>8 DEF DeviceType, D!Devices, Entry, IfAddr
  <2>11. NothingLost'
    BY <1>1, <2>3 DEF NothingLost, D!NothingLost
  <2>12. Covered'
    BY <1>1, <1>2, <1>3, <2>3, <2>9 DEF Covered
  <2>13. Fresh'
    <3>1. \A k \in 1 .. Len(ifap') : ifap'[k].addr = k
      BY <2>2, <2>8
    <3>2. devlist' = << >> /\ Len(devlist') = 0
      BY <1>1, <1>3, <2>3 DEF Fresh
    <3>3. \A a : ~OnList(devlist, a)'
      BY <3>2 DEF OnList
    <3> QED
      BY <3>1, <3>3, <2>3 DEF Fresh, OnList
  <2> QED
    BY <2>10, <2>11, <2>12, <2>13 DEF DeviceInv
<1> QED
  BY <1>4, <1>5

(* One entry of getifaddrs' list.                                          *)
LEMMA AddressKeeps ==
  ASSUME ProcessAssumption, DeviceInv, D!Address
  PROVE  DeviceInv'
<1> DEFINE e == Head(ifap)
<1>1. /\ devlist \in Seq(Entry) /\ ifap \in Seq(IfAddr)
      /\ names \subseteq D!Devices /\ heap = D!BlocksOf(devlist)
      /\ DeviceType /\ Covered /\ Fresh /\ steady \subseteq D!Steady
  BY DEF DeviceInv, DeviceType, NothingLost, D!NothingLost
<1>2. /\ list_pc = "addresses" /\ ifap # << >> /\ ifap' = Tail(ifap)
      /\ names' = names /\ scanned' = scanned /\ unread' = unread
      /\ UNCHANGED D!env
  BY DEF D!Address
<1>3. /\ steady' = steady /\ steady' \subseteq D!Steady'
      /\ state' \in [NETDEVS -> {"up", "down", "gone"}]
  BY <1>1, <1>2, EnvKept
<1>4. /\ ifap' \in Seq(IfAddr) /\ Len(ifap') = Len(ifap) - 1
      /\ \A k \in 1 .. Len(ifap') : ifap'[k] = ifap[k + 1]
      /\ Len(ifap) \in Nat \ {0} /\ e = ifap[1] /\ e \in IfAddr
  BY <1>1, <1>2
<1>5. e.name \in D!Devices /\ e.addr \in DOMAIN sockaddrs /\ e.up \in BOOLEAN
      /\ e.name \in ADDRESSED
  BY <1>4 DEF IfAddr, D!Devices, ProcessAssumption
<1>6. ASSUME NEW k \in 1 .. Len(ifap)
      PROVE  \/ k = 1
             \/ k - 1 \in 1 .. Len(ifap') /\ ifap'[k - 1] = ifap[k]
  <2>1. CASE k # 1
    <3>1. k - 1 \in 1 .. Len(ifap') /\ (k - 1) + 1 = k
      BY <2>1, <1>4
    <3> QED
      BY <3>1, <1>4
  <2> QED
    BY <2>1
<1>7. ASSUME ListKept, list_pc' = list_pc,
             \A x : OnList(devlist', x) => OnList(devlist, x) \/ x \in {e.addr},
             e.up /\ D!Usable(e.name) => InList(devlist', e.name)
      PROVE  DeviceInv'
  <2>1. ASSUME NEW d \in steady \cap ADDRESSED
        PROVE  \/ InList(devlist', d)
               \/ \E k \in 1 .. Len(ifap') : ifap'[k].name = d /\ ifap'[k].up
    <3>1. D!Usable(d)
      BY <1>1 DEF D!Steady
    <3>2. \/ InList(devlist, d)
          \/ \E k \in 1 .. Len(ifap) : ifap[k].name = d /\ ifap[k].up
      BY <1>1, <1>2 DEF Covered
    <3>3. CASE InList(devlist, d)
      BY <3>3, <1>7 DEF ListKept
    <3>4. ASSUME NEW k \in 1 .. Len(ifap), ifap[k].name = d, ifap[k].up
          PROVE  \/ InList(devlist', d)
                 \/ \E q \in 1 .. Len(ifap') : ifap'[q].name = d /\ ifap'[q].up
      <4>1. CASE k = 1
        BY <4>1, <3>1, <3>4, <1>4, <1>7, Zenon
      <4>2. CASE k - 1 \in 1 .. Len(ifap') /\ ifap'[k - 1] = ifap[k]
        BY <4>2, <3>4, Zenon
      <4> QED
        BY <4>1, <4>2, <1>6
    <3> QED
      BY <3>2, <3>3, <3>4
  <2>2. Fresh'
    <3>1. ASSUME NEW k \in 1 .. Len(ifap')
          PROVE  /\ k + 1 \in 1 .. Len(ifap) /\ k + 1 # 1
                 /\ ifap'[k] = ifap[k + 1] /\ 1 \in 1 .. Len(ifap)
      BY <1>4
    <3>2. /\ \A k \in 1 .. Len(ifap) : ~OnList(devlist, ifap[k].addr)
          /\ \A k, q \in 1 .. Len(ifap) : k # q => ifap[k].addr # ifap[q].addr
      BY <1>1, <1>2 DEF Fresh
    <3>3. ASSUME NEW k \in 1 .. Len(ifap')
          PROVE  ~OnList(devlist', ifap'[k].addr)
      <4>1. ~OnList(devlist, ifap[k + 1].addr) /\ ifap[k + 1].addr # e.addr
        BY <3>1, <3>2, <1>4
      <4> QED
        BY <4>1, <3>1, <1>7
    <3>4. ASSUME NEW k \in 1 .. Len(ifap'), NEW q \in 1 .. Len(ifap'), k # q
          PROVE  ifap'[k].addr # ifap'[q].addr
      <4>1. k + 1 # q + 1
        BY <3>4, <1>4
      <4> QED
        BY <4>1, <3>1, <3>2
    <3>5. list_pc' # "getifaddrs"
      BY <1>2, <1>7
    <3> QED
      BY <3>3, <3>4, <3>5 DEF Fresh
  <2> QED
    BY <2>1, <2>2, <1>1, <1>2, <1>4, <1>7, SourceKeeps
<1>8. CASE e.up
  <2>1. PICK r \in D!add_addr_to_iflist(e.name, e.addr) : D!Apply(r)
    BY <1>8 DEF D!Address
  <2>2. Sound(r, e.name, {e.addr})
    <3>1. ~OnList(devlist, e.addr)
      BY <1>1, <1>2, <1>4 DEF Fresh
    <3> QED
      BY <3>1, <1>1, <1>5, AddAddress
  <2>3. Freed \/ Grown(e.name, {e.addr})
    BY <2>1, <2>2, Applied
  <2>4. CASE Freed
    BY <2>4, <1>1, <1>2, <1>3, <1>4, FreedKeeps
  <2>5. CASE Grown(e.name, {e.addr})
    BY <2>5, <1>7 DEF Grown, ListKept
  <2> QED
    BY <2>3, <2>4, <2>5
<1>9. CASE ~e.up
  <2>1. UNCHANGED <<list_pc, devlist, heap>>
    BY <1>9 DEF D!Address, D!Pass
  <2>2. ListKept
    BY <2>1, <1>1 DEF ListKept
  <2> QED
    BY <2>1, <2>2, <1>7, <1>9
<1> QED
  BY <1>5, <1>8, <1>9

(* One name of /sys/class/net, of /proc/net/dev or of the USB buses.       *)
LEMMA ScanKeeps ==
  ASSUME ProcessAssumption, DeviceInv, NEW d \in names,
         D!ScanSys(d) \/ D!ScanProc(d) \/ D!ScanUsb(d)
  PROVE  DeviceInv'
<1>1. /\ devlist \in Seq(Entry) /\ ifap \in Seq(IfAddr)
      /\ names \subseteq D!Devices /\ heap = D!BlocksOf(devlist)
      /\ DeviceType /\ Covered /\ steady \subseteq D!Steady
  BY DEF DeviceInv, DeviceType, NothingLost, D!NothingLost
<1>2. /\ list_pc \in {"scansys", "scanproc", "usb"}
      /\ ifap' = ifap /\ names' = names \ {d} /\ scanned' = scanned
      /\ unread \subseteq unread'
      /\ UNCHANGED D!env
  BY DEF D!ScanSys, D!ScanProc, D!ScanUsb, D!Take
<1>3. /\ steady' = steady /\ steady' \subseteq D!Steady'
      /\ state' \in [NETDEVS -> {"up", "down", "gone"}]
  BY <1>1, <1>2, EnvKept
<1>4. ASSUME ListKept, list_pc' = list_pc,
             list_pc # "usb" /\ state[d] = "up" /\ D!Usable(d) =>
               InList(devlist', d) \/ d \in unread'
      PROVE  DeviceInv'
  <2>1. ASSUME list_pc \in {"scansys", "scanproc"},
               NEW x \in (steady \cap NETDEVS) \ names'
        PROVE  InList(devlist', x) \/ x \in unread'
    <3>1. D!Usable(x) /\ state[x] = "up"
      BY <1>1 DEF D!Steady
    <3>2. CASE x = d
      BY <3>1, <3>2, <2>1, <1>4
    <3>3. CASE x # d
      <4>1. InList(devlist, x) \/ x \in unread
        BY <3>3, <2>1, <1>1, <1>2 DEF Covered
      <4> QED
        BY <4>1, <1>2, <1>4 DEF ListKept
    <3> QED
      BY <3>2, <3>3
  <2>2. Fresh'
    BY <1>2, <1>4 DEF Fresh
  <2> QED
    BY <2>1, <2>2, <1>1, <1>2, <1>4, SourceKeeps
<1>5. CASE D!Broken
  BY <1>5, <1>1, <1>2, <1>3, BrokenFrees, FreedKeeps
<1>6. CASE \E r \in D!add_or_find_if(d) : D!Apply(r)
  <2>1. PICK r \in D!add_or_find_if(d) : D!Apply(r)
    BY <1>6
  <2>2. Sound(r, d, {})
    BY <1>1, AddOrFind
  <2>3. CASE Freed
    BY <2>3, <1>1, <1>2, <1>3, FreedKeeps
  <2>4. CASE Grown(d, {})
    BY <2>4, <1>4 DEF Grown, ListKept
  <2> QED
    BY <2>1, <2>2, <2>3, <2>4, Applied
<1>7. CASE D!Pass /\ (state[d] # "up" \/ d \in unread')
  <2>1. list_pc' = list_pc /\ ListKept
    BY <1>1, <1>7 DEF D!Pass, ListKept
  <2> QED
    BY <2>1, <1>4, <1>7
<1>8. \/ \E r \in D!add_or_find_if(d) : D!Apply(r)
      \/ D!Pass /\ (state[d] # "up" \/ d \in unread')
      \/ D!Broken
  <2>1. CASE D!ScanSys(d)
    BY <2>1 DEF D!ScanSys
  <2>2. CASE D!ScanUsb(d)
    BY <2>2 DEF D!ScanUsb
  <2>3. CASE D!ScanProc(d)
    <3>1. state[d] \in {"up", "down", "gone"}
      BY <2>3, <1>1 DEF DeviceType, D!ScanProc
    <3> QED
      BY <3>1, <2>3 DEF D!ScanProc
  <2> QED
    BY <2>1, <2>2, <2>3
<1> QED
  BY <1>5, <1>6, <1>7, <1>8

(* A source is opened, is missing or fails, or has no more to say.         *)
LEMMA OpenKeeps ==
  ASSUME ProcessAssumption, DeviceInv,
         D!AddressesEnd \/ D!OpenSys \/ D!OpenProc \/ D!ScanBreaks
           \/ D!ScanEnds \/ D!UsbEnds
  PROVE  DeviceInv'
<1>1. /\ devlist \in Seq(Entry) /\ ifap \in Seq(IfAddr)
      /\ names \subseteq D!Devices /\ heap = D!BlocksOf(devlist)
      /\ DeviceType /\ Covered /\ steady \subseteq D!Steady
  BY DEF DeviceInv, DeviceType, NothingLost, D!NothingLost
<1>2. UNCHANGED D!env /\ UNCHANGED <<ifap, unread>>
  BY DEF D!AddressesEnd, D!OpenSys, D!OpenProc, D!OpenSource, D!ScanBreaks,
     D!ScanEnds, D!UsbEnds
<1>3. /\ steady' = steady /\ steady' \subseteq D!Steady'
      /\ state' \in [NETDEVS -> {"up", "down", "gone"}]
  BY <1>1, <1>2, EnvKept
<1>4. ASSUME D!Broken, names' = names  PROVE DeviceInv'
  BY <1>4, <1>1, <1>2, <1>3, BrokenFrees, FreedKeeps
<1>5. CASE D!AddressesEnd
  <2>1. /\ list_pc = "addresses" /\ ifap = << >> /\ list_pc' = "sys"
        /\ UNCHANGED <<devlist, heap, names, scanned>>
    BY <1>5 DEF D!AddressesEnd, D!Goto
  <2>2. Len(ifap) = 0
    BY <2>1
  <2>3. Covered'
    BY <1>1, <1>2, <1>3, <2>1, <2>2 DEF Covered
  <2> QED
    BY <1>1, <1>2, <2>1, <2>3, NextSource
<1>6. ASSUME NEW this, NEW scan, NEW missing, D!OpenSource(this, scan, missing),
             \/ this = "sys" /\ scan = "scansys" /\ missing = "proc"
             \/ this = "proc" /\ scan = "scanproc" /\ missing = "any"
      PROVE  DeviceInv'
  <2>1. list_pc = this /\ list_pc \in {"sys", "proc"} /\ ~scanned
    BY <1>1, <1>6 DEF D!OpenSource, Covered
  <2>2. CASE /\ D!Goto(scan)
             /\ names' = {d \in NETDEVS : state[d] # "gone"}
             /\ scanned' = TRUE
    <3>1. list_pc' = scan /\ UNCHANGED <<devlist, heap>>
      BY <2>2 DEF D!Goto
    <3>2. \A d \in steady \cap NETDEVS : d \in names'
      BY <1>1, <2>2 DEF D!Steady
    <3>3. Covered'
      BY <1>1, <1>2, <1>3, <1>6, <2>1, <2>2, <3>1, <3>2 DEF Covered
    <3>4. names' \subseteq NETDEVS /\ names' \subseteq D!Devices
      BY <2>2 DEF D!Devices
    <3>5. list_pc' \notin {"getifaddrs", "addresses", "failed"}
      BY <3>1, <1>6
    <3> QED
      BY <1>2, <3>1, <3>3, <3>4, <3>5, NextSource
  <2>3. CASE D!Goto(missing) /\ UNCHANGED <<names, scanned>>
    <3>1. list_pc' = missing /\ UNCHANGED <<devlist, heap>>
      BY <2>3 DEF D!Goto
    <3>2. list_pc' \in {"proc", "any"}
      BY <3>1, <1>6
    <3>3. Covered'
      BY <1>1, <1>2, <1>3, <2>1, <2>3, <3>1, <3>2 DEF Covered
    <3> QED
      BY <1>1, <1>2, <2>3, <3>1, <3>2, <3>3, NextSource
  <2>4. CASE D!Broken /\ UNCHANGED <<names, scanned>>
    BY <1>4, <2>4
  <2> QED
    BY <1>6, <2>2, <2>3, <2>4 DEF D!OpenSource
<1>7. CASE D!ScanBreaks
  BY <1>4, <1>7 DEF D!ScanBreaks
<1>8. CASE D!ScanEnds
  <2>1. /\ list_pc \in {"scansys", "scanproc"} /\ names = {}
        /\ list_pc' = "any" /\ UNCHANGED <<devlist, heap, names, scanned>>
    BY <1>8 DEF D!ScanEnds, D!Goto
  <2>2. Covered'
    BY <1>1, <1>2, <1>3, <2>1 DEF Covered
  <2> QED
    BY <1>1, <1>2, <2>1, <2>2, NextSource
<1>9. CASE D!UsbEnds
  <2>1. /\ list_pc = "usb" /\ list_pc' = "done"
        /\ UNCHANGED <<devlist, heap, names, scanned>>
    BY <1>9 DEF D!UsbEnds, D!Goto
  <2>2. Covered'
    BY <1>1, <1>2, <1>3, <2>1 DEF Covered
  <2> QED
    BY <1>1, <1>2, <2>1, <2>2, NextSource
<1> QED
  BY <1>5, <1>6, <1>7, <1>8, <1>9 DEF D!OpenSys, D!OpenProc

(* The device "any".                                                       *)
LEMMA AddAnyKeeps ==
  ASSUME DeviceInv, D!AddAny
  PROVE  DeviceInv'
<1>1. /\ devlist \in Seq(Entry) /\ ifap \in Seq(IfAddr)
      /\ names \subseteq D!Devices /\ heap = D!BlocksOf(devlist)
      /\ DeviceType /\ Covered /\ steady \subseteq D!Steady
  BY DEF DeviceInv, DeviceType, NothingLost, D!NothingLost
<1>2. /\ list_pc = "any" /\ ifap' = ifap /\ scanned' = scanned
      /\ unread' = unread /\ UNCHANGED D!env
  BY DEF D!AddAny
<1>3. names' \subseteq D!Devices
  BY DEF D!AddAny, D!Devices
<1>4. /\ steady' = steady /\ steady' \subseteq D!Steady'
      /\ state' \in [NETDEVS -> {"up", "down", "gone"}]
  BY <1>1, <1>2, EnvKept
<1>5. PICK r \in D!add_or_find_if("any") :
        IF r.ret = "error" THEN D!Fail(r)
        ELSE devlist' = r.list /\ heap' = r.heap /\ list_pc' = "usb"
  BY DEF D!AddAny
<1>6. Sound(r, "any", {})
  <2>1. "any" \in D!Devices
    BY DEF D!Devices
  <2> QED
    BY <2>1, <1>1, AddOrFind
<1>7. CASE r.ret = "error"
  <2>1. Freed
    BY <1>5, <1>6, <1>7, FreedAll DEF Sound
  <2> QED
    BY <2>1, <1>1, <1>2, <1>3, <1>4, FreedKeeps
<1>8. CASE r.ret # "error"
  <2>1. devlist' = r.list /\ heap' = r.heap /\ list_pc' = "usb"
    BY <1>5, <1>8
  <2>2. ListKept
    BY <2>1, <1>6 DEF Sound, ListKept
  <2>3. ASSUME NEW d \in steady \cap {"any"}  PROVE InList(devlist', d)
    <3>1. D!Usable("any") /\ d = "any"
      BY <1>1 DEF D!Steady
    <3> QED
      BY <3>1, <2>1, <1>6, <1>8 DEF Sound
  <2>4. \A x : InList(devlist, x) => InList(devlist', x)
    BY <2>2 DEF ListKept
  <2>5. Covered'
    BY <1>1, <1>2, <1>4, <2>1, <2>3, <2>4 DEF Covered
  <2>6. DeviceType'
    BY <1>1, <1>2, <1>3, <1>4, <2>1, <2>2
       DEF ListKept, DeviceType, D!Devices, Entry, IfAddr
  <2>7. NothingLost'
    BY <2>1, <2>2 DEF ListKept, NothingLost, D!NothingLost
  <2>8. Fresh'
    BY <2>1 DEF Fresh
  <2> QED
    BY <2>5, <2>6, <2>7, <2>8 DEF DeviceInv
<1> QED
  BY <1>7, <1>8

(* Interfaces change: fewer are steady.                                    *)
LEMMA ChangeKeeps ==
  ASSUME DeviceInv, D!Change
  PROVE  DeviceInv'
<1>1. UNCHANGED <<list_pc, ifap, names, devlist, heap, scanned, unread>>
  BY DEF D!Change
<1>2. steady' \subseteq steady /\ steady' \subseteq D!Steady'
  BY DEF D!Change
<1>3. state' \in [NETDEVS -> {"up", "down", "gone"}]
  BY DEF D!Change, DeviceInv, DeviceType
<1>4. DeviceType'
  BY <1>1, <1>2, <1>3 DEF DeviceInv, DeviceType, D!Devices, Entry, IfAddr
<1>5. NothingLost'
  BY <1>1 DEF DeviceInv, NothingLost, D!NothingLost
<1>6. Covered'
  BY <1>1, <1>2 DEF DeviceInv, Covered
<1>7. Fresh'
  BY <1>1 DEF DeviceInv, Fresh
<1> QED
  BY <1>4, <1>5, <1>6, <1>7 DEF DeviceInv

(* The steps of pcap_findalldevs and of the interfaces; the others leave   *)
(* the list alone, or forget it.                                           *)
LEMMA DeviceInvStep == DeviceInv /\ [ServerNext]_allvars => DeviceInv'
<1> SUFFICES ASSUME DeviceInv, [ServerNext]_allvars  PROVE DeviceInv'
  OBVIOUS
<1>1. CASE FindAllDevs
  <2>1. D!pcap_findalldevs
    BY <1>1 DEF FindAllDevs
  <2> QED
    BY <2>1, ProcessAssumption, GetifaddrsKeeps, AddressKeeps, ScanKeeps,
       OpenKeeps, AddAnyKeeps DEF D!pcap_findalldevs
<1>2. CASE DevicesChange
  BY <1>2, ChangeKeeps DEF DevicesChange
<1>3. CASE PrintDevices \/ NoDevices
  <2>1. ForgetDevices
    BY <1>3 DEF PrintDevices, NoDevices
  <2>2. /\ list_pc' = "printed" /\ state' = [d \in NETDEVS |-> "up"]
        /\ ifap' = << >> /\ names' = {} /\ devlist' = << >> /\ heap' = {}
        /\ steady' = {} /\ scanned' = FALSE
    BY <2>1 DEF ForgetDevices
  <2>3. DeviceType'
    BY <2>2 DEF DeviceType, D!Devices, Entry, IfAddr
  <2>4. NothingLost'
    BY <2>2 DEF NothingLost, D!NothingLost, D!BlocksOf
  <2>5. Covered'
    BY <2>2 DEF Covered
  <2>6. Fresh'
    BY <2>2 DEF Fresh
  <2> QED
    BY <2>3, <2>4, <2>5, <2>6 DEF DeviceInv
<1>4. ASSUME UNCHANGED device  PROVE DeviceInv'
  <2>1. DeviceType'
    BY <1>4 DEF device, DeviceInv, DeviceType, D!Devices, Entry, IfAddr,
       D!Steady, D!Usable
  <2>2. NothingLost'
    BY <1>4 DEF device, DeviceInv, NothingLost, D!NothingLost
  <2>3. Covered'
    BY <1>4 DEF device, DeviceInv, Covered
  <2>4. Fresh'
    BY <1>4 DEF device, DeviceInv, Fresh
  <2> QED
    BY <2>1, <2>2, <2>3, <2>4 DEF DeviceInv
<1>5. CASE \/ OpenLive \/ Layout \/ MakeRing \/ InstallFilter \/ FilterDone
           \/ Read \/ LoopEnds \/ FramesArrive \/ UNCHANGED allvars
  BY <1>4, <1>5 DEF OpenLive, Layout, MakeRing, InstallFilter, FilterDone,
     Read, LoopEnds, FramesArrive, Listed, allvars
<1> QED
  BY <1>1, <1>2, <1>3, <1>5 DEF ServerNext, Process

-----------------------------------------------------------------------------
ServerInv == OwnInv /\ LayoutInv /\ SwapInv /\ DeviceInv

(* Before the first step nothing is open, the ring is empty, and no device *)
(* is listed.                                                              *)
LEMMA ServerInvInit == ServerInit => ServerInv
<1> SUFFICES ASSUME ServerInit  PROVE ServerInv
  OBVIOUS
<1>1. OwnInv
  BY DEF ServerInit, Init, D!Init, OwnInv, NoBadFree, Pointers, Progress,
     RingHeld, ListLost, ModeNoted, ListedFirst, Working, Unnoted, RingMade,
     RingParts, Resource
<1>2. LayoutInv
  <2>1. /\ ring_pc = "idle" /\ tp_frame_nr = 0 /\ tp_block_nr = 0
        /\ buffer = << >> /\ cc = 0 /\ i = 0 /\ j = 0 /\ base = 0
    BY DEF ServerInit, R!Init
  <2>2. SizeInv /\ FillInv
    BY <2>1 DEF SizeInv, FillInv
  <2>3. SlotsDisjoint
    BY <2>1 DEF SlotsDisjoint, R!SlotsDisjoint
  <2> QED
    BY <2>2, <2>3 DEF LayoutInv
<1>3. SwapInv
  <2>1. /\ kfilter = "none" /\ ring = [k \in F!RingSlot |-> KERNEL]
        /\ head = 0 /\ filter_pc = "install" /\ offset = 0 /\ saved = 0
        /\ n = 0 /\ use_bpf = 0 /\ stuck = 0 /\ late = 0 /\ foreign = 0
    BY DEF ServerInit, F!Init
  <2>2. RING_SLOTS \in Nat \ {0}
    BY ProcessAssumption DEF ProcessAssumption
  <2>3. 0 \in F!RingSlot /\ Start = 0
    BY <2>1, <2>2 DEF F!RingSlot, Start
  <2>4. TotalInv
    BY <2>1 DEF TotalInv, TotalOnlyIfStuck, F!TotalOnlyIfStuck
  <2>5. SwapType
    BY <2>1, <2>2, <2>3 DEF SwapType
  <2>6. \A k \in F!RingSlot : ring[k] = KERNEL /\ ~(Rank(0, k) < Rank(0, 0))
    BY <2>1, <2>2 DEF Rank, F!RingSlot
  <2>7. Dense
    BY <2>1, <2>3, <2>6 DEF Dense
  <2>8. WalkAt /\ LateInv
    BY <2>1 DEF WalkAt, LateInv
  <2> QED
    BY <2>4, <2>5, <2>7, <2>8 DEF SwapInv
<1>4. DeviceInv
  <2>1. /\ list_pc = "getifaddrs" /\ state \in [NETDEVS -> {"up", "down"}]
        /\ ifap = << >> /\ names = {} /\ devlist = << >> /\ heap = {}
        /\ steady = D!Steady /\ scanned = FALSE
    BY DEF ServerInit, D!Init
  <2>2. DeviceType
    BY <2>1 DEF DeviceType
  <2>3. NothingLost
    BY <2>1, EmptyHeap DEF NothingLost, D!NothingLost
  <2>4. Covered
    BY <2>1 DEF Covered
  <2>5. Fresh
    BY <2>1 DEF Fresh
  <2> QED
    BY <2>2, <2>3, <2>4, <2>5 DEF DeviceInv
<1> QED
  BY <1>1, <1>2, <1>3, <1>4 DEF ServerInv

(* The invariants of the parts hold in every reachable state of the server *)
(* process.                                                                *)
THEOREM ServerInvariant == ServerSpec => []ServerInv
<1>1. ServerInv /\ [ServerNext]_allvars => ServerInv'
  BY OwnInvStep, LayoutInvStep, SwapInvStep, DeviceInvStep DEF ServerInv
<1> QED
  BY <1>1, ServerInvInit, PTL DEF ServerSpec

(* No error path of pcap_activate_linux, of the ring or of pcap_close      *)
(* frees, closes or unmaps what it does not own, or uses the handle after  *)
(* it was freed.                                                           *)
THEOREM NeverBadFree == ServerSpec => []NoBadFree
<1>1. ServerInv => NoBadFree
  BY DEF ServerInv, OwnInv
<1> QED
  BY <1>1, ServerInvariant, PTL

(* When pcap_open_live has failed, or pcap_close has returned, all memory, *)
(* the socket and the mapping are given back, but for the list of link     *)
(* types an Ethernet device can lose.                                      *)
THEOREM EverythingFreed == ServerSpec => []NothingLeft
<1>1. ServerInv => NothingLeft
  BY DEF ServerInv, OwnInv, Progress, ListLost, NothingLeft
<1> QED
  BY <1>1, ServerInvariant, PTL

(* When the server exits, the interface is out of promiscuous mode, unless *)
(* switching back failed.                                                  *)
THEOREM ModeRestored == ServerSpec => []PromiscRestored
<1>1. ServerInv => PromiscRestored
  BY DEF ServerInv, OwnInv, ModeNoted, PromiscRestored
<1> QED
  BY <1>1, ServerInvariant, PTL

(* Whatever snapshot length, MTU, buffer and page size: create_ring lays   *)
(* the slots out apart, inside the mapping and inside a block each.        *)
THEOREM RingLaidOut == ServerSpec => []SlotsDisjoint
<1>1. ServerInv => SlotsDisjoint
  BY DEF ServerInv, LayoutInv
<1> QED
  BY <1>1, ServerInvariant, PTL

(* set_kernel_filter leaves the filter that rejects everything on the      *)
(* socket only if taking it off failed twice.                              *)
THEOREM TotalComesOff == ServerSpec => []TotalOnlyIfStuck
<1>1. ServerInv => TotalOnlyIfStuck
  BY DEF ServerInv, SwapInv, TotalInv
<1> QED
  BY <1>1, ServerInvariant, PTL

(* Whatever the order of arrivals, filter steps and reads, and however big *)
(* the ring: no more foreign frames reach the callback than came too late  *)
(* to be counted by pcap_setfilter.                                        *)
THEOREM ForeignFramesLate == ServerSpec => []ForeignOnlyLate
<1>1. SwapInv => ForeignOnlyLate
  <2> SUFFICES ASSUME SwapInv  PROVE foreign <= late
    BY DEF ForeignOnlyLate, F!ForeignOnlyLate
  <2> DEFINE rest == ForeignFrom(ring, Start, use_bpf - 1)
  <2>1. foreign \in Nat /\ late \in Nat /\ use_bpf \in Nat
    BY DEF SwapInv, SwapType
  <2>2. Cardinality(rest) \in Nat
    <3>1. RING_SLOTS \in Nat
      BY ProcessAssumption DEF ProcessAssumption
    <3>2. IsFiniteSet(0 .. RING_SLOTS - 1)
      BY <3>1, FS_Interval
    <3>3. rest \in SUBSET (0 .. RING_SLOTS - 1)
      BY DEF ForeignFrom
    <3> HIDE DEF rest
    <3> QED
      BY <3>2, <3>3, FS_Subset, FS_CardinalityType
  <2>3. \/ foreign = 0
        \/ foreign + Cardinality(rest) <= late
    BY <2>1 DEF SwapInv, LateInv
  <2> HIDE DEF rest
  <2> QED
    BY <2>1, <2>2, <2>3
<1>2. ServerInv => ForeignOnlyLate
  BY <1>1 DEF ServerInv
<1> QED
  BY <1>2, ServerInvariant, PTL

(* pcap_findalldevs has exactly the memory of its list, for whichever part *)
(* of an entry or an address memory ran out and whichever parts are NULL,  *)
(* none when it failed, and frees no block that is not in use (inet.c,     *)
(* lines 215 to 250, 513 to 575 and 621 to 660).                           *)
THEOREM ListAccounted == ServerSpec => []NothingLost
<1>1. ServerInv => NothingLost
  BY DEF ServerInv, DeviceInv
<1> QED
  BY <1>1, ServerInvariant, PTL

(* Whatever happens to the other interfaces between and during the three   *)
(* sources: one that was up and could be opened all the time is listed,    *)
(* with an address always, and without one if its name was read and lstat  *)
(* found its ifindex (pcap-linux.c, lines 1912 to 2010).                   *)
THEOREM SteadyInterfaces == ServerSpec => []SteadyListed
<1>1. ServerInv => SteadyListed
  <2> SUFFICES ASSUME DeviceInv, list_pc = "done", NEW d \in steady \ USBDEVS
               PROVE  \/ D!Index(devlist, d) # {}
                      \/ /\ d \in NETDEVS \ ADDRESSED
                         /\ ~scanned \/ d \in unread
    BY DEF ServerInv, SteadyListed, D!SteadyListed
  <2>1. d \in NETDEVS \/ d = "any"
    BY DEF DeviceInv, DeviceType, D!Steady, D!Devices
  <2>2. CASE d = "any"
    BY <2>2 DEF DeviceInv, Covered, InList
  <2>3. CASE d \in ADDRESSED
    BY <2>3 DEF DeviceInv, Covered, InList
  <2>4. CASE d \in NETDEVS \ ADDRESSED
    BY <2>4 DEF DeviceInv, Covered, InList
  <2> QED
    BY <2>1, <2>2, <2>3, <2>4
<1> QED
  BY <1>1, ServerInvariant, PTL
=============================================================================
