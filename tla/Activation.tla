----------------------------- MODULE Activation -----------------------------
(***************************************************************************)
(* pcap_open_live, what the server does with the handle, pcap_close and    *)
(* the end of the process: who owns each resource when a step in between   *)
(* fails.                                                                  *)
(*                                                                         *)
(* held is what really is allocated, open or switched on; ptr is what the  *)
(* fields of the handle say.  The cleanup routines go by the fields, and   *)
(* which of them runs depends on how far the activation got.               *)
(***************************************************************************)
EXTENDS Integers, FiniteSets

CONSTANT ARPTYPES  \* types of devices: "loopback", "ether", "isdn", "cooked"

(* handle: the pcap_t.  source, device: copies of the name.  fd: the       *)
(* socket.  dlt_list: link types.  oneshot: oneshot_buffer.  kring: the    *)
(* ring in the kernel.  map: its mapping.  buffer: the header ring or the  *)
(* packet buffer.  fcode: the filter.  lost: a list no field points to.    *)
Resource == {"handle", "source", "device", "fd", "dlt_list", "oneshot",
             "kring", "map", "buffer", "fcode", "lost"}

VARIABLES
  arptype,     \* the type of the device
  pc,
  held, ptr,
  cleanup_op,  \* handle->cleanup_op
  must_clear,  \* MUST_CLEAR_PROMISC in md.must_do_on_close
  to_close,    \* the handle is in the list pcaps_to_close
  promisc,     \* libpcap has switched the interface to promiscuous mode
  restore,     \* "failed" if switching it back did not work
  bad          \* auxiliary: something was freed or used that was not there

own == <<held, ptr, bad>>
mode == <<must_clear, to_close, promisc, restore>>
vars == <<arptype, pc, held, ptr, cleanup_op, must_clear, to_close, promisc,
          restore, bad>>

Init ==
  /\ arptype = "unknown"
  /\ pc = "create"
  /\ held = {}
  /\ ptr = {}
  /\ cleanup_op = "none"
  /\ must_clear = FALSE
  /\ to_close = FALSE
  /\ promisc = FALSE
  /\ restore = "ok"
  /\ bad = FALSE

-----------------------------------------------------------------------------
Acquire(r) ==
  /\ held' = held \cup {r}
  /\ ptr' = ptr \cup {r}
  /\ UNCHANGED bad

(* What the fields in S point to is freed, and the fields are cleared.     *)
Release(S) ==
  /\ bad' = (bad \/ ~(S \cap ptr \subseteq held))
  /\ held' = held \ (S \cap ptr)
  /\ ptr' = ptr \ S

(* Freed, but the field keeps the pointer.                                 *)
FreeOnly(S) ==
  /\ bad' = (bad \/ ~(S \subseteq held))
  /\ held' = held \ S
  /\ UNCHANGED ptr

Goto(next) == pc' = next /\ UNCHANGED <<arptype, cleanup_op>>
Fail(next) == Goto(next) /\ UNCHANGED own

(* pcap_create, pcap_create_common.                                        *)
PcapCreate ==
  /\ pc = "create"
  /\ \/ /\ held' = {"handle", "source"} /\ ptr' = {"source"}
        /\ pc' = "activate" /\ cleanup_op' = "common"
        /\ arptype' \in ARPTYPES
        /\ UNCHANGED bad
     \/ Fail("null")
  /\ UNCHANGED mode

(* pcap_activate_linux: the one error that does not go to fail.            *)
StartActivate ==
  /\ pc = "activate"
  /\ \/ /\ Acquire("device")
        /\ pc' = "new"
     \/ /\ pc' = "failed"
        /\ UNCHANGED own
  /\ cleanup_op' = "linux"
  /\ UNCHANGED arptype
  /\ UNCHANGED mode

-----------------------------------------------------------------------------
(* activate_new keeps the socket in a local variable until it is done.     *)
NewSocket ==
  /\ pc = "new"
  /\ \/ held' = held \cup {"fd"} /\ Goto("type") /\ UNCHANGED <<ptr, bad>>
     \/ Fail("old")
     \/ Fail("fail")
  /\ UNCHANGED mode

(* map_arphrd_to_dlt: a list for Ethernet, if there is memory.  What the   *)
(* field held before is lost.                                              *)
HasList == arptype \in {"ether", "isdn"}
MapType(next) ==
  /\ IF HasList
     THEN \E list \in {{"dlt_list"}, {}} :
            /\ held' = (held \ {"dlt_list"}) \cup list
                       \cup IF "dlt_list" \in ptr THEN {"lost"} ELSE {}
            /\ ptr' = (ptr \ {"dlt_list"}) \cup list
            /\ UNCHANGED bad
     ELSE UNCHANGED own
  /\ Goto(next)

(* Mutant: a failure after socket() returns without closing it.            *)
CloseSocketNot(next) == UNCHANGED own /\ Goto(next)

CloseSocket(next) == FreeOnly({"fd"}) /\ Goto(next)

NewType ==
  /\ pc = "type"
  /\ \/ MapType(IF arptype \in {"isdn", "cooked"} THEN "cooked" ELSE "bind")
     \/ CloseSocket("fail")
  /\ UNCHANGED mode

(* A device without a usable link header is opened again in cooked mode.   *)
Reopen ==
  /\ pc = "cooked"
  /\ \/ Release({"dlt_list"}) /\ Goto("bind")
     \/ CloseSocket("fail")
  /\ UNCHANGED mode

(* iface_bind returns 0 for an error that is pending: the old interface    *)
(* may work.                                                               *)
NewBind ==
  /\ pc = "bind"
  /\ \/ Fail("options")
     \/ CloseSocket("fail")
     \/ CloseSocket("old")
  /\ UNCHANGED mode

(* PACKET_ADD_MEMBERSHIP and PACKET_AUXDATA; then the handle gets the      *)
(* socket.  The kernel ends the membership with the socket.                *)
NewOptions ==
  /\ pc = "options"
  /\ \/ ptr' = ptr \cup {"fd"} /\ UNCHANGED <<held, bad>> /\ Goto("mmap")
     \/ CloseSocket("fail")
  /\ UNCHANGED mode

-----------------------------------------------------------------------------
(* activate_mmap                                                           *)
Mmap ==
  /\ pc = "mmap"
  /\ \/ Acquire("oneshot") /\ Goto("ring")
     \/ Fail("fail")
  /\ UNCHANGED mode

(* prepare_tpacket_socket and the ring of create_ring: an error, or a      *)
(* kernel without rings.  oneshot_buffer is freed and not cleared.         *)
CreateRing ==
  /\ pc = "ring"
  /\ \/ Acquire("kring") /\ Goto("map")
     \/ FreeOnly({"oneshot"}) /\ Goto("plain")
     \/ FreeOnly({"oneshot"}) /\ Goto("fail")
  /\ UNCHANGED mode

(* destroy_ring, which also unmaps MAP_FAILED, without effect.             *)
MapRing ==
  /\ pc = "map"
  /\ \/ Acquire("map") /\ Goto("headers")
     \/ /\ bad' = (bad \/ ~({"kring", "oneshot"} \subseteq held))
        /\ held' = held \ {"kring", "oneshot"}
        /\ ptr' = ptr \ {"kring"}
        /\ Goto("fail")
  /\ UNCHANGED mode

(* The header ring; only now does the handle use the ring's routines.      *)
HeaderRing ==
  /\ pc = "headers"
  /\ \/ Acquire("buffer") /\ pc' = "open" /\ cleanup_op' = "mmap"
     \/ /\ bad' = (bad \/ ~({"kring", "map", "oneshot"} \subseteq held))
        /\ held' = held \ {"kring", "map", "oneshot"}
        /\ ptr' = ptr \ {"kring", "map"}
        /\ pc' = "fail"
        /\ UNCHANGED cleanup_op
  /\ UNCHANGED arptype
  /\ UNCHANGED mode

(* Without the ring: SO_RCVBUF and the packet buffer.                      *)
Plain ==
  /\ pc = "plain"
  /\ \/ Acquire("buffer") /\ Goto("open")
     \/ Fail("fail")
  /\ UNCHANGED mode

-----------------------------------------------------------------------------
(* activate_old has the socket in the handle from the start, so its errors *)
(* close nothing.                                                          *)
OldSocket ==
  /\ pc = "old"
  /\ \/ Acquire("fd") /\ Goto("oldtype")
     \/ Fail("fail")
  /\ UNCHANGED mode

OldType ==
  /\ pc = "oldtype"
  /\ \/ MapType("oldpromisc")
     \/ Fail("fail")
  /\ UNCHANGED mode

(* Mutant: the mode is switched on and not noted when a later step fails.  *)
OldPromiscUnnoted ==
  /\ pc = "oldpromisc"
  /\ \/ /\ promisc' = TRUE
        /\ UNCHANGED <<must_clear, to_close, restore>>
        /\ Fail("oldbuffer")
     \/ Fail("oldbuffer") /\ UNCHANGED mode
     \/ Fail("fail") /\ UNCHANGED mode

(* The interface is switched to promiscuous mode unless it is in it, after *)
(* atexit, and the handle is noted for pcap_close_all.                     *)
OldPromisc ==
  /\ pc = "oldpromisc"
  /\ \/ /\ promisc' = TRUE /\ must_clear' = TRUE /\ to_close' = TRUE
        /\ UNCHANGED restore
        /\ Fail("oldbuffer")
     \/ Fail("oldbuffer") /\ UNCHANGED mode
     \/ Fail("fail") /\ UNCHANGED mode

OldBuffer ==
  /\ pc = "oldbuffer"
  /\ Fail("plain") \/ Fail("fail")
  /\ UNCHANGED mode

-----------------------------------------------------------------------------
Common == {"buffer", "dlt_list", "fcode", "fd"}

(* Mutant: the handle stays in the list of handles to close.               *)
ClearPromiscOnly ==
  IF must_clear
  THEN /\ \/ promisc' = FALSE /\ UNCHANGED restore
          \/ restore' = "failed" /\ UNCHANGED promisc
       /\ UNCHANGED <<must_clear, to_close>>
  ELSE UNCHANGED mode

(* pcap_cleanup_linux switches the mode back, by the name of the device,   *)
(* with two ioctls that may fail.  must_do_on_close is not cleared.        *)
ClearPromisc ==
  IF must_clear
  THEN /\ \/ promisc' = FALSE /\ UNCHANGED restore
          \/ restore' = "failed" /\ UNCHANGED promisc
       /\ to_close' = FALSE
       /\ UNCHANGED must_clear
  ELSE UNCHANGED mode

(* fail: in pcap_activate_linux, then initialize_ops in pcap_activate.     *)
CleanupFailed ==
  /\ pc = "fail"
  /\ Release(Common \cup {"device"})
  /\ ClearPromisc
  /\ pc' = "failed"
  /\ cleanup_op' = "common"
  /\ UNCHANGED arptype

(* pcap_activate and pcap_open_live after any error.                       *)
OpenLiveFails ==
  /\ pc = "failed"
  /\ pc' = "null"
  /\ bad' = (bad \/ ~((Common \cup {"source"}) \cap ptr \subseteq held))
  /\ held' = held \ ((Common \cap ptr) \cup {"source", "handle"})
  /\ ptr' = {}
  /\ cleanup_op' = "none"
  /\ UNCHANGED arptype
  /\ UNCHANGED mode

(* pcap_datalink(handle) = DLT_EN10MB                                      *)
EN10MB == arptype \in {"loopback", "ether"}

(* The server: pcap_setfilter allocates the handle's filter.  A wrong link *)
(* type or a bad filter make pcapServer return without pcap_close.         *)
Setfilter ==
  /\ pc = "open"
  /\ \/ EN10MB /\ Acquire("fcode") /\ Goto("loop")
     \/ EN10MB /\ Acquire("fcode") /\ Goto("exit")
     \/ Fail("exit")
  /\ UNCHANGED mode

(* What each cleanup_op frees; the pcap_t goes last.                       *)
Cleanup ==
  CASE cleanup_op = "mmap"   -> Common \cup {"device", "kring", "map",
                                             "oneshot", "source"}
    [] cleanup_op = "linux"  -> Common \cup {"device", "source"}
    [] OTHER                 -> Common \cup {"source"}

(* pcap_close frees opt.source first: switching the mode back needs the    *)
(* copy in md.device.                                                      *)
PcapClose(next) ==
  /\ bad' = \/ bad
            \/ "handle" \notin held
            \/ ~(Cleanup \cap ptr \subseteq held)
            \/ must_clear /\ "device" \notin held
  /\ held' = held \ ((Cleanup \cap ptr) \cup {"handle"})
  /\ ptr' = {}
  /\ ClearPromisc
  /\ pc' = next
  /\ UNCHANGED <<arptype, cleanup_op>>

LoopReturns == pc = "loop" /\ PcapClose("closed")

(* coefficient ends in abort(): no handler of atexit runs.                 *)
Abort == pc = "loop" /\ Fail("aborted") /\ UNCHANGED mode

(* main returns, in all cases.                                             *)
Return == pc \in {"null", "closed"} /\ Fail("exit") /\ UNCHANGED mode

(* pcap_close_all, by atexit, closes what is still in the list.            *)
CloseAll == pc = "exit" /\ to_close /\ PcapClose("exit")
Exit == pc = "exit" /\ ~to_close /\ Fail("exited") /\ UNCHANGED mode

(* pcap_create and pcap_activate up to create_ring, and without it.        *)
Open ==
  \/ PcapCreate \/ StartActivate
  \/ NewSocket \/ NewType \/ Reopen \/ NewBind \/ NewOptions \/ Mmap
  \/ Plain \/ OldSocket \/ OldType \/ OldPromisc \/ OldBuffer
  \/ CleanupFailed \/ OpenLiveFails

End == Return \/ CloseAll \/ Exit

-----------------------------------------------------------------------------
(* Nothing is freed twice, and no handle is used after it was freed,       *)
(* whichever step fails and whichever cleanup follows.                     *)
NoBadFree == ~bad

(* When pcap_open_live has failed, or pcap_close has returned, nothing is  *)
(* left: but for the list of link types that an Ethernet device loses when *)
(* the old interface is tried after the new one.                           *)
NothingLeft ==
  pc \in {"null", "closed"} =>
    held \subseteq (IF arptype = "ether" THEN {"lost"} ELSE {})

(* When the server exits, the interface is out of promiscuous mode, also   *)
(* if it never closed the handle, unless switching back failed.  Only      *)
(* abort() leaves it, if the old interface was used.                       *)
PromiscRestored ==
  pc = "exited" => ~promisc \/ restore = "failed"
=============================================================================
