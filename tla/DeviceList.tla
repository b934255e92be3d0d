----------------------------- MODULE DeviceList -----------------------------
(***************************************************************************)
(* pcap_findalldevs, which the server calls before it opens the capture,   *)
(* and whose failure ends it: the addresses of getifaddrs, the directory   *)
(* /sys/class/net or else the file /proc/net/dev, the device "any" and the *)
(* USB buses go into one list, sorted as it grows.                         *)
(*                                                                         *)
(* Every source is a snapshot of its own.  Between them, and between two   *)
(* entries of one, interfaces go up and down, vanish, come back, and can   *)
(* or cannot be opened; a device is only listed if it can be opened at the *)
(* moment its first entry is looked at.                                    *)
(***************************************************************************)
EXTENDS Integers, Sequences, SequencesExt, FiniteSets

CONSTANTS
  NETDEVS,    \* the network interfaces
  ADDRESSED,  \* those with addresses
  LOOPBACKS,  \* those with IFF_LOOPBACK
  USBDEVS,    \* the USB buses
  instance,   \* the number in the name of a device
  ADDRESSES,  \* addresses of an interface, logical interfaces included
  sockaddrs,  \* the parts each of getifaddrs' entries has
  CHANGES     \* bound: changes of the interfaces during the call

VARIABLES
  pc,
  state,    \* the interfaces: "up", "down" or "gone"
  open,     \* devices that pcap_open_live can open
  changes,
  ifap,     \* what is left of getifaddrs' list
  names,    \* what is left of the directory or the file
  devlist,  \* the list
  heap,     \* the memory blocks of its entries and addresses
  steady,   \* auxiliary: interfaces up and open since the call began
  scanned,  \* auxiliary: the directory or the file was read
  unread    \* auxiliary: interfaces whose ifindex could not be looked at

vars == <<pc, state, open, changes, ifap, names, devlist, heap, steady, scanned,
          unread>>
env == <<state, open, changes, steady>>

Devices == NETDEVS \cup USBDEVS \cup {"any"}
Usable(d) == d \in open /\ (d \in NETDEVS => state[d] # "gone")
Steady == {d \in Devices : Usable(d) /\ (d \in NETDEVS => state[d] = "up")}

Init ==
  /\ pc = "getifaddrs"
  /\ state \in [NETDEVS -> {"up", "down"}]
  /\ open \in SUBSET Devices
  /\ changes = 0
  /\ ifap = << >> /\ names = {} /\ devlist = << >> /\ heap = {}
  /\ steady = Steady
  /\ scanned = FALSE /\ unread = {}

(* The system around the process (external).                               *)
Change ==
  /\ pc \notin {"done", "failed"} /\ changes < CHANGES
  /\ changes' = changes + 1
  /\ \/ \E d \in NETDEVS, s \in {"up", "down", "gone"} :
          state' = [state EXCEPT ![d] = s] /\ UNCHANGED open
     \/ \E d \in Devices :
          open' = (open \ {d}) \cup ({d} \ open) /\ UNCHANGED state
  /\ steady' = steady \cap Steady'
  /\ UNCHANGED <<pc, ifap, names, devlist, heap, scanned, unread>>

-----------------------------------------------------------------------------
(* What a function that adds to the list leaves: ret is "entry" if it has  *)
(* an entry for the device, "none" if it could not be opened, or "error".  *)
Result(list, blocks, ret) == [list |-> list, heap |-> blocks, ret |-> ret]

INT_MAX == 2147483647
get_instance(d) == IF d = "any" THEN INT_MAX ELSE instance[d]
Loopback(d) == d \in LOOPBACKS

Index(list, d) == {i \in 1 .. Len(list) : list[i].name = d}

(* Where the walk along the list stops.                                    *)
GoesBefore(d, e) ==
  \/ ~Loopback(d) /\ Loopback(e)
  \/ get_instance(d) < get_instance(e) /\ (~Loopback(d) \/ Loopback(e))

Inserted(list, d) ==
  LET n == SelectInSeq(list, LAMBDA e : GoesBefore(d, e.name))
  IN  InsertAt(list, IF n = 0 THEN Len(list) + 1 ELSE n,
               [name |-> d, addresses |-> << >>])

(* The parts of an entry and of an address, in the order they are          *)
(* allocated; those that are NULL are left out.                            *)
EntryOrder == <<"pcap_if_t", "name", "description">>
AddressOrder == <<"pcap_addr_t", "addr", "netmask", "broadaddr", "dstaddr">>

EntryParts(d) ==
  {"pcap_if_t", "name"} \cup IF d \in NETDEVS THEN {} ELSE {"description"}
AddressParts(a) == {"pcap_addr_t"} \cup sockaddrs[a]

EntryBlocks(d) == EntryParts(d) \X {d}
AddressBlocks(d, a) == AddressParts(a) \X {<<d, a>>}

(* What is freed when there is no memory for a part.                       *)
EntryFrees ==
  [pcap_if_t   |-> {},
   name        |-> {"pcap_if_t"},
   description |-> {"name", "pcap_if_t"}]

(* Mutant: the network mask is forgotten.                                  *)
AddressFreesLeak ==
  [pcap_addr_t |-> {},
   addr        |-> {"pcap_addr_t"},
   netmask     |-> {"addr", "pcap_addr_t"},
   broadaddr   |-> {"addr", "pcap_addr_t"},
   dstaddr     |-> {"broadaddr", "netmask", "addr", "pcap_addr_t"}]

AddressFrees ==
  [pcap_addr_t |-> {},
   addr        |-> {"pcap_addr_t"},
   netmask     |-> {"addr", "pcap_addr_t"},
   broadaddr   |-> {"netmask", "addr", "pcap_addr_t"},
   dstaddr     |-> {"broadaddr", "netmask", "addr", "pcap_addr_t"}]

(* free, of several blocks.  A block that is not allocated leaves a trace. *)
Free(blocks, freed) ==
  (blocks \ freed) \cup ({"wild"} \X (freed \ blocks))

(* What is in use when one of the allocations fails: those before it have  *)
(* succeeded, and are freed as far as frees says and they are not NULL.    *)
NoMemory(order, parts, frees, owner, blocks) ==
  {Free(blocks \cup (({order[i] : i \in 1 .. k - 1} \cap parts) \X {owner}),
        (frees[order[k]] \cap parts) \X {owner}) :
     k \in {i \in 1 .. Len(order) : order[i] \in parts}}

(* The new entry, or no memory for a part of it.                           *)
NewEntry(d) ==
  {Result(Inserted(devlist, d), heap \cup EntryBlocks(d), "entry")}
    \cup {Result(devlist, blocks, "error") :
            blocks \in NoMemory(EntryOrder, EntryParts(d), EntryFrees, d, heap)}

(* A device that cannot be opened gets no entry; that is no error.         *)
add_or_find_if(d) ==
  IF Index(devlist, d) # {} THEN {Result(devlist, heap, "entry")}
  ELSE IF ~Usable(d) THEN {Result(devlist, heap, "none")}
  ELSE NewEntry(d)

(* The address goes to the end of the addresses of its device; if there is *)
(* no memory for a part of it, the entry stays.                            *)
Addressed(r, d, a) ==
  LET i == CHOOSE k \in Index(r.list, d) : TRUE
  IN  {Result([r.list EXCEPT ![i].addresses = Append(@, a)],
              r.heap \cup AddressBlocks(d, a), "entry")}
        \cup {Result(r.list, blocks, "error") :
                blocks \in NoMemory(AddressOrder, AddressParts(a), AddressFrees,
                                    <<d, a>>, r.heap)}

add_addr_to_iflist(d, a) ==
  UNION {IF r.ret = "entry" THEN Addressed(r, d, a) ELSE {r} :
           r \in add_or_find_if(d)}

(* The name, the description if there is one, the entry, the parts of the  *)
(* addresses that are not NULL, and the addresses.                         *)
FreedWith(e) ==
  ({"name", "pcap_if_t"} \X {e.name})
    \cup (({"description"} \cap EntryParts(e.name)) \X {e.name})
    \cup UNION {(({"addr", "netmask", "broadaddr", "dstaddr"} \cap sockaddrs[a])
                   \cup {"pcap_addr_t"}) \X {<<e.name, a>>} :
                 a \in ToSet(e.addresses)}

pcap_freealldevs(r) ==
  Free(r.heap, UNION {FreedWith(r.list[i]) : i \in 1 .. Len(r.list)})

Fail(r) ==
  /\ pc' = "failed"
  /\ heap' = pcap_freealldevs(r)
  /\ devlist' = << >>

Apply(r) ==
  IF r.ret = "error" THEN Fail(r)
  ELSE devlist' = r.list /\ heap' = r.heap /\ UNCHANGED pc

Goto(next) == pc' = next /\ UNCHANGED <<devlist, heap>>
Pass == UNCHANGED <<pc, devlist, heap>>
Broken == Fail(Result(devlist, heap, "error"))

-----------------------------------------------------------------------------
(* getifaddrs lists one address of each interface after the other, each    *)
(* with its number in the list and the interface's flags at that moment.   *)
(* (An interface that is gone has no entries; here they are passed over    *)
(* like those of one that is down.)                                        *)
Getifaddrs ==
  /\ pc = "getifaddrs"
  /\ \/ /\ LET n == Cardinality(ADDRESSED)
             order == SetToSeq(ADDRESSED)
         IN  ifap' = [k \in 1 .. n * ADDRESSES |->
                        [name |-> order[((k - 1) % n) + 1],
                         addr |-> k,
                         up |-> state[order[((k - 1) % n) + 1]] = "up"]]
        /\ Goto("addresses")
     \/ Broken /\ UNCHANGED ifap
  /\ UNCHANGED <<names, scanned, unread>> /\ UNCHANGED env

Address ==
  /\ pc = "addresses" /\ ifap # << >>
  /\ ifap' = Tail(ifap)
  /\ IF Head(ifap).up
     THEN \E r \in add_addr_to_iflist(Head(ifap).name, Head(ifap).addr) : Apply(r)
     ELSE Pass
  /\ UNCHANGED <<names, scanned, unread>> /\ UNCHANGED env

AddressesEnd ==
  /\ pc = "addresses" /\ ifap = << >>
  /\ Goto("sys")
  /\ UNCHANGED <<ifap, names, scanned, unread>> /\ UNCHANGED env

(* opendir and socket: the directory, or the file, is there, is missing,   *)
(* or cannot be read.                                                      *)
OpenSource(this, scan, missing) ==
  /\ pc = this
  /\ \/ /\ Goto(scan)
        /\ names' = {d \in NETDEVS : state[d] # "gone"}
        /\ scanned' = TRUE
     \/ Goto(missing) /\ UNCHANGED <<names, scanned>>
     \/ Broken /\ UNCHANGED <<names, scanned>>
  /\ UNCHANGED <<ifap, unread>> /\ UNCHANGED env

OpenSys == OpenSource("sys", "scansys", "proc")
OpenProc == OpenSource("proc", "scanproc", "any")

Take(d) == names' = names \ {d} /\ UNCHANGED <<ifap, scanned>> /\ UNCHANGED env

(* Mutant: an interface that has vanished ends the scan.                   *)
ScanSysStops(d) ==
  /\ pc = "scansys"
  /\ IF state[d] = "gone" THEN names' = {} ELSE names' = names \ {d}
  /\ IF state[d] = "up" THEN \E r \in add_or_find_if(d) : Apply(r) ELSE Pass
  /\ UNCHANGED <<ifap, scanned, unread>> /\ UNCHANGED env

(* If lstat of ifindex fails, with whatever error, the entry is skipped.   *)
(* An interface that has vanished since (ENODEV), or is down, is skipped.  *)
ScanSys(d) ==
  /\ pc = "scansys"
  /\ Take(d)
  /\ \/ Pass /\ unread' = unread \cup {d}
     \/ /\ IF state[d] = "up" THEN \E r \in add_or_find_if(d) : Apply(r) ELSE Pass
        /\ UNCHANGED unread

(* Here only ENXIO is skipped: one that has vanished is an error.          *)
ScanProc(d) ==
  /\ pc = "scanproc"
  /\ Take(d)
  /\ CASE state[d] = "up"   -> \E r \in add_or_find_if(d) : Apply(r)
       [] state[d] = "down" -> Pass
       [] state[d] = "gone" -> Broken
  /\ UNCHANGED unread

(* SIOCGIFFLAGS or readdir fail for another reason.                        *)
ScanBreaks ==
  /\ pc \in {"scansys", "scanproc"}
  /\ Broken
  /\ UNCHANGED <<ifap, names, scanned, unread>> /\ UNCHANGED env

ScanEnds ==
  /\ pc \in {"scansys", "scanproc"} /\ names = {}
  /\ Goto("any")
  /\ UNCHANGED <<ifap, names, scanned, unread>> /\ UNCHANGED env

AddAny ==
  /\ pc = "any"
  /\ \E r \in add_or_find_if("any") :
       IF r.ret = "error" THEN Fail(r)
       ELSE devlist' = r.list /\ heap' = r.heap /\ pc' = "usb"
  /\ names' \in {{}, USBDEVS}
  /\ UNCHANGED <<ifap, scanned, unread>> /\ UNCHANGED env

ScanUsb(d) ==
  /\ pc = "usb"
  /\ Take(d)
  /\ \E r \in add_or_find_if(d) : Apply(r)
  /\ UNCHANGED unread

UsbEnds ==
  /\ pc = "usb" /\ names = {}
  /\ Goto("done")
  /\ UNCHANGED <<ifap, names, scanned, unread>> /\ UNCHANGED env

pcap_findalldevs ==
  \/ Getifaddrs \/ Address \/ AddressesEnd \/ OpenSys \/ OpenProc
  \/ \E d \in names : ScanSys(d) \/ ScanProc(d) \/ ScanUsb(d)
  \/ ScanBreaks \/ ScanEnds \/ AddAny \/ UsbEnds

-----------------------------------------------------------------------------
(* If pcap_findalldevs succeeds, every interface that was up and could be  *)
(* opened all the time is in the list, with addresses or without, whatever *)
(* happened to the others: unless it has no address and there was neither  *)
(* directory nor file, or its ifindex could not be looked at.              *)
SteadyListed ==
  pc = "done" =>
    \A d \in steady \ USBDEVS :
      \/ Index(devlist, d) # {}
      \/ d \in NETDEVS \ ADDRESSED /\ (~scanned \/ d \in unread)

BlocksOf(list) ==
  UNION {EntryBlocks(list[i].name)
           \cup UNION {AddressBlocks(list[i].name, a) : a \in ToSet(list[i].addresses)} :
         i \in 1 .. Len(list)}

(* The memory in use is that of the list, and none when the call failed,   *)
(* in whichever part of an entry or of an address memory ran out and       *)
(* whichever parts are NULL; and no block was freed that was not in use.   *)
NothingLost == heap = BlocksOf(devlist) /\ (pc = "failed" => heap = {})
=============================================================================
