------------------------- MODULE StockSystemProofs --------------------------
(***************************************************************************)
(* Proofs about StockSystem, for every size of the client, the server, the *)
(* ring and the receive queue.                                             *)
(***************************************************************************)
EXTENDS StockSystem, SequenceTheorems, FiniteSetTheorems, TLAPS

SP == INSTANCE ServerProofs WITH Price <- C!Tick, Datagram <- Sendable

gc == C!group_count

-----------------------------------------------------------------------------
(* The constants of global.h as the proofs use them.                       *)
LEMMA Sizes ==
  /\ STOCK_COUNT \in Nat \ {0} /\ GROUP_STOCK \in Nat \ {0}
  /\ LOOP_COUNT \in Nat \ {0} /\ SERVER_STOCK \in Nat \ {0}
  /\ PRICE_LIST_SIZE \in Nat \ {0} /\ SERVER_STOCK_COUNT \in Nat \ {0}
  /\ RING_SLOTS \in Nat \ {0} /\ BACKLOG \in Nat \ {0}
  /\ gc \in Nat \ {0}
<1>1. /\ STOCK_COUNT \in Nat \ {0} /\ GROUP_STOCK \in Nat \ {0}
      /\ LOOP_COUNT \in Nat \ {0} /\ SERVER_STOCK \in Nat \ {0}
      /\ PRICE_LIST_SIZE \in Nat \ {0} /\ SERVER_STOCK_COUNT \in Nat \ {0}
      /\ RING_SLOTS \in Nat \ {0} /\ BACKLOG \in Nat \ {0}
      /\ STOCK_COUNT % GROUP_STOCK = 0
  BY StockSystemAssumption
<1>2. gc \in Nat \ {0}
  BY <1>1, SMT DEF gc, C!group_count
<1> QED
  BY <1>1, <1>2

(* The record j of group g belongs to group g.                             *)
LEMMA GroupOf ==
  ASSUME NEW G \in Nat \ {0}, NEW g \in Nat, NEW j \in 0 .. G - 1
  PROVE  (G * g + j) \div G = g
  OBVIOUS

(* A datagram of the client (client/main.cpp, stockGenerate and encode):   *)
(* its number follows from its loop and the id of any of its records.      *)
LEMMA SendableLemma ==
  ASSUME NEW d \in Sendable
  PROVE  /\ d.loop \in C!Tick
         /\ d.rec \in [0 .. GROUP_STOCK - 1 -> [id : Nat, close : C!Tick]]
         /\ Number(d) \in Nat
         /\ \A j \in 0 .. GROUP_STOCK - 1 :
              /\ Number(d) = d.loop * gc + d.rec[j].id \div GROUP_STOCK + 1
              /\ d.rec[j].id = d.rec[0].id + j
              /\ d.rec[j].close = d.loop
<1>1. PICK l \in C!Tick, g \in 0 .. gc - 1 : d = C!Group(l, GROUP_STOCK * g)
  BY DEF Sendable, gc
<1>2. /\ l \in Nat /\ g \in Nat /\ GROUP_STOCK \in Nat \ {0} /\ gc \in Nat
      /\ GROUP_STOCK * g \in Nat
  BY Sizes DEF C!Tick
<1>3. /\ d.loop = l
      /\ d.rec = [j \in 0 .. GROUP_STOCK - 1 |->
                    [id |-> GROUP_STOCK * g + j, close |-> l]]
  BY <1>1 DEF C!Group
<1>4. ASSUME NEW j \in 0 .. GROUP_STOCK - 1
      PROVE  /\ d.rec[j].id = GROUP_STOCK * g + j
             /\ d.rec[j].close = l
             /\ d.rec[j].id \div GROUP_STOCK = g
  <2>1. d.rec[j].id = GROUP_STOCK * g + j /\ d.rec[j].close = l
    BY <1>3
  <2>2. (GROUP_STOCK * g + j) \div GROUP_STOCK = g
    BY <1>2, GroupOf
  <2> QED
    BY <2>1, <2>2
<1>5. 0 \in 0 .. GROUP_STOCK - 1
  BY <1>2
<1>6. Number(d) = l * gc + g + 1
  BY <1>3, <1>4, <1>5 DEF Number, gc
<1>7. l * gc \in Nat
  BY <1>2
<1>8. d.rec \in [0 .. GROUP_STOCK - 1 -> [id : Nat, close : C!Tick]]
  BY <1>1, <1>2, <1>3
<1>9. \A j \in 0 .. GROUP_STOCK - 1 : d.rec[j].id = d.rec[0].id + j
  BY <1>2, <1>4, <1>5
<1>10. Number(d) \in Nat
  BY <1>2, <1>6, <1>7
<1>11. ASSUME NEW j \in 0 .. GROUP_STOCK - 1
       PROVE  Number(d) = d.loop * gc + d.rec[j].id \div GROUP_STOCK + 1
  BY <1>3, <1>4, <1>6
<1> QED
  BY <1>3, <1>4, <1>8, <1>9, <1>10, <1>11

(* A payload of this client is captured whole, and written whole.          *)
LEMMA SendableWhole ==
  ASSUME NEW d \in Sendable
  PROVE  d.len = S!PAYLOAD /\ d.len \in Nat /\ S!Written(d) = d
<1>1. PICK l \in C!Tick, g \in 0 .. gc - 1 : d = C!Group(l, GROUP_STOCK * g)
  BY DEF Sendable, gc
<1>2. GROUP_STOCK \in Nat
  BY Sizes
<1>3. d = [loop |-> d.loop, len |-> d.len, rec |-> d.rec]
      /\ d.len = 4 + 20 * GROUP_STOCK
  BY <1>1 DEF C!Group
<1>4. d.rec = [j \in 0 .. GROUP_STOCK - 1 |-> d.rec[j]]
  BY <1>1 DEF C!Group
<1>5. {k \in 0 .. GROUP_STOCK - 1 : 4 + 20 * (k + 1) <= d.len}
        = 0 .. GROUP_STOCK - 1
  BY <1>2, <1>3
<1>6. S!Written(d) = d
  BY <1>3, <1>4, <1>5 DEF S!Written
<1> QED
  BY <1>2, <1>3, <1>6 DEF S!PAYLOAD

(* The payloads of this client are payloads my_callback is specified for.  *)
LEMMA ServerAssumed == SP!ServerAssumption
<1>1. \A d \in Sendable :
        /\ d.loop \in Int
        /\ d.len \in Nat
        /\ d.rec \in [0 .. GROUP_STOCK - 1 -> [id : Int, close : C!Tick]]
  <2> SUFFICES ASSUME NEW d \in Sendable
               PROVE  /\ d.loop \in Int
                      /\ d.len \in Nat
                      /\ d.rec \in [0 .. GROUP_STOCK - 1
                                      -> [id : Int, close : C!Tick]]
    OBVIOUS
  <2>1. /\ d.loop \in C!Tick
        /\ d.rec \in [0 .. GROUP_STOCK - 1 -> [id : Nat, close : C!Tick]]
    BY SendableLemma
  <2>2. [id : Nat, close : C!Tick] \subseteq [id : Int, close : C!Tick]
    OBVIOUS
  <2> QED
    BY <2>1, <2>2, Sizes, SendableWhole DEF C!Tick
<1> QED
  BY <1>1, Sizes DEF SP!ServerAssumption

-----------------------------------------------------------------------------
(* The invariant.                                                          *)
Frames == [dir : {"in", "out"}, data : Sendable]

TypeInv ==
  /\ lc \in Nat
  /\ i \in 0 .. gc
  /\ stock_id = GROUP_STOCK * i
  /\ client = "sending" => lc < LOOP_COUNT
  /\ backlog \in Seq(Sendable)
  /\ ring \in [K!RingSlot -> Frames \cup {KERNEL}]
  /\ head \in K!RingSlot
  /\ offset \in K!RingSlot
  /\ cnt \in Int
  /\ pkts \in Int
  /\ lost \in Nat
  /\ g_pFile \in Seq(Sendable)

(* The server and libpcap are one thread: where each of them is.           *)
Phase ==
  \/ server = "capturing" /\ pcap \in {"closed", "read", "poll", "drain"}
  \/ server \in {"callback", "coefficient"} /\ pcap = "callback"
  \/ server \in {"aborted", "finished"} /\ pcap = "returned"

(* The slot my_callback was called with is still the frame it decodes.     *)
Held ==
  Holding => /\ ring[offset] # KERNEL
             /\ ring[offset].dir = "in"
             /\ ring[offset].data = packet

(* How far a slot is ahead of the reader.                                  *)
Dist(k) == IF k >= offset THEN k - offset ELSE k - offset + RING_SLOTS

(* The n slots from the reader on are the user's, the others the kernel's. *)
Filled(n) ==
  /\ head = IF offset + n < RING_SLOTS THEN offset + n
                                       ELSE offset + n - RING_SLOTS
  /\ \A k \in K!RingSlot : ring[k] # KERNEL <=> Dist(k) < n

Contiguous == \E n \in 0 .. RING_SLOTS : Filled(n)

(* The slots with a received datagram, handed over or not.                 *)
InSlots == {k \in K!RingSlot : ring[k] # KERNEL /\ ring[k].dir = "in"}
SlotNumber(k) == Number(ring[k].data)

(* From the reader's slot through the ring and the receive queue to the    *)
(* client the numbers increase.                                            *)
Order ==
  /\ \A a, b \in InSlots : Dist(a) < Dist(b) => SlotNumber(a) < SlotNumber(b)
  /\ \A a \in InSlots : SlotNumber(a) <= Sent
  /\ \A a \in InSlots, k \in 1 .. Len(backlog) :
       SlotNumber(a) < Number(backlog[k])
  /\ \A j, k \in 1 .. Len(backlog) :
       j < k => Number(backlog[j]) < Number(backlog[k])
  /\ \A k \in 1 .. Len(backlog) : Number(backlog[k]) <= Sent

(* What the packet counter of read_op has to do with that of pcap_loop.    *)
Counted ==
  /\ pcap = "poll" => pkts = 0
  /\ Len(g_pFile) = SERVER_STOCK_COUNT - cnt
                      + (IF Counting THEN pkts ELSE 0)

IInv == TypeInv /\ Phase /\ Held /\ Contiguous /\ Order /\ Counted

-----------------------------------------------------------------------------
(* At the start nothing is on its way.                                     *)
LEMMA InitIInv == Init => IInv
<1> SUFFICES ASSUME Init PROVE IInv
  OBVIOUS
<1> USE DEF Init, C!Init, K!Init, S!Init
<1>1. TypeInv
  BY Sizes DEF TypeInv, K!RingSlot
<1>2. Phase /\ Held
  BY DEF Phase, Held, Holding
<1>3. Filled(0)
  BY Sizes DEF Filled, K!RingSlot, Dist
<1>4. Contiguous
  BY <1>3, Sizes DEF Contiguous
<1>5. InSlots = {}
  BY DEF InSlots
<1>6. Order
  BY <1>5 DEF Order
<1>7. Counted
  BY Sizes DEF Counted, Counting
<1> QED
  BY <1>1, <1>2, <1>4, <1>6, <1>7 DEF IInv

-----------------------------------------------------------------------------
(* The ring.  A frame is no kernel status (pcap-linux.c, tp_status).       *)
LEMMA FrameNotKernel == ASSUME NEW f \in Frames PROVE f # KERNEL
  BY KernelAssumption DEF Frames

(* Slots are told apart by their distance to the reader.                   *)
LEMMA DistLemma ==
  ASSUME TypeInv, NEW a \in K!RingSlot
  PROVE  /\ Dist(a) \in 0 .. RING_SLOTS - 1
         /\ Dist(a) = 0 <=> a = offset
         /\ \A b \in K!RingSlot : Dist(a) = Dist(b) => a = b
  BY Sizes DEF TypeInv, Dist, K!RingSlot

(* The kernel appends a frame behind all others, or drops it.              *)
LEMMA StoreLemma ==
  ASSUME TypeInv, Contiguous, NEW f \in Frames, K!Store(f),
         UNCHANGED offset
  PROVE  /\ ring' \in [K!RingSlot -> Frames \cup {KERNEL}]
         /\ head' \in K!RingSlot
         /\ Contiguous'
         /\ ~K!CanStore => ring' = ring
         /\ K!CanStore =>
              /\ ring[head] = KERNEL
              /\ ring' = [ring EXCEPT ![head] = f]
              /\ \A a \in K!RingSlot : ring[a] # KERNEL => Dist(a) < Dist(head)
<1>1. /\ ring \in [K!RingSlot -> Frames \cup {KERNEL}]
      /\ head \in 0 .. RING_SLOTS - 1 /\ offset \in 0 .. RING_SLOTS - 1
      /\ RING_SLOTS \in Nat \ {0} /\ K!RingSlot = 0 .. RING_SLOTS - 1
      /\ offset' = offset
  BY Sizes DEF TypeInv, K!RingSlot
<1>2. CASE ~K!CanStore
  <2>1. ring' = ring /\ head' = head
    BY <1>2 DEF K!Store
  <2>2. Contiguous'
    BY <2>1, <1>1 DEF Contiguous, Filled, Dist, K!RingSlot
  <2> QED
    BY <2>1, <2>2, <1>1, <1>2
<1>3. CASE K!CanStore
  <2>1. /\ ring[head] = KERNEL
        /\ ring' = [ring EXCEPT ![head] = f]
        /\ head' = IF head + 1 >= RING_SLOTS THEN 0 ELSE head + 1
    BY <1>3 DEF K!Store, K!CanStore, K!Advance
  <2>2. PICK n \in 0 .. RING_SLOTS : Filled(n)
    BY DEF Contiguous
  <2>3. Dist(head) = n /\ n < RING_SLOTS
    BY <2>1, <2>2, <1>1 DEF Filled, Dist
  <2>4. \A a \in K!RingSlot : ring'[a] # KERNEL <=> Dist(a) < n + 1
    <3>1. ASSUME NEW a \in K!RingSlot
          PROVE  ring'[a] # KERNEL <=> Dist(a) < n + 1
      <4>1. CASE a = head
        BY <4>1, <2>1, <2>3, <1>1, FrameNotKernel
      <4>2. CASE a # head
        <5>1. ring'[a] = ring[a]
          BY <4>2, <2>1, <1>1
        <5>2. Dist(a) # n /\ Dist(a) \in Nat
          BY <4>2, <2>3, <1>1 DEF Dist
        <5> QED
          BY <5>1, <5>2, <2>2 DEF Filled
      <4> QED
        BY <4>1, <4>2
    <3> QED
      BY <3>1
  <2>5. Filled(n + 1)'
    <3>1. head' = IF offset + (n + 1) < RING_SLOTS
                  THEN offset + (n + 1) ELSE offset + (n + 1) - RING_SLOTS
      BY <2>1, <2>2, <2>3, <1>1 DEF Filled
    <3> QED
      BY <3>1, <2>4, <1>1 DEF Filled, Dist
  <2>6. Contiguous'
    BY <2>3, <2>5, <1>1 DEF Contiguous
  <2>7. ring' \in [K!RingSlot -> Frames \cup {KERNEL}]
    BY <2>1, <1>1
  <2>8. head' \in K!RingSlot
    BY <2>1, <1>1
  <2> QED
    BY <2>1, <2>2, <2>3, <2>6, <2>7, <2>8, <1>3 DEF Filled
<1> QED
  BY <1>2, <1>3

(* The reader gives its slot back and moves on: every other slot comes one *)
(* closer (pcap-linux.c, lines 3974 to 3992).                              *)
LEMMA ReleaseLemma ==
  ASSUME TypeInv, Contiguous, ring[offset] # KERNEL, K!ReleaseSlot,
         UNCHANGED head
  PROVE  /\ ring' \in [K!RingSlot -> Frames \cup {KERNEL}]
         /\ offset' \in K!RingSlot
         /\ Contiguous'
         /\ ring'[offset] = KERNEL
         /\ \A a \in K!RingSlot \ {offset} :
              ring'[a] = ring[a] /\ Dist(a)' = Dist(a) - 1
<1>1. /\ ring \in [K!RingSlot -> Frames \cup {KERNEL}]
      /\ head \in 0 .. RING_SLOTS - 1 /\ offset \in 0 .. RING_SLOTS - 1
      /\ RING_SLOTS \in Nat \ {0} /\ K!RingSlot = 0 .. RING_SLOTS - 1
      /\ head' = head
  BY Sizes DEF TypeInv, K!RingSlot
<1>2. /\ ring' = [ring EXCEPT ![offset] = KERNEL]
      /\ offset' = IF offset + 1 >= RING_SLOTS THEN 0 ELSE offset + 1
  BY DEF K!ReleaseSlot, K!Advance
<1>3. /\ ring' \in [K!RingSlot -> Frames \cup {KERNEL}]
      /\ ring'[offset] = KERNEL
      /\ \A a \in K!RingSlot \ {offset} : ring'[a] = ring[a]
      /\ offset' \in 0 .. RING_SLOTS - 1
  BY <1>1, <1>2
<1>4. /\ \A a \in K!RingSlot \ {offset} : Dist(a)' = Dist(a) - 1
      /\ Dist(offset) = 0
      /\ (IF offset >= offset' THEN offset - offset'
          ELSE offset - offset' + RING_SLOTS) = RING_SLOTS - 1
  BY <1>1, <1>2 DEF Dist
<1>5. PICK n \in 0 .. RING_SLOTS : Filled(n)
  BY DEF Contiguous
<1>6. n >= 1
  BY <1>1, <1>4, <1>5 DEF Filled
<1>7. ASSUME NEW a \in K!RingSlot
      PROVE  ring'[a] # KERNEL <=> Dist(a)' < n - 1
  <2>1. CASE a = offset
    <3>1. Dist(a)' = RING_SLOTS - 1
      BY <2>1, <1>4 DEF Dist
    <3>2. ~(RING_SLOTS - 1 < n - 1)
      BY <1>1, <1>5
    <3> QED
      BY <3>1, <3>2, <2>1, <1>3
  <2>2. CASE a # offset
    <3>1. ring'[a] = ring[a] /\ Dist(a)' = Dist(a) - 1
      BY <2>2, <1>3, <1>4
    <3>2. Dist(a) \in Int
      BY DistLemma
    <3> QED
      BY <3>1, <3>2, <1>5 DEF Filled
  <2> QED
    BY <2>1, <2>2
<1>8. Filled(n - 1)'
  <2>1. head = IF offset' + (n - 1) < RING_SLOTS
               THEN offset' + (n - 1) ELSE offset' + (n - 1) - RING_SLOTS
    BY <1>1, <1>2, <1>5, <1>6 DEF Filled
  <2> QED
    BY <2>1, <1>1, <1>7 DEF Filled
<1>9. Contiguous'
  BY <1>6, <1>8, <1>1 DEF Contiguous
<1> QED
  BY <1>1, <1>3, <1>4, <1>9

-----------------------------------------------------------------------------
(* Every datagram on its way is one of the client's and has a number.      *)
LEMMA Numbered ==
  ASSUME TypeInv
  PROVE  /\ Sent \in Nat
         /\ \A a \in InSlots : /\ ring[a] \in Frames
                               /\ ring[a].data \in Sendable
                               /\ SlotNumber(a) \in Nat
         /\ Len(backlog) \in Nat
         /\ \A k \in 1 .. Len(backlog) : /\ backlog[k] \in Sendable
                                         /\ Number(backlog[k]) \in Nat
<1>1. Sent \in Nat
  <2>1. lc \in Nat /\ i \in Nat /\ gc \in Nat
    BY Sizes DEF TypeInv
  <2>2. lc * gc \in Nat
    BY <2>1
  <2> QED
    BY <2>1, <2>2 DEF Sent, gc
<1>2. ASSUME NEW a \in InSlots
      PROVE  ring[a] \in Frames /\ ring[a].data \in Sendable
  BY DEF InSlots, TypeInv, Frames
<1>3. Len(backlog) \in Nat /\ \A k \in 1 .. Len(backlog) : backlog[k] \in Sendable
  BY ElementOfSeq, LenProperties DEF TypeInv
<1> QED
  BY <1>1, <1>2, <1>3, SendableLemma DEF SlotNumber

(* The datagram the client sends next has the next number: the id          *)
(* generator and the loop counters stay in step (client/main.cpp).         *)
LEMMA NextNumber ==
  ASSUME TypeInv, C!Sendto
  PROVE  /\ C!buffer \in Sendable
         /\ Number(C!buffer) = Sent + 1
         /\ Sent' = Sent + 1
<1>1. /\ lc \in C!Tick /\ i \in 0 .. gc - 1 /\ i' = i + 1 /\ lc' = lc
      /\ lc \in Nat /\ gc \in Nat /\ GROUP_STOCK \in Nat \ {0}
      /\ stock_id = GROUP_STOCK * i
  BY Sizes DEF TypeInv, C!Sendto, C!Tick, gc
<1>2. C!buffer = C!Group(lc, GROUP_STOCK * i)
  BY <1>1 DEF C!buffer
<1>3. C!buffer \in Sendable
  BY <1>1, <1>2 DEF Sendable, gc
<1>4. /\ C!buffer.loop = lc
      /\ C!buffer.rec[0].id = GROUP_STOCK * i + 0
  BY <1>1, <1>2 DEF C!Group
<1>5. (GROUP_STOCK * i + 0) \div GROUP_STOCK = i
  BY <1>1, GroupOf
<1>6. lc * gc \in Nat
  BY <1>1
<1> DEFINE p == lc * gc
<1>7. Number(C!buffer) = p + i + 1 /\ Sent = p + i /\ Sent' = p + (i + 1)
  BY <1>1, <1>4, <1>5 DEF Number, Sent, gc, C!group_count
<1> HIDE DEF p
<1>8. p \in Nat
  BY <1>6 DEF p
<1> QED
  BY <1>1, <1>3, <1>7, <1>8

(* A step that leaves the ring, the receive queue and the count of sent    *)
(* datagrams alone leaves their order alone.                               *)
LEMMA QuietOrder ==
  ASSUME UNCHANGED <<ring, head, offset, backlog, Sent>>
  PROVE  /\ Order => Order'
         /\ Contiguous => Contiguous'
  BY DEF Order, Contiguous, Filled, Dist, InSlots, SlotNumber, Number

-----------------------------------------------------------------------------
(* One lemma per action that touches the ring or the receive queue.        *)

(* sendto: the outgoing copy goes into the ring, where it counts for       *)
(* nothing; the datagram goes behind all others.                           *)
LEMMA SendKeeps == ASSUME IInv, Send PROVE IInv'
<1>1. /\ TypeInv /\ Phase /\ Held /\ Contiguous /\ Order /\ Counted
      /\ C!Sendto /\ K!Transmit(C!buffer) /\ UNCHANGED serverVars
  BY DEF IInv, Send
<1> DEFINE d == C!buffer
           f == K!Frame("out", d)
<1>2. d \in Sendable /\ Number(d) = Sent + 1 /\ Sent' = Sent + 1
  BY <1>1, NextNumber
<1>3. f \in Frames /\ f.dir = "out"
  BY <1>2 DEF Frames, K!Frame
<1>4. /\ K!Store(f)
      /\ UNCHANGED <<offset, cnt, pkts, pcap, g_pFile, server, packet>>
      /\ IF Len(backlog) < BACKLOG
         THEN backlog' = Append(backlog, d) /\ UNCHANGED lost
         ELSE lost' = lost + 1 /\ UNCHANGED backlog
  BY <1>1 DEF K!Transmit, K!reader, serverVars
<1> HIDE DEF d, f
<1>5. /\ ring' \in [K!RingSlot -> Frames \cup {KERNEL}]
      /\ head' \in K!RingSlot
      /\ Contiguous'
      /\ ~K!CanStore => ring' = ring
      /\ K!CanStore => /\ ring[head] = KERNEL
                       /\ ring' = [ring EXCEPT ![head] = f]
  BY <1>1, <1>3, <1>4, StoreLemma
<1>6. /\ Sent \in Nat /\ Len(backlog) \in Nat
      /\ \A a \in InSlots : SlotNumber(a) \in Nat
      /\ \A k \in 1 .. Len(backlog) : Number(backlog[k]) \in Nat
  BY <1>1, Numbered
<1>7. /\ backlog' \in Seq(Sendable)
      /\ Len(backlog') \in Nat
      /\ \A k \in 1 .. Len(backlog') :
           \/ k \in 1 .. Len(backlog) /\ backlog'[k] = backlog[k]
           \/ k = Len(backlog) + 1 /\ backlog'[k] = d
  <2>1. backlog \in Seq(Sendable)
    BY <1>1 DEF TypeInv
  <2>2. CASE backlog' = backlog
    BY <2>1, <2>2, <1>6
  <2>3. CASE backlog' = Append(backlog, d)
    <3>1. /\ backlog' \in Seq(Sendable)
          /\ Len(backlog') = Len(backlog) + 1
          /\ \A k \in 1 .. Len(backlog) : backlog'[k] = backlog[k]
          /\ backlog'[Len(backlog) + 1] = d
      BY <2>1, <2>3, <1>2, AppendProperties
    <3> QED
      BY <3>1, <1>6
  <2> QED
    BY <2>2, <2>3, <1>4
<1>8. ASSUME NEW a \in K!RingSlot, ring'[a] # KERNEL, ring'[a].dir = "in"
      PROVE  a \in InSlots /\ ring'[a] = ring[a]
  <2>1. ring'[a] = ring[a]
    BY <1>1, <1>3, <1>5, <1>8 DEF TypeInv
  <2> QED
    BY <2>1, <1>8 DEF InSlots
<1>9. ASSUME NEW a \in InSlots'
      PROVE  a \in InSlots /\ SlotNumber(a)' = SlotNumber(a) /\ Dist(a)' = Dist(a)
  <2>1. a \in K!RingSlot /\ ring'[a] # KERNEL /\ ring'[a].dir = "in"
    BY <1>9 DEF InSlots, K!RingSlot
  <2>2. a \in InSlots /\ ring'[a] = ring[a]
    BY <2>1, <1>8
  <2> QED
    BY <2>2, <1>4 DEF SlotNumber, Dist, Number
<1>10. TypeInv'
  <2>1. /\ lc' = lc /\ i' = i + 1 /\ i < gc /\ client' = client
        /\ stock_id' = stock_id + GROUP_STOCK
    BY <1>1 DEF C!Sendto, gc
  <2>2. /\ i \in 0 .. gc /\ gc \in Nat /\ GROUP_STOCK \in Nat
        /\ stock_id = GROUP_STOCK * i
    BY <1>1, Sizes DEF TypeInv
  <2>3. stock_id' = GROUP_STOCK * i'
    BY <2>1, <2>2
  <2>4. i' \in 0 .. gc
    BY <2>1, <2>2
  <2>5. lost' \in Nat
    BY <1>1, <1>4 DEF TypeInv
  <2> QED
    BY <1>1, <1>4, <1>5, <1>7, <2>1, <2>3, <2>4, <2>5
    DEF TypeInv, gc, C!group_count, K!RingSlot, Frames, Sendable, C!Tick,
        C!Group
<1>11. Held'
  <2>1. CASE Holding
    <3>1. /\ offset \in K!RingSlot /\ ring[offset] # KERNEL
          /\ ring[offset].dir = "in" /\ ring[offset].data = packet
      BY <2>1, <1>1 DEF Held, TypeInv
    <3>2. ring'[offset] = ring[offset]
      BY <3>1, <1>1, <1>5 DEF TypeInv
    <3> QED
      BY <3>1, <3>2, <1>4 DEF Held
  <2>2. CASE ~Holding
    BY <2>2, <1>4 DEF Held, Holding
  <2> QED
    BY <2>1, <2>2
<1>12. Order'
  <2>1. \A a, b \in InSlots' :
          Dist(a)' < Dist(b)' => SlotNumber(a)' < SlotNumber(b)'
    BY <1>1, <1>9 DEF Order
  <2>2. \A a \in InSlots' : SlotNumber(a)' <= Sent'
    <3>1. ASSUME NEW a \in InSlots' PROVE SlotNumber(a)' <= Sent'
      <4>1. SlotNumber(a)' = SlotNumber(a) /\ SlotNumber(a) <= Sent
        BY <1>1, <1>9 DEF Order
      <4>2. SlotNumber(a) \in Nat
        BY <1>6, <1>9
      <4> QED
        BY <4>1, <4>2, <1>2, <1>6
    <3> QED
      BY <3>1
  <2>3. ASSUME NEW a \in InSlots', NEW k \in 1 .. Len(backlog')
        PROVE  SlotNumber(a)' < Number(backlog'[k])
    <3>1. /\ a \in InSlots /\ SlotNumber(a)' = SlotNumber(a)
          /\ SlotNumber(a) \in Nat /\ SlotNumber(a) <= Sent
      BY <1>1, <1>6, <1>9 DEF Order
    <3>2. CASE k \in 1 .. Len(backlog) /\ backlog'[k] = backlog[k]
      BY <3>1, <3>2, <1>1 DEF Order
    <3>3. CASE backlog'[k] = d
      BY <3>1, <3>3, <1>2, <1>6
    <3> QED
      BY <3>2, <3>3, <1>7
  <2>4. ASSUME NEW j \in 1 .. Len(backlog'), NEW k \in 1 .. Len(backlog'), j < k
        PROVE  Number(backlog'[j]) < Number(backlog'[k])
    <3>1. j \in 1 .. Len(backlog) /\ backlog'[j] = backlog[j]
      BY <2>4, <1>6, <1>7
    <3>2. Number(backlog[j]) <= Sent /\ Number(backlog[j]) \in Nat
      BY <3>1, <1>1, <1>6 DEF Order
    <3>3. CASE k \in 1 .. Len(backlog) /\ backlog'[k] = backlog[k]
      BY <3>1, <3>3, <2>4, <1>1 DEF Order
    <3>4. CASE backlog'[k] = d
      BY <3>1, <3>2, <3>4, <1>2, <1>6
    <3> QED
      BY <3>3, <3>4, <1>7
  <2>5. ASSUME NEW k \in 1 .. Len(backlog')
        PROVE  Number(backlog'[k]) <= Sent'
    <3>1. CASE k \in 1 .. Len(backlog) /\ backlog'[k] = backlog[k]
      <4>1. Number(backlog[k]) <= Sent /\ Number(backlog[k]) \in Nat
        BY <3>1, <1>1, <1>6 DEF Order
      <4> QED
        BY <4>1, <3>1, <1>2, <1>6
    <3>2. CASE backlog'[k] = d
      BY <3>2, <1>2, <1>6
    <3> QED
      BY <3>1, <3>2, <1>7
  <2>6. \A x : Number(x)' = Number(x)
    BY DEF Number, C!group_count
  <2> QED
    BY <2>1, <2>2, <2>3, <2>4, <2>5, <2>6 DEF Order
<1>13. Phase' /\ Counted'
  BY <1>1, <1>4 DEF Phase, Counted, Counting
<1> QED
  BY <1>5, <1>10, <1>11, <1>12, <1>13 DEF IInv

(* The loopback device receives the oldest datagram of its queue: it moves *)
(* to the end of the ring, or is lost.                                     *)
LEMMA ReceiveKeeps == ASSUME IInv, Receive PROVE IInv'
<1>1. /\ TypeInv /\ Phase /\ Held /\ Contiguous /\ Order /\ Counted
      /\ K!Receive /\ UNCHANGED <<clientVars, serverVars>>
  BY DEF IInv, Receive
<1> DEFINE d == Head(backlog)
           f == K!Frame("in", d)
<1>2. /\ K!Store(f)
      /\ UNCHANGED <<offset, cnt, pkts, pcap, g_pFile, server, packet,
                     lc, i, stock_id, client>>
      /\ lost' \in {lost, lost + 1}
      /\ backlog # << >> /\ backlog' = Tail(backlog)
  BY <1>1 DEF K!Receive, K!reader, serverVars, clientVars
<1>3. /\ Sent \in Nat /\ Len(backlog) \in Nat /\ Sent' = Sent
      /\ \A a \in InSlots : SlotNumber(a) \in Nat
      /\ \A k \in 1 .. Len(backlog) : /\ backlog[k] \in Sendable
                                      /\ Number(backlog[k]) \in Nat
  BY <1>1, <1>2, Numbered DEF Sent, C!group_count
<1>4. /\ backlog' \in Seq(Sendable)
      /\ Len(backlog') = Len(backlog) - 1
      /\ \A k \in 1 .. Len(backlog') : backlog'[k] = backlog[k + 1]
      /\ d = backlog[1]
      /\ Len(backlog) >= 1
  <2>1. backlog \in Seq(Sendable)
    BY <1>1 DEF TypeInv
  <2>2. Len(backlog) # 0
    BY <2>1, <1>2, EmptySeq
  <2> QED
    BY <2>1, <2>2, <1>2, <1>3, HeadTailProperties
<1>5. d \in Sendable
  BY <1>3, <1>4
<1>6. f \in Frames /\ f.dir = "in" /\ f.data = d
  BY <1>5 DEF Frames, K!Frame
<1> HIDE DEF d, f
<1>7. /\ ring' \in [K!RingSlot -> Frames \cup {KERNEL}]
      /\ head' \in K!RingSlot
      /\ Contiguous'
      /\ ~K!CanStore => ring' = ring
      /\ K!CanStore =>
           /\ ring[head] = KERNEL
           /\ ring' = [ring EXCEPT ![head] = f]
           /\ \A a \in K!RingSlot : ring[a] # KERNEL => Dist(a) < Dist(head)
  BY <1>1, <1>2, <1>6, StoreLemma
<1>8. TypeInv'
  <2>1. lost' \in Nat
    BY <1>1, <1>2 DEF TypeInv
  <2> QED
    BY <2>1, <1>1, <1>2, <1>4, <1>7
    DEF TypeInv, gc, C!group_count, K!RingSlot, Frames, Sendable, C!Tick,
        C!Group
<1>9. Held'
  <2>1. CASE Holding
    <3>1. /\ offset \in K!RingSlot /\ ring[offset] # KERNEL
          /\ ring[offset].dir = "in" /\ ring[offset].data = packet
      BY <2>1, <1>1 DEF Held, TypeInv
    <3>2. ring'[offset] = ring[offset]
      BY <3>1, <1>1, <1>7 DEF TypeInv
    <3> QED
      BY <3>1, <3>2, <1>2 DEF Held
  <2>2. CASE ~Holding
    BY <2>2, <1>2 DEF Held, Holding
  <2> QED
    BY <2>1, <2>2
<1>10. ASSUME NEW a \in InSlots'
       PROVE  /\ Dist(a)' = Dist(a)
              /\ \/ a \in InSlots /\ SlotNumber(a)' = SlotNumber(a)
                 \/ a = head /\ K!CanStore /\ SlotNumber(a)' = Number(backlog[1])
  <2>1. a \in K!RingSlot /\ ring'[a] # KERNEL /\ ring'[a].dir = "in"
    BY <1>10 DEF InSlots, K!RingSlot
  <2>2. Dist(a)' = Dist(a)
    BY <1>2 DEF Dist
  <2>3. CASE K!CanStore /\ a = head
    <3>1. ring'[a] = f
      BY <2>1, <2>3, <1>1, <1>7 DEF TypeInv
    <3>2. SlotNumber(a)' = Number(f.data)
      BY <3>1 DEF SlotNumber, Number, C!group_count
    <3> QED
      BY <2>2, <2>3, <3>2, <1>4, <1>6
  <2>4. CASE ~(K!CanStore /\ a = head)
    <3>1. ring'[a] = ring[a]
      BY <2>1, <2>4, <1>1, <1>7 DEF TypeInv
    <3> QED
      BY <2>1, <2>2, <3>1 DEF InSlots, SlotNumber, Number, C!group_count
  <2> QED
    BY <2>3, <2>4
<1>11. 1 \in 1 .. Len(backlog) /\ Number(backlog[1]) \in Nat
  BY <1>3, <1>4
<1>12. Order'
  <2>1. ASSUME NEW a \in InSlots', NEW b \in InSlots', Dist(a)' < Dist(b)'
        PROVE  SlotNumber(a)' < SlotNumber(b)'
    <3>1. Dist(a) < Dist(b)
      BY <2>1, <1>10
    <3>2. CASE a \in InSlots /\ SlotNumber(a)' = SlotNumber(a)
      <4>1. CASE b \in InSlots /\ SlotNumber(b)' = SlotNumber(b)
        BY <3>1, <3>2, <4>1, <1>1 DEF Order
      <4>2. CASE SlotNumber(b)' = Number(backlog[1])
        BY <3>2, <4>2, <1>1, <1>11 DEF Order
      <4> QED
        BY <4>1, <4>2, <1>10
    <3>3. CASE a = head /\ K!CanStore
      <4>1. b \in InSlots => FALSE
        <5>1. SUFFICES ASSUME b \in InSlots PROVE FALSE
          OBVIOUS
        <5>2. Dist(b) < Dist(a)
          BY <5>1, <3>3, <1>7 DEF InSlots
        <5>3. Dist(a) \in Nat /\ Dist(b) \in Nat
          <6>1. a \in K!RingSlot /\ b \in K!RingSlot
            BY <3>3, <5>1, <1>1 DEF TypeInv, InSlots
          <6> QED
            BY <6>1, <1>1, DistLemma
        <5> QED
          BY <5>2, <5>3, <3>1
      <4>2. b = head
        BY <4>1, <1>10
      <4>3. Dist(a) \in Nat
        BY <3>3, <1>1, DistLemma DEF TypeInv
      <4> QED
        BY <4>2, <4>3, <3>1, <3>3
    <3> QED
      BY <3>2, <3>3, <1>10
  <2>2. ASSUME NEW a \in InSlots' PROVE SlotNumber(a)' <= Sent'
    BY <1>1, <1>3, <1>10, <1>11 DEF Order
  <2>3. ASSUME NEW a \in InSlots', NEW k \in 1 .. Len(backlog')
        PROVE  SlotNumber(a)' < Number(backlog'[k])
    <3>1. /\ k + 1 \in 1 .. Len(backlog) /\ 1 < k + 1
          /\ backlog'[k] = backlog[k + 1]
      BY <1>3, <1>4
    <3> QED
      BY <3>1, <1>1, <1>10, <1>11 DEF Order
  <2>4. ASSUME NEW j \in 1 .. Len(backlog'), NEW k \in 1 .. Len(backlog'), j < k
        PROVE  Number(backlog'[j]) < Number(backlog'[k])
    <3>1. /\ j + 1 \in 1 .. Len(backlog) /\ k + 1 \in 1 .. Len(backlog)
          /\ j + 1 < k + 1
      BY <1>3, <1>4, <2>4
    <3> QED
      BY <3>1, <1>1, <1>4 DEF Order
  <2>5. ASSUME NEW k \in 1 .. Len(backlog')
        PROVE  Number(backlog'[k]) <= Sent'
    <3>1. k + 1 \in 1 .. Len(backlog) /\ backlog'[k] = backlog[k + 1]
      BY <1>3, <1>4
    <3> QED
      BY <3>1, <1>1, <1>3 DEF Order
  <2>6. \A x : Number(x)' = Number(x)
    BY DEF Number, C!group_count
  <2> QED
    BY <2>1, <2>2, <2>3, <2>4, <2>5, <2>6 DEF Order
<1>13. Phase' /\ Counted'
  BY <1>1, <1>2 DEF Phase, Counted, Counting
<1> QED
  BY <1>7, <1>8, <1>9, <1>12, <1>13 DEF IInv

(* Giving the reader's slot back takes it out of the order and changes     *)
(* nothing else.                                                           *)
LEMMA ReleaseOrder ==
  ASSUME TypeInv, Contiguous, Order, ring[offset] # KERNEL, K!ReleaseSlot,
         UNCHANGED <<head, backlog, Sent>>
  PROVE  /\ Order'
         /\ InSlots' = InSlots \ {offset}
         /\ \A a \in InSlots' : SlotNumber(a)' = SlotNumber(a)
<1>1. /\ ring'[offset] = KERNEL
      /\ \A a \in K!RingSlot \ {offset} :
           ring'[a] = ring[a] /\ Dist(a)' = Dist(a) - 1
  BY ReleaseLemma
<1>2. InSlots' = InSlots \ {offset}
  BY <1>1 DEF InSlots, K!RingSlot
<1>3. ASSUME NEW a \in InSlots'
      PROVE  /\ a \in InSlots
             /\ SlotNumber(a)' = SlotNumber(a)
             /\ Dist(a)' = Dist(a) - 1 /\ Dist(a) \in Nat
  <2>1. a \in InSlots /\ a \in K!RingSlot \ {offset}
    BY <1>2, <1>3 DEF InSlots
  <2>2. ring'[a] = ring[a] /\ Dist(a)' = Dist(a) - 1
    BY <2>1, <1>1
  <2>3. Dist(a) \in Nat
    BY <2>1, DistLemma
  <2> QED
    BY <2>1, <2>2, <2>3 DEF SlotNumber, Number, C!group_count
<1>4. \A x : Number(x)' = Number(x)
  BY DEF Number, C!group_count
<1>5. \A a, b \in InSlots' :
        Dist(a)' < Dist(b)' => SlotNumber(a)' < SlotNumber(b)'
  <2>1. ASSUME NEW a \in InSlots', NEW b \in InSlots', Dist(a)' < Dist(b)'
        PROVE  SlotNumber(a)' < SlotNumber(b)'
    <3>1. Dist(a) < Dist(b)
      BY <2>1, <1>3
    <3> QED
      BY <3>1, <1>3 DEF Order
  <2> QED
    BY <2>1
<1> QED
  BY <1>2, <1>3, <1>4, <1>5 DEF Order

(* An outgoing copy is thrown away.                                        *)
LEMMA SkipFrameKeeps == ASSUME IInv, SkipFrame PROVE IInv'
<1>1. /\ TypeInv /\ Phase /\ Held /\ Contiguous /\ Order /\ Counted
      /\ K!SkipFrame /\ UNCHANGED <<clientVars, serverVars>>
  BY DEF IInv, SkipFrame
<1>2. /\ pcap = "drain" /\ ring[offset] # KERNEL /\ K!ReleaseSlot
      /\ UNCHANGED <<backlog, head, cnt, pkts, pcap, lost, g_pFile, server,
                     packet, lc, i, stock_id, client>>
      /\ UNCHANGED Sent
  BY <1>1 DEF K!SkipFrame, K!Draining, K!FrameReady, serverVars, clientVars,
              Sent, C!group_count
<1>3. /\ ring' \in [K!RingSlot -> Frames \cup {KERNEL}]
      /\ offset' \in K!RingSlot
      /\ Contiguous'
  BY <1>1, <1>2, ReleaseLemma
<1>4. Order'
  BY <1>1, <1>2, ReleaseOrder
<1>5. TypeInv'
  BY <1>1, <1>2, <1>3
  DEF TypeInv, gc, C!group_count, K!RingSlot, Frames, Sendable, C!Tick, C!Group
<1>6. Phase' /\ Held' /\ Counted'
  BY <1>1, <1>2 DEF Phase, Held, Holding, Counted, Counting
<1> QED
  BY <1>3, <1>4, <1>5, <1>6 DEF IInv

(* my_callback returns and its slot goes back.                             *)
LEMMA ReturnKeeps == ASSUME IInv, Return PROVE IInv'
<1>1. /\ TypeInv /\ Phase /\ Held /\ Contiguous /\ Order /\ Counted
      /\ S!CallbackReturn /\ K!CallbackReturned /\ UNCHANGED clientVars
  BY DEF IInv, Return
<1>2. /\ pcap = "callback" /\ pcap' = "drain" /\ K!ReleaseSlot
      /\ server = "callback" /\ server' = "capturing"
      /\ UNCHANGED <<backlog, head, cnt, pkts, lost, g_pFile,
                     lc, i, stock_id, client>>
      /\ UNCHANGED Sent
  BY <1>1 DEF K!CallbackReturned, S!CallbackReturn, clientVars, Sent,
              C!group_count
<1>3. ring[offset] # KERNEL
  BY <1>1, <1>2 DEF Held, Holding
<1>4. /\ ring' \in [K!RingSlot -> Frames \cup {KERNEL}]
      /\ offset' \in K!RingSlot
      /\ Contiguous'
  BY <1>1, <1>2, <1>3, ReleaseLemma
<1>5. Order'
  BY <1>1, <1>2, <1>3, ReleaseOrder
<1>6. TypeInv'
  BY <1>1, <1>2, <1>4
  DEF TypeInv, gc, C!group_count, K!RingSlot, Frames, Sendable, C!Tick, C!Group
<1>7. Phase' /\ Held' /\ Counted'
  BY <1>1, <1>2 DEF Phase, Held, Holding, Counted, Counting
<1> QED
  BY <1>4, <1>5, <1>6, <1>7 DEF IInv

(* The frame at the reader's slot is handed over, and stays there.         *)
LEMMA CallbackKeeps == ASSUME IInv, Callback PROVE IInv'
<1>1. /\ TypeInv /\ Phase /\ Held /\ Contiguous /\ Order /\ Counted
      /\ K!PassToUser /\ S!CallbackEnter(ring[offset].data)
      /\ UNCHANGED clientVars
  BY DEF IInv, Callback
<1>2. /\ pcap = "drain" /\ pcap' = "callback" /\ ring[offset] # KERNEL
      /\ ring[offset].dir # "out" /\ pkts' = pkts + 1
      /\ server' = "callback" /\ packet' = ring[offset].data
      /\ g_pFile' = Append(g_pFile, S!Written(ring[offset].data))
      /\ UNCHANGED <<backlog, ring, head, offset, cnt, lost,
                     lc, i, stock_id, client>>
      /\ UNCHANGED Sent
  BY <1>1 DEF K!PassToUser, K!Draining, K!FrameReady, K!Rejected,
              S!CallbackEnter, clientVars, Sent, C!group_count
<1>3. ring[offset] \in Frames
  BY <1>1, <1>2 DEF TypeInv
<1>4. ring[offset].dir = "in" /\ ring[offset].data \in Sendable
  BY <1>2, <1>3 DEF Frames
<1>5. g_pFile' \in Seq(Sendable) /\ Len(g_pFile') = Len(g_pFile) + 1
  BY <1>1, <1>2, <1>4, SendableWhole, AppendProperties DEF TypeInv
<1>6. TypeInv'
  <2>1. UNCHANGED <<gc, K!RingSlot, Sendable, Frames>>
    BY DEF gc, C!group_count, K!RingSlot, Frames, Sendable, C!Tick, C!Group
  <2> QED
    BY <1>1, <1>2, <1>5, <2>1, Sizes DEF TypeInv
<1>7. Phase' /\ Held'
  BY <1>2, <1>4 DEF Phase, Held, Holding
<1>8. Counted'
  <2>1. Len(g_pFile) \in Int /\ cnt \in Int /\ pkts \in Int
    BY <1>1, LenProperties DEF TypeInv
  <2>2. Len(g_pFile) = SERVER_STOCK_COUNT - cnt + pkts
    BY <1>1, <1>2 DEF Counted, Counting
  <2>3. Len(g_pFile') = SERVER_STOCK_COUNT - cnt' + pkts'
    BY <2>1, <2>2, <1>2, <1>5, Sizes
  <2> QED
    BY <2>3, <1>2 DEF Counted, Counting
<1>9. Contiguous' /\ Order'
  BY <1>1, <1>2, QuietOrder
<1> QED
  BY <1>6, <1>7, <1>8, <1>9 DEF IInv

(* The client ends a loop: the count of sent datagrams stays.              *)
LEMMA NextLoopKeeps == ASSUME IInv, NextLoop PROVE IInv' /\ Sent' = Sent
<1>1. /\ TypeInv /\ Phase /\ Held /\ Contiguous /\ Order /\ Counted
      /\ C!NextLoop /\ UNCHANGED <<captureVars, serverVars>>
  BY DEF IInv, NextLoop
<1>2. /\ lc \in Nat /\ i = gc /\ lc' = lc + 1 /\ i' = 0 /\ gc \in Nat
      /\ stock_id' = 0
      /\ client' = IF lc + 1 < LOOP_COUNT THEN "sending" ELSE "finished"
  BY <1>1, Sizes DEF C!NextLoop, C!FirstStockId, TypeInv, gc
<1>3. Sent' = Sent
  <2>1. (lc + 1) * gc + 0 = lc * gc + gc
    BY <1>2
  <2> QED
    BY <2>1, <1>2 DEF Sent, gc, C!group_count
<1>4. UNCHANGED <<backlog, ring, head, offset, cnt, pkts, pcap, lost, g_pFile,
                  packet, server>>
  BY <1>1 DEF captureVars, serverVars
<1>5. stock_id' = GROUP_STOCK * i'
  BY <1>2, Sizes
<1>6. TypeInv'
  <2>1. /\ lc' \in Nat /\ i' \in 0 .. gc
        /\ client' = "sending" => lc' < LOOP_COUNT
    BY <1>2
  <2> QED
    BY <2>1, <1>1, <1>4, <1>5
    DEF TypeInv, gc, C!group_count, K!RingSlot, Frames, Sendable, C!Tick,
        C!Group
<1>7. Phase' /\ Held' /\ Counted'
  BY <1>1, <1>4 DEF Phase, Held, Holding, Counted, Counting
<1>8. Contiguous' /\ Order'
  BY <1>1, <1>3, <1>4, QuietOrder
<1> QED
  BY <1>3, <1>6, <1>7, <1>8 DEF IInv

(* What the steps between two accesses to the ring leave alone.            *)
Quiet ==
  /\ UNCHANGED <<backlog, ring, head, offset, lost, g_pFile, packet, lc, i,
                 stock_id>>
  /\ client' \in {client, "died"}
  /\ Holding' = Holding

(* The other steps of the client, of libpcap and of my_callback: they move *)
(* the counters of pcap_loop and the place where the server is.            *)
LEMMA QuietKeeps ==
  ASSUME IInv, [Next]_vars,
         ~Send, ~Receive, ~SkipFrame, ~Return, ~Callback, ~NextLoop
  PROVE  IInv' /\ Quiet
<1>1. /\ TypeInv /\ Phase /\ Held /\ Contiguous /\ Order /\ Counted
      /\ cnt \in Int /\ pkts \in Int /\ Len(g_pFile) \in Nat
  BY LenProperties DEF IInv, TypeInv
<1>2. ASSUME Quiet, cnt' \in Int, pkts' \in Int, Phase', Counted'
      PROVE  IInv' /\ Quiet
  <2>1. UNCHANGED Sent
    BY <1>2 DEF Quiet, Sent, C!group_count
  <2>2. Contiguous' /\ Order'
    BY <2>1, <1>1, <1>2, QuietOrder DEF Quiet
  <2>3. Held'
    BY <1>1, <1>2 DEF Quiet, Held
  <2>4. TypeInv'
    BY <1>1, <1>2
    DEF Quiet, TypeInv, gc, C!group_count, K!RingSlot, Frames, Sendable,
        C!Tick, C!Group
  <2> QED
    BY <2>2, <2>3, <2>4, <1>2 DEF IInv
<1>3. CASE SendFails
  <2>1. Quiet /\ UNCHANGED <<cnt, pkts, pcap, server>>
    BY <1>3 DEF SendFails, C!SendtoFails, captureVars, serverVars, Quiet,
       Holding
  <2> QED
    BY <2>1, <1>1, <1>2 DEF Phase, Counted, Counting, Quiet
<1>4. CASE Open
  <2>1. /\ Quiet /\ UNCHANGED <<cnt, pkts, server>>
        /\ pcap = "closed" /\ pcap' = "read"
    BY <1>4 DEF Open, K!Open, clientVars, serverVars, Quiet, Holding
  <2> QED
    BY <2>1, <1>1, <1>2 DEF Phase, Counted, Counting, Quiet
<1>5. CASE OpenFails
  <2>1. /\ Quiet /\ UNCHANGED <<cnt, pkts>>
        /\ pcap = "closed" /\ pcap' = "returned"
        /\ server = "capturing" /\ server' = "finished"
    BY <1>5 DEF OpenFails, K!OpenFails, S!Finish, clientVars, Quiet, Holding
  <2> QED
    BY <2>1, <1>1, <1>2 DEF Phase, Counted, Counting, Quiet
<1>6. CASE ReadOp
  <2>1. /\ Quiet /\ UNCHANGED <<cnt, server>> /\ pkts' = 0
        /\ pcap = "read" /\ pcap' \in {"drain", "poll"}
    BY <1>6 DEF ReadOp, K!ReadOp, clientVars, serverVars, Quiet, Holding
  <2>2. Phase'
    BY <2>1, <1>1 DEF Phase
  <2>3. Counted'
    <3>1. Len(g_pFile) = SERVER_STOCK_COUNT - cnt + 0
      BY <2>1, <1>1 DEF Counted, Counting, Phase
    <3> QED
      BY <3>1, <2>1 DEF Counted, Quiet
  <2> QED
    BY <2>1, <2>2, <2>3, <1>1, <1>2
<1>7. CASE PollReturns
  <2>1. /\ Quiet /\ UNCHANGED <<cnt, pkts, server>>
        /\ pcap = "poll" /\ pcap' = "drain"
    BY <1>7 DEF PollReturns, K!PollReturns, clientVars, serverVars, Quiet,
       Holding
  <2> QED
    BY <2>1, <1>1, <1>2 DEF Phase, Counted, Counting, Quiet
<1>8. CASE PollFails
  <2>1. /\ Quiet /\ UNCHANGED <<cnt, pkts>>
        /\ pcap = "poll" /\ pcap' = "returned"
        /\ server = "capturing" /\ server' = "finished"
    BY <1>8 DEF PollFails, K!PollFails, S!Finish, clientVars, Quiet, Holding
  <2> QED
    BY <2>1, <1>1, <1>2 DEF Phase, Counted, Counting, Quiet
<1>9. CASE ReadReturns \/ LoopReturns
  <2>1. /\ Quiet /\ cnt' = cnt - pkts /\ UNCHANGED pkts
        /\ pcap = "drain"
        /\ \/ pcap' = "read" /\ UNCHANGED server
           \/ pcap' = "returned" /\ server = "capturing" /\ server' = "finished"
    BY <1>9 DEF ReadReturns, K!ReadReturns, LoopReturns, K!LoopReturns,
       S!Finish,
                clientVars, serverVars, Quiet, Holding
  <2>2. Phase' /\ server = "capturing"
    BY <2>1, <1>1 DEF Phase
  <2>3. Counted'
    <3>1. Len(g_pFile) = SERVER_STOCK_COUNT - cnt + pkts
      BY <2>1, <1>1 DEF Counted, Counting
    <3>2. Len(g_pFile) = SERVER_STOCK_COUNT - (cnt - pkts) + 0
      BY <3>1, <1>1, Sizes
    <3> QED
      BY <3>2, <2>1, <2>2 DEF Counted, Counting, Quiet
  <2>4. cnt' \in Int
    BY <2>1, <1>1
  <2> QED
    BY <2>1, <2>2, <2>3, <2>4, <1>1, <1>2
<1>10. CASE SkipRecord \/ StoreRecord \/ GetAll \/ GetAllAndCompute
  <2>1. /\ Quiet /\ UNCHANGED <<cnt, pkts, pcap>>
        /\ server = "callback" /\ server' \in {"callback", "coefficient"}
    BY <1>10 DEF SkipRecord, StoreRecord, GetAll, GetAllAndCompute,
                 S!SkipRecord, S!StoreRecord, S!GetAll, S!GetAllAndCompute,
                 S!StorePrice, S!Decoding, clientVars, captureVars, Quiet,
                 Holding
  <2> QED
    BY <2>1, <1>1, <1>2 DEF Phase, Counted, Counting, Quiet
<1>11. CASE Abort
  <2>1. /\ Quiet /\ UNCHANGED <<cnt, pkts>>
        /\ pcap = "callback" /\ pcap' = "returned"
        /\ server = "coefficient" /\ server' = "aborted"
    BY <1>11 DEF Abort, S!Abort, K!ProcessDies, clientVars, Quiet, Holding
  <2> QED
    BY <2>1, <1>1, <1>2 DEF Phase, Counted, Counting, Quiet
<1>12. CASE UNCHANGED vars
  <2>1. Quiet /\ UNCHANGED <<cnt, pkts, pcap, server>>
    BY <1>12 DEF vars, clientVars, captureVars, serverVars, Quiet, Holding
  <2> QED
    BY <2>1, <1>1, <1>2 DEF Phase, Counted, Counting, Quiet
<1> QED
  BY <1>3, <1>4, <1>5, <1>6, <1>7, <1>8, <1>9, <1>10, <1>11, <1>12
  DEF Next, ClientStep, ServerStep, Failure

(* Every step keeps the invariant.                                         *)
LEMMA NextIInv == IInv /\ [Next]_vars => IInv'
  BY SendKeeps, ReceiveKeeps, SkipFrameKeeps, ReturnKeeps, CallbackKeeps,
     NextLoopKeeps, QuietKeeps

(* The inductive invariant holds in every reachable state, for any number  *)
(* of groups, stocks, ring slots and datagrams.                            *)
THEOREM IInvHolds == Spec => []IInv
  BY InitIInv, NextIInv, PTL DEF Spec

(* The slot libpcap hands to my_callback is not refilled while the         *)
(* callback decodes from it (pcap-linux.c, lines 3974 to 3992).            *)
THEOREM FrameIsStable == Spec => []FrameStable
<1>1. IInv => FrameStable
  BY DEF IInv, Held, Holding, FrameStable
<1> QED
  BY <1>1, IInvHolds, PTL

-----------------------------------------------------------------------------
(* What each step does to the datagrams on their way.                      *)

(* Handed over or not is a matter of the reader's slot only.               *)
LEMMA UnreadSlots ==
  /\ Unread = IF Holding THEN InSlots \ {offset} ELSE InSlots
  /\ UnreadNumbers = {SlotNumber(k) : k \in Unread}
  /\ Unread' = IF Holding' THEN InSlots' \ {offset'} ELSE InSlots'
  /\ UnreadNumbers' = {SlotNumber(k)' : k \in Unread'}
  BY DEF Unread, InSlots, UnreadNumbers, SlotNumber

(* The kernel stores into a free slot at its head: one more slot holds a   *)
(* datagram.                                                               *)
LEMMA StoreInSlots ==
  ASSUME TypeInv, Contiguous, NEW f \in Frames, K!Store(f), UNCHANGED offset
  PROVE  /\ InSlots' = IF K!CanStore /\ f.dir = "in"
                       THEN InSlots \cup {head} ELSE InSlots
         /\ \A a \in InSlots : SlotNumber(a)' = SlotNumber(a)
         /\ K!CanStore => /\ head \notin InSlots
                           /\ Number(ring'[head].data) = Number(f.data)
<1>1. /\ ring \in [K!RingSlot -> Frames \cup {KERNEL}] /\ head \in K!RingSlot
      /\ ~K!CanStore => ring' = ring
      /\ K!CanStore => ring[head] = KERNEL /\ ring' = [ring EXCEPT ![head] = f]
  BY StoreLemma DEF TypeInv
<1>2. f # KERNEL
  BY FrameNotKernel
<1>3. /\ InSlots' = {k \in K!RingSlot : ring'[k] # KERNEL /\ ring'[k].dir = "in"}
      /\ \A k : SlotNumber(k)' = Number(ring'[k].data)
  BY DEF InSlots, SlotNumber, Number, C!group_count, K!RingSlot
<1>4. CASE K!CanStore
  <2>1. ring'[head] = f /\ \A k \in K!RingSlot \ {head} : ring'[k] = ring[k]
    BY <1>1, <1>4
  <2>2. head \notin InSlots
    BY <1>1, <1>4 DEF InSlots
  <2>3. \A a \in InSlots : SlotNumber(a)' = SlotNumber(a)
    BY <2>1, <2>2, <1>3 DEF InSlots, SlotNumber
  <2>4. InSlots' = IF f.dir = "in" THEN InSlots \cup {head} ELSE InSlots
    BY <2>1, <1>1, <1>2, <1>3, <1>4 DEF InSlots
  <2> QED
    BY <2>1, <2>2, <2>3, <2>4, <1>3, <1>4
<1>5. CASE ~K!CanStore
  BY <1>1, <1>3, <1>5 DEF InSlots, SlotNumber
<1> QED
  BY <1>4, <1>5

(* sendto adds the next number to the receive queue, or loses it.          *)
LEMMA SendEffect ==
  ASSUME IInv, Send
  PROVE  /\ Sent' = Sent + 1
         /\ Unread' = Unread /\ UnreadNumbers' = UnreadNumbers
         /\ g_pFile' = g_pFile
         /\ C!buffer \in Sendable /\ Number(C!buffer) = Sent + 1
         /\ \/ backlog' = Append(backlog, C!buffer) /\ lost' = lost
            \/ backlog' = backlog /\ lost' = lost + 1
<1>1. /\ TypeInv /\ Contiguous
      /\ C!Sendto /\ K!Transmit(C!buffer) /\ UNCHANGED serverVars
  BY DEF IInv, Send
<1> DEFINE d == C!buffer
           f == K!Frame("out", d)
<1>2. d \in Sendable /\ Number(d) = Sent + 1 /\ Sent' = Sent + 1
  BY <1>1, NextNumber
<1>3. f \in Frames /\ f.dir = "out"
  BY <1>2 DEF Frames, K!Frame
<1>4. /\ K!Store(f) /\ UNCHANGED <<offset, g_pFile, server>>
      /\ \/ backlog' = Append(backlog, d) /\ lost' = lost
         \/ backlog' = backlog /\ lost' = lost + 1
  BY <1>1 DEF K!Transmit, K!reader, serverVars
<1> HIDE DEF d, f
<1>5. InSlots' = InSlots /\ \A a \in InSlots : SlotNumber(a)' = SlotNumber(a)
  BY <1>1, <1>3, <1>4, StoreInSlots
<1>6. Unread' = Unread
  BY <1>4, <1>5, UnreadSlots DEF Holding
<1>7. UnreadNumbers' = UnreadNumbers
  BY <1>5, <1>6, UnreadSlots
<1> QED
  BY <1>2, <1>4, <1>6, <1>7 DEF d

(* Reception moves the oldest number of the receive queue into the ring,   *)
(* or loses it.                                                            *)
LEMMA ReceiveEffect ==
  ASSUME IInv, Receive
  PROVE  /\ Sent' = Sent /\ g_pFile' = g_pFile
         /\ backlog # << >> /\ backlog' = Tail(backlog)
         /\ \A a \in Unread : SlotNumber(a)' = SlotNumber(a)
         /\ \/ /\ head \notin Unread
               /\ Unread' = Unread \cup {head}
               /\ Number(ring'[head].data) = Number(Head(backlog))
               /\ lost' = lost
            \/ Unread' = Unread /\ lost' = lost + 1
<1>1. /\ TypeInv /\ Contiguous /\ Held
      /\ K!Receive /\ UNCHANGED <<clientVars, serverVars>>
  BY DEF IInv, Receive
<1> DEFINE d == Head(backlog)
           f == K!Frame("in", d)
<1>2. /\ K!Store(f) /\ UNCHANGED <<offset, g_pFile, server>>
      /\ lost' = IF K!CanStore THEN lost ELSE lost + 1
      /\ backlog # << >> /\ backlog' = Tail(backlog)
      /\ Sent' = Sent
  BY <1>1 DEF K!Receive, K!reader, serverVars, clientVars, Sent, C!group_count
<1>3. d \in Sendable
  BY <1>1, <1>2, HeadTailProperties DEF TypeInv
<1>4. f \in Frames /\ f.dir = "in" /\ f.data = d
  BY <1>3 DEF Frames, K!Frame
<1> HIDE DEF d, f
<1>5. /\ InSlots' = IF K!CanStore THEN InSlots \cup {head} ELSE InSlots
      /\ \A a \in InSlots : SlotNumber(a)' = SlotNumber(a)
      /\ K!CanStore => /\ head \notin InSlots
                        /\ Number(ring'[head].data) = Number(d)
  BY <1>1, <1>2, <1>4, StoreInSlots
<1>6. K!CanStore => ~(Holding /\ head = offset)
  BY <1>1 DEF Held, K!CanStore
<1>7. Unread' = IF Holding THEN InSlots' \ {offset} ELSE InSlots'
  BY <1>2, UnreadSlots DEF Holding
<1>8. Unread' = IF K!CanStore THEN Unread \cup {head} ELSE Unread
  BY <1>5, <1>6, <1>7, UnreadSlots
<1> QED
  BY <1>2, <1>5, <1>8, UnreadSlots DEF d

(* The callback takes the number at the reader's slot, the lowest of all.  *)
LEMMA CallbackEffect ==
  ASSUME IInv, Callback
  PROVE  /\ Sent' = Sent /\ backlog' = backlog /\ lost' = lost
         /\ offset \in Unread
         /\ Unread' = Unread \ {offset}
         /\ \A a \in Unread : SlotNumber(a)' = SlotNumber(a)
         /\ \A a \in Unread \ {offset} : SlotNumber(offset) < SlotNumber(a)
         /\ ring[offset].data \in Sendable
         /\ g_pFile' = Append(g_pFile, ring[offset].data)
<1>1. /\ TypeInv /\ Phase /\ Order
      /\ K!PassToUser /\ S!CallbackEnter(ring[offset].data)
      /\ UNCHANGED clientVars
  BY DEF IInv, Callback
<1>2. /\ pcap = "drain" /\ ring[offset] # KERNEL
      /\ ring[offset].dir # "out"
      /\ server = "capturing" /\ server' = "callback"
      /\ g_pFile' = Append(g_pFile, S!Written(ring[offset].data))
      /\ UNCHANGED <<backlog, ring, head, offset, lost>>
      /\ UNCHANGED Sent
  BY <1>1 DEF K!PassToUser, K!Draining, K!FrameReady, K!Rejected,
              S!CallbackEnter, S!Deliver, clientVars, Sent, C!group_count
<1>3. offset \in K!RingSlot /\ ring[offset] \in Frames
  BY <1>1, <1>2 DEF TypeInv
<1>4. ring[offset].dir = "in" /\ ring[offset].data \in Sendable
  BY <1>2, <1>3 DEF Frames
<1>5. offset \in InSlots
  BY <1>2, <1>3, <1>4 DEF InSlots
<1>6. InSlots' = InSlots /\ \A a : SlotNumber(a)' = SlotNumber(a)
  BY <1>2 DEF InSlots, SlotNumber, Number, C!group_count, K!RingSlot
<1>7. Unread = InSlots /\ Unread' = InSlots \ {offset}
  BY <1>2, <1>6, UnreadSlots DEF Holding
<1>8. ASSUME NEW a \in InSlots \ {offset}
      PROVE  SlotNumber(offset) < SlotNumber(a)
  <2>1. /\ a \in K!RingSlot
        /\ Dist(offset) = 0
        /\ Dist(a) \in 0 .. RING_SLOTS - 1 /\ Dist(a) # 0
    BY <1>1, <1>3, <1>8, DistLemma DEF InSlots
  <2>2. Dist(offset) < Dist(a)
    BY <2>1, Sizes
  <2> QED
    BY <2>2, <1>1, <1>5, <1>8 DEF Order
<1>9. g_pFile' = Append(g_pFile, ring[offset].data)
  BY <1>2, <1>4, SendableWhole
<1> QED
  BY <1>2, <1>4, <1>5, <1>6, <1>7, <1>8, <1>9

(* No other step touches a datagram on its way.                            *)
LEMMA OtherEffect ==
  ASSUME IInv, [Next]_vars, ~Send, ~Receive, ~Callback
  PROVE  /\ UNCHANGED <<Sent, backlog, lost, g_pFile>>
         /\ Unread' = Unread /\ UnreadNumbers' = UnreadNumbers
<1>1. TypeInv /\ Phase /\ Held /\ Contiguous /\ Order
  BY DEF IInv
<1>2. CASE Quiet
  <2>1. /\ InSlots' = InSlots /\ \A a : SlotNumber(a)' = SlotNumber(a)
        /\ Holding' = Holding /\ offset' = offset
    BY <1>2 DEF Quiet, InSlots, SlotNumber, Number, C!group_count, K!RingSlot
  <2>2. Unread' = Unread
    BY <2>1, UnreadSlots
  <2>3. UnreadNumbers' = UnreadNumbers
    BY <2>1, <2>2 DEF UnreadNumbers, SlotNumber
  <2> QED
    BY <2>2, <2>3, <1>2 DEF Quiet, Sent, C!group_count
<1>3. CASE NextLoop
  <2>1. /\ Sent' = Sent
        /\ UNCHANGED <<backlog, ring, offset, lost, g_pFile, server>>
    BY <1>3, NextLoopKeeps DEF NextLoop, captureVars, serverVars
  <2> QED
    BY <2>1 DEF Unread, UnreadNumbers, Holding, Number, C!group_count,
       K!RingSlot
<1>4. CASE SkipFrame \/ Return
  <2>1. /\ K!ReleaseSlot /\ ring[offset] # KERNEL
        /\ UNCHANGED <<head, backlog, lost, g_pFile, Sent>>
        /\ ~Holding'
        /\ IF Holding THEN TRUE ELSE ring[offset].dir = "out"
    <3>1. CASE SkipFrame
      BY <3>1, <1>1
      DEF SkipFrame, K!SkipFrame, K!Draining, K!FrameReady, K!Rejected,
          serverVars, clientVars, Sent, C!group_count, Phase, Holding
    <3>2. CASE Return
      BY <3>2, <1>1
      DEF Return, S!CallbackReturn, K!CallbackReturned, clientVars, Sent,
          C!group_count, Held, Holding
    <3> QED
      BY <3>1, <3>2, <1>4
  <2>2. /\ InSlots' = InSlots \ {offset}
        /\ \A a \in InSlots' : SlotNumber(a)' = SlotNumber(a)
    BY <2>1, <1>1, ReleaseOrder
  <2>3. Unread' = InSlots'
    BY <2>1, UnreadSlots
  <2>4. Unread = InSlots \ {offset}
    BY <2>1, UnreadSlots DEF InSlots
  <2>5. UnreadNumbers' = UnreadNumbers
    BY <2>2, <2>3, <2>4, UnreadSlots
  <2> QED
    BY <2>1, <2>2, <2>3, <2>4, <2>5
<1> QED
  BY <1>2, <1>3, <1>4, QuietKeeps

-----------------------------------------------------------------------------
(* The refinement.                                                         *)
Queue == UnreadNumbers \cup BacklogNumbers

(* stocks.db grows by one payload: so does the sequence of its numbers.    *)
LEMMA NumbersLemma ==
  ASSUME NEW s \in Seq(Sendable), NEW d \in Sendable
  PROVE  Numbers(Append(s, d)) = Append(Numbers(s), Number(d))
<1>1. Len(s) \in Nat /\ Number(d) \in Nat
  BY SendableLemma, LenProperties
<1>2. \A k \in 1 .. Len(s) : Number(s[k]) \in Nat
  BY ElementOfSeq, SendableLemma
<1> DEFINE t == Append(s, d)
<1>3. /\ t \in Seq(Sendable)
      /\ Len(t) = Len(s) + 1
      /\ \A k \in 1 .. Len(s) : t[k] = s[k]
      /\ t[Len(s) + 1] = d
  BY AppendProperties
<1> HIDE DEF t
<1>4. \A k \in 1 .. Len(t) : Number(t[k]) \in Nat
  BY <1>3, ElementOfSeq, SendableLemma
<1>5. Numbers(s) \in Seq(Nat) /\ Len(Numbers(s)) = Len(s)
  BY <1>1, <1>2, SeqDef, LenProperties DEF Numbers
<1>6. Numbers(t) \in Seq(Nat) /\ Len(Numbers(t)) = Len(s) + 1
  BY <1>1, <1>3, <1>4, SeqDef, LenProperties DEF Numbers
<1> DEFINE u == Append(Numbers(s), Number(d))
<1>7. /\ u \in Seq(Nat)
      /\ Len(u) = Len(s) + 1
      /\ \A k \in 1 .. Len(s) : u[k] = Numbers(s)[k]
      /\ u[Len(s) + 1] = Number(d)
  BY <1>1, <1>5, AppendProperties
<1> HIDE DEF u
<1>8. ASSUME NEW k \in 1 .. Len(s) + 1
      PROVE  Numbers(t)[k] = u[k]
  <2>1. Numbers(t)[k] = Number(t[k])
    BY <1>3 DEF Numbers
  <2>2. CASE k = Len(s) + 1
    BY <2>1, <2>2, <1>3, <1>7
  <2>3. CASE k # Len(s) + 1
    <3>1. k \in 1 .. Len(s)
      BY <2>3, <1>1
    <3>2. Numbers(s)[k] = Number(s[k])
      BY <3>1 DEF Numbers
    <3> QED
      BY <3>1, <3>2, <2>1, <1>3, <1>7
  <2> QED
    BY <2>2, <2>3
<1>9. Numbers(t) = u
  BY <1>6, <1>7, <1>8, SeqEqual
<1> QED
  BY <1>9 DEF t, u

(* The start of the system is the start of the FIFO.                       *)
LEMMA FeedInit == Init => Feed!Init
<1> SUFFICES ASSUME Init PROVE Feed!Init
  OBVIOUS
<1>1. Sent = 0
  BY Sizes DEF Init, C!Init, Sent, gc
<1>2. UnreadNumbers \cup BacklogNumbers = {}
  BY DEF Init, K!Init, UnreadNumbers, Unread, BacklogNumbers
<1>3. Numbers(g_pFile) = << >>
  BY DEF Init, S!Init, Numbers
<1> QED
  BY <1>1, <1>2, <1>3 DEF Feed!Init

(* sendto is the sending of the FIFO.                                      *)
LEMMA SendFeeds == ASSUME IInv, Send PROVE Feed!Send
<1>1. /\ Sent' = Sent + 1
      /\ UnreadNumbers' = UnreadNumbers
      /\ g_pFile' = g_pFile
      /\ C!buffer \in Sendable /\ Number(C!buffer) = Sent + 1
      /\ \/ backlog' = Append(backlog, C!buffer)
         \/ backlog' = backlog
  BY SendEffect
<1>2. backlog \in Seq(Sendable) /\ Len(backlog) \in Nat
  BY LenProperties DEF IInv, TypeInv
<1>3. BacklogNumbers' = {Number(backlog'[k]) : k \in 1 .. Len(backlog')}
  BY DEF BacklogNumbers, Number, C!group_count
<1>4. CASE backlog' = Append(backlog, C!buffer)
  <2>1. /\ Len(backlog') = Len(backlog) + 1
        /\ \A k \in 1 .. Len(backlog) : backlog'[k] = backlog[k]
        /\ backlog'[Len(backlog) + 1] = C!buffer
    BY <1>1, <1>2, <1>4, AppendProperties
  <2>2. 1 .. Len(backlog') = 1 .. Len(backlog) \cup {Len(backlog) + 1}
    BY <2>1, <1>2
  <2>3. BacklogNumbers' = BacklogNumbers \cup {Sent + 1}
    BY <2>1, <2>2, <1>1, <1>3 DEF BacklogNumbers
  <2> QED
    BY <2>3, <1>1 DEF Feed!Send, Numbers, Number, C!group_count
<1>5. CASE backlog' = backlog
  <2>1. BacklogNumbers' = BacklogNumbers
    BY <1>3, <1>5 DEF BacklogNumbers
  <2> QED
    BY <2>1, <1>1 DEF Feed!Send, Numbers, Number, C!group_count
<1> QED
  BY <1>1, <1>4, <1>5

(* Reception is no step of the FIFO, or the loss of a datagram.            *)
LEMMA ReceiveFeeds ==
  ASSUME IInv, Receive PROVE Feed!Lose \/ UNCHANGED Feed!vars
<1>1. /\ Sent' = Sent /\ g_pFile' = g_pFile
      /\ backlog # << >> /\ backlog' = Tail(backlog)
      /\ \A a \in Unread : SlotNumber(a)' = SlotNumber(a)
      /\ \/ /\ Unread' = Unread \cup {head}
            /\ Number(ring'[head].data) = Number(Head(backlog))
         \/ Unread' = Unread
  BY ReceiveEffect
<1>2. /\ TypeInv /\ Order /\ backlog \in Seq(Sendable)
      /\ \A k \in 1 .. Len(backlog) : Number(backlog[k]) \in Nat
      /\ \A a \in InSlots : SlotNumber(a) \in Nat
  BY Numbered DEF IInv, TypeInv
<1>3. /\ Len(backlog) \in Nat \ {0}
      /\ Len(backlog') = Len(backlog) - 1
      /\ \A k \in 1 .. Len(backlog') : backlog'[k] = backlog[k + 1]
      /\ Head(backlog) = backlog[1]
  <2>1. Len(backlog) # 0 /\ Len(backlog) \in Nat
    BY <1>1, <1>2, EmptySeq, LenProperties
  <2> QED
    BY <2>1, <1>1, <1>2, HeadTailProperties
<1> DEFINE n == Number(backlog[1])
           rest == {Number(backlog[k]) : k \in 2 .. Len(backlog)}
<1>4. BacklogNumbers' = rest
  <2>1. BacklogNumbers' = {Number(backlog'[k]) : k \in 1 .. Len(backlog')}
    BY DEF BacklogNumbers, Number, C!group_count
  <2>2. \A k \in 1 .. Len(backlog') : k + 1 \in 2 .. Len(backlog)
    BY <1>3
  <2>3. \A k \in 2 .. Len(backlog) :
          k - 1 \in 1 .. Len(backlog') /\ backlog'[k - 1] = backlog[k]
    BY <1>3
  <2> QED
    BY <2>1, <2>2, <2>3, <1>3
<1>5. BacklogNumbers = rest \cup {n}
  <2>1. 1 .. Len(backlog) = {1} \cup 2 .. Len(backlog)
    BY <1>3
  <2> QED
    BY <2>1 DEF BacklogNumbers
<1>6. n \notin rest
  <2>1. ASSUME NEW k \in 2 .. Len(backlog) PROVE n < Number(backlog[k])
    <3>1. 1 \in 1 .. Len(backlog) /\ k \in 1 .. Len(backlog) /\ 1 < k
      BY <1>3
    <3> QED
      BY <3>1, <1>2 DEF Order
  <2>2. n \in Nat
    BY <1>2, <1>3
  <2> QED
    BY <2>1, <2>2
<1>7. n \notin UnreadNumbers
  <2>1. ASSUME NEW a \in Unread PROVE SlotNumber(a) < n
    <3>1. a \in InSlots /\ 1 \in 1 .. Len(backlog)
      BY <1>3, UnreadSlots
    <3> QED
      BY <3>1, <1>2 DEF Order
  <2>2. n \in Nat
    BY <1>2, <1>3
  <2> HIDE DEF n
  <2> QED
    BY <2>1, <2>2, UnreadSlots
<1> HIDE DEF n, rest
<1>8. Numbers(g_pFile)' = Numbers(g_pFile)
  BY <1>1 DEF Numbers, Number, C!group_count
<1>9. UnreadNumbers' = {Number(ring'[k].data) : k \in Unread'}
  BY DEF UnreadNumbers, Number, C!group_count
<1>10. \A a \in Unread : Number(ring'[a].data) = SlotNumber(a)
  BY <1>1 DEF SlotNumber, Number, C!group_count
<1>11. CASE Unread' = Unread \cup {head} /\ Number(ring'[head].data) = n
  <2>1. UnreadNumbers' = UnreadNumbers \cup {n}
    BY <1>9, <1>10, <1>11, UnreadSlots
  <2>2. Queue' = Queue
    BY <2>1, <1>4, <1>5 DEF Queue
  <2> QED
    BY <2>2, <1>1, <1>8 DEF Feed!vars, Queue
<1>12. CASE Unread' = Unread
  <2>1. UnreadNumbers' = UnreadNumbers
    BY <1>9, <1>10, <1>12, UnreadSlots
  <2>2. n \in Queue /\ Queue' = Queue \ {n}
    BY <2>1, <1>4, <1>5, <1>6, <1>7 DEF Queue
  <2> QED
    BY <2>2, <1>1, <1>8 DEF Feed!Lose, Queue
<1> QED
  BY <1>1, <1>3, <1>11, <1>12 DEF n

(* The call of my_callback hands over the oldest datagram on its way.      *)
LEMMA CallbackFeeds == ASSUME IInv, Callback PROVE Feed!HandOver
<1>1. /\ Sent' = Sent /\ backlog' = backlog
      /\ offset \in Unread
      /\ Unread' = Unread \ {offset}
      /\ \A a \in Unread : SlotNumber(a)' = SlotNumber(a)
      /\ \A a \in Unread \ {offset} : SlotNumber(offset) < SlotNumber(a)
      /\ ring[offset].data \in Sendable
      /\ g_pFile' = Append(g_pFile, ring[offset].data)
  BY CallbackEffect
<1>2. /\ TypeInv /\ Order /\ g_pFile \in Seq(Sendable)
      /\ Len(backlog) \in Nat
      /\ \A k \in 1 .. Len(backlog) : Number(backlog[k]) \in Nat
      /\ \A a \in InSlots : SlotNumber(a) \in Nat
  BY Numbered DEF IInv, TypeInv
<1> DEFINE n == SlotNumber(offset)
<1>3. Numbers(g_pFile)' = Append(Numbers(g_pFile), n)
  <2>1. Numbers(g_pFile)' = Numbers(g_pFile')
    BY DEF Numbers, Number, C!group_count
  <2> QED
    BY <2>1, <1>1, <1>2, NumbersLemma DEF SlotNumber
<1>4. \A k \in 1 .. Len(backlog) : n < Number(backlog[k])
  <2>1. offset \in InSlots
    BY <1>1, UnreadSlots
  <2> QED
    BY <2>1, <1>2 DEF Order
<1>5. n \in Nat /\ n \in UnreadNumbers
  BY <1>1, <1>2, UnreadSlots
<1> HIDE DEF n
<1>6. BacklogNumbers' = BacklogNumbers
  BY <1>1 DEF BacklogNumbers, Number, C!group_count
<1>7. \A a \in Unread \ {offset} : n < SlotNumber(a) /\ SlotNumber(a) \in Nat
  BY <1>1, <1>2, UnreadSlots DEF n
<1>8. UnreadNumbers' = {SlotNumber(k) : k \in Unread \ {offset}}
  BY <1>1, UnreadSlots
<1>9. UnreadNumbers = {SlotNumber(k) : k \in Unread \ {offset}} \cup {n}
  BY <1>1, UnreadSlots DEF n
<1>10. /\ n \in Queue
       /\ Queue' = Queue \ {n}
       /\ \A m \in Queue : n <= m
  <2>1. \A m \in BacklogNumbers : n < m /\ m \in Nat
    BY <1>2, <1>4 DEF BacklogNumbers
  <2>2. \A m \in UnreadNumbers' : n < m /\ m \in Nat
    BY <1>7, <1>8
  <2>3. UnreadNumbers = UnreadNumbers' \cup {n}
    BY <1>8, <1>9
  <2>4. Queue = UnreadNumbers' \cup {n} \cup BacklogNumbers
    BY <2>3 DEF Queue
  <2>5. Queue' = UnreadNumbers' \cup BacklogNumbers
    BY <1>6 DEF Queue
  <2> QED
    BY <2>1, <2>2, <2>4, <2>5, <1>5
<1> QED
  BY <1>1, <1>3, <1>10 DEF Feed!HandOver, Queue

(* Every step of the system is a step of the FIFO or none.                 *)
LEMMA FeedStep == IInv /\ [Next]_vars => [Feed!Next]_(Feed!vars)
<1> SUFFICES ASSUME IInv, [Next]_vars PROVE Feed!Next \/ UNCHANGED Feed!vars
  OBVIOUS
<1>1. CASE Send
  BY <1>1, SendFeeds DEF Feed!Next
<1>2. CASE Receive
  BY <1>2, ReceiveFeeds DEF Feed!Next
<1>3. CASE Callback
  BY <1>3, CallbackFeeds DEF Feed!Next
<1>4. CASE ~Send /\ ~Receive /\ ~Callback
  <2>1. UNCHANGED <<Sent, backlog, g_pFile, UnreadNumbers>>
    BY <1>4, OtherEffect
  <2> QED
    BY <2>1 DEF Feed!vars, Numbers, BacklogNumbers, Number, C!group_count
<1> QED
  BY <1>1, <1>2, <1>3, <1>4

(* Loopback device, ring and libpcap together are a lossy FIFO: the        *)
(* payloads my_callback writes to stocks.db are a subsequence of the ones  *)
(* sent (pcap-linux.c, lines 3861 to 3887 and 3974 to 3992).               *)
THEOREM CaptureIsLossyFifo == Spec => FeedIsLossyFifo
  BY FeedInit, FeedStep, IInvHolds, PTL DEF Spec, FeedIsLossyFifo, Feed!Spec

(* A state of the lossy FIFO in which nothing is repeated or overtakes:    *)
(* s datagrams sent, q on their way, d handed over.                        *)
Ordered(s, q, d) ==
  /\ s \in Nat /\ q \subseteq 1 .. s /\ d \in Seq(1 .. s)
  /\ \A j, k \in 1 .. Len(d) : j < k => d[j] < d[k]
  /\ \A j \in 1 .. Len(d), n \in q : d[j] < n

(* A datagram sent gets a number above all others, so the order is kept    *)
(* whether it is queued or lost at once.                                   *)
LEMMA SendOrdered ==
  ASSUME NEW s, NEW q, NEW d, Ordered(s, q, d),
         NEW r, r \subseteq q \cup {s + 1}
  PROVE  Ordered(s + 1, r, d)
<1>1. s \in Nat /\ q \subseteq 1 .. s /\ d \in Seq(1 .. s)
  BY DEF Ordered
<1>2. d \in Seq(1 .. s + 1)
  <2>1. \A k \in 1 .. Len(d) : d[k] \in 1 .. s + 1
    BY <1>1, ElementOfSeq
  <2> QED
    BY <1>1, <2>1, SeqDef, LenProperties
<1>3. r \subseteq 1 .. s + 1
  BY <1>1
<1>4. ASSUME NEW j \in 1 .. Len(d), NEW n \in r
      PROVE  d[j] < n
  <2>1. d[j] \in 1 .. s
    BY <1>1, ElementOfSeq
  <2>2. CASE n \in q
    BY <2>2 DEF Ordered
  <2>3. CASE n = s + 1
    BY <2>1, <2>3, <1>1
  <2> QED
    BY <2>2, <2>3
<1>5. \A j, k \in 1 .. Len(d) : j < k => d[j] < d[k]
  BY DEF Ordered
<1> QED
  BY <1>1, <1>2, <1>3, <1>4, <1>5 DEF Ordered

(* The oldest datagram on its way is above all that was handed over and    *)
(* below all that stays on its way.                                        *)
LEMMA HandOverOrdered ==
  ASSUME NEW s, NEW q, NEW d, Ordered(s, q, d),
         NEW n \in q, \A m \in q : n <= m
  PROVE  Ordered(s, q \ {n}, Append(d, n))
<1> DEFINE e == Append(d, n)
<1>1. /\ s \in Nat /\ q \subseteq 1 .. s /\ n \in 1 .. s
      /\ d \in Seq(1 .. s) /\ Len(d) \in Nat
  BY LenProperties DEF Ordered
<1>2. /\ e \in Seq(1 .. s) /\ Len(e) = Len(d) + 1
      /\ \A j \in 1 .. Len(d) : e[j] = d[j]
      /\ e[Len(d) + 1] = n
  BY <1>1, AppendProperties
<1> HIDE DEF e
<1>3. /\ \A j \in 1 .. Len(d) : d[j] < n
      /\ \A j, k \in 1 .. Len(d) : j < k => d[j] < d[k]
      /\ \A j \in 1 .. Len(d), m \in q : d[j] < m
  BY DEF Ordered
<1>4. \A m \in q \ {n} : n < m /\ m \in q
  BY <1>1
<1>5. \A j \in 1 .. Len(e) : j \in 1 .. Len(d) \/ j = Len(d) + 1
  BY <1>1, <1>2
<1>6. ASSUME NEW j \in 1 .. Len(e), NEW k \in 1 .. Len(e), j < k
      PROVE  e[j] < e[k]
  <2>1. j \in 1 .. Len(d)
    BY <1>1, <1>2, <1>6
  <2> QED
    BY <2>1, <1>2, <1>3, <1>5, <1>6
<1>7. ASSUME NEW j \in 1 .. Len(e), NEW m \in q \ {n}
      PROVE  e[j] < m
  BY <1>2, <1>3, <1>4, <1>5
<1>8. Ordered(s, q \ {n}, e)
  BY <1>1, <1>2, <1>6, <1>7 DEF Ordered
<1> QED
  BY <1>8 DEF e

(* What a lossy FIFO keeps, for the one that the capture implements.       *)
LEMMA FifoOrdered == Feed!Spec => [](Feed!TypeOK /\ Feed!InOrder)
<1> DEFINE Q == UnreadNumbers \cup BacklogNumbers
           D == Numbers(g_pFile)
<1>1. Feed!TypeOK /\ Feed!InOrder <=> Ordered(Sent, Q, D)
  BY DEF Feed!TypeOK, Feed!InOrder, Feed!Increasing, Ordered
<1>2. Feed!Init => Ordered(Sent, Q, D)
  BY DEF Feed!Init, Ordered
<1>3. ASSUME Ordered(Sent, Q, D), [Feed!Next]_(Feed!vars)
      PROVE  Ordered(Sent', Q', D')
  <2>1. CASE Feed!Send
    <3>1. /\ Sent' = Sent + 1 /\ Q' \subseteq Q \cup {Sent + 1}
          /\ D' = D
      BY <2>1 DEF Feed!Send
    <3> HIDE DEF Q, D
    <3>2. Ordered(Sent + 1, Q', D)
      BY <1>3, <3>1, SendOrdered, Zenon
    <3> QED
      BY <3>1, <3>2
  <2>2. CASE Feed!Lose
    <3>1. Sent' = Sent /\ Q' \subseteq Q /\ D' = D
      BY <2>2 DEF Feed!Lose
    <3> HIDE DEF Q, D
    <3> QED
      BY <1>3, <3>1 DEF Ordered
  <2>3. CASE Feed!HandOver
    <3>1. PICK n \in Q : /\ \A m \in Q : n <= m
                         /\ D' = Append(D, n)
                         /\ Q' = Q \ {n}
                         /\ Sent' = Sent
      BY <2>3 DEF Feed!HandOver
    <3> HIDE DEF Q, D
    <3>2. Ordered(Sent, Q \ {n}, Append(D, n))
      BY <1>3, <3>1, HandOverOrdered, Zenon
    <3> QED
      BY <3>1, <3>2
  <2>4. CASE UNCHANGED Feed!vars
    <3>1. Sent' = Sent /\ Q' = Q /\ D' = D
      BY <2>4 DEF Feed!vars
    <3> QED
      BY <1>3, <3>1
  <2> QED
    BY <1>3, <2>1, <2>2, <2>3, <2>4 DEF Feed!Next
<1>4. Ordered(Sent, Q, D)' <=> Ordered(Sent', Q', D')
  BY DEF Ordered
<1> HIDE DEF Q, D
<1> QED
  BY <1>1, <1>2, <1>3, <1>4, PTL DEF Feed!Spec

(* So stocks.db holds every datagram at most once, in the order of         *)
(* sending, and everything still on its way is newer.                      *)
THEOREM FileInOrder == Spec => [](Feed!TypeOK /\ Feed!InOrder)
  BY CaptureIsLossyFifo, FifoOrdered, PTL DEF FeedIsLossyFifo

-----------------------------------------------------------------------------
(* Every datagram is somewhere.                                            *)
Conserved == Sent = Len(g_pFile) + Cardinality(Unread) + Len(backlog) + lost

(* Finitely many frames are unread.                                        *)
LEMMA UnreadFinite ==
  /\ IsFiniteSet(Unread) /\ Cardinality(Unread) \in Nat
<1>1. IsFiniteSet(K!RingSlot)
  BY Sizes, FS_Interval DEF K!RingSlot
<1>2. Unread \subseteq K!RingSlot
  BY DEF Unread
<1> QED
  BY <1>1, <1>2, FS_Subset, FS_CardinalityType

(* A datagram changes its place or is lost; none vanishes, none is         *)
(* counted twice.                                                          *)
LEMMA NextConserved == IInv /\ Conserved /\ [Next]_vars => Conserved'
<1> SUFFICES ASSUME IInv, Conserved, [Next]_vars PROVE Conserved'
  OBVIOUS
<1>1. /\ backlog \in Seq(Sendable) /\ Len(backlog) \in Nat /\ lost \in Nat
      /\ g_pFile \in Seq(Sendable) /\ Len(g_pFile) \in Nat /\ Sent \in Nat
      /\ IsFiniteSet(Unread) /\ Cardinality(Unread) \in Nat
  BY LenProperties, Numbered, UnreadFinite DEF IInv, TypeInv
<1> DEFINE b == Len(backlog)
           w == Len(g_pFile)
           u == Cardinality(Unread)
<1>2. Sent = w + u + b + lost /\ w \in Nat /\ u \in Nat /\ b \in Nat
  BY <1>1 DEF Conserved
<1>3. CASE Send
  <2>1. /\ Sent' = Sent + 1 /\ Cardinality(Unread') = u /\ Len(g_pFile') = w
        /\ \/ Len(backlog') = b + 1 /\ lost' = lost
           \/ Len(backlog') = b /\ lost' = lost + 1
    BY <1>1, <1>3, SendEffect, AppendProperties
  <2> HIDE DEF b, w, u
  <2>2. Sent' = w + u + Len(backlog') + lost'
    BY <2>1, <1>1, <1>2
  <2> QED
    BY <2>1, <2>2 DEF Conserved
<1>4. CASE Receive
  <2>1. /\ Sent' = Sent /\ Len(g_pFile') = w
        /\ backlog # << >> /\ backlog' = Tail(backlog)
        /\ \/ head \notin Unread /\ Unread' = Unread \cup {head} /\ lost' = lost
           \/ Unread' = Unread /\ lost' = lost + 1
    BY <1>4, ReceiveEffect
  <2>2. Len(backlog') = b - 1
    BY <2>1, <1>1, EmptySeq, HeadTailProperties
  <2>3. \/ Cardinality(Unread') = u + 1 /\ lost' = lost
        \/ Cardinality(Unread') = u /\ lost' = lost + 1
    BY <2>1, <1>1, FS_AddElement
  <2> HIDE DEF b, w, u
  <2>4. Sent' = w + Cardinality(Unread') + (b - 1) + lost'
    BY <2>1, <2>3, <1>1, <1>2
  <2> QED
    BY <2>1, <2>2, <2>4 DEF Conserved
<1>5. CASE Callback
  <2>1. /\ Sent' = Sent /\ Len(backlog') = b /\ lost' = lost
        /\ offset \in Unread /\ Unread' = Unread \ {offset}
        /\ Len(g_pFile') = w + 1
    BY <1>1, <1>5, CallbackEffect, AppendProperties
  <2>2. Cardinality(Unread') = u - 1
    BY <2>1, <1>1, FS_RemoveElement
  <2> HIDE DEF b, w, u
  <2>3. Sent' = (w + 1) + (u - 1) + b + lost
    BY <2>1, <1>1, <1>2
  <2> QED
    BY <2>1, <2>2, <2>3 DEF Conserved
<1>6. CASE ~Send /\ ~Receive /\ ~Callback
  BY <1>6, OtherEffect DEF Conserved
<1> QED
  BY <1>3, <1>4, <1>5, <1>6

(* Every datagram the client sent is in the file, in the ring, in the      *)
(* receive queue or lost, and the counters of read_op and pcap_loop add up *)
(* to the payloads in the file.                                            *)
THEOREM DatagramsConserved == Spec => []Conservation
<1>1. Init => Conserved
  <2> SUFFICES ASSUME Init PROVE Conserved
    OBVIOUS
  <2>1. Sent = 0
    BY Sizes DEF Init, C!Init, Sent, gc
  <2>2. Unread = {}
    BY DEF Init, K!Init, Unread
  <2>3. Len(g_pFile) = 0 /\ Len(backlog) = 0 /\ lost = 0
    BY DEF Init, S!Init, K!Init
  <2> QED
    BY <2>1, <2>2, <2>3, FS_EmptySet DEF Conserved
<1>2. IInv /\ Conserved => Conservation
  BY DEF IInv, Counted, Conserved, Conservation
<1> QED
  BY <1>1, <1>2, NextConserved, IInvHolds, PTL DEF Spec

-----------------------------------------------------------------------------
(* The server inside the system is the server of Server: libpcap calls its *)
(* callback only when pcap_loop may, and only with payloads of the client. *)
LEMMA ServerStepLemma == IInv /\ [Next]_vars => [S!Next]_(S!vars)
<1> SUFFICES ASSUME IInv, [Next]_vars PROVE S!Next \/ UNCHANGED S!vars
  OBVIOUS
<1>1. CASE UNCHANGED serverVars
  BY <1>1 DEF serverVars, S!vars
<1>2. CASE Callback
  <2>1. ring[offset].data \in Sendable /\ S!CallbackEnter(ring[offset].data)
    BY <1>2, CallbackEffect DEF Callback
  <2> QED
    BY <2>1 DEF S!Next
<1>3. CASE \/ S!Finish \/ S!SkipRecord \/ S!StoreRecord \/ S!GetAll
           \/ S!GetAllAndCompute \/ S!CallbackReturn \/ S!Abort
  BY <1>3 DEF S!Next
<1> QED
  BY <1>1, <1>2, <1>3
  DEF Next, ClientStep, ServerStep, Failure, Send, SendFails, NextLoop,
      Receive,
      Open, OpenFails, ReadOp, PollReturns, PollFails, SkipFrame, ReadReturns,
      LoopReturns, SkipRecord, StoreRecord, GetAll, GetAllAndCompute, Return,
      Abort, vars

(* Whatever holds of Server holds of the server in the system.             *)
THEOREM ServerImplemented == Spec => S!Spec
<1>1. Init => S!Init
  BY DEF Init
<1> QED
  BY <1>1, ServerStepLemma, IInvHolds, PTL DEF Spec, S!Spec

(* The two instances of Server, the system's and that of its proofs, are   *)
(* the same.                                                               *)
LEMMA SameServer ==
  /\ S!Init => SP!Init
  /\ [S!Next]_(S!vars) => [SP!Next]_(SP!vars)
<1>1. S!Init => SP!Init
  BY DEF S!Init, SP!Init, S!Stock, SP!Stock, S!NoPacket, SP!NoPacket
<1> USE DEF S!pricing, SP!pricing, S!Deliver, SP!Deliver, S!Decoding,
            SP!Decoding, S!Current, SP!Current, S!Stock, SP!Stock, S!NoPacket,
            SP!NoPacket
<1>2. UNCHANGED S!vars => UNCHANGED SP!vars
  BY DEF S!vars, SP!vars
<1>3. /\ S!CallbackReject => SP!CallbackReject
      /\ S!SkipRecord => SP!SkipRecord
      /\ S!CallbackReturn => SP!CallbackReturn
      /\ S!Abort => SP!Abort
      /\ S!Finish => SP!Finish
  BY DEF S!CallbackReject, SP!CallbackReject, S!SkipRecord, SP!SkipRecord,
         S!CallbackReturn, SP!CallbackReturn, S!Abort, SP!Abort, S!Finish,
         SP!Finish
<1>4. \A d \in Sendable : /\ S!CallbackDone(d) => SP!CallbackDone(d)
                          /\ S!CallbackEnter(d) => SP!CallbackEnter(d)
  BY DEF S!CallbackDone, SP!CallbackDone, S!CallbackEnter, SP!CallbackEnter,
         S!Written, SP!Written
<1>5. /\ S!Pushed = SP!Pushed /\ S!WasReady = SP!WasReady
      /\ \A map, ready : /\ S!allPriceOK(map, ready) = SP!allPriceOK(map, ready)
                         /\ S!TrimScan(map, ready) = SP!TrimScan(map, ready)
  BY DEF S!Pushed, SP!Pushed, S!WasReady, SP!WasReady, S!PushPrice,
     SP!PushPrice,
         S!allPriceOK, SP!allPriceOK, S!TrimScan, SP!TrimScan, S!Short,
         SP!Short,
         S!KeepNewest, SP!KeepNewest
<1>6. S!StorePrice => SP!StorePrice
  BY DEF S!StorePrice, SP!StorePrice
<1>7. S!StoreRecord => SP!StoreRecord
  BY <1>5, <1>6 DEF S!StoreRecord, SP!StoreRecord
<1>8. S!GetAll => SP!GetAll
  BY <1>5, <1>6 DEF S!GetAll, SP!GetAll
<1>9. S!GetAllAndCompute => SP!GetAllAndCompute
  BY <1>5, <1>6 DEF S!GetAllAndCompute, SP!GetAllAndCompute
<1>10. S!Next => SP!Next
  BY <1>3, <1>4, <1>7, <1>8, <1>9 DEF S!Next, SP!Next
<1> QED
  BY <1>1, <1>2, <1>10

(* What ServerProofs shows of the windows, for the system.                 *)
LEMMA ServerTheorems ==
  Spec => [](SP!TypeOK /\ SP!WindowExact /\ SP!WindowIsNewest)
<1>1. Spec => SP!Spec
  BY ServerImplemented, SameServer, PTL DEF S!Spec, SP!Spec
<1>2. SP!Spec => []SP!TypeOK
  BY SP!TypeCorrect, ServerAssumed
<1>3. SP!Spec => []SP!WindowExact
  BY SP!WindowsExact, ServerAssumed
<1>4. SP!Spec => []SP!WindowIsNewest
  BY SP!WindowsAreNewest, ServerAssumed
<1> QED
  BY <1>1, <1>2, <1>3, <1>4, PTL

-----------------------------------------------------------------------------
(* The number of the datagram that carries the price of stock s in loop l. *)
NumberOf(s, l) == l * gc + s \div GROUP_STOCK + 1

(* Every price in a window came with a datagram that is in the file.       *)
FromFile ==
  \A s \in S!Stock : \A k \in 1 .. Len(quoted[s]) :
    \E j \in 1 .. Len(g_pFile) : Number(g_pFile[j]) = NumberOf(s, quoted[s][k])

(* The records still to be decoded have not been stored.                   *)
Fresh ==
  server = "callback" =>
    /\ Len(g_pFile) >= 1 /\ packet = g_pFile[Len(g_pFile)]
    /\ \A j \in slot .. GROUP_STOCK - 1 :
         packet.rec[j].id \in S!Stock =>
           \A k \in 1 .. Len(quoted[packet.rec[j].id]) :
             NumberOf(packet.rec[j].id, quoted[packet.rec[j].id][k])
               # Number(packet)

(* A stock has no more prices than loops have begun.                       *)
OnePerLoop ==
  \A s \in S!Stock : \A k \in 1 .. Len(quoted[s]) : quoted[s][k] >= k - 1

Stored == FromFile /\ Fresh /\ OnePerLoop

(* The numbers of the file increase.                                       *)
FileOrder ==
  /\ Len(g_pFile) \in Nat
  /\ \A j \in 1 .. Len(g_pFile) : Number(g_pFile[j]) \in Nat
  /\ \A j, k \in 1 .. Len(g_pFile) :
       j < k => Number(g_pFile[j]) < Number(g_pFile[k])

(* The numbers of the datagrams in the file grow.                          *)
LEMMA FileIncreases == IInv /\ Feed!InOrder => FileOrder
<1> SUFFICES ASSUME IInv, Feed!InOrder PROVE FileOrder
  OBVIOUS
<1>1. /\ Len(g_pFile) \in Nat
      /\ \A j \in 1 .. Len(g_pFile) : Number(g_pFile[j]) \in Nat
  BY ElementOfSeq, LenProperties, SendableLemma DEF IInv, TypeInv
<1>2. /\ Len(Numbers(g_pFile)) = Len(g_pFile)
      /\ \A j \in 1 .. Len(g_pFile) : Numbers(g_pFile)[j] = Number(g_pFile[j])
  BY <1>1, LenProperties DEF Numbers
<1> QED
  BY <1>1, <1>2 DEF FileOrder, Feed!InOrder, Feed!Increasing

(* The facts of the other invariants this one rests on.                    *)
Known ==
  /\ IInv
  /\ FileOrder
  /\ quoted \in [S!Stock -> Seq(C!Tick)]
  /\ slot \in 0 .. GROUP_STOCK
  /\ server = "callback" => packet \in Sendable

(* my_callback starts with a datagram newer than all before: none of its   *)
(* prices is in a window yet.                                              *)
LEMMA CallbackStored ==
  ASSUME Known, Known', Stored, Callback PROVE Stored'
<1>1. /\ IInv /\ FileOrder' /\ g_pFile \in Seq(Sendable)
      /\ FromFile /\ OnePerLoop
      /\ Len(g_pFile) \in Nat
  BY LenProperties DEF Known, IInv, TypeInv, Stored
<1>2. /\ server' = "callback" /\ packet' = ring[offset].data
      /\ g_pFile' = Append(g_pFile, packet') /\ packet' \in Sendable
      /\ slot' = 0 /\ quoted' = quoted
  BY CallbackEffect, <1>1 DEF Callback, S!CallbackEnter
<1>3. /\ Len(g_pFile') = Len(g_pFile) + 1
      /\ \A j \in 1 .. Len(g_pFile) : g_pFile'[j] = g_pFile[j]
      /\ g_pFile'[Len(g_pFile) + 1] = packet'
  BY <1>1, <1>2, AppendProperties
<1>4. \A x : Number(x)' = Number(x)
  BY DEF Number, C!group_count
<1>5. FromFile'
  <2>1. ASSUME NEW s \in S!Stock, NEW k \in 1 .. Len(quoted[s])
        PROVE  \E j \in 1 .. Len(g_pFile') :
                 Number(g_pFile'[j]) = NumberOf(s, quoted[s][k])
    <3>1. PICK j \in 1 .. Len(g_pFile) :
            Number(g_pFile[j]) = NumberOf(s, quoted[s][k])
      BY <1>1 DEF FromFile
    <3>2. j \in 1 .. Len(g_pFile')
      BY <1>1, <1>3
    <3> QED
      BY <3>1, <3>2, <1>3
  <2> QED
    BY <2>1, <1>2, <1>4 DEF FromFile, NumberOf, S!Stock, gc, C!group_count
<1>6. ASSUME NEW s \in S!Stock, NEW k \in 1 .. Len(quoted[s])
      PROVE  NumberOf(s, quoted[s][k]) # Number(packet')
  <2>1. PICK j \in 1 .. Len(g_pFile) :
          Number(g_pFile[j]) = NumberOf(s, quoted[s][k])
    BY <1>1 DEF FromFile
  <2>2. /\ \A m \in 1 .. Len(g_pFile') : Number(g_pFile'[m]) \in Nat
        /\ \A m, n \in 1 .. Len(g_pFile') :
              m < n => Number(g_pFile'[m]) < Number(g_pFile'[n])
    BY <1>1, <1>4 DEF FileOrder
  <2>3. /\ j \in 1 .. Len(g_pFile') /\ Len(g_pFile) + 1 \in 1 .. Len(g_pFile')
        /\ j < Len(g_pFile) + 1
    BY <1>1, <1>3
  <2>4. Number(g_pFile[j]) < Number(packet') /\ Number(g_pFile[j]) \in Nat
    BY <2>2, <2>3, <1>3
  <2> QED
    BY <2>1, <2>4
<1>7. Fresh'
  <2>1. Len(g_pFile') >= 1 /\ packet' = g_pFile'[Len(g_pFile')]
    BY <1>1, <1>3
  <2> QED
    BY <2>1, <1>2, <1>4, <1>6 DEF Fresh, NumberOf, S!Stock, gc, C!group_count
<1>8. OnePerLoop'
  BY <1>1, <1>2 DEF OnePerLoop, S!Stock
<1> QED
  BY <1>5, <1>7, <1>8 DEF Stored

(* A factor can be cancelled.                                              *)
LEMMA Cancel ==
  ASSUME NEW a \in Nat, NEW b \in Nat, NEW g \in Nat \ {0}, NEW c \in Int,
         a * g + c < b * g + c
  PROVE  a < b
<1>1. a * g < b * g
  BY a * g \in Int, b * g \in Int
<1>2. CASE b <= a
  <2>1. b * g <= a * g
    BY <1>2
  <2> QED
    BY <1>1, <2>1, a * g \in Int, b * g \in Int
<1> QED
  BY <1>2

(* A record of a followed stock is stored: its loop is later than that of  *)
(* every price the stock has.                                              *)
LEMMA RecordStored ==
  ASSUME Known, Stored, S!StorePrice,
         server' = "callback" => slot' = slot + 1
  PROVE  Stored'
<1> DEFINE s == packet.rec[slot].id
           l == packet.loop
           q == quoted[s]
<1>1. /\ server = "callback" /\ slot \in 0 .. GROUP_STOCK - 1
      /\ s \in S!Stock
      /\ quoted' = [quoted EXCEPT ![s] = Append(q, packet.rec[slot].close)]
      /\ UNCHANGED <<g_pFile, packet>>
      /\ GROUP_STOCK \in Nat \ {0} /\ gc \in Nat \ {0}
  BY Sizes DEF Known, S!StorePrice, S!Decoding, S!Current
<1>2. /\ IInv /\ FromFile /\ OnePerLoop /\ FileOrder
      /\ quoted \in [S!Stock -> Seq(C!Tick)]
      /\ packet \in Sendable
      /\ Len(g_pFile) >= 1 /\ packet = g_pFile[Len(g_pFile)]
      /\ \A j \in slot .. GROUP_STOCK - 1 :
           packet.rec[j].id \in S!Stock =>
             \A k \in 1 .. Len(quoted[packet.rec[j].id]) :
               NumberOf(packet.rec[j].id, quoted[packet.rec[j].id][k])
                 # Number(packet)
  BY <1>1 DEF Known, Stored, Fresh
<1>3. /\ l \in C!Tick /\ l \in Nat /\ packet.rec[slot].close = l
      /\ Number(packet) \in Nat
      /\ Number(packet) = NumberOf(s, l)
      /\ \A j \in 0 .. GROUP_STOCK - 1 : packet.rec[j].id = packet.rec[0].id + j
      /\ packet.rec[0].id \in Nat
  <2>1. /\ l \in C!Tick
        /\ packet.rec \in [0 .. GROUP_STOCK - 1 -> [id : Nat, close : C!Tick]]
        /\ Number(packet) \in Nat
        /\ \A j \in 0 .. GROUP_STOCK - 1 :
             /\ Number(packet)
                  = packet.loop * gc + packet.rec[j].id \div GROUP_STOCK + 1
             /\ packet.rec[j].id = packet.rec[0].id + j
             /\ packet.rec[j].close = packet.loop
    BY <1>2, SendableLemma
  <2>2. 0 \in 0 .. GROUP_STOCK - 1
    BY <1>1
  <2>3. Number(packet) = NumberOf(s, l)
    BY <2>1, <1>1 DEF NumberOf
  <2> QED
    BY <2>1, <2>2, <2>3, <1>1, Sizes DEF C!Tick
<1>4. q \in Seq(C!Tick) /\ Len(q) \in Nat /\ \A k \in 1 .. Len(q) : q[k] \in Nat
  <2>1. q \in Seq(C!Tick)
    BY <1>1, <1>2
  <2> QED
    BY <2>1, ElementOfSeq, LenProperties, Sizes DEF C!Tick
<1>5. /\ quoted'[s] = Append(q, l)
      /\ Len(quoted'[s]) = Len(q) + 1
      /\ \A k \in 1 .. Len(q) : quoted'[s][k] = q[k]
      /\ quoted'[s][Len(q) + 1] = l
      /\ \A t \in S!Stock \ {s} : quoted'[t] = quoted[t]
  <2>1. /\ quoted'[s] = Append(q, l)
        /\ \A t \in S!Stock \ {s} : quoted'[t] = quoted[t]
    BY <1>1, <1>2, <1>3
  <2> HIDE DEF s, l, q
  <2>2. /\ Len(Append(q, l)) = Len(q) + 1
        /\ \A k \in 1 .. Len(q) : Append(q, l)[k] = q[k]
        /\ Append(q, l)[Len(q) + 1] = l
    BY <1>3, <1>4, AppendProperties
  <2> QED
    BY <2>1, <2>2
<1>6. ASSUME NEW k \in 1 .. Len(q) PROVE q[k] < l
  <2>1. NumberOf(s, q[k]) # Number(packet)
    BY <1>1, <1>2
  <2>2. PICK j \in 1 .. Len(g_pFile) : Number(g_pFile[j]) = NumberOf(s, q[k])
    BY <1>1, <1>2 DEF FromFile
  <2>3. Number(g_pFile[j]) < Number(packet)
    <3>1. j # Len(g_pFile)
      BY <2>1, <2>2, <1>2
    <3>2. Len(g_pFile) \in 1 .. Len(g_pFile) /\ j < Len(g_pFile)
      BY <3>1, <1>2 DEF FileOrder
    <3> QED
      BY <3>2, <1>2 DEF FileOrder
  <2>4. NumberOf(s, q[k]) < NumberOf(s, l)
    BY <2>2, <2>3, <1>3
  <2> DEFINE c == s \div GROUP_STOCK
  <2>5. s \in Nat /\ c \in Int /\ q[k] \in Nat
    BY <1>1, <1>4, Sizes DEF S!Stock
  <2>6. q[k] * gc + c + 1 < l * gc + c + 1
    BY <2>4 DEF NumberOf
  <2> HIDE DEF c, q, l, s
  <2>7. q[k] * gc + (c + 1) < l * gc + (c + 1)
    <3>1. q[k] * gc \in Int /\ l * gc \in Int
      BY <2>5, <1>1, <1>3
    <3> QED
      BY <2>5, <2>6, <3>1
  <2>8. c + 1 \in Int
    BY <2>5
  <2> QED
    BY <2>5, <2>7, <2>8, <1>1, <1>3, Cancel
<1> HIDE DEF s, l, q
<1>7. \A x : Number(x)' = Number(x)
  BY DEF Number, C!group_count
<1>8. FromFile'
  <2>1. ASSUME NEW t \in S!Stock, NEW k \in 1 .. Len(quoted'[t])
        PROVE  \E j \in 1 .. Len(g_pFile) :
                 Number(g_pFile[j]) = NumberOf(t, quoted'[t][k])
    <3>1. CASE t = s /\ k = Len(q) + 1
      <4>1. Len(g_pFile) \in 1 .. Len(g_pFile)
        BY <1>2 DEF FileOrder
      <4> QED
        BY <4>1, <3>1, <1>2, <1>3, <1>5
    <3>2. CASE ~(t = s /\ k = Len(q) + 1)
      <4>1. k \in 1 .. Len(quoted[t]) /\ quoted'[t][k] = quoted[t][k]
        BY <3>2, <1>4, <1>5 DEF q
      <4> QED
        BY <4>1, <1>2 DEF FromFile
    <3> QED
      BY <3>1, <3>2
  <2> QED
    BY <2>1, <1>1, <1>7 DEF FromFile, NumberOf, S!Stock, gc, C!group_count
<1>9. OnePerLoop'
  <2>1. ASSUME NEW t \in S!Stock, NEW k \in 1 .. Len(quoted'[t])
        PROVE  quoted'[t][k] >= k - 1
    <3>1. CASE t = s /\ k = Len(q) + 1
      <4>1. l >= Len(q)
        <5>1. CASE Len(q) = 0
          BY <5>1, <1>3
        <5>2. CASE Len(q) # 0
          <6>1. Len(q) \in 1 .. Len(q)
            BY <5>2, <1>4
          <6>2. q[Len(q)] >= Len(q) - 1 /\ q[Len(q)] < l /\ q[Len(q)] \in Nat
            BY <6>1, <1>1, <1>2, <1>4, <1>6 DEF OnePerLoop, q
          <6> QED
            BY <6>2, <1>3, <1>4
        <5> QED
          BY <5>1, <5>2
      <4> QED
        BY <4>1, <3>1, <1>3, <1>4, <1>5
    <3>2. CASE ~(t = s /\ k = Len(q) + 1)
      <4>1. k \in 1 .. Len(quoted[t]) /\ quoted'[t][k] = quoted[t][k]
        BY <3>2, <1>4, <1>5 DEF q
      <4> QED
        BY <4>1, <1>2 DEF OnePerLoop
    <3> QED
      BY <3>1, <3>2
  <2> QED
    BY <2>1 DEF OnePerLoop, S!Stock
<1>10. Fresh'
  <2>1. SUFFICES ASSUME server' = "callback" PROVE Fresh'
    BY DEF Fresh
  <2>2. slot' = slot + 1
    BY <2>1
  <2>3. ASSUME NEW j \in slot + 1 .. GROUP_STOCK - 1,
               packet.rec[j].id \in S!Stock,
               NEW k \in 1 .. Len(quoted'[packet.rec[j].id])
        PROVE  NumberOf(packet.rec[j].id, quoted'[packet.rec[j].id][k])
                 # Number(packet)
    <3>1. j \in slot .. GROUP_STOCK - 1 /\ j \in 0 .. GROUP_STOCK - 1 /\ j # slot
      BY <1>1
    <3>2. packet.rec[j].id # s
      <4> DEFINE first == packet.rec[0].id
      <4>1. packet.rec[j].id = first + j /\ s = first + slot /\ first \in Nat
        BY <3>1, <1>1, <1>3 DEF s
      <4> HIDE DEF first
      <4> QED
        BY <4>1, <3>1, <1>1
    <3>3. quoted'[packet.rec[j].id] = quoted[packet.rec[j].id]
      BY <3>2, <2>3, <1>5
    <3> QED
      BY <3>1, <3>3, <2>3, <1>2
  <2> QED
    BY <2>2, <2>3, <1>1, <1>2, <1>7
    DEF Fresh, NumberOf, S!Stock, gc, C!group_count
<1> QED
  BY <1>8, <1>9, <1>10 DEF Stored

(* Every step keeps what is known of the stored prices.                    *)
LEMMA NextStored ==
  ASSUME Known, Known', Stored, [Next]_vars PROVE Stored'
<1>1. CASE Callback
  BY <1>1, CallbackStored
<1>2. CASE StoreRecord \/ GetAll \/ GetAllAndCompute
  <2>1. S!StorePrice /\ (server' = "callback" => slot' = slot + 1)
    BY <1>2 DEF StoreRecord, GetAll, GetAllAndCompute, S!StoreRecord, S!GetAll,
                S!GetAllAndCompute
  <2> QED
    BY <2>1, RecordStored
<1>3. ASSUME UNCHANGED <<g_pFile, quoted>>,
             server' = "callback" => /\ server = "callback" /\ packet' = packet
                                     /\ slot' \in {slot, slot + 1}
      PROVE  Stored'
  <2>1. FromFile' /\ OnePerLoop'
    BY <1>3 DEF Stored, FromFile, OnePerLoop, Number, NumberOf, S!Stock, gc,
                C!group_count
  <2>2. CASE server' = "callback"
    <3>1. \A j \in slot' .. GROUP_STOCK - 1 : j \in slot .. GROUP_STOCK - 1
      BY <2>2, <1>3, Sizes DEF Known
    <3>2. /\ Len(g_pFile) >= 1 /\ packet = g_pFile[Len(g_pFile)]
          /\ \A j \in slot' .. GROUP_STOCK - 1 :
               packet.rec[j].id \in S!Stock =>
                 \A k \in 1 .. Len(quoted[packet.rec[j].id]) :
                   NumberOf(packet.rec[j].id, quoted[packet.rec[j].id][k])
                     # Number(packet)
      BY <3>1, <2>2, <1>3 DEF Stored, Fresh
    <3>3. Fresh'
      BY <3>2, <2>2, <1>3 DEF Fresh, Number, NumberOf, S!Stock, gc,
                              C!group_count
    <3> QED
      BY <3>3, <2>1 DEF Stored
  <2>3. CASE server' # "callback"
    BY <2>1, <2>3 DEF Stored, Fresh
  <2> QED
    BY <2>2, <2>3
<1>4. CASE UNCHANGED serverVars
  BY <1>3, <1>4 DEF serverVars
<1>5. CASE S!Finish \/ S!SkipRecord \/ S!CallbackReturn \/ S!Abort
  BY <1>3, <1>5 DEF S!Finish, S!SkipRecord, S!CallbackReturn, S!Abort,
                    S!Decoding
<1> QED
  BY <1>1, <1>2, <1>4, <1>5
  DEF Next, ClientStep, ServerStep, Failure, Send, SendFails, NextLoop,
      Receive,
      Open, OpenFails, ReadOp, PollReturns, PollFails, SkipFrame, ReadReturns,
      LoopReturns, SkipRecord, Return, Abort, vars

(* It holds in every reachable state.                                      *)
LEMMA StoredHolds == Spec => []Stored
<1>1. IInv /\ Feed!InOrder /\ SP!TypeOK => Known
  BY FileIncreases DEF SP!TypeOK, SP!Stock, S!Stock, Known
<1>2. Init => Stored
  <2> SUFFICES ASSUME Init PROVE Stored
    OBVIOUS
  <2>1. \A s \in S!Stock : quoted[s] = << >>
    BY DEF Init, S!Init
  <2> QED
    BY <2>1 DEF Stored, FromFile, Fresh, OnePerLoop, Init, S!Init
<1>3. Known /\ Known' /\ Stored /\ [Next]_vars => Stored'
  BY NextStored
<1> QED
  BY <1>1, <1>2, <1>3, IInvHolds, FileInOrder, ServerTheorems, PTL DEF Spec

(* A stock has at most one price per loop, so a window of more entries     *)
(* than there are loops is never full.                                     *)
LEMMA FewerLoops ==
  ASSUME Stored, SP!TypeOK, SP!WindowExact, SP!WindowIsNewest
  PROVE  NeverReady
<1> SUFFICES ASSUME LOOP_COUNT < PRICE_LIST_SIZE
             PROVE  ~g_ready /\ server # "coefficient"
  BY DEF NeverReady
<1>1. /\ LOOP_COUNT \in Nat /\ PRICE_LIST_SIZE \in Nat
      /\ SERVER_STOCK \in Nat \ {0}
  BY Sizes
<1>2. 0 \in S!Stock /\ S!Stock = SP!Stock
  BY <1>1 DEF S!Stock, SP!Stock
<1>3. /\ quoted[0] \in Seq(C!Tick) /\ Len(quoted[0]) \in Nat
      /\ g_priceMap[0] \in Seq(C!Tick) /\ Len(g_priceMap[0]) \in Nat
  BY <1>2, LenProperties DEF SP!TypeOK
<1>4. Len(quoted[0]) <= LOOP_COUNT
  <2>1. SUFFICES ASSUME Len(quoted[0]) # 0 PROVE Len(quoted[0]) <= LOOP_COUNT
    BY <1>1, <1>3
  <2>2. Len(quoted[0]) \in 1 .. Len(quoted[0])
    BY <2>1, <1>3
  <2>3. quoted[0][Len(quoted[0])] \in C!Tick
    BY <2>2, <1>3, ElementOfSeq
  <2>4. quoted[0][Len(quoted[0])] >= Len(quoted[0]) - 1
    BY <2>2, <1>2 DEF Stored, OnePerLoop
  <2> QED
    BY <2>3, <2>4, <1>1, <1>3 DEF C!Tick
<1>5. Len(g_priceMap[0]) <= Len(quoted[0])
  BY <1>2 DEF SP!WindowIsNewest, SP!NewestOf
<1>6. Len(g_priceMap[0]) # PRICE_LIST_SIZE
  BY <1>1, <1>3, <1>4, <1>5
<1> QED
  BY <1>2, <1>6 DEF SP!WindowExact

(* With the constants of global.h, LOOP_COUNT below PRICE_LIST_SIZE, the   *)
(* client sends fewer prices of a stock than a window holds, and none of   *)
(* them arrives twice: allPriceOK never answers true and coefficient is    *)
(* never called, whatever is lost on the way.                              *)
THEOREM ShippedNeverReady == Spec => []NeverReady
<1>1. Stored /\ SP!TypeOK /\ SP!WindowExact /\ SP!WindowIsNewest => NeverReady
  BY FewerLoops
<1> QED
  BY <1>1, StoredHolds, ServerTheorems, PTL


-----------------------------------------------------------------------------
(* How far the windows are apart.  Loop and group of the newest datagram   *)
(* in a file, and its number; before the first one, those of the datagram  *)
(* numbered zero.                                                          *)
LastLoop(f) == IF f = << >> THEN -1 ELSE f[Len(f)].loop
LastGroup(f) ==
  IF f = << >> THEN gc - 1 ELSE f[Len(f)].rec[0].id \div GROUP_STOCK
LastNumber(f) == LastLoop(f) * gc + LastGroup(f) + 1

(* Datagrams up to the newest one in the file that are not in the file.    *)
Missing == LastNumber(g_pFile) - Len(g_pFile)

(* Records of the newest datagram that have been decoded, and the id of    *)
(* the one after them.                                                     *)
Decoded ==
  CASE server = "callback" -> slot
    [] server \in {"coefficient", "aborted"} -> slot + 1
    [] OTHER -> GROUP_STOCK
NextId == GROUP_STOCK * LastGroup(g_pFile) + Decoded

(* Loops in which the record of stock t has gone by when the next record   *)
(* is that of stock n in loop c.                                           *)
Passed(c, n, t) == IF t < n THEN c + 1 ELSE c

(* With m datagrams missing, stock n next in loop c, p prices counted and  *)
(* the prices q stored by a server in state w: without a loss the count is *)
(* the number of records that went by in this loop; a stock has at most m  *)
(* prices less than records of it went by; and its prices, read backwards, *)
(* get older by a loop at least.                                           *)
SkewAt(m, c, n, p, q, w) ==
  /\ m \in Nat
  /\ m = 0 => /\ w \in {"capturing", "callback"} =>
                   p = IF n < SERVER_STOCK THEN n ELSE 0
              /\ w = "coefficient" => n = SERVER_STOCK
  /\ \A t \in S!Stock : Passed(c, n, t) <= Len(q[t]) + m
  /\ \A t \in S!Stock : \A k \in 1 .. Len(q[t]) :
       q[t][k] + (Len(q[t]) - k) + 1 <= Passed(c, n, t)

Skew ==
  SkewAt(Missing, LastLoop(g_pFile), NextId, g_current_stocks, quoted, server)

(* A datagram of the client starts with the first record of its group.     *)
LEMMA FirstRecord ==
  ASSUME NEW d \in Sendable
  PROVE  /\ d.rec[0].id \div GROUP_STOCK \in 0 .. gc - 1
         /\ d.rec[0].id = GROUP_STOCK * (d.rec[0].id \div GROUP_STOCK)
<1>1. PICK l \in C!Tick, g \in 0 .. gc - 1 : d = C!Group(l, GROUP_STOCK * g)
  BY DEF Sendable, gc
<1>2. /\ g \in Nat /\ GROUP_STOCK \in Nat \ {0} /\ gc \in Nat
      /\ 0 \in 0 .. GROUP_STOCK - 1 /\ GROUP_STOCK * g \in Nat
  BY Sizes
<1>3. d.rec[0].id = GROUP_STOCK * g + 0
  BY <1>1, <1>2 DEF C!Group
<1>4. (GROUP_STOCK * g + 0) \div GROUP_STOCK = g
  BY <1>2, GroupOf
<1>5. d.rec[0].id \div GROUP_STOCK = g /\ d.rec[0].id = GROUP_STOCK * g
  BY <1>2, <1>3, <1>4
<1> QED
  BY <1>5

(* The newest datagram of a file and its number.                           *)
LEMMA LastLemma ==
  ASSUME NEW f \in Seq(Sendable)
  PROVE  /\ LastLoop(f) \in Int /\ LastLoop(f) >= -1
         /\ LastGroup(f) \in 0 .. gc - 1
         /\ f = << >> => LastNumber(f) = 0
         /\ f # << >> => /\ f[Len(f)] \in Sendable
                         /\ LastLoop(f) \in C!Tick
                         /\ LastNumber(f) = Number(f[Len(f)])
         /\ LastNumber(f) \in Nat
<1>1. gc \in Nat \ {0} /\ LOOP_COUNT \in Nat \ {0}
  BY Sizes
<1>2. CASE f = << >>
  <2>1. LastLoop(f) = -1 /\ LastGroup(f) = gc - 1
    BY <1>2 DEF LastLoop, LastGroup
  <2>2. LastNumber(f) = 0
    BY <2>1, <1>1 DEF LastNumber
  <2> QED
    BY <2>1, <2>2, <1>1, <1>2
<1>3. CASE f # << >>
  <2>1. f[Len(f)] \in Sendable
    <3>1. Len(f) \in 1 .. Len(f)
      BY <1>3, EmptySeq, LenProperties
    <3> QED
      BY <3>1, ElementOfSeq
  <2>2. f[Len(f)].loop \in C!Tick /\ Number(f[Len(f)]) \in Nat
    BY <2>1, SendableLemma
  <2>3. LastGroup(f) \in 0 .. gc - 1
    BY <2>1, <1>3, FirstRecord DEF LastGroup
  <2>4. LastNumber(f) = Number(f[Len(f)])
    BY <1>3 DEF LastNumber, LastLoop, LastGroup, Number, gc
  <2>5. LastLoop(f) \in C!Tick
    BY <2>2, <1>3 DEF LastLoop
  <2>6. LastLoop(f) \in Int /\ LastLoop(f) >= -1
    BY <2>5, <1>1 DEF C!Tick
  <2> QED
    BY <2>1, <2>2, <2>3, <2>4, <2>5, <2>6, <1>3
<1> QED
  BY <1>2, <1>3

-----------------------------------------------------------------------------
(* From number c * g + a + 1 to the later number d * g + b + 1: how often  *)
(* group e comes by between them.                                          *)
LEMMA GroupsBetween ==
  ASSUME NEW g \in Nat \ {0}, NEW a \in 0 .. g - 1, NEW b \in 0 .. g - 1,
         NEW c \in Int, NEW d \in Int, NEW e \in 0 .. g - 1,
         NEW x \in Int, x = IF e <= a THEN c + 1 ELSE c,
         NEW y \in Int, y = IF e < b THEN d + 1 ELSE d,
         c * g + a + 1 < d * g + b + 1
  PROVE  /\ x <= y
         /\ y - x <= (d * g + b + 1) - (c * g + a + 1) - 1
         /\ (d * g + b + 1) - (c * g + a + 1) = 1 =>
              \/ d = c /\ b = a + 1
              \/ a = g - 1 /\ b = 0 /\ d = c + 1
<1> DEFINE D == d - c
           h == D * g
<1>1. D \in Int /\ h \in Int /\ d * g \in Int /\ c * g \in Int
  OBVIOUS
<1>2. (d * g + b + 1) - (c * g + a + 1) = h + b - a
  <2>1. d * g - c * g = h
    OBVIOUS
  <2> HIDE DEF h
  <2> QED
    BY <2>1, <1>1
<1>3. h + b - a > 0
  <2> HIDE DEF h
  <2> QED
    BY <1>1, <1>2
<1>4. D >= 0
  <2>1. SUFFICES ASSUME D <= -1 PROVE FALSE
    BY <1>1
  <2>2. h <= -g
    <3> HIDE DEF D
    <3>1. (-1 - D) * g >= 0
      BY <2>1, <1>1
    <3>2. (-1 - D) * g = -g - D * g
      BY <1>1
    <3> QED
      BY <3>1, <3>2, <1>1
  <2> HIDE DEF h, D
  <2> QED
    BY <2>2, <1>1, <1>3
<1>5. CASE D = 0
  <2>1. h = 0 /\ d = c
    BY <1>5
  <2> HIDE DEF h, D
  <2> QED
    BY <2>1, <1>1, <1>2, <1>3
<1>6. CASE D >= 1
  <2> DEFINE r == (D - 1) * g
  <2>1. h = g + r /\ r \in Int
    BY <1>1
  <2>2. r >= D - 1
    <3> HIDE DEF D
    <3>1. (D - 1) * (g - 1) >= 0
      BY <1>6, <1>1
    <3>2. (D - 1) * (g - 1) = (D - 1) * g - (D - 1)
      BY <1>1
    <3>3. (D - 1) * g \in Int
      BY <1>1
    <3> QED
      BY <3>1, <3>2, <3>3, <1>1
  <2>3. d = c + D
    OBVIOUS
  <2> HIDE DEF h, D, r
  <2>4. x <= y
    BY <2>3, <1>1, <1>6
  <2>5. y - x <= h + b - a - 1
    BY <2>1, <2>2, <2>3, <1>1, <1>6
  <2>6. h + b - a = 1 => a = g - 1 /\ b = 0 /\ d = c + 1
    BY <2>1, <2>2, <2>3, <1>1, <1>6
  <2> QED
    BY <2>4, <2>5, <2>6, <1>2
<1> QED
  BY <1>1, <1>4, <1>5, <1>6

(* The group a stock is in tells whether its record has gone by.           *)
LEMMA GroupWentBy ==
  ASSUME NEW G \in Nat \ {0}, NEW a \in Nat, NEW t \in Nat
  PROVE  /\ t \div G \in Nat
         /\ t < G * a <=> t \div G < a
         /\ t < G * a + G <=> t \div G <= a
<1> DEFINE e == t \div G
           r == t % G
<1>1. e \in Nat /\ r \in 0 .. G - 1 /\ t = G * e + r
  OBVIOUS
<1> HIDE DEF e, r
<1>2. G * e \in Nat /\ G * a \in Nat
  BY <1>1
<1>3. CASE e < a
  <2>1. G * (a - e - 1) >= 0
    BY <1>1, <1>3
  <2>2. G * (a - e - 1) = G * a - G * e - G
    BY <1>1
  <2> QED
    BY <2>1, <2>2, <1>1, <1>2, <1>3 DEF e
<1>4. CASE e = a
  BY <1>1, <1>2, <1>4 DEF e
<1>5. CASE e > a
  <2>1. G * (e - a - 1) >= 0
    BY <1>1, <1>5
  <2>2. G * (e - a - 1) = G * e - G * a - G
    BY <1>1
  <2> QED
    BY <2>1, <2>2, <1>1, <1>2, <1>5 DEF e
<1> QED
  BY <1>1, <1>3, <1>4, <1>5

(* Every followed stock is in one of the client's groups.                  *)
LEMMA StockGroup ==
  /\ SERVER_STOCK <= GROUP_STOCK * gc
  /\ \A t \in S!Stock : t \in Nat /\ t \div GROUP_STOCK \in 0 .. gc - 1
<1>1. /\ STOCK_COUNT \in Nat \ {0} /\ GROUP_STOCK \in Nat \ {0}
      /\ SERVER_STOCK \in Nat /\ gc \in Nat \ {0}
      /\ STOCK_COUNT % GROUP_STOCK = 0 /\ SERVER_STOCK <= STOCK_COUNT
  BY Sizes, StockSystemAssumption
<1>2. STOCK_COUNT = GROUP_STOCK * gc
  BY <1>1, SMT DEF gc, C!group_count
<1>3. ASSUME NEW t \in S!Stock
      PROVE  t \in Nat /\ t \div GROUP_STOCK \in 0 .. gc - 1
  <2>1. t \in Nat /\ t < GROUP_STOCK * gc
    BY <1>1, <1>2 DEF S!Stock
  <2>2. t \div GROUP_STOCK \in Nat /\ t \div GROUP_STOCK < gc
    BY <2>1, <1>1, GroupWentBy
  <2> QED
    BY <2>1, <2>2, <1>1
<1> QED
  BY <1>1, <1>2, <1>3

(* my_callback starts with a later datagram: every stock falls behind by   *)
(* at most the number of datagrams that were left out.                     *)
LEMMA CallbackSkewAt ==
  ASSUME NEW m, NEW c \in Int, NEW a \in 0 .. gc - 1,
         NEW d \in Int, NEW b \in 0 .. gc - 1,
         NEW p, NEW q \in [S!Stock -> Seq(C!Tick)],
         NEW from \in Int, from = c * gc + a + 1,
         NEW to \in Int, to = d * gc + b + 1,
         from < to,
         SkewAt(m, c, GROUP_STOCK * a + GROUP_STOCK, p, q, "capturing")
  PROVE  SkewAt(m + (to - from - 1), d, GROUP_STOCK * b, p, q, "callback")
<1> DEFINE n == GROUP_STOCK * a + GROUP_STOCK
           o == GROUP_STOCK * b
           w == to - from - 1
<1>1. /\ gc \in Nat \ {0} /\ GROUP_STOCK \in Nat \ {0}
      /\ SERVER_STOCK \in Nat \ {0} /\ LOOP_COUNT \in Nat \ {0}
      /\ a \in Nat /\ b \in Nat /\ n \in Nat /\ o \in Nat
  BY Sizes
<1>2. m \in Nat /\ w \in Nat
  BY DEF SkewAt
<1>3. \A t \in S!Stock : \A k \in 1 .. Len(q[t]) :
        Len(q[t]) \in Nat /\ q[t][k] \in Nat /\ k \in Nat
  <2> SUFFICES ASSUME NEW t \in S!Stock, NEW k \in 1 .. Len(q[t])
               PROVE  Len(q[t]) \in Nat /\ q[t][k] \in Nat /\ k \in Nat
    OBVIOUS
  <2>1. q[t] \in Seq(C!Tick)
    OBVIOUS
  <2>2. Len(q[t]) \in Nat /\ q[t][k] \in C!Tick
    BY <2>1, ElementOfSeq, LenProperties
  <2> QED
    BY <2>2, <1>1 DEF C!Tick
<1>4. ASSUME NEW t \in S!Stock
      PROVE  /\ Passed(c, n, t) \in Int /\ Passed(d, o, t) \in Int
             /\ Passed(c, n, t) <= Passed(d, o, t)
             /\ Passed(d, o, t) - Passed(c, n, t) <= w
  <2> DEFINE e == t \div GROUP_STOCK
             x == IF e <= a THEN c + 1 ELSE c
             y == IF e < b THEN d + 1 ELSE d
  <2>1. t \in Nat /\ e \in 0 .. gc - 1
    BY StockGroup
  <2>2. /\ t < GROUP_STOCK * b <=> e < b
        /\ t < GROUP_STOCK * a + GROUP_STOCK <=> e <= a
    BY <2>1, <1>1, GroupWentBy
  <2>3. x \in Int /\ y \in Int
    OBVIOUS
  <2>4. Passed(c, n, t) = x /\ Passed(d, o, t) = y
    BY <2>2 DEF Passed
  <2> HIDE DEF e
  <2>5. x <= y /\ y - x <= (d * gc + b + 1) - (c * gc + a + 1) - 1
    BY <2>1, <2>3, <1>1, GroupsBetween
  <2>6. y - x <= w
    BY <2>5
  <2> HIDE DEF x, y, n, o, w
  <2> QED
    BY <2>3, <2>4, <2>5, <2>6
<1>5. ASSUME m + w = 0
      PROVE  p = IF o < SERVER_STOCK THEN o ELSE 0
  <2>1. m = 0 /\ w = 0
    BY <1>2, <1>5
  <2>2. p = IF n < SERVER_STOCK THEN n ELSE 0
    BY <2>1 DEF SkewAt
  <2>3. (d * gc + b + 1) - (c * gc + a + 1) = 1
    BY <2>1
  <2>4. \/ d = c /\ b = a + 1
        \/ a = gc - 1 /\ b = 0 /\ d = c + 1
    <3> DEFINE x == IF 0 <= a THEN c + 1 ELSE c
               y == IF 0 < b THEN d + 1 ELSE d
    <3>1. x \in Int /\ y \in Int /\ 0 \in 0 .. gc - 1
      BY <1>1
    <3> HIDE DEF w
    <3> QED
      BY <3>1, <2>3, <1>1, GroupsBetween
  <2>5. CASE b = a + 1
    <3>1. o = n
      BY <2>5, <1>1
    <3> QED
      BY <3>1, <2>2
  <2>6. CASE a = gc - 1 /\ b = 0
    <3>1. n = GROUP_STOCK * gc /\ o = 0
      BY <2>6, <1>1
    <3>2. SERVER_STOCK <= GROUP_STOCK * gc
      BY StockGroup
    <3> HIDE DEF n, o, w
    <3>3. ~(n < SERVER_STOCK)
      BY <3>1, <3>2, <1>1
    <3> QED
      BY <3>1, <3>3, <2>2
  <2> QED
    BY <2>4, <2>5, <2>6
<1>6. \A t \in S!Stock : /\ Len(q[t]) \in Nat
                         /\ Passed(c, n, t) <= Len(q[t]) + m
  BY LenProperties DEF SkewAt
<1>7. \A t \in S!Stock : \A k \in 1 .. Len(q[t]) :
        q[t][k] + (Len(q[t]) - k) + 1 <= Passed(c, n, t)
  BY DEF SkewAt
<1> HIDE DEF n, o, w
<1>8. \A t \in S!Stock : Passed(d, o, t) <= Len(q[t]) + (m + w)
  BY <1>2, <1>4, <1>6
<1>9. ASSUME NEW t \in S!Stock, NEW k \in 1 .. Len(q[t])
      PROVE  q[t][k] + (Len(q[t]) - k) + 1 <= Passed(d, o, t)
  <2>1. q[t][k] + (Len(q[t]) - k) + 1 <= Passed(c, n, t)
    BY <1>7
  <2> QED
    BY <2>1, <1>3, <1>4
<1>10. SkewAt(m + w, d, o, p, q, "callback")
  <2>1. m + w \in Nat
    BY <1>2
  <2> QED
    BY <2>1, <1>5, <1>8, <1>9 DEF SkewAt
<1> QED
  BY <1>10 DEF o, w

(* A record of a stock that is not followed changes nothing.               *)
LEMMA SkipSkewAt ==
  ASSUME NEW m, NEW c, NEW n \in Nat, n \notin S!Stock, NEW p, NEW q,
         SkewAt(m, c, n, p, q, "callback")
  PROVE  SkewAt(m, c, n + 1, p, q, "callback")
<1>1. SERVER_STOCK \in Nat \ {0} /\ n >= SERVER_STOCK
  BY Sizes DEF S!Stock
<1>2. \A t \in S!Stock : Passed(c, n + 1, t) = Passed(c, n, t)
  BY <1>1 DEF Passed, S!Stock
<1>3. ~(n < SERVER_STOCK) /\ ~(n + 1 < SERVER_STOCK)
  BY <1>1
<1> QED
  BY <1>2, <1>3 DEF SkewAt

(* A record of a followed stock: its price is the one of loop c.           *)
LEMMA PushSkewAt ==
  ASSUME NEW m, NEW c \in C!Tick, NEW n \in S!Stock,
         NEW p \in Nat, NEW q \in [S!Stock -> Seq(C!Tick)],
         NEW r, r = [q EXCEPT ![n] = Append(@, c)],
         SkewAt(m, c, n, p, q, "callback"),
         NEW w, NEW o,
         \/ w = "callback" /\ p + 1 # SERVER_STOCK /\ o = p + 1
         \/ w = "callback" /\ p + 1 = SERVER_STOCK /\ o = 0
         \/ w = "coefficient" /\ p + 1 = SERVER_STOCK
  PROVE  SkewAt(m, c, n + 1, o, r, w)
<1>1. /\ SERVER_STOCK \in Nat \ {0} /\ LOOP_COUNT \in Nat \ {0}
      /\ n \in Nat /\ n < SERVER_STOCK /\ c \in Nat
  BY Sizes DEF S!Stock, C!Tick
<1>2. m \in Nat /\ (m = 0 => p = n)
  BY <1>1 DEF SkewAt
<1>3. /\ \A t \in S!Stock : Passed(c, n, t) <= Len(q[t]) + m
      /\ \A t \in S!Stock : \A k \in 1 .. Len(q[t]) :
           q[t][k] + (Len(q[t]) - k) + 1 <= Passed(c, n, t)
  BY DEF SkewAt
<1>4. /\ Passed(c, n, n) = c /\ Passed(c, n + 1, n) = c + 1
      /\ \A t \in S!Stock \ {n} : Passed(c, n + 1, t) = Passed(c, n, t)
  BY <1>1 DEF Passed, S!Stock
<1>5. /\ Len(q[n]) \in Nat
      /\ \A k \in 1 .. Len(q[n]) : q[n][k] \in Nat
  <2>1. q[n] \in Seq(C!Tick)
    OBVIOUS
  <2> QED
    BY <2>1, <1>1, ElementOfSeq, LenProperties DEF C!Tick
<1>6. /\ Len(r[n]) = Len(q[n]) + 1
      /\ \A k \in 1 .. Len(q[n]) : r[n][k] = q[n][k]
      /\ r[n][Len(q[n]) + 1] = c
      /\ \A t \in S!Stock \ {n} : r[t] = q[t]
  <2>1. q[n] \in Seq(C!Tick) /\ r[n] = Append(q[n], c)
    OBVIOUS
  <2>2. \A t \in S!Stock \ {n} : r[t] = q[t]
    OBVIOUS
  <2> QED
    BY <2>1, <2>2, AppendProperties
<1>7. \A t \in S!Stock : Passed(c, n + 1, t) <= Len(r[t]) + m
  <2>1. c <= Len(q[n]) + m
    BY <1>3, <1>4
  <2>2. Passed(c, n + 1, n) <= Len(r[n]) + m
    BY <2>1, <1>1, <1>2, <1>4, <1>5, <1>6
  <2> QED
    BY <2>2, <1>3, <1>4, <1>6
<1>8. ASSUME NEW t \in S!Stock, NEW k \in 1 .. Len(r[t])
      PROVE  r[t][k] + (Len(r[t]) - k) + 1 <= Passed(c, n + 1, t)
  <2>1. CASE t # n
    <3>1. r[t] = q[t] /\ Passed(c, n + 1, t) = Passed(c, n, t)
      BY <2>1, <1>4, <1>6
    <3> QED
      BY <3>1, <1>3
  <2>2. CASE t = n /\ k = Len(q[n]) + 1
    BY <2>2, <1>1, <1>4, <1>5, <1>6
  <2>3. CASE t = n /\ k # Len(q[n]) + 1
    <3>1. k \in 1 .. Len(q[n])
      BY <2>3, <1>5, <1>6
    <3>2. q[n][k] + (Len(q[n]) - k) + 1 <= c
      BY <3>1, <1>3, <1>4
    <3> QED
      BY <3>1, <3>2, <2>3, <1>1, <1>4, <1>5, <1>6
  <2> QED
    BY <2>1, <2>2, <2>3
<1>9. m = 0 => /\ w \in {"capturing", "callback"} =>
                    o = IF n + 1 < SERVER_STOCK THEN n + 1 ELSE 0
               /\ w = "coefficient" => n + 1 = SERVER_STOCK
  BY <1>1, <1>2
<1> QED
  BY <1>2, <1>7, <1>8, <1>9 DEF SkewAt

-----------------------------------------------------------------------------
(* The record my_callback decodes next is the one NextId names.            *)
LEMMA RecordAt ==
  ASSUME Known, Stored, S!Decoding
  PROVE  /\ S!Current.id = NextId /\ NextId \in Nat
         /\ S!Current.close = LastLoop(g_pFile)
         /\ LastLoop(g_pFile) \in C!Tick
<1>1. /\ server = "callback" /\ slot \in 0 .. GROUP_STOCK - 1
      /\ packet \in Sendable /\ g_pFile \in Seq(Sendable)
      /\ Len(g_pFile) >= 1 /\ packet = g_pFile[Len(g_pFile)]
      /\ GROUP_STOCK \in Nat \ {0} /\ gc \in Nat
  BY Sizes DEF Known, IInv, TypeInv, S!Decoding, Stored, Fresh
<1>2. g_pFile # << >>
  BY <1>1
<1>3. LastLoop(g_pFile) \in C!Tick /\ LastLoop(g_pFile) = packet.loop
  BY <1>1, <1>2, LastLemma DEF LastLoop
<1>4. /\ packet.rec[slot].id = packet.rec[0].id + slot
      /\ packet.rec[slot].close = packet.loop
  BY <1>1, SendableLemma
<1> DEFINE g == packet.rec[0].id \div GROUP_STOCK
<1>5. g \in 0 .. gc - 1 /\ packet.rec[0].id = GROUP_STOCK * g
  BY <1>1, FirstRecord
<1>6. LastGroup(g_pFile) = g
  BY <1>1, <1>2 DEF LastGroup
<1> HIDE DEF g
<1>7. GROUP_STOCK * g \in Nat
  BY <1>1, <1>5
<1>8. NextId = GROUP_STOCK * g + slot
  BY <1>1, <1>6 DEF NextId, Decoded
<1> QED
  BY <1>1, <1>3, <1>4, <1>5, <1>7, <1>8 DEF S!Current

(* SkewAt is about its arguments only.                                     *)
LEMMA SkewAfter ==
  Skew' <=> SkewAt(Missing', LastLoop(g_pFile)', NextId', g_current_stocks',
                   quoted', server')
  BY DEF Skew, SkewAt, Passed, S!Stock

(* A step that leaves the file alone leaves its newest datagram alone.     *)
LEMMA SameLast ==
  ASSUME UNCHANGED g_pFile
  PROVE  /\ LastLoop(g_pFile)' = LastLoop(g_pFile)
         /\ LastGroup(g_pFile)' = LastGroup(g_pFile)
         /\ Missing' = Missing
         /\ NextId' = GROUP_STOCK * LastGroup(g_pFile) + Decoded'
<1>1. gc' = gc
  BY DEF gc, C!group_count
<1>2. /\ LastLoop(g_pFile)' = LastLoop(g_pFile)
      /\ LastGroup(g_pFile)' = LastGroup(g_pFile)
  BY <1>1 DEF LastLoop, LastGroup
<1>3. Missing' = Missing
  BY <1>1, <1>2 DEF Missing, LastNumber
<1> QED
  BY <1>2, <1>3 DEF NextId

(* The call of my_callback.                                                *)
LEMMA CallbackSkew ==
  ASSUME Known, Known', Skew, Callback PROVE Skew'
<1>1. /\ IInv /\ g_pFile \in Seq(Sendable) /\ Len(g_pFile) \in Nat
      /\ FileOrder' /\ quoted \in [S!Stock -> Seq(C!Tick)]
      /\ GROUP_STOCK \in Nat \ {0} /\ gc \in Nat \ {0}
  BY Sizes, LenProperties DEF Known, IInv, TypeInv
<1> DEFINE x == ring[offset].data
           f == Append(g_pFile, x)
<1>2. /\ server = "capturing" /\ server' = "callback" /\ slot' = 0
      /\ UNCHANGED <<quoted, g_current_stocks>>
      /\ x \in Sendable /\ g_pFile' = f
  BY <1>1, CallbackEffect DEF Callback, S!CallbackEnter, S!Deliver, S!pricing
<1>3. /\ f \in Seq(Sendable) /\ Len(f) = Len(g_pFile) + 1
      /\ \A j \in 1 .. Len(g_pFile) : f[j] = g_pFile[j]
      /\ f[Len(f)] = x /\ f # << >>
  BY <1>1, <1>2, AppendProperties
<1> HIDE DEF f, x
<1> DEFINE from == LastNumber(g_pFile)
           to == LastNumber(f)
<1>4. /\ from \in Nat /\ to \in Nat /\ to = Number(x)
      /\ LastLoop(g_pFile) \in Int /\ LastLoop(f) \in Int
      /\ LastGroup(g_pFile) \in 0 .. gc - 1 /\ LastGroup(f) \in 0 .. gc - 1
  BY <1>1, <1>3, LastLemma
<1>5. from < to
  <2>1. CASE g_pFile = << >>
    <3>1. from = 0
      BY <2>1, <1>1, LastLemma
    <3>2. to = LastLoop(f) * gc + LastGroup(f) + 1 /\ LastLoop(f) \in C!Tick
      BY <1>3, LastLemma DEF LastNumber
    <3>3. LastLoop(f) * gc \in Nat
      BY <3>2, <1>1, Sizes DEF C!Tick
    <3> HIDE DEF from, to
    <3> QED
      BY <3>1, <3>2, <3>3, <1>1, <1>4
  <2>2. CASE g_pFile # << >>
    <3>1. from = Number(g_pFile[Len(g_pFile)])
      BY <2>2, <1>1, LastLemma
    <3>2. Len(g_pFile) >= 1
      BY <2>2, <1>1, EmptySeq
    <3>3. /\ Len(g_pFile) \in 1 .. Len(f) /\ Len(f) \in 1 .. Len(f)
          /\ Len(g_pFile) < Len(f) /\ f[Len(g_pFile)] = g_pFile[Len(g_pFile)]
      BY <3>2, <1>1, <1>3
    <3>4. \A j, k \in 1 .. Len(f) : j < k => Number(f[j]) < Number(f[k])
      BY <1>1, <1>2 DEF FileOrder, Number, C!group_count
    <3> HIDE DEF from, to
    <3> QED
      BY <3>1, <3>3, <3>4, <1>3, <1>4
  <2> QED
    BY <2>1, <2>2
<1>6. /\ from = LastLoop(g_pFile) * gc + LastGroup(g_pFile) + 1
      /\ to = LastLoop(f) * gc + LastGroup(f) + 1
  BY DEF LastNumber
<1>7. SkewAt(Missing, LastLoop(g_pFile),
             GROUP_STOCK * LastGroup(g_pFile) + GROUP_STOCK,
             g_current_stocks, quoted, "capturing")
  <2>1. NextId = GROUP_STOCK * LastGroup(g_pFile) + GROUP_STOCK
    BY <1>2 DEF NextId, Decoded
  <2> QED
    BY <2>1, <1>2 DEF Skew
<1> HIDE DEF from, to
<1>8. SkewAt(Missing + (to - from - 1), LastLoop(f),
             GROUP_STOCK * LastGroup(f), g_current_stocks, quoted, "callback")
  <2>1. from \in Int /\ to \in Int
    BY <1>4
  <2>2. quoted \in [S!Stock -> Seq(C!Tick)]
    BY <1>1
  <2>3. /\ LastLoop(g_pFile) \in Int /\ LastLoop(f) \in Int
        /\ LastGroup(g_pFile) \in 0 .. gc - 1 /\ LastGroup(f) \in 0 .. gc - 1
    BY <1>4
  <2> QED
    BY <2>1, <2>2, <2>3, <1>5, <1>6, <1>7, CallbackSkewAt, ZenonT(60)
<1>9. /\ LastLoop(g_pFile)' = LastLoop(f)
      /\ LastGroup(g_pFile)' = LastGroup(f)
      /\ Missing' = to - Len(f)
  <2>1. gc' = gc
    BY DEF gc, C!group_count
  <2> QED
    BY <2>1, <1>2 DEF LastLoop, LastGroup, LastNumber, Missing, to
<1>10. Missing' = Missing + (to - from - 1)
  <2>1. Missing = from - Len(g_pFile)
    BY DEF Missing, from
  <2> QED
    BY <2>1, <1>1, <1>3, <1>4, <1>9
<1>11. NextId' = GROUP_STOCK * LastGroup(f)
  <2>1. Decoded' = 0
    BY <1>2 DEF Decoded
  <2>2. GROUP_STOCK * LastGroup(f) \in Int
    BY <1>1, <1>4
  <2> QED
    BY <2>1, <2>2, <1>9 DEF NextId
<1> QED
  BY <1>2, <1>8, <1>9, <1>10, <1>11, SkewAfter

(* A record that is skipped or stored.                                     *)
LEMMA RecordSkew ==
  ASSUME Known, Stored, Skew, g_current_stocks \in Nat,
         SkipRecord \/ StoreRecord \/ GetAll \/ GetAllAndCompute
  PROVE  Skew'
<1> DEFINE c == LastLoop(g_pFile)
<1>1. S!Decoding /\ UNCHANGED g_pFile
  BY DEF SkipRecord, StoreRecord, GetAll, GetAllAndCompute, S!SkipRecord,
         S!StoreRecord, S!GetAll, S!GetAllAndCompute, S!StorePrice
<1>2. /\ S!Current.id = NextId /\ NextId \in Nat
      /\ S!Current.close = c /\ c \in C!Tick
  BY <1>1, RecordAt
<1>3. /\ server = "callback" /\ slot \in Nat
      /\ quoted \in [S!Stock -> Seq(C!Tick)]
  BY <1>1 DEF Known, S!Decoding
<1>4. SkewAt(Missing, c, NextId, g_current_stocks, quoted, "callback")
  BY <1>3 DEF Skew
<1>5. /\ LastLoop(g_pFile)' = c /\ Missing' = Missing
      /\ NextId' = GROUP_STOCK * LastGroup(g_pFile) + Decoded'
      /\ NextId = GROUP_STOCK * LastGroup(g_pFile) + slot
  BY <1>1, <1>3, SameLast DEF NextId, Decoded
<1>6. NextId' = NextId + 1
  <2>1. Decoded' = slot + 1
    BY <1>3 DEF SkipRecord, StoreRecord, GetAll, GetAllAndCompute,
       S!SkipRecord, S!StoreRecord, S!GetAll, S!GetAllAndCompute, Decoded
  <2>2. GROUP_STOCK * LastGroup(g_pFile) \in Int
    <3>1. g_pFile \in Seq(Sendable)
      BY DEF Known, IInv, TypeInv
    <3>2. LastGroup(g_pFile) \in Int /\ GROUP_STOCK \in Int
      BY <3>1, LastLemma, Sizes
    <3> QED
      BY <3>2
  <2> QED
    BY <2>1, <2>2, <1>3, <1>5
<1> HIDE DEF c
<1>7. CASE SkipRecord
  <2>1. /\ NextId \notin S!Stock
        /\ UNCHANGED <<g_current_stocks, quoted, server>>
    BY <1>2, <1>7 DEF SkipRecord, S!SkipRecord, S!pricing
  <2>2. SkewAt(Missing, c, NextId + 1, g_current_stocks, quoted, "callback")
    BY <2>1, <1>2, <1>4, SkipSkewAt
  <2> QED
    BY <2>1, <2>2, <1>3, <1>5, <1>6, SkewAfter
<1>8. CASE StoreRecord \/ GetAll \/ GetAllAndCompute
  <2>1. /\ NextId \in S!Stock
        /\ quoted' = [quoted EXCEPT ![NextId] = Append(@, c)]
    BY <1>2, <1>8 DEF StoreRecord, GetAll, GetAllAndCompute, S!StoreRecord,
                      S!GetAll, S!GetAllAndCompute, S!StorePrice
  <2>2. \/ /\ server' = "callback" /\ g_current_stocks + 1 # SERVER_STOCK
           /\ g_current_stocks' = g_current_stocks + 1
        \/ /\ server' = "callback" /\ g_current_stocks + 1 = SERVER_STOCK
           /\ g_current_stocks' = 0
        \/ server' = "coefficient" /\ g_current_stocks + 1 = SERVER_STOCK
    BY <1>3, <1>8 DEF StoreRecord, GetAll, GetAllAndCompute, S!StoreRecord,
                      S!GetAll, S!GetAllAndCompute
  <2>3. SkewAt(Missing, c, NextId + 1, g_current_stocks', quoted', server')
    BY <2>1, <2>2, <1>2, <1>3, <1>4, PushSkewAt
  <2> QED
    BY <2>3, <1>5, <1>6, SkewAfter
<1> QED
  BY <1>7, <1>8

(* Every step keeps the bound.                                             *)
LEMMA NextSkew ==
  ASSUME Known, Known', Stored, Skew, g_current_stocks \in Nat, [Next]_vars
  PROVE  Skew'
<1>1. CASE Callback
  BY <1>1, CallbackSkew
<1>2. CASE SkipRecord \/ StoreRecord \/ GetAll \/ GetAllAndCompute
  BY <1>2, RecordSkew
<1>3. ASSUME UNCHANGED <<g_pFile, quoted, g_current_stocks>>,
             Decoded' = Decoded,
             server' \in {"capturing", "callback"} =>
               server \in {"capturing", "callback"},
             server' = "coefficient" => server = "coefficient"
      PROVE  Skew'
  <2>1. /\ LastLoop(g_pFile)' = LastLoop(g_pFile) /\ Missing' = Missing
        /\ NextId' = NextId
    BY <1>3, SameLast DEF NextId
  <2>2. SkewAt(Missing, LastLoop(g_pFile), NextId, g_current_stocks, quoted,
               server')
    BY <1>3 DEF Skew, SkewAt
  <2> QED
    BY <2>1, <2>2, <1>3, SkewAfter
<1>4. CASE UNCHANGED serverVars
  <2>1. Decoded' = Decoded
    BY <1>4 DEF serverVars, Decoded
  <2> QED
    BY <2>1, <1>3, <1>4 DEF serverVars
<1>5. CASE S!Finish \/ S!CallbackReturn \/ S!Abort
  <2>1. Decoded' = Decoded
    BY <1>5 DEF S!Finish, S!CallbackReturn, S!Abort, Decoded
  <2> QED
    BY <2>1, <1>3, <1>5 DEF S!Finish, S!CallbackReturn, S!Abort, S!pricing
<1> QED
  BY <1>1, <1>2, <1>4, <1>5
  DEF Next, ClientStep, ServerStep, Failure, Send, SendFails, NextLoop,
      Receive,
      Open, OpenFails, ReadOp, PollReturns, PollFails, SkipFrame, ReadReturns,
      LoopReturns, Return, Abort, vars

(* At the start nothing is missing.                                        *)
LEMMA InitSkew == Init => Skew
<1> SUFFICES ASSUME Init PROVE Skew
  OBVIOUS
<1>1. /\ g_pFile = << >> /\ server = "capturing" /\ g_current_stocks = 0
      /\ \A s \in S!Stock : quoted[s] = << >>
  BY DEF Init, S!Init
<1>2. gc \in Nat \ {0} /\ GROUP_STOCK \in Nat \ {0} /\ SERVER_STOCK \in Nat \ {0}
  BY Sizes
<1>3. LastLoop(g_pFile) = -1 /\ LastGroup(g_pFile) = gc - 1
  BY <1>1 DEF LastLoop, LastGroup
<1>4. Missing = 0
  <2>1. LastNumber(g_pFile) = 0
    BY <1>2, <1>3 DEF LastNumber
  <2>2. Len(g_pFile) = 0
    BY <1>1
  <2> QED
    BY <2>1, <2>2 DEF Missing
<1>5. NextId \in Int /\ NextId >= SERVER_STOCK
  <2>1. NextId = GROUP_STOCK * (gc - 1) + GROUP_STOCK
    BY <1>1, <1>3 DEF NextId, Decoded
  <2>2. GROUP_STOCK * (gc - 1) + GROUP_STOCK = GROUP_STOCK * gc
    BY <1>2
  <2>3. GROUP_STOCK * gc \in Int
    BY <1>2
  <2> QED
    BY <2>1, <2>2, <2>3, <1>2, StockGroup
<1>6. \A t \in S!Stock : Passed(-1, NextId, t) = 0
  BY <1>2, <1>5 DEF Passed, S!Stock
<1>7. ~(NextId < SERVER_STOCK)
  BY <1>2, <1>5
<1> QED
  BY <1>1, <1>3, <1>4, <1>6, <1>7 DEF Skew, SkewAt

(* It holds in every reachable state.                                      *)
LEMMA SkewHolds == Spec => []Skew
<1>1. IInv /\ Feed!InOrder /\ SP!TypeOK => Known /\ g_current_stocks \in Nat
  BY FileIncreases, Sizes DEF SP!TypeOK, SP!Stock, S!Stock, Known
<1>2. Known /\ Known' /\ Stored /\ Skew /\ g_current_stocks \in Nat
        /\ [Next]_vars => Skew'
  BY NextSkew
<1> QED
  BY <1>1, <1>2, InitSkew, IInvHolds, StoredHolds, FileInOrder, ServerTheorems,
     PTL DEF Spec

-----------------------------------------------------------------------------
(* What is on its way is newer than the file, so what is missing from the  *)
(* file is lost.                                                           *)
LEMMA MissingIsLost ==
  ASSUME IInv, Conserved, Feed!TypeOK, Feed!InOrder
  PROVE  Missing <= lost /\ lost \in Nat
<1> DEFINE last == LastNumber(g_pFile)
           b == Len(backlog)
           u == Cardinality(Unread)
           v == Cardinality(BacklogNumbers)
<1>1. /\ TypeInv /\ Order /\ g_pFile \in Seq(Sendable) /\ Len(g_pFile) \in Nat
      /\ lost \in Nat /\ last \in Nat /\ Sent \in Nat /\ b \in Nat
      /\ \A a \in InSlots : SlotNumber(a) \in Nat
      /\ \A k \in 1 .. b : Number(backlog[k]) \in Nat
  BY Numbered, LastLemma, LenProperties DEF IInv, TypeInv
<1>2. ASSUME NEW n \in Queue PROVE n \in last + 1 .. Sent
  <2>1. n \in 1 .. Sent
    BY DEF Feed!TypeOK, Queue
  <2>2. CASE g_pFile = << >>
    <3>1. last = 0
      BY <2>2, <1>1, LastLemma
    <3> QED
      BY <3>1, <2>1
  <2>3. CASE g_pFile # << >>
    <3>1. last = Number(g_pFile[Len(g_pFile)])
      BY <2>3, <1>1, LastLemma
    <3>2. Len(g_pFile) \in 1 .. Len(g_pFile)
      BY <2>3, <1>1, EmptySeq
    <3>3. /\ Len(Numbers(g_pFile)) = Len(g_pFile)
          /\ Numbers(g_pFile)[Len(g_pFile)] = last
      BY <3>1, <3>2, <1>1, LenProperties DEF Numbers
    <3>4. last < n
      BY <3>2, <3>3 DEF Feed!InOrder, Queue
    <3> HIDE DEF last
    <3> QED
      BY <3>4, <2>1, <1>1
  <2> QED
    BY <2>2, <2>3
<1>3. IsFiniteSet(UnreadNumbers) /\ Cardinality(UnreadNumbers) = u
  <2> DEFINE f == [a \in Unread |-> SlotNumber(a)]
  <2>1. ASSUME NEW x \in Unread, NEW y \in Unread, x # y
        PROVE  SlotNumber(x) # SlotNumber(y)
    <3>1. x \in InSlots /\ y \in InSlots
      BY UnreadSlots
    <3>2. x \in K!RingSlot /\ y \in K!RingSlot
      BY <3>1 DEF InSlots
    <3>3. Dist(x) # Dist(y) /\ Dist(x) \in Int /\ Dist(y) \in Int
      BY <3>2, <2>1, <1>1, DistLemma
    <3>4. Dist(x) < Dist(y) \/ Dist(y) < Dist(x)
      BY <3>3
    <3>5. SlotNumber(x) < SlotNumber(y) \/ SlotNumber(y) < SlotNumber(x)
      BY <3>1, <3>4, <1>1 DEF Order
    <3> QED
      BY <3>1, <3>5, <1>1
  <2>2. f \in Bijection(Unread, UnreadNumbers)
    <3>1. f \in [Unread -> UnreadNumbers]
      BY UnreadSlots
    <3>2. \A n \in UnreadNumbers : \E a \in Unread : f[a] = n
      BY UnreadSlots
    <3>3. \A x, y \in Unread : f[x] = f[y] => x = y
      BY <2>1
    <3> QED
      BY <3>1, <3>2, <3>3 DEF Bijection, Injection, Surjection, IsInjective
  <2>3. ExistsBijection(Unread, UnreadNumbers)
    BY <2>2 DEF ExistsBijection
  <2> QED
    BY <2>3, UnreadFinite, FS_Bijection
<1>4. IsFiniteSet(BacklogNumbers) /\ v = b
  <2> DEFINE f == [k \in 1 .. b |-> Number(backlog[k])]
  <2>1. ASSUME NEW x \in 1 .. b, NEW y \in 1 .. b, x # y
        PROVE  f[x] # f[y]
    <3>1. x < y \/ y < x
      BY <2>1
    <3>2. \/ Number(backlog[x]) < Number(backlog[y])
          \/ Number(backlog[y]) < Number(backlog[x])
      BY <3>1, <1>1 DEF Order
    <3> QED
      BY <3>2, <1>1
  <2>2. f \in Bijection(1 .. b, BacklogNumbers)
    <3>1. f \in [1 .. b -> BacklogNumbers]
      BY DEF BacklogNumbers
    <3>2. \A n \in BacklogNumbers : \E k \in 1 .. b : f[k] = n
      BY DEF BacklogNumbers
    <3>3. \A x, y \in 1 .. b : f[x] = f[y] => x = y
      BY <2>1
    <3> QED
      BY <3>1, <3>2, <3>3 DEF Bijection, Injection, Surjection, IsInjective
  <2>3. ExistsBijection(1 .. b, BacklogNumbers)
    BY <2>2 DEF ExistsBijection
  <2>4. IsFiniteSet(1 .. b) /\ Cardinality(1 .. b) = b
    <3>1. b \in Int /\ 1 \in Int
      BY <1>1
    <3>2. /\ IsFiniteSet(1 .. b)
          /\ Cardinality(1 .. b) = IF 1 > b THEN 0 ELSE b - 1 + 1
      BY <3>1, FS_Interval
    <3> HIDE DEF b
    <3> QED
      BY <3>2, <1>1
  <2> QED
    BY <2>3, <2>4, FS_Bijection
<1>5. UnreadNumbers \cap BacklogNumbers = {}
  <2>1. ASSUME NEW a \in Unread, NEW k \in 1 .. b
        PROVE  SlotNumber(a) # Number(backlog[k])
    BY <1>1, UnreadSlots DEF Order
  <2> QED
    BY <2>1, UnreadSlots DEF BacklogNumbers
<1>6. Cardinality(Queue) = u + b
  <2>1. Cardinality(Queue) = u + v - Cardinality({})
    BY <1>3, <1>4, <1>5, FS_Union DEF Queue
  <2>2. Cardinality({}) = 0
    BY FS_EmptySet
  <2>3. u \in Nat
    BY UnreadFinite
  <2> HIDE DEF u, v
  <2> QED
    BY <2>1, <2>2, <2>3, <1>1, <1>4
<1>7. Sent - last >= u + b
  <2> HIDE DEF last
  <2>1. last + 1 \in Int /\ Sent \in Int
    BY <1>1
  <2>2. /\ IsFiniteSet(last + 1 .. Sent)
        /\ Cardinality(last + 1 .. Sent) = IF last + 1 > Sent THEN 0
                                           ELSE Sent - (last + 1) + 1
    BY <2>1, FS_Interval
  <2>3. Cardinality(Queue) <= Cardinality(last + 1 .. Sent)
    BY <2>2, <1>2, FS_Subset
  <2>4. last <= Sent
    <3>1. CASE g_pFile = << >>
      <4>1. last = 0
        BY <3>1, <1>1, LastLemma DEF last
      <4> QED
        BY <4>1, <1>1
    <3>2. CASE g_pFile # << >>
      <4>1. last = Number(g_pFile[Len(g_pFile)])
        BY <3>2, <1>1, LastLemma DEF last
      <4>2. Len(g_pFile) \in 1 .. Len(g_pFile)
        BY <3>2, <1>1, EmptySeq
      <4>3. /\ Len(Numbers(g_pFile)) = Len(g_pFile)
            /\ Numbers(g_pFile)[Len(g_pFile)] = last
        BY <4>1, <4>2, <1>1, LenProperties DEF Numbers
      <4>4. Numbers(g_pFile)[Len(g_pFile)] \in 1 .. Sent
        BY <4>2, <4>3, ElementOfSeq DEF Feed!TypeOK
      <4> QED
        BY <4>3, <4>4
    <3> QED
      BY <3>1, <3>2
  <2>5. u \in Nat
    BY UnreadFinite
  <2> HIDE DEF u, b
  <2> QED
    BY <2>2, <2>3, <2>4, <2>5, <1>1, <1>6
<1>8. Sent = Len(g_pFile) + u + b + lost /\ u \in Nat
  BY UnreadFinite DEF Conserved
<1>9. Missing = last - Len(g_pFile)
  BY DEF Missing
<1> HIDE DEF last, u, b, v
<1> QED
  BY <1>1, <1>7, <1>8, <1>9

(* The windows coefficient compares, from what is known of the prices.     *)
LEMMA WindowsNear ==
  ASSUME Skew, Stored, Missing <= lost, lost \in Nat, LastLoop(g_pFile) \in Int,
         NextId \in Int, SP!TypeOK, SP!WindowExact, SP!WindowIsNewest
  PROVE  SkewBoundedByLoss
<1> SUFFICES ASSUME server = "coefficient",
                    NEW s \in S!Stock, NEW t \in S!Stock,
                    NEW k \in 1 .. PRICE_LIST_SIZE
             PROVE  g_priceMap[s][k] - g_priceMap[t][k]
                      <= IF lost = 0 THEN 0 ELSE lost + 1
  BY DEF SkewBoundedByLoss
<1> DEFINE c == LastLoop(g_pFile)
           n == NextId
           P == PRICE_LIST_SIZE
<1>1. P \in Nat \ {0} /\ LOOP_COUNT \in Nat /\ SERVER_STOCK \in Nat
  BY Sizes
<1>2. ASSUME NEW x \in S!Stock
      PROVE  /\ Len(quoted[x]) \in Nat /\ P <= Len(quoted[x])
             /\ Len(quoted[x]) - P + k \in 1 .. Len(quoted[x])
             /\ g_priceMap[x][k] = quoted[x][Len(quoted[x]) - P + k]
             /\ g_priceMap[x][k] \in Nat
  <2>1. x \in SP!Stock
    BY DEF S!Stock, SP!Stock
  <2>2. quoted[x] \in Seq(C!Tick)
    BY <2>1 DEF SP!TypeOK
  <2>3. Len(g_priceMap[x]) = P
    BY <2>1 DEF SP!WindowExact
  <2>4. /\ P <= Len(quoted[x])
        /\ g_priceMap[x][k] = quoted[x][Len(quoted[x]) - P + k]
    BY <2>1, <2>3 DEF SP!WindowIsNewest, SP!NewestOf
  <2>5. Len(quoted[x]) \in Nat
    BY <2>2, LenProperties
  <2>6. Len(quoted[x]) - P + k \in 1 .. Len(quoted[x])
    BY <2>4, <2>5, <1>1
  <2>7. quoted[x][Len(quoted[x]) - P + k] \in C!Tick
    BY <2>2, <2>6, ElementOfSeq
  <2> QED
    BY <2>4, <2>5, <2>6, <2>7, <1>1 DEF C!Tick
<1> DEFINE ls == Len(quoted[s])
           lt == Len(quoted[t])
<1>3. quoted[s][ls - P + k] + (ls - (ls - P + k)) + 1 <= Passed(c, n, s)
  BY <1>2 DEF Skew, SkewAt
<1>4. quoted[t][lt - P + k] >= (lt - P + k) - 1
  BY <1>2 DEF Stored, OnePerLoop
<1>5. /\ Missing \in Nat /\ Passed(c, n, t) <= lt + Missing
      /\ Missing = 0 => n = SERVER_STOCK
  BY DEF Skew, SkewAt
<1>6. /\ Passed(c, n, s) \in Int /\ Passed(c, n, t) \in Int
      /\ Passed(c, n, s) <= Passed(c, n, t) + 1
      /\ n = SERVER_STOCK => Passed(c, n, s) = Passed(c, n, t)
  BY <1>1 DEF Passed, S!Stock
<1> DEFINE ws == g_priceMap[s][k]
           wt == g_priceMap[t][k]
<1>7. /\ ws + (ls - (ls - P + k)) + 1 <= Passed(c, n, s)
      /\ wt >= (lt - P + k) - 1
      /\ ws \in Nat /\ wt \in Nat /\ ls \in Nat /\ lt \in Nat
  BY <1>2, <1>3, <1>4
<1> HIDE DEF ws, wt, ls, lt, c, n, P
<1>8. ws - wt <= Passed(c, n, s) - Passed(c, n, t) + Missing
  BY <1>1, <1>5, <1>6, <1>7 DEF P
<1>9. ws - wt <= IF lost = 0 THEN 0 ELSE lost + 1
  <2>1. CASE lost = 0
    <3>1. Missing = 0
      BY <2>1, <1>5
    <3> QED
      BY <3>1, <2>1, <1>5, <1>6, <1>7, <1>8
  <2>2. CASE lost # 0
    BY <2>2, <1>5, <1>6, <1>7, <1>8
  <2> QED
    BY <2>1, <2>2
<1> QED
  BY <1>9 DEF ws, wt

(* When coefficient compares the windows of two stocks index by index,     *)
(* the prices at an index belong to the same loop if no datagram was lost, *)
(* and are otherwise at most one loop further apart than datagrams were    *)
(* lost (server/main.cpp, lines 198 to 208; coefficient.cu, lines 188      *)
(* to 196).                                                                *)
THEOREM SkewIsBounded == Spec => []SkewBoundedByLoss
<1>1. ASSUME IInv, Conservation, Feed!TypeOK, Feed!InOrder, Skew, Stored,
             SP!TypeOK, SP!WindowExact, SP!WindowIsNewest
      PROVE  SkewBoundedByLoss
  <2>1. Missing <= lost /\ lost \in Nat
    BY <1>1, MissingIsLost DEF Conservation, Conserved
  <2>2. LastLoop(g_pFile) \in Int /\ LastGroup(g_pFile) \in Int
    BY <1>1, LastLemma, Sizes DEF IInv, TypeInv
  <2>3. NextId \in Int
    <3>1. GROUP_STOCK \in Int /\ slot \in Int
      BY <1>1, Sizes DEF SP!TypeOK
    <3>2. Decoded \in Int
      BY <3>1 DEF Decoded
    <3>3. GROUP_STOCK * LastGroup(g_pFile) \in Int
      BY <3>1, <2>2
    <3> QED
      BY <3>2, <3>3 DEF NextId
  <2> QED
    BY <2>1, <2>2, <2>3, <1>1, WindowsNear
<1>2. IInv /\ Conservation /\ Feed!TypeOK /\ Feed!InOrder /\ Skew /\ Stored
        /\ SP!TypeOK /\ SP!WindowExact /\ SP!WindowIsNewest
        => SkewBoundedByLoss
  BY <1>1
<1> QED
  BY <1>2, IInvHolds, DatagramsConserved, FileInOrder, SkewHolds, StoredHolds,
     ServerTheorems, PTL
=============================================================================
