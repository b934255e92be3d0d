---------------------------- MODULE StockSystem -----------------------------
(***************************************************************************)
(* The demo as run.py starts it: the client sends its quotes over the      *)
(* loopback device, libpcap captures them, the server's callback stores    *)
(* their prices.  Three threads of control interleave: the client, the     *)
(* kernel's receive path, and the server with libpcap in its call stack.   *)
(*                                                                         *)
(* The header checks of my_callback and its test for a computed loop are   *)
(* actions of Server; the frames and loop ids of this client never take    *)
(* them, so they have no counterpart here.                                 *)
(***************************************************************************)
EXTENDS Integers, Sequences, FiniteSets

CONSTANTS
  STOCK_COUNT, GROUP_STOCK, LOOP_COUNT,              \* of the client
  SERVER_STOCK, PRICE_LIST_SIZE, SERVER_STOCK_COUNT, \* of the server
  RING_SLOTS, BACKLOG, KERNEL                        \* of the capture

ASSUME StockSystemAssumption ==
  /\ {STOCK_COUNT, GROUP_STOCK, LOOP_COUNT} \subseteq Nat \ {0}
  /\ {SERVER_STOCK, PRICE_LIST_SIZE, SERVER_STOCK_COUNT} \subseteq Nat \ {0}
  /\ {RING_SLOTS, BACKLOG} \subseteq Nat \ {0}
  /\ STOCK_COUNT % GROUP_STOCK = 0
  /\ SERVER_STOCK <= STOCK_COUNT

VARIABLES
  lc, i, stock_id, client,
  backlog, ring, head, offset, cnt, pkts, pcap, lost,
  g_priceMap, g_ready, g_current_stocks, g_last_loop, g_last_done_loop,
  g_pFile, packet, slot, callbacks, server, quoted

C == INSTANCE Client
K == INSTANCE Capture

(* Everything the client may send.                                         *)
Sendable ==
  {C!Group(l, GROUP_STOCK * g) : l \in C!Tick, g \in 0 .. C!group_count - 1}

(* A slot's status is not a frame.                                         *)
ASSUME KernelAssumption ==
  KERNEL \notin [dir : {"in", "out"}, data : Sendable]

S == INSTANCE Server WITH Price <- C!Tick, Datagram <- Sendable

clientVars == <<lc, i, stock_id, client>>
captureVars == <<backlog, ring, head, offset, cnt, pkts, pcap, lost>>
serverVars == <<g_priceMap, g_ready, g_current_stocks, g_last_loop,
                g_last_done_loop, g_pFile, packet, slot, callbacks, server,
                quoted>>
vars == <<clientVars, captureVars, serverVars>>

Init == C!Init /\ K!Init /\ S!Init

-----------------------------------------------------------------------------
(* The client.                                                             *)
Send == C!Sendto /\ K!Transmit(C!buffer) /\ UNCHANGED serverVars
SendFails == C!SendtoFails /\ UNCHANGED <<captureVars, serverVars>>
NextLoop == C!NextLoop /\ UNCHANGED <<captureVars, serverVars>>

(* The kernel's receive path.                                              *)
Receive == K!Receive /\ UNCHANGED <<clientVars, serverVars>>

(* The server: pcapServer opens the capture, or gives up.                  *)
Open == K!Open /\ UNCHANGED <<clientVars, serverVars>>
OpenFails == K!OpenFails /\ S!Finish /\ UNCHANGED clientVars

(* libpcap between two callbacks.                                          *)
ReadOp == K!ReadOp /\ UNCHANGED <<clientVars, serverVars>>
PollReturns == K!PollReturns /\ UNCHANGED <<clientVars, serverVars>>
PollFails == K!PollFails /\ S!Finish /\ UNCHANGED clientVars
SkipFrame == K!SkipFrame /\ UNCHANGED <<clientVars, serverVars>>
ReadReturns == K!ReadReturns /\ UNCHANGED <<clientVars, serverVars>>
LoopReturns == K!LoopReturns /\ S!Finish /\ UNCHANGED clientVars

(* my_callback, called with a pointer into the ring and back.              *)
Callback ==
  K!PassToUser /\ S!CallbackEnter(ring[offset].data) /\ UNCHANGED clientVars
SkipRecord == S!SkipRecord /\ UNCHANGED <<clientVars, captureVars>>
StoreRecord == S!StoreRecord /\ UNCHANGED <<clientVars, captureVars>>
GetAll == S!GetAll /\ UNCHANGED <<clientVars, captureVars>>
GetAllAndCompute == S!GetAllAndCompute /\ UNCHANGED <<clientVars, captureVars>>
Return == S!CallbackReturn /\ K!CallbackReturned /\ UNCHANGED clientVars
Abort == S!Abort /\ K!ProcessDies /\ UNCHANGED clientVars

-----------------------------------------------------------------------------
ClientStep == Send \/ NextLoop

ServerStep ==
  \/ Open \/ ReadOp \/ PollReturns \/ SkipFrame \/ ReadReturns \/ LoopReturns
  \/ Callback \/ SkipRecord \/ StoreRecord \/ GetAll \/ GetAllAndCompute
  \/ Return \/ Abort

Failure == SendFails \/ OpenFails \/ PollFails

Next == ClientStep \/ Receive \/ ServerStep \/ Failure

Spec == Init /\ [][Next]_vars

(* The scheduler runs each of the three threads of control when it can;    *)
(* poll has a timeout.  No failure has to happen.                          *)
Fairness == WF_vars(ClientStep) /\ WF_vars(Receive) /\ WF_vars(ServerStep)

FairSpec == Spec /\ Fairness

-----------------------------------------------------------------------------
(* Number of datagrams sent, and the number of a datagram.                 *)
Total == LOOP_COUNT * C!group_count
Sent == lc * C!group_count + i
Number(d) == d.loop * C!group_count + d.rec[0].id \div GROUP_STOCK + 1
Numbers(s) == [k \in 1 .. Len(s) |-> Number(s[k])]

(* my_callback has been called with the slot at offset and not returned.   *)
Holding == server \in {"callback", "coefficient", "aborted"}

(* The slots with a received datagram that the callback has not been       *)
(* called with, and the numbers of those datagrams.                        *)
Unread ==
  {k \in K!RingSlot : /\ ring[k] # KERNEL
                      /\ ring[k].dir = "in"
                      /\ ~(k = offset /\ Holding)}
UnreadNumbers == {Number(ring[k].data) : k \in Unread}
BacklogNumbers == {Number(backlog[k]) : k \in 1 .. Len(backlog)}

Feed == INSTANCE LossyFifo WITH
  sent      <- Sent,
  queue     <- UnreadNumbers \cup BacklogNumbers,
  delivered <- Numbers(g_pFile)

(* Loopback device, ring and libpcap together are a lossy FIFO: the        *)
(* payloads written to stocks.db are a subsequence of the ones sent.  The  *)
(* copy of each datagram that libpcap sees going out is not a second one.  *)
FeedIsLossyFifo == Feed!Spec

(* libpcap hands over a pointer into the ring: the kernel must not refill  *)
(* that slot while my_callback still decodes from it.                      *)
FrameStable ==
  server = "callback" => ring[offset] # KERNEL /\ ring[offset].data = packet

(* read_op has not returned the packets it has handed over.                *)
Counting == pcap \in {"drain", "callback"} \/ server = "aborted"

(* Every datagram is accounted for: in the file, in the ring, in the       *)
(* receive queue, or lost; and pcap_loop has counted the ones in the file. *)
Conservation ==
  /\ Sent = Len(g_pFile) + Cardinality(Unread) + Len(backlog) + lost
  /\ Len(g_pFile) = SERVER_STOCK_COUNT - cnt
                      + (IF Counting THEN pkts ELSE 0)

(* coefficient compares the windows of two stocks index by index.  Without *)
(* loss, prices at the same index belong to the same loop.  With loss they *)
(* are at most as many loops apart as datagrams have been lost, and one    *)
(* more, because the count of a round then no longer ends with a loop.     *)
SkewBoundedByLoss ==
  server = "coefficient" =>
    \A s, t \in S!Stock : \A k \in 1 .. PRICE_LIST_SIZE :
      g_priceMap[s][k] - g_priceMap[t][k] <= IF lost = 0 THEN 0 ELSE lost + 1

(* With fewer loops than a window has entries, as in global.h, no window   *)
(* is ever full and coefficient is never called, whatever is lost.         *)
NeverReady ==
  LOOP_COUNT < PRICE_LIST_SIZE => ~g_ready /\ server # "coefficient"

(* The server ends by itself unless the client dies or more datagrams are  *)
(* lost than the client sends beyond the count of pcap_loop.               *)
ServerStops ==
  <>(\/ server \in {"finished", "aborted"}
     \/ client = "died"
     \/ lost > Total - SERVER_STOCK_COUNT)

(* A datagram that got into the ring is not left there: it is handed to    *)
(* the callback, or the capture ends.                                      *)
Drained ==
  \A n \in 1 .. Total :
    n \in UnreadNumbers
      ~> \/ pcap = "returned"
         \/ \E k \in 1 .. Len(g_pFile) : Number(g_pFile[k]) = n

(* "server get all": when a round is complete and coefficient is called,   *)
(* the newest price of every stock is that of the loop being decoded.      *)
GetAllMeansAll ==
  server = "coefficient" =>
    \A s \in S!Stock : quoted[s][Len(quoted[s])] = packet.loop
=============================================================================
