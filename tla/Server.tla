------------------------------- MODULE Server -------------------------------
(***************************************************************************)
(* The quote server of server/main.cpp: the pcap callback, the price       *)
(* windows it fills and the state it keeps between two packets.            *)
(*                                                                         *)
(* pcap_loop runs the callback to its end before it hands over the next    *)
(* packet, so the module has one action for the entry of my_callback, one  *)
(* per way through the body of its decode loop, and one for its return.    *)
(* The sender is left open: a datagram is any member of Datagram, whoever  *)
(* sent it and in whatever order, so what holds here holds for a network   *)
(* that loses, repeats or reorders.                                        *)
(*                                                                         *)
(* A datagram is the loop id and the GROUP_STOCK records the callback      *)
(* decodes, and len, the bytes that were captured behind the UDP header.   *)
(* The callback does not compare the two: a record behind len comes from   *)
(* what an earlier frame left there, and is any record.                    *)
(*                                                                         *)
(* A price is an opaque value: the server stores and forwards it.          *)
(***************************************************************************)
EXTENDS Integers, Sequences

CONSTANTS
  GROUP_STOCK,         \* records in one datagram
  SERVER_STOCK,        \* number of stocks the server follows
  PRICE_LIST_SIZE,     \* length of the price window of one stock
  SERVER_STOCK_COUNT,  \* packets pcap_loop hands over before it returns
  Price,               \* closing prices
  Datagram             \* payloads that reach my_callback

ASSUME ServerAssumption ==
  /\ GROUP_STOCK \in Nat \ {0}
  /\ SERVER_STOCK \in Nat \ {0}
  /\ PRICE_LIST_SIZE \in Nat \ {0}
  /\ SERVER_STOCK_COUNT \in Nat \ {0}
  /\ \A d \in Datagram :
       /\ d.loop \in Int
       /\ d.len \in Nat
       /\ d.rec \in [0 .. GROUP_STOCK - 1 -> [id : Int, close : Price]]

VARIABLES
  g_priceMap,        \* price window of each followed stock, oldest price first
  g_ready,           \* allPriceOK has once found every window full
  g_current_stocks,  \* prices counted since the last "server get all"
  g_last_loop,       \* loop id of the last datagram that was decoded
  g_last_done_loop,  \* loop id of the last computed loop
  g_pFile,           \* stocks.db: the bytes written, payload by payload
  packet,            \* the payload my_callback is decoding
  slot,              \* index of the next record of packet to decode
  callbacks,         \* packets handed to my_callback so far
  server,            \* where the process is
  quoted             \* auxiliary: every price ever stored, for each stock

pricing == <<g_priceMap, g_ready, g_current_stocks>>
vars == <<g_priceMap, g_ready, g_current_stocks, g_last_loop, g_last_done_loop,
          g_pFile, packet, slot, callbacks, server, quoted>>

Stock == 0 .. SERVER_STOCK - 1

(* packet when no payload is being decoded.                                *)
NoPacket == [loop |-> -1]

(* Bytes of a loop id with GROUP_STOCK records of 20 bytes behind it.      *)
PAYLOAD == 4 + 20 * GROUP_STOCK

(* What fwrite gets of a datagram: the captured bytes, with the records    *)
(* that lie wholly in them.  (The loop id does if there are four of them.) *)
Written(d) ==
  [loop |-> d.loop,
   len  |-> d.len,
   rec  |-> [j \in {k \in 0 .. GROUP_STOCK - 1 : 4 + 20 * (k + 1) <= d.len} |->
               d.rec[j]]]

ServerState == {"capturing", "callback", "coefficient", "aborted", "finished"}

-----------------------------------------------------------------------------
(* allPriceOK: its answer, the windows it leaves behind, and the helper     *)
(* they share.                                                             *)

Short(window) == Len(window) < PRICE_LIST_SIZE

(* Mutant: pop_back instead of pop_front.                                  *)
KeepOldest(window) == SubSeq(window, 1, PRICE_LIST_SIZE)

KeepNewest(window) ==
  SubSeq(window, Len(window) - PRICE_LIST_SIZE + 1, Len(window))

allPriceOK(map, ready) == ready \/ \A s \in Stock : ~Short(map[s])

(* Mutant: the scan trims only when all windows are full.                  *)
TrimAtEndScan(map, ready) ==
  [s \in Stock |-> IF ready \/ \E t \in Stock : Short(map[t])
                   THEN map[s]
                   ELSE KeepNewest(map[s])]

(* The scan runs in id order, trims every window it finds too long and     *)
(* stops at the first short one; once g_ready is set it does not run.      *)
TrimScan(map, ready) ==
  [s \in Stock |-> IF ready \/ \E t \in 0 .. s : Short(map[t])
                   THEN map[s]
                   ELSE KeepNewest(map[s])]

(* Mutant: no price is popped when every window is full.                   *)
PushOnly(map, ready, s, price) ==
  [TrimScan(map, ready) EXCEPT ![s] = Append(@, price)]

(* One record of a followed stock: scan, slide the window when every       *)
(* window is full, store the new price.                                    *)
PushPrice(map, ready, s, price) ==
  LET scanned == TrimScan(map, ready)
      room    == IF allPriceOK(map, ready)
                 THEN Tail(scanned[s])
                 ELSE scanned[s]
  IN  [scanned EXCEPT ![s] = Append(room, price)]

-----------------------------------------------------------------------------
(* main: the file is opened empty and every followed stock gets an empty   *)
(* window before pcapServer runs.                                          *)
Init ==
  /\ g_priceMap = [s \in Stock |-> << >>]
  /\ g_ready = FALSE
  /\ g_current_stocks = 0
  /\ g_last_loop = -1
  /\ g_last_done_loop = -1
  /\ g_pFile = << >>
  /\ packet = NoPacket
  /\ slot = 0
  /\ callbacks = 0
  /\ server = "capturing"
  /\ quoted = [s \in Stock |-> << >>]

(* pcap hands a packet to my_callback while its packet count lasts.        *)
Deliver ==
  /\ server = "capturing"
  /\ callbacks < SERVER_STOCK_COUNT
  /\ callbacks' = callbacks + 1

(* A frame that fails a header check of my_callback is reported and left.  *)
CallbackReject ==
  /\ Deliver
  /\ UNCHANGED <<pricing, g_last_loop, g_last_done_loop, g_pFile, packet, slot,
                 server, quoted>>

(* A datagram of the loop already computed is written, not decoded.        *)
CallbackDone(d) ==
  /\ Deliver
  /\ g_pFile' = Append(g_pFile, Written(d))
  /\ d.loop = g_last_done_loop
  /\ UNCHANGED <<pricing, g_last_loop, g_last_done_loop, packet, slot, server,
                 quoted>>

(* Mutants: a payload of the loop being decoded is not written to disk; a  *)
(* new loop starts the counter again.                                      *)
EnterUnsaved(d) ==
  /\ Deliver
  /\ g_pFile' = IF d.loop = g_last_loop THEN g_pFile
                ELSE Append(g_pFile, Written(d))
  /\ d.loop # g_last_done_loop
  /\ g_last_loop' = d.loop
  /\ packet' = d
  /\ slot' = 0
  /\ server' = "callback"
  /\ UNCHANGED <<pricing, g_last_done_loop, quoted>>
EnterRestarts(d) ==
  /\ Deliver
  /\ g_pFile' = Append(g_pFile, Written(d))
  /\ d.loop # g_last_done_loop
  /\ g_last_loop' = d.loop
  /\ g_current_stocks' = IF d.loop = g_last_loop THEN g_current_stocks ELSE 0
  /\ packet' = d
  /\ slot' = 0
  /\ server' = "callback"
  /\ UNCHANGED <<g_priceMap, g_ready, g_last_done_loop, quoted>>

(* Of any other datagram the captured bytes are written to disk, and       *)
(* GROUP_STOCK records decoded, however many bytes those are.              *)
CallbackEnter(d) ==
  /\ Deliver
  /\ g_pFile' = Append(g_pFile, Written(d))
  /\ d.loop # g_last_done_loop
  /\ g_last_loop' = d.loop
  /\ packet' = d
  /\ slot' = 0
  /\ server' = "callback"
  /\ UNCHANGED <<pricing, g_last_done_loop, quoted>>

(* The record at the head of the decode loop.                              *)
Current == packet.rec[slot]

Decoding == server = "callback" /\ slot < GROUP_STOCK

(* The record of a stock the server does not follow is skipped.            *)
SkipRecord ==
  /\ Decoding
  /\ Current.id \notin Stock
  /\ slot' = slot + 1
  /\ UNCHANGED <<pricing, g_last_loop, g_last_done_loop, g_pFile, packet,
                 callbacks, server, quoted>>

(* The windows with the record's price in them, and whether the scan that  *)
(* came before found them all full.                                        *)
Pushed == PushPrice(g_priceMap, g_ready, Current.id, Current.close)
WasReady == allPriceOK(g_priceMap, g_ready)

(* What every record of a followed stock does.                             *)
StorePrice ==
  /\ Decoding
  /\ Current.id \in Stock
  /\ quoted' = [quoted EXCEPT ![Current.id] = Append(@, Current.close)]
  /\ UNCHANGED <<g_last_loop, g_last_done_loop, g_pFile, packet, callbacks>>

(* The round is not complete: the price is stored and counted.             *)
StoreRecord ==
  /\ StorePrice
  /\ g_current_stocks + 1 # SERVER_STOCK
  /\ g_priceMap' = Pushed
  /\ g_ready' = WasReady
  /\ g_current_stocks' = g_current_stocks + 1
  /\ slot' = slot + 1
  /\ UNCHANGED server

(* "server get all": SERVER_STOCK prices have been counted, and allPriceOK *)
(* is asked again.  Some window is short: only the counter starts again.   *)
GetAll ==
  /\ StorePrice
  /\ g_current_stocks + 1 = SERVER_STOCK
  /\ ~allPriceOK(Pushed, WasReady)
  /\ g_priceMap' = TrimScan(Pushed, WasReady)
  /\ g_ready' = FALSE
  /\ g_current_stocks' = 0
  /\ slot' = slot + 1
  /\ UNCHANGED server

(* Every window is full: coefficient is called and never returns, so the   *)
(* assignments after the call are not reached.                             *)
GetAllAndCompute ==
  /\ StorePrice
  /\ g_current_stocks + 1 = SERVER_STOCK
  /\ allPriceOK(Pushed, WasReady)
  /\ g_priceMap' = TrimScan(Pushed, WasReady)
  /\ g_ready' = TRUE
  /\ g_current_stocks' = SERVER_STOCK
  /\ server' = "coefficient"
  /\ UNCHANGED slot

(* Mutant: readiness is forgotten with every packet.                       *)
ReturnForgets ==
  /\ server = "callback"
  /\ slot = GROUP_STOCK
  /\ server' = "capturing"
  /\ packet' = NoPacket
  /\ slot' = 0
  /\ g_ready' = FALSE
  /\ UNCHANGED <<g_priceMap, g_current_stocks, g_last_loop, g_last_done_loop,
                 g_pFile, callbacks, quoted>>

(* my_callback returns to pcap after the last record.                      *)
CallbackReturn ==
  /\ server = "callback"
  /\ slot = GROUP_STOCK
  /\ server' = "capturing"
  /\ packet' = NoPacket
  /\ slot' = 0
  /\ UNCHANGED <<pricing, g_last_loop, g_last_done_loop, g_pFile, callbacks,
                 quoted>>

(* coefficient ends in abort(): the process dies with its windows.         *)
Abort ==
  /\ server = "coefficient"
  /\ server' = "aborted"
  /\ UNCHANGED <<pricing, g_last_loop, g_last_done_loop, g_pFile, packet, slot,
                 callbacks, quoted>>

(* pcap_loop returns, because its count is used up or because of an error: *)
(* the capture is closed and main closes the file.                         *)
Finish ==
  /\ server = "capturing"
  /\ server' = "finished"
  /\ UNCHANGED <<pricing, g_last_loop, g_last_done_loop, g_pFile, packet, slot,
                 callbacks, quoted>>

Next ==
  \/ CallbackReject
  \/ \E d \in Datagram : CallbackDone(d) \/ CallbackEnter(d)
  \/ SkipRecord
  \/ StoreRecord
  \/ GetAll
  \/ GetAllAndCompute
  \/ CallbackReturn
  \/ Abort
  \/ Finish

Spec == Init /\ [][Next]_vars

-----------------------------------------------------------------------------
(* Type invariant of the server's globals (main.cpp, lines 75 to 81).      *)
TypeOK ==
  /\ g_priceMap \in [Stock -> Seq(Price)]
  /\ g_ready \in BOOLEAN
  /\ g_current_stocks \in 0 .. SERVER_STOCK
  /\ g_last_loop \in Int
  /\ g_last_done_loop = -1
  /\ g_pFile \in Seq({Written(d) : d \in Datagram})
  /\ packet \in Datagram \cup {NoPacket}
  /\ server \in {"callback", "coefficient"} => packet \in Datagram
  /\ slot \in 0 .. GROUP_STOCK
  /\ callbacks \in 0 .. SERVER_STOCK_COUNT
  /\ server \in ServerState
  /\ g_current_stocks = SERVER_STOCK => server \in {"coefficient", "aborted"}
  /\ quoted \in [Stock -> Seq(Price)]

(* window holds the newest entries of history, in the same order.          *)
NewestOf(window, history) ==
  /\ Len(window) <= Len(history)
  /\ \A k \in 1 .. Len(window) :
       window[k] = history[Len(history) - Len(window) + k]

(* When allPriceOK has answered true, and when coefficient reads the       *)
(* windows by index (coefficient.cu, lines 188 to 196), every window holds *)
(* exactly PRICE_LIST_SIZE prices: neither a stale long window nor a short *)
(* one read past its end, whichever datagrams came in whichever order.     *)
WindowExact ==
  /\ server \in {"coefficient", "aborted"} => g_ready
  /\ g_ready => \A s \in Stock : Len(g_priceMap[s]) = PRICE_LIST_SIZE

(* Trimming and sliding only ever drop the oldest prices: a window holds   *)
(* the newest prices stored for its stock, in arrival order, and nothing   *)
(* is dropped from a window before it holds PRICE_LIST_SIZE prices.        *)
WindowIsNewest ==
  \A s \in Stock :
    /\ NewestOf(g_priceMap[s], quoted[s])
    /\ Short(g_priceMap[s]) => Len(g_priceMap[s]) = Len(quoted[s])

(* Memory: the scan of allPriceOK stops at the first short window, so a    *)
(* window outgrows PRICE_LIST_SIZE + 1 only while some stock with a lower  *)
(* id has been starved (at most PRICE_LIST_SIZE prices since the start).   *)
GrowthNeedsStarvation ==
  \A s \in Stock :
    \/ Len(g_priceMap[s]) <= PRICE_LIST_SIZE + 1
    \/ \E t \in 0 .. s - 1 : Len(quoted[t]) <= PRICE_LIST_SIZE

(* No window changes, or one window slides by one price.                   *)
Slide ==
  \/ UNCHANGED g_priceMap
  \/ \E s \in Stock, price \in Price :
       g_priceMap' = [g_priceMap EXCEPT ![s] = Append(Tail(@), price)]

(* Once every window was full, readiness is never lost again, and a step   *)
(* changes at most one window, by sliding it one price: the two scans of   *)
(* a completed round trim nothing any more.                                *)
SlideByOne == [][g_ready => g_ready' /\ Slide]_vars
=============================================================================
