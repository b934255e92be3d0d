------------------------------- MODULE Client -------------------------------
(***************************************************************************)
(* The quote generator of client/main.cpp, udpClient: LOOP_COUNT loops     *)
(* over all STOCK_COUNT stocks, GROUP_STOCK of them in every datagram.     *)
(*                                                                         *)
(* A price stands for the loop it was quoted in: the properties ask which  *)
(* tick a stored price belongs to, never how much it is.                   *)
(***************************************************************************)
EXTENDS Integers

CONSTANTS STOCK_COUNT, GROUP_STOCK, LOOP_COUNT

VARIABLES
  lc,        \* loop of the client
  i,         \* datagrams sent in this loop
  stock_id,  \* id the next generated stock gets
  client     \* "sending", "finished", or "died" in Die()

vars == <<lc, i, stock_id, client>>

group_count == STOCK_COUNT \div GROUP_STOCK

Tick == 0 .. LOOP_COUNT - 1

(* GROUP_STOCK calls of stockGenerate from id first on, behind loop id l.  *)
Group(l, first) ==
  [loop |-> l,
   len  |-> 4 + 20 * GROUP_STOCK,
   rec  |-> [j \in 0 .. GROUP_STOCK - 1 |-> [id |-> first + j, close |-> l]]]

(* The datagram the next sendto carries.                                   *)
buffer == Group(lc, stock_id)

Init ==
  /\ lc = 0
  /\ i = 0
  /\ stock_id = 0
  /\ client = "sending"

(* One iteration of the inner loop: generate, encode, sendto.              *)
Sendto ==
  /\ client = "sending"
  /\ i < group_count
  /\ i' = i + 1
  /\ stock_id' = stock_id + GROUP_STOCK
  /\ UNCHANGED <<lc, client>>

(* sendto failed or sent a part only: Die().                               *)
SendtoFails ==
  /\ client = "sending"
  /\ i < group_count
  /\ client' = "died"
  /\ UNCHANGED <<lc, i, stock_id>>

(* The id generator starts again with every loop.                          *)
FirstStockId == 0

(* All groups are sent: usleep, then the next loop, or the client is done. *)
NextLoop ==
  /\ client = "sending"
  /\ i = group_count
  /\ lc' = lc + 1
  /\ i' = 0
  /\ stock_id' = FirstStockId
  /\ client' = IF lc + 1 < LOOP_COUNT THEN "sending" ELSE "finished"

Next == Sendto \/ SendtoFails \/ NextLoop
=============================================================================
