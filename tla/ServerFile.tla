----------------------------- MODULE ServerFile -----------------------------
(***************************************************************************)
(* What stocks.db and the round counter of Server say about the prices     *)
(* that have been stored.                                                  *)
(***************************************************************************)
EXTENDS Server, FiniteSets

(* Records of the payload being decoded that have not been looked at.      *)
Pending ==
  CASE server = "callback"                    -> GROUP_STOCK - slot
    [] server \in {"coefficient", "aborted"}  -> GROUP_STOCK - slot - 1
    [] OTHER                                  -> 0

(* The records in stocks.db, numbered from 0, and how many of them have    *)
(* been looked at.                                                         *)
Payload(n) == g_pFile[n \div GROUP_STOCK + 1]
Record(n) == Payload(n).rec[n % GROUP_STOCK]
Replayed == GROUP_STOCK * Len(g_pFile) - Pending

(* The file has no marks between payloads.  A reader that decodes it the   *)
(* way my_callback decodes a packet, PAYLOAD bytes at a time, finds the    *)
(* first payloads as long as each of them had that length.                 *)
Framed(payloads) == \A k \in 1 .. payloads : g_pFile[k].len = PAYLOAD

(* The records of stock s that this reader decodes, up to the present one. *)
(* The payloads of a computed loop are in the file, but not used.          *)
Replay(s) ==
  {n \in 0 .. Replayed - 1 : /\ Framed(n \div GROUP_STOCK + 1)
                             /\ Payload(n).loop # g_last_done_loop
                             /\ Record(n).id = s}

(* stocks.db is a log of the prices, up to the first payload of another    *)
(* length than the client's: decoding it again gives, for every stock, the *)
(* first prices that went through its window, in order, and none is made   *)
(* up.  While all payloads had that length it gives every price.  Nothing  *)
(* is claimed behind a payload of another length: its bytes are written as *)
(* captured (main.cpp, line 180), its records decoded as if all were there *)
(* (line 192), and the reader's place in the file is lost.                 *)
FileReplaysPrices ==
  \A s \in Stock :
    LET own == Replay(s)
    IN  /\ Cardinality(own) <= Len(quoted[s])
        /\ Framed(Len(g_pFile)) => Cardinality(own) = Len(quoted[s])
        /\ \A n \in own :
             quoted[s][Cardinality(own \cap 0 .. n)] = Record(n).close

(* The prices stored so far, of all stocks.                                *)
StoredPrices == UNION {{s} \X (1 .. Len(quoted[s])) : s \in Stock}

(* The round counter counts prices, whichever stocks and loops they belong *)
(* to: it is the number of prices stored so far modulo SERVER_STOCK.  A    *)
(* lost datagram therefore shifts the end of every later round.            *)
RoundIsCount ==
  LET stored == Cardinality(StoredPrices)
  IN  IF server \in {"coefficient", "aborted"}
      THEN g_current_stocks = SERVER_STOCK /\ stored % SERVER_STOCK = 0
      ELSE g_current_stocks = stored % SERVER_STOCK
=============================================================================
