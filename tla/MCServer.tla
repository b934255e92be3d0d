------------------------------ MODULE MCServer ------------------------------
(***************************************************************************)
(* Model-checking instance of Server: three followed stocks, two records   *)
(* per datagram, windows of two prices.                                    *)
(***************************************************************************)
EXTENDS ServerFile

MCPrice == {1, 2}

(* A datagram quotes two stocks at one price, of the first or the second   *)
(* loop; stock 9 is not followed.  The loop id -1 is that of the done-loop *)
(* test's initial value.  Others than the client send datagrams of which   *)
(* one record, or more than two, were captured.                            *)
Quote(loop, a, b, price, len) ==
  [loop |-> loop,
   len  |-> len,
   rec  |-> [j \in 0 .. 1 |->
               [id |-> IF j = 0 THEN a ELSE b, close |-> price]]]

MCDatagram ==
  {Quote(price - 1, pair[1], pair[2], price, PAYLOAD) :
     pair \in {<<0, 1>>, <<2, 1>>, <<0, 9>>}, price \in MCPrice}
    \cup {Quote(-1, 0, 1, 1, PAYLOAD), Quote(1, 1, 0, 2, 25),
          Quote(0, 2, 9, 1, 60)}
=============================================================================
