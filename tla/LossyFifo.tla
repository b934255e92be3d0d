----------------------------- MODULE LossyFifo ------------------------------
(***************************************************************************)
(* What the way from the client's sendto to the server's my_callback       *)
(* promises: datagrams may get lost anywhere, but the ones that arrive     *)
(* arrive in the order of sending, each at most once.                      *)
(*                                                                         *)
(* A datagram is its number in the order of sending, so the ones on their  *)
(* way are a set: the oldest of them has the lowest number.                *)
(***************************************************************************)
EXTENDS Integers, Sequences

VARIABLES
  sent,      \* number of datagrams sent
  queue,     \* datagrams on their way
  delivered  \* datagrams handed over, in order

vars == <<sent, queue, delivered>>

Init ==
  /\ sent = 0
  /\ queue = {}
  /\ delivered = << >>

(* The next datagram is sent, and may be lost at once.                     *)
Send ==
  /\ sent' = sent + 1
  /\ queue' \in {queue, queue \cup {sent + 1}}
  /\ UNCHANGED delivered

(* A datagram on its way is lost.                                          *)
Lose ==
  \E n \in queue :
    /\ queue' = queue \ {n}
    /\ UNCHANGED <<sent, delivered>>

(* The oldest datagram on its way is handed over.                          *)
HandOver ==
  \E n \in queue :
    /\ \A m \in queue : n <= m
    /\ delivered' = Append(delivered, n)
    /\ queue' = queue \ {n}
    /\ UNCHANGED sent

Next == Send \/ Lose \/ HandOver

Spec == Init /\ [][Next]_vars

(* Only numbers of datagrams that were sent occur.                         *)
TypeOK ==
  /\ sent \in Nat
  /\ queue \subseteq 1 .. sent
  /\ delivered \in Seq(1 .. sent)

Increasing(s) == \A j, k \in 1 .. Len(s) : j < k => s[j] < s[k]

(* Nothing is handed over twice or overtakes: the numbers handed over      *)
(* increase, and the ones on their way are all newer.                      *)
InOrder ==
  /\ Increasing(delivered)
  /\ \A j \in 1 .. Len(delivered), n \in queue : delivered[j] < n
=============================================================================
