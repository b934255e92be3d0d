---------------------------- MODULE MCRecording -----------------------------
(***************************************************************************)
(* Numbers at the boundaries of the sign and of each byte, in every field. *)
(***************************************************************************)
EXTENDS Recording

Edge == <<-2147483647 - 1, -65537, -129, -1, 0, 128, 255, 33023, 8388608,
          2147483647>>
At(n) == Edge[(n % 10) + 1]

MCDatagrams ==
  {[loop |-> At(n),
    recs |-> [j \in 1 .. GROUP_STOCK |->
                <<At(n + 5 * j), At(n + 5 * j + 1), At(n + 5 * j + 2),
                  At(n + 5 * j + 3), At(n + 5 * j + 4)>>]] :
     n \in 0 .. 9}
=============================================================================
