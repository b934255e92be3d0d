------------------------------ MODULE Gencode ------------------------------
(***************************************************************************)
(* The flow graph the filter compiler of the vendored libpcap builds       *)
(* (gencode.c): blocks on a heap, each with a test and two edges.  While a *)
(* term is parsed its open edges form two lists, threaded through the      *)
(* edges themselves: sense says which edge of a block is the link.         *)
(*                                                                         *)
(* A heap is a sequence of blocks and a block pointer an index into it, 0  *)
(* the null pointer; every operator returns the heap it leaves behind.     *)
(***************************************************************************)
EXTENDS Naturals, Sequences

Null == 0

\* new_block: the chunk is zeroed and the block is its own head.
new_block(h, stmts, test) ==
    Append(h, [stmts |-> stmts, s |-> test, sense |-> FALSE, jt |-> Null,
               jf |-> Null, head |-> Len(h) + 1, longjt |-> 0, longjf |-> 0,
               offset |-> 0])

\* The blocks met when the pointers next are followed from a until Null.
Follow(next, a) ==
    LET at[n \in 0 .. Len(next)] ==
            IF n = 0 THEN a
            ELSE IF at[n - 1] = Null THEN Null ELSE next[at[n - 1]]
    IN  {at[n] : n \in 0 .. Len(next)} \ {Null}

\* The edge that links b into the list it is on.
Link(h, b) == IF h[b].sense THEN h[b].jf ELSE h[b].jt
Linked(block, target) ==
    IF block.sense THEN [block EXCEPT !.jf = target] ELSE [block EXCEPT !.jt = target]

\* The blocks on a list.
ListOf(h, list) == Follow([b \in 1 .. Len(h) |-> Link(h, b)], list)

Flip(h, b) == [h EXCEPT ![b].sense = ~@]

\* Every link of the list becomes an edge to target.
backpatch(h, list, target) ==
    LET on == ListOf(h, list)
    IN  [b \in 1 .. Len(h) |-> IF b \in on THEN Linked(h[b], target) ELSE h[b]]

LastOf(h, list) == CHOOSE b \in ListOf(h, list) : Link(h, b) = Null

merge(h, b0, b1) == [h EXCEPT ![LastOf(h, b0)] = Linked(@, b1)]

\* Mutant: the conjunction begins with its second term.
gen_andSecond(h, b0, b1) ==
    LET h1 == Flip(Flip(backpatch(h, b0, h[b1].head), b0), b1)
    IN  Flip(merge(h1, b1, b0), b1)

gen_and(h, b0, b1) ==
    LET h1 == Flip(Flip(backpatch(h, b0, h[b1].head), b0), b1)
        h2 == Flip(merge(h1, b1, b0), b1)
    IN  [h2 EXCEPT ![b1].head = h2[b0].head]

gen_or(h, b0, b1) ==
    LET h1 == Flip(backpatch(Flip(h, b0), b0, h[b1].head), b0)
        h2 == merge(h1, b1, b0)
    IN  [h2 EXCEPT ![b1].head = h2[b0].head]

gen_not(h, b) == Flip(h, b)

\* finish_parse: the open true edges accept, the open false edges reject.
\* The two return blocks are the last two of the heap.
finish_parse(h, b, accept, reject) ==
    LET h1 == new_block(h, <<>>, accept)
        h2 == Flip(backpatch(h1, b, Len(h1)), b)
        h3 == new_block(h2, <<>>, reject)
    IN  backpatch(h3, b, Len(h3))
=============================================================================
