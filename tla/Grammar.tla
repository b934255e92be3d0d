------------------------------ MODULE Grammar ------------------------------
(***************************************************************************)
(* The reductions of the filter language's parser (grammar.y): each one    *)
(* calls Gencode on the blocks of the terms on top of the value stack.     *)
(*                                                                         *)
(* A term of the language tests whether one byte of the packet is 1; the   *)
(* parser's value stack carries, beside the block of the code, the packets *)
(* the expression is true of.                                              *)
(***************************************************************************)
EXTENDS Bpf, Gencode

CONSTANTS TESTS,    \* bytes a term may look at, 0 .. TESTS - 1
          TERMS,    \* bound: terms of an expression
          NOTS,     \* bound: negations of an expression
          SNAPLEN   \* what an accepting program returns

ASSUME GrammarAssumption ==
    /\ TESTS \in Nat \ {0} /\ TERMS \in Nat \ {0} /\ NOTS \in Nat
    /\ SNAPLEN \in 1 .. WORD - 1

VARIABLES source,   \* where the program comes from: "expression", ...
          phase,    \* "parse", "convert", "install", "run", "refused"
          blocks,   \* the heap of the flow graph
          stack,    \* the parser's values: [b, holds]
          nots      \* negations so far

parsevars == <<source, phase, blocks, stack, nots>>

Packet == [1 .. TESTS -> {0, 1}]
Holding(t) == {q \in Packet : q[t + 1] = 1}

\* The load of the byte and, for odd ones, a mask: blocks differ in length.
Stmts(t) ==
    IF t % 2 = 0 THEN <<Insn("ld_abs", "b", t)>>
    ELSE <<Insn("ld_abs", "b", t), Insn("alu_k", "and", 1)>>

GrammarInit ==
    /\ source = "expression" /\ phase = "parse"
    /\ blocks = <<>> /\ stack = <<>> /\ nots = 0

Parsing == source = "expression" /\ phase = "parse" /\ UNCHANGED <<source, phase>>
Top(n) == stack[Len(stack) - n]
Pop(n) == SubSeq(stack, 1, Len(stack) - n)
Terms == Len(blocks)

Term(t) ==
    /\ Parsing /\ Terms < TERMS
    /\ blocks' = new_block(blocks, Stmts(t), Branch("jmp_k", "jeq", 1, 0, 0))
    /\ stack' = Append(stack, [b |-> Len(blocks'), holds |-> Holding(t)])
    /\ UNCHANGED nots

NotTerm ==
    /\ Parsing /\ nots < NOTS /\ stack # <<>>
    /\ blocks' = gen_not(blocks, Top(0).b)
    /\ stack' = Append(Pop(1), [Top(0) EXCEPT !.holds = Packet \ @])
    /\ nots' = nots + 1

AndTerm ==
    /\ Parsing /\ Len(stack) > 1
    /\ blocks' = gen_and(blocks, Top(1).b, Top(0).b)
    /\ stack' = Append(Pop(2), [Top(0) EXCEPT !.holds = @ \cap Top(1).holds])
    /\ UNCHANGED nots

OrTerm ==
    /\ Parsing /\ Len(stack) > 1
    /\ blocks' = gen_or(blocks, Top(1).b, Top(0).b)
    /\ stack' = Append(Pop(2), [Top(0) EXCEPT !.holds = @ \cup Top(1).holds])
    /\ UNCHANGED nots

Reduction ==
    \/ \E t \in 0 .. TESTS - 1 : Term(t)
    \/ NotTerm \/ AndTerm \/ OrTerm

\* The text is at its end: finish_parse closes the graph.
Accept ==
    /\ phase = "parse" /\ Len(stack) = 1
    /\ blocks' = finish_parse(blocks, Top(0).b, Insn("ret_k", "-", SNAPLEN),
                              Insn("ret_k", "-", 0))
    /\ phase' = "convert"
    /\ UNCHANGED <<source, stack, nots>>

\* yyparse on its own.
GrammarSpec == GrammarInit /\ [][Reduction \/ Accept]_parsevars

-----------------------------------------------------------------------------
\* The open edges of term b that lie on its true list, or on its false list:
\* the list its sense begins, and the one the other sense would begin.
OpenEdges(b, side) ==
    LET h == IF side THEN blocks ELSE Flip(blocks, b)
    IN  {<<k, ~h[k].sense>> : k \in ListOf(h, b)}

\* The edge by which a packet leaves a block, and where a closed one leads.
Taken(k, q) == q[blocks[k].stmts[1].k + 1] = 1
Target(k, out) == IF out THEN blocks[k].jt ELSE blocks[k].jf

\* The lists on which a packet that enters at the head of term b leaves it.
Outcomes(b, q) ==
    LET open == [side \in BOOLEAN |-> OpenEdges(b, side)]
        next == [k \in 1 .. Terms |->
                    IF <<k, Taken(k, q)>> \in open[TRUE] \cup open[FALSE] THEN Null
                    ELSE Target(k, Taken(k, q))]
    IN  {side \in BOOLEAN : \E k \in Follow(next, blocks[b].head) :
                                <<k, Taken(k, q)>> \in open[side]}

\* In the parse, a packet that enters at the head of a term leaves by an
\* edge of the true list exactly if the expression holds of it, and by one
\* of the false list otherwise.
TermsMeanExpression ==
    source = "expression" /\ phase = "parse" =>
        \A i \in 1 .. Len(stack) : \A q \in Packet :
            Outcomes(stack[i].b, q) = {(q \in stack[i].holds)}

\* The blocks a packet meets in the finished graph, whose last two return.
Met(b, q) ==
    LET next == [k \in 1 .. Terms |->
                    IF k > Terms - 2 THEN Null ELSE Target(k, Taken(k, q))]
    IN  Follow(next, blocks[b].head)

\* After the parse, a packet that enters at the head comes to the accepting
\* return block exactly if the expression holds of it, and to the rejecting
\* one otherwise.
FinishedMeansExpression ==
    source = "expression" /\ phase = "convert" =>
        \A q \in Packet :
            Met(Top(0).b, q) \cap {Terms - 1, Terms} =
                {IF q \in Top(0).holds THEN Terms - 1 ELSE Terms}

\* backpatch, merge, finish_parse and the flips of sense: at every moment of
\* the parse and for every term on the parser's stack, the graph sends a
\* packet where the expression does, and so does the graph finish_parse
\* leaves behind.  No link of a list is ever followed as if it were an edge,
\* no edge is left open, and no path runs in a circle.
GraphMeansExpression == TermsMeanExpression /\ FinishedMeansExpression
=============================================================================
