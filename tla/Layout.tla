------------------------------- MODULE Layout -------------------------------
(***************************************************************************)
(* From the flow graph to the installed program: icode_to_fcode and        *)
(* convert_code_r (optimize.c) lay the blocks out as an array of           *)
(* instructions, install_bpf_program validates it and bpf_filter (Bpf)     *)
(* runs it.  A branch offset is a u_char; a branch that does not reach its *)
(* target is marked, gets a jump of its own, and the layout starts anew.   *)
(***************************************************************************)
EXTENDS BpfRun, Grammar, SequencesExt

VARIABLES branch,   \* 256 in the code: values of a branch offset
          order,    \* the blocks of the graph, in convert_code_r's order
          todo,     \* those it has not placed yet
          ftail     \* where the code placed so far begins (from 0)

layoutvars == <<branch, order, todo, ftail>>

LayoutInit ==
    /\ order = <<>> /\ todo = <<>> /\ ftail = 0
    /\ prog = <<>> /\ p = <<>>
    /\ Start

-----------------------------------------------------------------------------
\* The order in which convert_code_r places the blocks: a block after the
\* graph behind its false edge, and that before the one behind its true edge.
RECURSIVE Placed(_, _, _)
Placed(h, b, done) ==
    IF b = Null \/ Contains(done, b) THEN done
    ELSE Append(Placed(h, h[b].jt, Placed(h, h[b].jf, done)), b)

BlockLength(h, b) == Len(h[b].stmts) + 1 + h[b].longjt + h[b].longjf

count_stmts(h, graph) == FoldSeq(LAMBDA b, n : n + BlockLength(h, b), 0, graph)

\* A round of the loop: an array of zeroes (code 0 is BPF_LD|BPF_IMM).
Round(h, graph) ==
    LET n == count_stmts(h, graph)
    IN  /\ prog' = [i \in 1 .. n |-> Insn("ld_imm", "-", 0)]
        /\ ftail' = n
        /\ todo' = graph

\* The first round, on the graph finish_parse leaves for the expression b.
FirstRound(b) ==
    /\ order' = Placed(blocks', blocks'[b].head, <<>>)
    /\ Round(blocks', order')
    /\ UNCHANGED <<p, machine, branch>>

\* The place and the distances convert_code_r computes for the next block.
B == Head(todo)
Offset == ftail - BlockLength(blocks, B)
Distance(target) == blocks[target].offset - (Offset + Len(blocks[B].stmts)) - 1
FarT == blocks[B].jt # Null /\ Distance(blocks[B].jt) >= branch
FarF == blocks[B].jt # Null /\ Distance(blocks[B].jf) >= branch
TooFar == (FarT /\ blocks[B].longjt = 0) \/ (FarF /\ blocks[B].longjf = 0)

Converting == phase = "convert" /\ todo # <<>> /\ UNCHANGED <<p, machine, branch, order>>

\* Mutant: the mark is forgotten before the next round.
RetryUnmarked ==
    /\ Converting /\ TooFar
    /\ UNCHANGED <<blocks, phase>>
    /\ Round(blocks, order)

\* A branch too long for its field is marked and the conversion starts anew.
Retry ==
    /\ Converting /\ TooFar
    /\ LET h == IF FarT /\ blocks[B].longjt = 0
                THEN [blocks EXCEPT ![B].longjt = 1]
                ELSE [blocks EXCEPT ![B].longjf = 1]
       IN  blocks' = h /\ Round(h, order)
    /\ UNCHANGED phase

\* The conditional branch and the unconditional jumps it needs.
LongCode ==
    LET jt == IF FarT THEN 0 ELSE Distance(blocks[B].jt)
        jf == IF FarF THEN (IF FarT THEN 1 ELSE 0) ELSE Distance(blocks[B].jf)
        skip == IF FarT THEN 2 ELSE 1
    IN  <<[blocks[B].s EXCEPT !.jt = jt % branch, !.jf = jf % branch]>>
        \o (IF FarT THEN <<Insn("ja", "-", Distance(blocks[B].jt) - 1)>> ELSE <<>>)
        \o (IF FarF THEN <<Insn("ja", "-", Distance(blocks[B].jf) - skip)>> ELSE <<>>)

BlockCode ==
    blocks[B].stmts \o (IF blocks[B].jt = Null THEN <<blocks[B].s>> ELSE LongCode)

Place ==
    /\ Converting /\ ~TooFar
    /\ prog' = SubSeq(prog, 1, Offset) \o BlockCode
                   \o SubSeq(prog, Offset + Len(BlockCode) + 1, Len(prog))
    /\ blocks' = [blocks EXCEPT ![B].offset = Offset]
    /\ ftail' = Offset
    /\ todo' = Tail(todo)
    /\ phase' = IF Tail(todo) = <<>> THEN "install" ELSE phase

\* install_bpf_program, and then the program meets a packet.
Install(packets) ==
    /\ phase = "install"
    /\ phase' = IF bpf_validate(prog) THEN "run" ELSE "refused"
    /\ p' \in packets
    /\ UNCHANGED <<prog, machine, layoutvars, blocks>>

Run == phase = "run" /\ bpf_filter /\ UNCHANGED <<layoutvars, phase, blocks>>
=============================================================================
