--------------------------- MODULE FilterCompiler ---------------------------
(***************************************************************************)
(* pcap_compile of the vendored libpcap, without the optimizer (the server *)
(* asks for optimize = 0): the parser's reductions build the flow graph    *)
(* (Grammar), and Layout makes the program of it and runs it.              *)
(***************************************************************************)
EXTENDS Layout

CONSTANT SHORT      \* bound: values of a branch offset, for expressions

ASSUME CompilerAssumption == SHORT \in Nat \ {0}

vars == <<bpfvars, parsevars, layoutvars>>

ParseInit == GrammarInit /\ branch = SHORT /\ LayoutInit

Parse ==
    \/ Reduction /\ UNCHANGED <<bpfvars, layoutvars>>
    \/ Accept /\ FirstRound(Top(0).b)

-----------------------------------------------------------------------------
\* icode_to_fcode's loop ends: each round marks a branch no round marked
\* before, and the packet gets its verdict.
CompileEnds == phase = "convert" ~> phase = "run" /\ ret # RUNNING
=============================================================================
