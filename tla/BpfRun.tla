------------------------------ MODULE BpfRun ------------------------------
(***************************************************************************)
(* The filter machine on its own: install_bpf_program has let a program    *)
(* through, and it is run on one packet.                                   *)
(***************************************************************************)
EXTENDS Bpf

CONSTANTS Programs,     \* the programs offered to install_bpf_program
          Packets       \* the captured bytes they are run on

ASSUME ProgramsAssumption ==
    \A f \in Programs : f \in Seq(Instruction) /\ Len(f) < WORD \div 2
ASSUME PacketsAssumption ==
    \A s \in Packets : s \in Seq(0 .. BYTE - 1) /\ Len(s) < WORD \div 2

BpfInit ==
    /\ prog \in {f \in Programs : bpf_validate(f)}
    /\ p \in Packets
    /\ Start

BpfSpec == BpfInit /\ [][bpf_filter]_bpfvars

-----------------------------------------------------------------------------
\* bpf_validate's promise for bpf_filter, backward jumps included: a
\* program that passed it never fetches outside itself, never touches a
\* scratch word that does not exist and never divides by a constant zero.
Confined ==
    bpf_validate(prog) =>
        /\ pc \in 1 .. Len(prog)
        /\ I.op \in MemOp => I.k \in DOMAIN mem
        /\ I.op = "alu_k" /\ I.arg = "div" => I.k # 0

\* What bpf_validate's comments say of the packet loads, that the check at
\* run time suffices: a load reads captured bytes only.  It is not so: the
\* sum in the check of a word at an offset of -4 .. -1, or a half word at
\* -2 or -1, wraps and passes, and the load begins before the packet.
LoadsInside == read[1] >= 0 /\ read[2] < buflen

\* What the check does guarantee: no load ends behind the captured bytes,
\* and one whose sum wrapped reaches their beginning.
EndsInside == read[2] >= -1 /\ read[2] < buflen
=============================================================================
