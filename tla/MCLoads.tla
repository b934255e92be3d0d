------------------------------ MODULE MCLoads ------------------------------
(***************************************************************************)
(* One packet load, of each size, direct and indexed, at the offsets       *)
(* around both ends of their range.                                        *)
(***************************************************************************)
EXTENDS BpfRun

Offsets == 0 .. 5 \cup WORD - 5 .. WORD - 1

MCPrograms ==
    {<<Insn("ldx_imm", "-", x), Insn(op, size, k), Insn("ret_a", "-", 0)>> :
        x \in {0, 1}, op \in {"ld_abs", "ld_ind"}, size \in {"b", "h", "w"},
        k \in Offsets}

MCPackets == {<<>>, <<0, 1, 1, 0, 1>>}
=============================================================================
