------------------------------ MODULE MCFilter ------------------------------
(***************************************************************************)
(* Programs of three instructions from a set that has each form of the     *)
(* switch, with constants at the limits of the checks: the last scratch    *)
(* word and one behind it, jumps to the next and over the next instruction *)
(* and back, offsets at the end of the packet.  The scratch words are      *)
(* stored first.                                                           *)
(***************************************************************************)
EXTENDS ServerFilter

Instructions ==
    {Insn("ret_a", "-", 0), Insn("ret_x", "-", 0), Insn("none", "-", 0),
     Insn("ld_abs", "h", 1), Insn("ld_ind", "h", 1), Insn("ldx_msh", "b", 2),
     Insn("ld_len", "-", 0), Insn("ldx_len", "-", 0),
     Insn("ld_imm", "-", WORD - 1), Insn("ldx_imm", "-", 2),
     Insn("ld_mem", "-", 0), Insn("ldx_mem", "-", MEMWORDS - 1),
     Insn("st", "-", MEMWORDS - 1), Insn("stx", "-", 0), Insn("st", "-", MEMWORDS),
     Insn("ja", "-", 1), Insn("ja", "-", WORD - 2),
     Insn("alu_k", "div", 0), Insn("alu_k", "and", 3), Insn("alu_x", "div", 0),
     Insn("neg", "-", 0), Insn("tax", "-", 0), Insn("txa", "-", 0),
     Branch("jmp_k", "jset", 1, 0, 1), Branch("jmp_x", "jge", 0, 2, 0)}

MCPrograms ==
    {<<Insn("st", "-", MEMWORDS - 1), Insn("stx", "-", 0)>> \o f
        \o <<Insn("ret_k", "-", 1)>> : f \in [1 .. 3 -> Instructions]}

MCPackets == {<<>>, <<0, 1, 1>>}
=============================================================================
