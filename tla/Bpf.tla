-------------------------------- MODULE Bpf --------------------------------
(***************************************************************************)
(* The filter virtual machine of the vendored libpcap                      *)
(* (bpf/net/bpf_filter.c): bpf_validate, which install_bpf_program runs on *)
(* the compiled filter, and bpf_filter, which the read path runs on each   *)
(* frame while the kernel is not yet trusted to filter.  One action per    *)
(* group of cases of the switch in bpf_filter.                             *)
(*                                                                         *)
(* An instruction is [op, arg, k, jt, jf]: op is the addressing form, arg  *)
(* the load size, the comparison or the arithmetic operator.  A register   *)
(* is a word 0 .. WORD - 1, which wraps as the u_int32 of the code does;   *)
(* the packet is the captured bytes, buflen of them.                       *)
(***************************************************************************)
EXTENDS Integers, Sequences, FiniteSets, FiniteSetsExt

CONSTANTS WORD,         \* 2^32 in the code: values of a register
          BYTE,         \* 256 in the code: values of a byte
          BITS,         \* number of bits of a register
          MEMWORDS,     \* BPF_MEMWORDS, the scratch memory
          WIRELEN,      \* the length of the packet on the wire
          undef         \* a scratch word nothing has been stored in

ASSUME WordAssumption == WORD \in Nat /\ WORD >= 8 /\ WORD % 2 = 0
ASSUME ByteAssumption == BYTE \in Nat /\ BYTE > 1 /\ BYTE <= WORD
ASSUME MemAssumption == MEMWORDS \in Nat
ASSUME WireAssumption == WIRELEN \in 0 .. WORD - 1
ASSUME UndefAssumption == undef \notin 0 .. WORD - 1

VARIABLES prog,     \* the installed program, a sequence of instructions
          p,        \* the captured bytes
          pc, A, X, mem,
          ret,      \* -1 while the program runs, then its verdict
          read      \* <<first, last>> byte of the last packet load

machine == <<pc, A, X, mem, ret, read>>
bpfvars == <<prog, p, machine>>

Word == 0 .. WORD - 1
RUNNING == -1
ABORTED == -2

Op == {"ret_k", "ret_a", "ret_x", "none", "ld_abs", "ld_ind", "ldx_msh",
       "ld_len", "ldx_len", "ld_imm", "ldx_imm", "ld_mem", "ldx_mem", "st",
       "stx", "ja", "jmp_k", "jmp_x", "alu_k", "alu_x", "neg", "tax", "txa"}
Arg == {"-", "b", "h", "w", "jeq", "jgt", "jge", "jset",
        "add", "sub", "mul", "div", "and", "or", "lsh", "rsh"}
\* A branch offset is a u_char: it never makes a sum in u_int wrap.
Instruction ==
    [op : Op, arg : Arg, k : Word, jt : 0 .. WORD \div 2 - 1, jf : 0 .. WORD \div 2 - 1]

Insn(op, arg, k) == [op |-> op, arg |-> arg, k |-> k, jt |-> 0, jf |-> 0]
Branch(op, arg, k, jt, jf) ==
    [op |-> op, arg |-> arg, k |-> k, jt |-> jt, jf |-> jf]

MemOp == {"ld_mem", "ldx_mem", "st", "stx"}

\* Mutant: a target one instruction behind the program is let through.
TargetOkLate(from, off, len) == (from + off) % WORD <= len

\* from + offset >= len, in u_int arithmetic, rejects a jump.
TargetOk(from, off, len) == (from + off) % WORD < len

\* "ret_x": a code of a class bpf_validate knows and bpf_filter's switch
\* does not; "none": a code of no class it knows.
InsnOk(f, i) ==
    CASE f[i].op = "none"                        -> FALSE
      [] f[i].op \in MemOp                       -> f[i].k < MEMWORDS
      [] f[i].op = "alu_k" /\ f[i].arg = "div"   -> f[i].k # 0
      [] f[i].op = "ja"                          -> TargetOk(i, f[i].k, Len(f))
      [] f[i].op \in {"jmp_k", "jmp_x"}          -> /\ TargetOk(i, f[i].jt, Len(f))
                                                    /\ TargetOk(i, f[i].jf, Len(f))
      [] OTHER                                   -> TRUE

bpf_validate(f) ==
    /\ Len(f) >= 1
    /\ \A i \in 1 .. Len(f) : InsnOk(f, i)
    /\ f[Len(f)].op \in {"ret_k", "ret_a", "ret_x"}

-----------------------------------------------------------------------------
Start ==
    /\ pc = 1 /\ A = 0 /\ X = 0
    /\ mem = [i \in 0 .. MEMWORDS - 1 |-> undef]
    /\ ret = RUNNING
    /\ read = <<0, -1>>

I == prog[pc]
Running(op) == ret = RUNNING /\ I.op = op
Signed(k) == IF k < WORD \div 2 THEN k ELSE k - WORD
buflen == Len(p)

Ret(v) == ret' = v /\ UNCHANGED <<pc, A, X, mem, read>>
Next1 == pc' = pc + 1
SetA(v) == A' = v /\ Next1 /\ UNCHANGED <<X, mem, ret, read>>
SetX(v) == X' = v /\ Next1 /\ UNCHANGED <<A, mem, ret, read>>

RetK == Running("ret_k") /\ Ret(I.k)
RetA == Running("ret_a") /\ Ret(A)
\* default: abort()
Unknown == Running("ret_x") /\ Ret(ABORTED)

\* Mutant: the size of the item is left out of the check.
BeyondStart(k, size) == k >= buflen

\* k >= buflen for a byte; k + sizeof(...) > buflen, where k is an int and
\* the sum wraps, for a half word and a word.
Beyond(k, size) ==
    IF size = 1 THEN k >= buflen ELSE (k + size) % WORD > buflen

Digit(k) == p[k + 1]
Size(arg) == CASE arg = "b" -> 1 [] arg = "h" -> 2 [] OTHER -> 4

\* EXTRACT_SHORT, EXTRACT_LONG: big endian.  What lies outside the captured
\* bytes, where an offset that wrapped reads, may be anything.
Extracted(k, size) ==
    IF Signed(k) < 0 \/ k + size > buflen THEN Word
    ELSE {CASE size = 1 -> Digit(k)
            [] size = 2 -> (BYTE * Digit(k) + Digit(k + 1)) % WORD
            [] OTHER    -> (BYTE * (BYTE * (BYTE * Digit(k) + Digit(k + 1))
                                    + Digit(k + 2)) + Digit(k + 3)) % WORD}

LoadAt(k, size) ==
    \/ Beyond(k, size) /\ Ret(0)
    \/ /\ ~Beyond(k, size)
       /\ A' \in Extracted(k, size)
       /\ read' = <<Signed(k), Signed(k) + size - 1>>
       /\ Next1
       /\ UNCHANGED <<X, mem, ret>>

LdAbs == Running("ld_abs") /\ LoadAt(I.k, Size(I.arg))
\* k = X + pc->k: a sum of two registers that wraps to a word.
LdInd ==
    /\ Running("ld_ind")
    /\ \E k \in {(X + I.k) % WORD} \cap Word : LoadAt(k, Size(I.arg))

\* The length of an IP header: four times the low nibble.
LdxMsh ==
    /\ Running("ldx_msh")
    /\ \/ Beyond(I.k, 1) /\ Ret(0)
       \/ /\ ~Beyond(I.k, 1)
          /\ X' = (4 * (Digit(I.k) % 16)) % WORD
          /\ read' = <<I.k, I.k>>
          /\ Next1
          /\ UNCHANGED <<A, mem, ret>>

LdLen == Running("ld_len") /\ SetA(WIRELEN)
LdxLen == Running("ldx_len") /\ SetX(WIRELEN)
LdImm == Running("ld_imm") /\ SetA(I.k)
LdxImm == Running("ldx_imm") /\ SetX(I.k)

\* mem[] is not initialised: a word nothing was stored in is any value.
Scratch(k) == IF mem[k] = undef THEN Word ELSE {mem[k]}

LdMem == Running("ld_mem") /\ \E v \in Scratch(I.k) : SetA(v)
LdxMem == Running("ldx_mem") /\ \E v \in Scratch(I.k) : SetX(v)

Store(v) == mem' = [mem EXCEPT ![I.k] = v] /\ Next1 /\ UNCHANGED <<A, X, ret, read>>

St == Running("st") /\ Store(A)
Stx == Running("stx") /\ Store(X)

\* The bits of a that are set in b too.
BitAnd(a, b) ==
    LET Set(n) == {i \in 0 .. BITS - 1 : (n \div 2^i) % 2 = 1}
    IN  MapThenSumSet(LAMBDA i : 2^i, Set(a) \cap Set(b))

Holds(cmp, a, b) ==
    CASE cmp = "jeq"  -> a = b
      [] cmp = "jgt"  -> a > b
      [] cmp = "jge"  -> a >= b
      [] cmp = "jset" -> BitAnd(a, b) # 0

Jump(off) == pc' = pc + 1 + off /\ UNCHANGED <<A, X, mem, ret, read>>

\* In user land the offset of a jump is signed: it may go back.
Ja == Running("ja") /\ Jump(Signed(I.k))

JmpK == Running("jmp_k") /\ Jump(IF Holds(I.arg, A, I.k) THEN I.jt ELSE I.jf)
JmpX == Running("jmp_x") /\ Jump(IF Holds(I.arg, A, X) THEN I.jt ELSE I.jf)

\* A shift by the width or more is undefined in C: any word.
Alu(fn, a, b) ==
    CASE fn = "add" -> {(a + b) % WORD}
      [] fn = "sub" -> {(a - b) % WORD}
      [] fn = "mul" -> {(a * b) % WORD}
      [] fn = "div" -> {a \div b}
      [] fn = "and" -> {BitAnd(a, b)}
      [] fn = "or"  -> {(a + b - BitAnd(a, b)) % WORD}
      [] fn = "lsh" -> IF b < BITS THEN {(a * 2^b) % WORD} ELSE Word
      [] fn = "rsh" -> IF b < BITS THEN {a \div 2^b} ELSE Word

AluK == Running("alu_k") /\ \E v \in Alu(I.arg, A, I.k) : SetA(v)

AluX ==
    /\ Running("alu_x")
    /\ IF I.arg = "div" /\ X = 0 THEN Ret(0)
       ELSE \E v \in Alu(I.arg, A, X) : SetA(v)

Neg == Running("neg") /\ SetA((WORD - A) % WORD)
Tax == Running("tax") /\ SetX(A)
Txa == Running("txa") /\ SetA(X)

bpf_filter ==
    /\ UNCHANGED <<prog, p>>
    /\ \/ RetK \/ RetA \/ Unknown
       \/ LdAbs \/ LdInd \/ LdxMsh \/ LdLen \/ LdxLen \/ LdImm \/ LdxImm
       \/ LdMem \/ LdxMem \/ St \/ Stx
       \/ Ja \/ JmpK \/ JmpX \/ AluK \/ AluX \/ Neg \/ Tax \/ Txa
=============================================================================
