---------------------------- MODULE FilterProofs ----------------------------
(***************************************************************************)
(* The filter's two proofs.  First the machine: what bpf_validate promises *)
(* bpf_filter, for every program, every packet and every width of the      *)
(* registers.  Then the compiler: the flow graph gencode.c threads for an  *)
(* expression means that expression, for every expression.                 *)
(***************************************************************************)
EXTENDS BpfRun, Grammar, WellFoundedInduction, TLAPS

Half == WORD \div 2

(* The registers are as wide as twice the length of a program.             *)
LEMMA HalfFacts == Half \in Nat /\ WORD = 2 * Half /\ Half >= 1
BY WordAssumption, SMT DEF Half

(* A sum of two numbers below the width wraps at most once.                *)
LEMMA WrapOnce ==
    ASSUME NEW a \in Nat, NEW b \in Nat, a + b < 2 * WORD
    PROVE  (a + b) % WORD = IF a + b < WORD THEN a + b ELSE a + b - WORD
BY WordAssumption, SMT

(* A target the validator accepts is inside the program.                   *)
LEMMA TargetInside ==
    ASSUME NEW n \in Nat, n < Half, NEW i \in 1 .. n, NEW off \in 0 .. WORD - 1,
           TargetOk(i, off, n)
    PROVE  i + 1 + Signed(off) \in 1 .. n
<1>1. i + off < 2 * WORD
  BY HalfFacts, SMT
<1>2. (i + off) % WORD = IF i + off < WORD THEN i + off ELSE i + off - WORD
  BY <1>1, WrapOnce, WordAssumption, SMT
<1> QED
  BY <1>2, HalfFacts, SMT DEF TargetOk, Signed, Half

-----------------------------------------------------------------------------
(* The inductive invariant: the program is one that was validated, and the *)
(* counter and the scratch memory are where the validator says.            *)
IInv ==
    /\ prog \in Seq(Instruction)
    /\ Len(prog) < Half
    /\ bpf_validate(prog)
    /\ pc \in 1 .. Len(prog)
    /\ DOMAIN mem = 0 .. MEMWORDS - 1

(* What an instruction may do to the counter and the scratch memory.       *)
Keeps == pc' \in 1 .. Len(prog) /\ DOMAIN mem' = DOMAIN mem

(* The instruction at the counter is one of the program's, and passed.     *)
LEMMA Fetched ==
    ASSUME IInv
    PROVE  /\ I \in Instruction
           /\ InsnOk(prog, pc)
           /\ I.op \notin {"ret_k", "ret_a", "ret_x"} => pc + 1 \in 1 .. Len(prog)
<1>1. Len(prog) \in Nat /\ pc \in 1 .. Len(prog)
  BY SMT DEF IInv
<1>2. I \in Instruction
  BY <1>1, SMT DEF IInv, I
<1>3. InsnOk(prog, pc)
  BY <1>1, SMT DEF IInv, bpf_validate
<1>4. pc = Len(prog) => I.op \in {"ret_k", "ret_a", "ret_x"}
  BY <1>1, Zenon DEF IInv, bpf_validate, I
<1> QED
  BY <1>1, <1>2, <1>3, <1>4, SMT

(* An instruction that goes on to the next one.                            *)
LEMMA GoesOn ==
    ASSUME IInv, I.op \notin {"ret_k", "ret_a", "ret_x"}, Next1, UNCHANGED mem
    PROVE  Keeps
BY Fetched, SMT DEF Next1, Keeps

(* An instruction that ends the program.                                   *)
LEMMA Ends ==
    ASSUME IInv, NEW v, Ret(v)
    PROVE  Keeps
BY SMT DEF IInv, Ret, Keeps

(* A packet load does either.                                              *)
LEMMA Loads ==
    ASSUME IInv, NEW k, NEW size, LoadAt(k, size),
           I.op \notin {"ret_k", "ret_a", "ret_x"}
    PROVE  Keeps
<1>1. CASE Ret(0)
  BY <1>1, Ends
<1>2. CASE Next1 /\ UNCHANGED mem
  BY <1>2, GoesOn
<1> QED
  BY <1>1, <1>2, Zenon DEF LoadAt

(* A jump the validator passed lands inside the program: a conditional one *)
(* forwards, an unconditional one in either direction.                     *)
LEMMA Jumps ==
    ASSUME IInv, Ja \/ JmpK \/ JmpX
    PROVE  Keeps
<1>1. Len(prog) \in Nat /\ Len(prog) < Half /\ pc \in 1 .. Len(prog)
  BY SMT DEF IInv
<1>2. I \in Instruction /\ InsnOk(prog, pc)
  BY Fetched
<1>3. I.k \in 0 .. WORD - 1 /\ I.jt \in 0 .. Half - 1 /\ I.jf \in 0 .. Half - 1
  BY <1>2, SMT DEF Instruction, Word, Half
<1>4. CASE Ja
  <2>1. TargetOk(pc, I.k, Len(prog))
    BY <1>2, <1>4, Zenon DEF InsnOk, Ja, Running, I, MemOp
  <2>2. pc + 1 + Signed(I.k) \in 1 .. Len(prog)
    BY <1>1, <1>3, <2>1, TargetInside
  <2>3. pc' = pc + 1 + Signed(I.k) /\ mem' = mem
    BY <1>4, Zenon DEF Ja, Jump
  <2> QED
    BY <2>2, <2>3, Zenon DEF Keeps
<1>5. CASE JmpK \/ JmpX
  <2>1. TargetOk(pc, I.jt, Len(prog)) /\ TargetOk(pc, I.jf, Len(prog))
    BY <1>2, <1>5, Zenon DEF InsnOk, JmpK, JmpX, Running, I, MemOp
  <2>2. Signed(I.jt) = I.jt /\ Signed(I.jf) = I.jf
    BY <1>3, HalfFacts, SMT DEF Signed, Half
  <2>3. I.jt \in 0 .. WORD - 1 /\ I.jf \in 0 .. WORD - 1
    BY <1>3, HalfFacts, SMT
  <2>4. pc + 1 + I.jt \in 1 .. Len(prog) /\ pc + 1 + I.jf \in 1 .. Len(prog)
    <3>1. pc + 1 + Signed(I.jt) \in 1 .. Len(prog)
      BY <1>1, <2>1, <2>3, TargetInside
    <3>2. pc + 1 + Signed(I.jf) \in 1 .. Len(prog)
      BY <1>1, <2>1, <2>3, TargetInside
    <3> QED
      BY <2>2, <3>1, <3>2, Zenon
  <2>5. mem' = mem /\ (pc' = pc + 1 + I.jt \/ pc' = pc + 1 + I.jf)
    BY <1>5, Zenon DEF JmpK, JmpX, Jump
  <2> QED
    BY <2>4, <2>5, Zenon DEF Keeps
<1> QED
  BY <1>4, <1>5

(* Every step of bpf_filter keeps the counter inside.                      *)
LEMMA Steps ==
    ASSUME IInv, bpf_filter
    PROVE  Keeps
<1>1. CASE RetK \/ RetA \/ Unknown
  BY <1>1, Ends, Zenon DEF RetK, RetA, Unknown
<1>2. CASE LdAbs \/ LdInd
  <2>1. \E k, size : LoadAt(k, size)
    BY <1>2, Zenon DEF LdAbs, LdInd
  <2>2. I.op \notin {"ret_k", "ret_a", "ret_x"}
    BY <1>2, Zenon DEF LdAbs, LdInd, Running
  <2> QED
    BY <2>1, <2>2, Loads
<1>3. CASE LdxMsh
  <2>1. I.op \notin {"ret_k", "ret_a", "ret_x"}
    BY <1>3, Zenon DEF LdxMsh, Running
  <2>2. Ret(0) \/ (Next1 /\ UNCHANGED mem)
    BY <1>3, Zenon DEF LdxMsh
  <2> QED
    BY <2>1, <2>2, Ends, GoesOn
<1>4. CASE LdLen \/ LdxLen \/ LdImm \/ LdxImm \/ LdMem \/ LdxMem \/ Neg \/ Tax \/ Txa
  <2>1. I.op \notin {"ret_k", "ret_a", "ret_x"}
    BY <1>4, Zenon DEF LdLen, LdxLen, LdImm, LdxImm, LdMem, LdxMem, Neg, Tax,
       Txa, Running
  <2>2. Next1 /\ UNCHANGED mem
    BY <1>4, Zenon DEF LdLen, LdxLen, LdImm, LdxImm, LdMem, LdxMem, Neg, Tax,
       Txa, SetA, SetX
  <2> QED
    BY <2>1, <2>2, GoesOn
<1>5. CASE AluK \/ AluX
  <2>1. I.op \notin {"ret_k", "ret_a", "ret_x"}
    BY <1>5, Zenon DEF AluK, AluX, Running
  <2>2. Ret(0) \/ (Next1 /\ UNCHANGED mem)
    BY <1>5, Zenon DEF AluK, AluX, SetA
  <2> QED
    BY <2>1, <2>2, Ends, GoesOn
<1>6. CASE St \/ Stx
  <2>1. I.op \notin {"ret_k", "ret_a", "ret_x"}
    BY <1>6, Zenon DEF St, Stx, Running
  <2>2. pc' = pc + 1
    BY <1>6, Zenon DEF St, Stx, Store, Next1
  <2>3. DOMAIN mem' = DOMAIN mem
    BY <1>6, SMT DEF St, Stx, Store
  <2> QED
    BY <2>1, <2>2, <2>3, Fetched, Zenon DEF Keeps
<1>7. CASE Ja \/ JmpK \/ JmpX
  BY <1>7, Jumps
<1> QED
  BY <1>1, <1>2, <1>3, <1>4, <1>5, <1>6, <1>7, Zenon DEF bpf_filter

(* install_bpf_program has let the program through.                        *)
LEMMA InitValid == BpfInit => IInv
<1> SUFFICES ASSUME BpfInit PROVE IInv
  OBVIOUS
<1>1. prog \in Seq(Instruction) /\ Len(prog) < Half /\ bpf_validate(prog)
  BY ProgramsAssumption, Zenon DEF BpfInit, Half
<1>2. Len(prog) >= 1 /\ Len(prog) \in Nat
  BY <1>1, SMT DEF bpf_validate
<1>3. pc = 1 /\ DOMAIN mem = 0 .. MEMWORDS - 1
  BY SMT DEF BpfInit, Start
<1> QED
  BY <1>1, <1>2, <1>3, SMT DEF IInv

(* A step of bpf_filter keeps it valid, and the counter inside.            *)
LEMMA StepValid == IInv /\ [bpf_filter]_bpfvars => IInv'
<1> SUFFICES ASSUME IInv, [bpf_filter]_bpfvars PROVE IInv'
  OBVIOUS
<1>1. CASE bpf_filter
  <2>1. Keeps /\ prog' = prog
    BY <1>1, Steps, Zenon DEF bpf_filter
  <2>2. bpf_validate(prog)' <=> bpf_validate(prog)
    BY <2>1, Zenon DEF bpf_validate, InsnOk, TargetOk, MemOp
  <2> QED
    BY <2>1, <2>2, Zenon DEF IInv, Keeps
<1>2. CASE UNCHANGED bpfvars
  <2>1. prog' = prog /\ pc' = pc /\ mem' = mem
    BY <1>2, Zenon DEF bpfvars, machine
  <2>2. bpf_validate(prog)' <=> bpf_validate(prog)
    BY <2>1, Zenon DEF bpf_validate, InsnOk, TargetOk, MemOp
  <2> QED
    BY <2>1, <2>2, Zenon DEF IInv
<1> QED
  BY <1>1, <1>2

(* bpf_validate is enough for bpf_filter: whatever the program, the packet *)
(* and the width of the registers, no instruction is fetched outside the   *)
(* program, no scratch word touched that does not exist, nothing divided   *)
(* by a constant zero - also with the backward jumps of user land.         *)
THEOREM ValidatedConfined == BpfSpec => []Confined
<1>1. IInv => Confined
  <2> SUFFICES ASSUME IInv PROVE Confined
    OBVIOUS
  <2>1. I \in Instruction /\ InsnOk(prog, pc)
    BY Fetched
  <2>2. I.op \in MemOp => I.k < MEMWORDS
    BY <2>1, Zenon DEF InsnOk, I, MemOp
  <2>3. I.op = "alu_k" /\ I.arg = "div" => I.k # 0
    BY <2>1, Zenon DEF InsnOk, I, MemOp
  <2>4. I.k \in Nat
    BY <2>1, WordAssumption, SMT DEF Instruction, Word
  <2>5. I.op \in MemOp => I.k \in DOMAIN mem
    BY <2>2, <2>4, MemAssumption, SMT DEF IInv
  <2> QED
    BY <2>3, <2>5, Zenon DEF IInv, Confined
<1> QED
  BY <1>1, InitValid, StepValid, PTL DEF BpfSpec

-----------------------------------------------------------------------------
(* A load that passes its check ends inside the captured bytes, or, where  *)
(* the sum wrapped, right before them.                                     *)
LEMMA CheckedLoad ==
    ASSUME NEW k \in Word, NEW size \in {1, 2, 4}, buflen \in Nat, buflen < Half,
           ~Beyond(k, size)
    PROVE  Signed(k) + size - 1 < buflen /\ Signed(k) + size - 1 >= -1
<1>1. WORD \in Nat /\ WORD >= 8 /\ WORD = 2 * Half /\ Half \in Nat
  BY WordAssumption, HalfFacts, SMT
<1>2. CASE size = 1
  <2>1. k < buflen
    BY <1>2, SMT DEF Beyond, Word
  <2> QED
    BY <1>1, <1>2, <2>1, SMT DEF Signed, Half, Word
<1>3. CASE size # 1
  <2>1. ~((k + size) % WORD > buflen)
    BY <1>3, SMT DEF Beyond
  <2>2. k \in Nat /\ k < WORD /\ size \in Nat /\ k + size < 2 * WORD
    BY <1>1, SMT DEF Word
  <2>3. (k + size) % WORD = IF k + size < WORD THEN k + size ELSE k + size - WORD
    BY <2>2, WrapOnce
  <2>4. Signed(k) = IF k < Half THEN k ELSE k - WORD
    BY SMT DEF Signed, Half
  <2>5. CASE k + size < WORD
    <3>1. k + size <= buflen
      BY <2>1, <2>2, <2>3, <2>5, SMT
    <3> QED
      BY <1>1, <2>2, <2>4, <3>1, SMT
  <2>6. CASE ~(k + size < WORD)
    <3>1. k + size - WORD <= buflen
      BY <1>1, <2>1, <2>2, <2>3, <2>6, SMT
    <3>2. ~(k < Half)
      BY <1>1, <2>2, <2>6, SMT
    <3> QED
      BY <1>1, <2>2, <2>4, <2>6, <3>1, <3>2, SMT
  <2> QED
    BY <2>5, <2>6
<1> QED
  BY <1>2, <1>3

(* What the loads rely on: the program is one of words, and the packet is  *)
(* shorter than the largest offset.                                        *)
LoadInv ==
    /\ IInv
    /\ buflen \in Nat /\ buflen < Half
    /\ EndsInside

(* LoadAt checks what it reads.                                            *)
LEMMA LoadChecked ==
    ASSUME LoadInv, NEW k \in Word, NEW arg, LoadAt(k, Size(arg)), p' = p
    PROVE  EndsInside'
<1>1. Size(arg) \in {1, 2, 4}
  BY Zenon DEF Size
<1>2. CASE Beyond(k, Size(arg)) /\ Ret(0)
  BY <1>2, Zenon DEF Ret, LoadInv, EndsInside, buflen
<1>3. CASE ~Beyond(k, Size(arg)) /\ read' = <<Signed(k), Signed(k) + Size(arg) - 1>>
  <2>1. /\ Signed(k) + Size(arg) - 1 < buflen
        /\ Signed(k) + Size(arg) - 1 >= -1
    BY <1>1, <1>3, CheckedLoad DEF LoadInv
  <2>2. read'[1] = Signed(k) /\ read'[2] = Signed(k) + Size(arg) - 1
    BY <1>3, SMT
  <2> QED
    BY <2>1, <2>2, Zenon DEF EndsInside, buflen
<1> QED
  BY <1>2, <1>3, Zenon DEF LoadAt

(* What the run-time check of the loads guarantees, whatever the validated *)
(* program, the packet and the width of the registers: no load ends behind *)
(* the captured bytes, and one whose sum wrapped reaches their beginning.  *)
(* That none begins before them (LoadsInside) is not true.                 *)
THEOREM LoadsEndInside == BpfSpec => []EndsInside
<1>1. BpfInit => LoadInv
  <2> SUFFICES ASSUME BpfInit PROVE LoadInv
    OBVIOUS
  <2>1. p \in Seq(0 .. BYTE - 1) /\ Len(p) < Half
    BY PacketsAssumption, Zenon DEF BpfInit, Half
  <2>2. buflen \in Nat /\ buflen < Half
    BY <2>1, SMT DEF buflen
  <2>3. read[1] = 0 /\ read[2] = -1
    BY SMT DEF BpfInit, Start
  <2>4. EndsInside
    BY <2>2, <2>3, SMT DEF EndsInside
  <2> QED
    BY <2>2, <2>4, InitValid DEF LoadInv
<1>2. LoadInv /\ [bpf_filter]_bpfvars => LoadInv'
  <2> SUFFICES ASSUME LoadInv, [bpf_filter]_bpfvars PROVE LoadInv'
    OBVIOUS
  <2>1. IInv'
    BY StepValid DEF LoadInv
  <2>2. p' = p
    BY Zenon DEF bpf_filter, bpfvars
  <2>3. I \in Instruction /\ I.k \in Word
    BY Fetched, SMT DEF LoadInv, Instruction
  <2>4. EndsInside'
    <3>1. CASE read' = read
      BY <2>2, <3>1, Zenon DEF LoadInv, EndsInside, buflen
    <3>2. CASE LdAbs
      BY <2>2, <2>3, <3>2, LoadChecked, Zenon DEF LdAbs
    <3>3. CASE LdInd
      <4>1. PICK k \in Word : LoadAt(k, Size(I.arg))
        BY <3>3, Zenon DEF LdInd
      <4> QED
        BY <2>2, <4>1, LoadChecked, Zenon
    <3>4. CASE LdxMsh /\ read' # read
      <4>1. ~Beyond(I.k, 1) /\ read' = <<I.k, I.k>>
        BY <3>4, Zenon DEF LdxMsh, Ret
      <4>2. I.k \in Nat /\ I.k < buflen
        BY <2>3, <4>1, SMT DEF Beyond, Word, LoadInv
      <4>3. read'[1] = I.k /\ read'[2] = I.k
        BY <4>1, SMT
      <4>4. read'[2] < buflen /\ read'[2] >= -1
        BY <4>2, <4>3, SMT
      <4> QED
        BY <2>2, <4>4, Zenon DEF EndsInside, buflen
    <3>5. CASE RetK \/ RetA \/ Unknown \/ LdLen \/ LdxLen \/ LdImm \/ LdxImm
                 \/ LdMem \/ LdxMem \/ St \/ Stx
      BY <3>1, <3>5, Zenon DEF RetK, RetA, Unknown, LdLen, LdxLen, LdImm,
         LdxImm, LdMem, LdxMem, St, Stx, Ret, SetA, SetX, Store
    <3>6. CASE Ja \/ JmpK \/ JmpX \/ AluK \/ AluX \/ Neg \/ Tax \/ Txa
      BY <3>1, <3>6, Zenon DEF Ja, JmpK, JmpX, AluK, AluX, Neg, Tax, Txa, Ret,
         Jump, SetA, SetX
    <3>7. CASE UNCHANGED bpfvars
      BY <3>1, <3>7, Zenon DEF bpfvars, machine
    <3> QED
      BY <3>1, <3>2, <3>3, <3>4, <3>5, <3>6, <3>7, Zenon DEF bpf_filter
  <2> QED
    BY <2>1, <2>2, <2>4, Zenon DEF LoadInv, buflen, Half
<1>3. LoadInv => EndsInside
  BY DEF LoadInv
<1> QED
  BY <1>1, <1>2, <1>3, PTL DEF BpfSpec

-----------------------------------------------------------------------------
(* The flow graph.  Numbers first: least and greatest elements stand in    *)
(* for induction, and the blocks a pointer leads to form a chain.          *)

(* Every non-empty set of numbers has a least element.                     *)
LEMMA Least ==
    ASSUME NEW T, T \subseteq Nat, T # {}
    PROVE  \E x \in T : \A y \in T : x <= y
<1> DEFINE R == OpToRel(<, Nat)
<1>1. IsWellFoundedOn(R, Nat)
  BY NatLessThanWellFounded
<1>2. \A x, y \in Nat : x < y => <<x, y>> \in R
  BY DEF OpToRel
<1> HIDE DEF R
<1>3. PICK x \in T : \A y \in T : ~(<<y, x>> \in R)
  BY <1>1, WFMin
<1>4. \A y \in T : x \in Nat /\ y \in Nat /\ ~(y < x)
  BY <1>2, <1>3
<1>5. \A y \in T : x <= y
  BY <1>4
<1> QED
  BY <1>5

(* Every non-empty set of numbers up to n has a greatest element.          *)
LEMMA Greatest ==
    ASSUME NEW n \in Nat, NEW T, T \subseteq 0 .. n, T # {}
    PROVE  \E x \in T : \A y \in T : y <= x
<1> DEFINE D == {n - x : x \in T}
<1>1. D \subseteq Nat /\ D # {}
  <2>1. \A x \in T : n - x \in Nat
    OBVIOUS
  <2>2. PICK x \in T : TRUE
    OBVIOUS
  <2>3. n - x \in D
    BY <2>2
  <2> QED
    BY <2>1, <2>3
<1>2. PICK d \in D : \A e \in D : d <= e
  BY <1>1, Least
<1>3. PICK x \in T : d = n - x
  BY <1>2
<1>4. \A y \in T : n - x <= n - y
  BY <1>2, <1>3
<1> QED
  BY <1>3, <1>4

-----------------------------------------------------------------------------
(* The chain of pointers that begins at a, as far as k steps.              *)
StepOf(next, x) == IF x = Null THEN Null ELSE next[x]
IsChain(f, next, a, k) ==
    f = [n \in 0 .. k |-> IF n = 0 THEN a ELSE StepOf(next, f[n - 1])]

(* The chain exists, however long.                                         *)
LEMMA ChainExists ==
    ASSUME NEW next, NEW a, NEW k \in Nat
    PROVE  \E f : IsChain(f, next, a, k)
<1> DEFINE T == {n \in Nat : ~\E f : IsChain(f, next, a, n)}
<1> SUFFICES ASSUME T # {} PROVE FALSE
  OBVIOUS
<1>1. T \subseteq Nat
  OBVIOUS
<1>2. PICK m \in T : \A y \in T : m <= y
  BY <1>1, Least
<1>3. m \in Nat /\ ~\E f : IsChain(f, next, a, m)
  BY <1>2
<1>4. CASE m = 0
  <2> DEFINE g == [n \in 0 .. 0 |-> a]
  <2>1. IsChain(g, next, a, 0)
    BY DEF IsChain
  <2> QED
    BY <2>1, <1>3, <1>4
<1>5. CASE m # 0
  <2>1. m - 1 \in Nat /\ m - 1 \notin T
    BY <1>2, <1>3, <1>5
  <2>2. PICK f : IsChain(f, next, a, m - 1)
    BY <2>1
  <2> DEFINE g == [n \in 0 .. m |-> IF n = m THEN StepOf(next, f[m - 1]) ELSE f[n]]
  <2>3. ASSUME NEW n \in 0 .. m
        PROVE  g[n] = IF n = 0 THEN a ELSE StepOf(next, g[n - 1])
    <3>1. CASE n = m
      <4>1. g[n - 1] = f[m - 1]
        BY <3>1, <1>3, <1>5
      <4> QED
        BY <4>1, <3>1, <1>5
    <3>2. CASE n # m
      <4>1. n \in 0 .. m - 1
        BY <3>2, <1>3
      <4>2. f[n] = IF n = 0 THEN a ELSE StepOf(next, f[n - 1])
        BY <2>2, <4>1 DEF IsChain
      <4>3. g[n] = f[n]
        BY <3>2
      <4>4. n # 0 => g[n - 1] = f[n - 1]
        BY <4>1, <1>3
      <4> QED
        BY <4>2, <4>3, <4>4
    <3> QED
      BY <3>1, <3>2
  <2>4. g = [n \in 0 .. m |-> g[n]]
    OBVIOUS
  <2> HIDE DEF g
  <2>5. IsChain(g, next, a, m)
    BY <2>3, <2>4 DEF IsChain
  <2> QED
    BY <2>5, <1>3
<1> QED
  BY <1>4, <1>5

(* What Follow computes: the members of that chain.                        *)
LEMMA FollowIsChain ==
    ASSUME NEW next, Len(next) \in Nat, NEW a
    PROVE  \E f : /\ IsChain(f, next, a, Len(next))
                  /\ Follow(next, a) = {f[n] : n \in 0 .. Len(next)} \ {Null}
<1> DEFINE C(f) == f = [n \in 0 .. Len(next) |->
                         IF n = 0 THEN a
                         ELSE IF f[n - 1] = Null THEN Null ELSE next[f[n - 1]]]
           at == CHOOSE f : C(f)
<1>1. PICK f : IsChain(f, next, a, Len(next))
  BY ChainExists
<1>2. C(f)
  BY <1>1 DEF IsChain, StepOf
<1> HIDE DEF C
<1>3. C(at)
  BY <1>2
<1>4. IsChain(at, next, a, Len(next))
  BY <1>3 DEF C, IsChain, StepOf
<1>5. Follow(next, a) = {at[n] : n \in 0 .. Len(next)} \ {Null}
  BY DEF Follow, at, C
<1> QED
  BY <1>4, <1>5

(* Pointers that stay in S and lower a rank.                               *)
Descent(next, N, S, rank) ==
    /\ N \in Nat /\ Len(next) = N
    /\ S \subseteq 1 .. N
    /\ rank \in [1 .. N -> 0 .. N - 1]
    /\ \A x \in S : /\ next[x] \in S \cup {Null}
                    /\ next[x] # Null => rank[next[x]] < rank[x]

(* What is met when they are followed from a member of S is in S and is    *)
(* closed under the pointers.                                              *)
LEMMA FollowLemma ==
    ASSUME NEW next, NEW N, NEW S, NEW rank, NEW a \in S,
           Descent(next, N, S, rank)
    PROVE  /\ a \in Follow(next, a)
           /\ Follow(next, a) \subseteq S
           /\ \A x \in Follow(next, a) : next[x] \in Follow(next, a) \cup {Null}
<1> USE DEF Descent
<1>1. PICK f : /\ IsChain(f, next, a, N)
               /\ Follow(next, a) = {f[n] : n \in 0 .. N} \ {Null}
  <2>1. Len(next) \in Nat
    OBVIOUS
  <2>2. PICK f : /\ IsChain(f, next, a, Len(next))
                 /\ Follow(next, a) = {f[n] : n \in 0 .. Len(next)} \ {Null}
    BY <2>1, FollowIsChain
  <2> HIDE DEF Follow, IsChain
  <2> QED
    BY <2>2
<1>2. /\ f[0] = a
      /\ \A n \in 0 .. N : n # 0 => f[n] = StepOf(next, f[n - 1])
  BY <1>1 DEF IsChain
<1>3. Null \notin S
  BY DEF Null
<1> DEFINE Good(n) == \/ f[n] = Null
                      \/ f[n] \in S /\ rank[f[n]] <= N - 1 - n
           T == {n \in 0 .. N : ~Good(n)}
<1>4. T = {}
  <2> SUFFICES ASSUME T # {} PROVE FALSE
    OBVIOUS
  <2>1. T \subseteq Nat
    OBVIOUS
  <2>2. PICK m \in T : \A y \in T : m <= y
    BY <2>1, Least
  <2>3. m \in 0 .. N /\ ~Good(m)
    BY <2>2
  <2>4. m # 0
    <3>1. rank[a] \in 0 .. N - 1
      OBVIOUS
    <3>2. Good(0)
      BY <1>2, <3>1
    <3> QED
      BY <3>2, <2>3
  <2>5. m - 1 \in 0 .. N /\ Good(m - 1)
    BY <2>2, <2>3, <2>4
  <2>6. f[m] = StepOf(next, f[m - 1])
    BY <1>2, <2>3, <2>4
  <2>7. CASE f[m - 1] = Null
    BY <2>3, <2>6, <2>7 DEF StepOf
  <2>8. CASE f[m - 1] # Null
    <3> DEFINE x == f[m - 1]
    <3>1. x \in S /\ rank[x] <= N - 1 - (m - 1)
      BY <2>5, <2>8
    <3>2. f[m] = next[x] /\ f[m] # Null
      BY <2>3, <2>6, <2>8 DEF StepOf
    <3> HIDE DEF x
    <3>3. f[m] \in S /\ rank[f[m]] < rank[x]
      BY <3>1, <3>2
    <3>4. rank[f[m]] \in Int /\ rank[x] \in Int
      <4>1. f[m] \in 1 .. N /\ x \in 1 .. N
        BY <3>1, <3>3
      <4>2. \A y \in 1 .. N : rank[y] \in Int
        OBVIOUS
      <4> QED
        BY <4>1, <4>2
    <3>5. rank[f[m]] <= N - 1 - m
      BY <3>1, <3>3, <3>4, <2>3
    <3> QED
      BY <3>3, <3>5, <2>3
  <2> QED
    BY <2>7, <2>8
<1>5. \A n \in 0 .. N : Good(n)
  BY <1>4
<1>6. a \in Follow(next, a)
  BY <1>1, <1>2, <1>3
<1>7. Follow(next, a) \subseteq S
  BY <1>1, <1>5
<1>8. ASSUME NEW x \in Follow(next, a)
      PROVE  next[x] \in Follow(next, a) \cup {Null}
  <2>1. PICK n \in 0 .. N : x = f[n]
    BY <1>1
  <2>2. x # Null /\ x \in S
    BY <1>1, <1>7
  <2>3. rank[x] <= N - 1 - n /\ rank[x] \in 0 .. N - 1
    BY <1>5, <2>1, <2>2
  <2>4. n + 1 \in 0 .. N /\ n + 1 # 0 /\ n + 1 - 1 = n
    BY <2>3
  <2>5. f[n + 1] = StepOf(next, f[n])
    BY <1>2, <2>4
  <2>6. next[x] = f[n + 1]
    BY <2>1, <2>2, <2>5 DEF StepOf
  <2> QED
    BY <1>1, <2>4, <2>6
<1> QED
  BY <1>6, <1>7, <1>8

-----------------------------------------------------------------------------
Code == [op : Op, arg : Arg, k : Nat, jt : Nat, jf : Nat]
Block == [stmts : Seq(Code), s : Code, sense : BOOLEAN, jt : Nat, jf : Nat,
          head : Nat, longjt : Nat, longjf : Nat, offset : Nat]
Heap == Seq(Block)

(* The edge of a block that is not the link of a list.                     *)
Other(h, k) == IF h[k].sense THEN h[k].jt ELSE h[k].jf

(* Whether a packet leaves a block by the link.                            *)
ByLink(h, k, q) ==
    IF h[k].sense THEN ~(q[h[k].stmts[1].k + 1] = 1)
    ELSE q[h[k].stmts[1].k + 1] = 1

(* M is the list that begins in block b and goes on with first: each link  *)
(* leads to a lower member, and each member is reached.                    *)
Threaded(h, lo, b, first, M) ==
    /\ b \in M /\ M \subseteq lo .. b
    /\ first \in (M \ {b}) \cup {Null}
    /\ \A x \in M \ {b} : /\ Link(h, x) \in (M \ {b}) \cup {Null}
                          /\ Link(h, x) < x
    /\ \A x \in M \ {b} : x = first \/ \E y \in M \ {b} : Link(h, y) = x

(* ListOf finds the members of such a list.                                *)
LEMMA ListIs ==
    ASSUME NEW h, Len(h) \in Nat, NEW lo \in Nat \ {0}, NEW b \in lo .. Len(h), NEW M,
           Threaded(h, lo, b, Link(h, b), M)
    PROVE  ListOf(h, b) = M
<1> DEFINE N == Len(h)
           next == [k \in 1 .. N |-> Link(h, k)]
           rank == [k \in 1 .. N |-> k - 1]
           R == Follow(next, b)
<1>1. N \in Nat /\ Len(next) = N
  OBVIOUS
<1>2. /\ M \subseteq 1 .. N /\ b \in M
      /\ \A x \in M : x <= b
  BY DEF Threaded
<1>3. rank \in [1 .. N -> 0 .. N - 1]
  OBVIOUS
<1>4. \A x \in M : next[x] = Link(h, x)
  BY <1>2
<1>5. \A x \in M : Link(h, x) \in (M \ {b}) \cup {Null} /\ Link(h, x) < x
  <2>1. Link(h, b) \in (M \ {b}) \cup {Null}
    BY DEF Threaded
  <2>2. \A x \in M \ {b} : x < b
    BY <1>2
  <2>3. Link(h, b) < b
    BY <2>1, <2>2 DEF Null
  <2> QED
    BY <2>1, <2>3 DEF Threaded
<1>6. \A x \in M : /\ next[x] \in M \cup {Null}
                   /\ next[x] # Null => rank[next[x]] < rank[x]
  <2> SUFFICES ASSUME NEW x \in M
               PROVE  /\ next[x] \in M \cup {Null}
                      /\ next[x] # Null => rank[next[x]] < rank[x]
    OBVIOUS
  <2>1. next[x] = Link(h, x) /\ Link(h, x) \in M \cup {Null} /\ Link(h, x) < x
    BY <1>4, <1>5
  <2>2. Link(h, x) # Null => Link(h, x) \in 1 .. N
    BY <2>1, <1>2
  <2>3. x \in 1 .. N
    BY <1>2
  <2> HIDE DEF next
  <2> QED
    BY <2>1, <2>2, <2>3
<1> HIDE DEF next, rank, N
<1>7. /\ b \in R /\ R \subseteq M
      /\ \A x \in R : next[x] \in R \cup {Null}
  <2>1. Descent(next, N, M, rank)
    BY <1>1, <1>2, <1>3, <1>6 DEF Descent
  <2> QED
    BY <2>1, <1>2, FollowLemma
<1>8. M \subseteq R
  <2> DEFINE T == M \ R
  <2> SUFFICES ASSUME T # {} PROVE FALSE
    OBVIOUS
  <2>1. T \subseteq 0 .. N
    <3>1. \A x \in 1 .. N : x \in 0 .. N
      BY <1>1
    <3> QED
      BY <3>1, <1>2
  <2>2. PICK x \in T : \A y \in T : y <= x
    BY <1>1, <2>1, Greatest
  <2>3. x \in M \ {b} /\ x \notin R
    BY <1>7
  <2>4. PICK y \in M : Link(h, y) = x
    BY <2>3, <1>2 DEF Threaded
  <2>5. x < y
    BY <2>4, <1>5
  <2>6. y \in R
    BY <2>2, <2>4, <2>5, <1>1, <1>2
  <2>7. next[y] = x
    BY <2>4, <1>4
  <2>8. x \in R \cup {Null}
    BY <2>6, <2>7, <1>7
  <2>9. x # Null
    BY <2>3, <1>2 DEF Null
  <2> QED
    BY <2>3, <2>8, <2>9
<1> QED
  BY <1>7, <1>8 DEF ListOf, next, N

-----------------------------------------------------------------------------
(* g has the edges, the test and the head of h at block k.                 *)
Alike(h, g, k) ==
    /\ Link(g, k) = Link(h, k)
    /\ Other(g, k) = Other(h, k)
    /\ \A q : ByLink(g, k, q) <=> ByLink(h, k, q)
    /\ g[k].head = h[k].head

(* g is h with the two edges of block b exchanged.                         *)
Flipped(h, g, b) ==
    /\ g \in Heap /\ Len(g) = Len(h)
    /\ \A k \in 1 .. Len(h) : k # b => Alike(h, g, k)
    /\ Link(g, b) = Other(h, b)
    /\ Other(g, b) = Link(h, b)
    /\ \A q : ByLink(g, b, q) <=> ~ByLink(h, b, q)
    /\ g[b].head = h[b].head

(* g is h with the links of the blocks in S leading to t.                  *)
Repointed(h, g, S, t) ==
    /\ g \in Heap /\ Len(g) = Len(h)
    /\ \A k \in 1 .. Len(h) : k \notin S => Alike(h, g, k)
    /\ \A k \in S : /\ Link(g, k) = t
                    /\ Other(g, k) = Other(h, k)
                    /\ \A q : ByLink(g, k, q) <=> ByLink(h, k, q)
                    /\ g[k].head = h[k].head

(* Equal blocks are alike.                                                 *)
LEMMA AlikeEqual ==
    ASSUME NEW h, NEW g, NEW k, g[k] = h[k]
    PROVE  Alike(h, g, k)
BY DEF Alike, Link, Other, ByLink

(* Negating sense exchanges the edges, and doing it twice does nothing     *)
(* (gencode.c, line 639).                                                  *)
LEMMA FlipLemma ==
    ASSUME NEW h \in Heap, NEW b \in 1 .. Len(h)
    PROVE  /\ Flipped(h, Flip(h, b), b)
           /\ Flip(Flip(h, b), b) = h
<1> DEFINE g == Flip(h, b)
<1>1. h[b] \in Block /\ h[b].sense \in BOOLEAN
  <2>1. h[b] \in Block
    BY DEF Heap
  <2> QED
    BY <2>1 DEF Block
<1>2. g \in Heap /\ Len(g) = Len(h) /\ DOMAIN g = 1 .. Len(h)
  <2> DEFINE new == [h[b] EXCEPT !.sense = ~@]
  <2>1. new \in Block
    BY <1>1 DEF Block
  <2>2. g = [h EXCEPT ![b] = new]
    BY DEF Flip
  <2> HIDE DEF new, g
  <2> QED
    BY <2>1, <2>2 DEF Heap
<1>3. \A k \in 1 .. Len(h) : k # b => g[k] = h[k]
  BY DEF Flip, Heap
<1>4. g[b] = [h[b] EXCEPT !.sense = ~@]
  BY DEF Flip, Heap
<1>5. /\ g[b].sense = ~h[b].sense /\ g[b].jt = h[b].jt /\ g[b].jf = h[b].jf
      /\ g[b].stmts = h[b].stmts /\ g[b].head = h[b].head
  BY <1>1, <1>4 DEF Block
<1>6. Flipped(h, g, b)
  <2>1. \A k \in 1 .. Len(h) : k # b => Alike(h, g, k)
    BY <1>3, AlikeEqual
  <2> HIDE DEF g
  <2>2. Link(g, b) = Other(h, b) /\ Other(g, b) = Link(h, b)
    BY <1>1, <1>5 DEF Link, Other
  <2>3. \A q : ByLink(g, b, q) <=> ~ByLink(h, b, q)
    BY <1>1, <1>5 DEF ByLink
  <2> QED
    BY <2>1, <2>2, <2>3, <1>2, <1>5 DEF Flipped
<1>7. Flip(g, b) = h
  <2>1. [g[b] EXCEPT !.sense = ~@] = h[b]
    BY <1>1, <1>4 DEF Block
  <2>2. \A k \in 1 .. Len(h) : Flip(g, b)[k] = h[k]
    BY <2>1, <1>2, <1>3 DEF Flip
  <2>3. Flip(g, b) \in [1 .. Len(h) -> Block]
    BY <2>1, <1>1, <1>2 DEF Flip, Heap
  <2>4. h \in [1 .. Len(h) -> Block]
    BY DEF Heap
  <2> QED
    BY <2>2, <2>3, <2>4
<1> QED
  BY <1>6, <1>7

(* A block with its link set (gencode.c, lines 542 to 549).                *)
LEMMA LinkedLemma ==
    ASSUME NEW block \in Block, NEW t \in Nat
    PROVE  LET new == Linked(block, t)
           IN  /\ new \in Block
               /\ new.sense = block.sense /\ new.stmts = block.stmts
               /\ new.head = block.head
               /\ IF block.sense THEN new.jf = t /\ new.jt = block.jt
                                 ELSE new.jt = t /\ new.jf = block.jf
<1>1. block.sense \in BOOLEAN
  BY DEF Block
<1>2. CASE block.sense
  BY <1>2 DEF Linked, Block
<1>3. CASE ~block.sense
  BY <1>3 DEF Linked, Block
<1> QED
  BY <1>1, <1>2, <1>3

(* A heap with the links of some blocks set.                               *)
LEMMA RepointLemma ==
    ASSUME NEW h \in Heap, NEW S \in SUBSET (1 .. Len(h)), NEW t \in Nat, NEW g,
           DOMAIN g = 1 .. Len(h), g = [k \in DOMAIN g |-> g[k]],
           \A k \in 1 .. Len(h) :
               g[k] = IF k \in S THEN Linked(h[k], t) ELSE h[k]
    PROVE  Repointed(h, g, S, t)
<1>1. \A k \in 1 .. Len(h) : h[k] \in Block
  BY DEF Heap
<1>2. \A k \in 1 .. Len(h) : g[k] \in Block
  BY <1>1, LinkedLemma
<1>3. g \in Heap /\ Len(g) = Len(h)
  <2>1. Len(h) \in Nat
    BY DEF Heap
  <2>2. g \in [1 .. Len(h) -> Block]
    BY <1>2
  <2> QED
    BY <2>1, <2>2 DEF Heap
<1>4. \A k \in 1 .. Len(h) : k \notin S => Alike(h, g, k)
  BY AlikeEqual
<1>5. ASSUME NEW k \in S
      PROVE  /\ Link(g, k) = t
             /\ Other(g, k) = Other(h, k)
             /\ \A q : ByLink(g, k, q) <=> ByLink(h, k, q)
             /\ g[k].head = h[k].head
  <2>1. k \in 1 .. Len(h) /\ g[k] = Linked(h[k], t) /\ h[k] \in Block
    BY <1>1
  <2>2. /\ g[k].sense = h[k].sense /\ g[k].stmts = h[k].stmts
        /\ g[k].head = h[k].head
        /\ IF h[k].sense THEN g[k].jf = t /\ g[k].jt = h[k].jt
                         ELSE g[k].jt = t /\ g[k].jf = h[k].jf
    BY <2>1, LinkedLemma
  <2>3. h[k].sense \in BOOLEAN
    BY <2>1 DEF Block
  <2>4. Link(g, k) = t /\ Other(g, k) = Other(h, k)
    BY <2>2, <2>3 DEF Link, Other
  <2>5. \A q : ByLink(g, k, q) <=> ByLink(h, k, q)
    BY <2>2, <2>3 DEF ByLink
  <2> QED
    BY <2>2, <2>4, <2>5
<1> QED
  BY <1>3, <1>4, <1>5 DEF Repointed

(* backpatch sets the links of one list (gencode.c, lines 536 to 551).     *)
LEMMA BackpatchLemma ==
    ASSUME NEW h \in Heap, NEW list, NEW M \in SUBSET (1 .. Len(h)),
           ListOf(h, list) = M, NEW t \in Nat
    PROVE  Repointed(h, backpatch(h, list, t), M, t)
<1> DEFINE g == backpatch(h, list, t)
<1>1. g = [k \in 1 .. Len(h) |-> IF k \in M THEN Linked(h[k], t) ELSE h[k]]
  BY DEF backpatch
<1> HIDE DEF g
<1>2. /\ DOMAIN g = 1 .. Len(h) /\ g = [k \in DOMAIN g |-> g[k]]
      /\ \A k \in 1 .. Len(h) : g[k] = IF k \in M THEN Linked(h[k], t) ELSE h[k]
  BY <1>1
<1>3. Repointed(h, g, M, t)
  BY <1>2, RepointLemma
<1> QED
  BY <1>3 DEF g

(* merge sets the link of the last block of a list, which there is         *)
(* (gencode.c, lines 557 to 569).                                          *)
LEMMA MergeLemma ==
    ASSUME NEW h \in Heap, NEW lo \in Nat \ {0}, NEW b \in lo .. Len(h), NEW M,
           Threaded(h, lo, b, Link(h, b), M), NEW t \in Nat
    PROVE  \E z \in M : /\ Link(h, z) = Null
                        /\ Repointed(h, merge(h, b, t), {z}, t)
<1>1. Len(h) \in Nat /\ ListOf(h, b) = M
  BY ListIs DEF Heap
<1>2. M \subseteq 1 .. Len(h) /\ b \in M
  BY <1>1 DEF Threaded
<1>3. \E z \in M : Link(h, z) = Null
  <2>1. M \subseteq Nat /\ M # {}
    BY <1>2
  <2>2. PICK z \in M : \A y \in M : z <= y
    BY <2>1, Least
  <2>3. Link(h, z) \in M \cup {Null}
    BY DEF Threaded
  <2>4. Link(h, z) \in M => Link(h, z) < z
    <3>1. CASE z = b
      <4>1. Link(h, b) \in (M \ {b}) \cup {Null}
        BY DEF Threaded
      <4>2. \A x \in M \ {b} : x < b
        BY DEF Threaded
      <4>3. Null \notin M
        BY <1>1, <1>2 DEF Null
      <4> HIDE DEF Null, Link
      <4> QED
        BY <3>1, <4>1, <4>2, <4>3
    <3>2. CASE z # b
      BY <3>2 DEF Threaded
    <3> QED
      BY <3>1, <3>2
  <2>5. Link(h, z) \notin M
    <3> SUFFICES ASSUME Link(h, z) \in M PROVE FALSE
      OBVIOUS
    <3> DEFINE y == Link(h, z)
    <3>1. y \in Nat /\ z \in Nat /\ z <= y /\ y < z
      BY <2>1, <2>2, <2>4
    <3> HIDE DEF y
    <3> QED
      BY <3>1
  <2> QED
    BY <2>3, <2>5
<1> DEFINE z == LastOf(h, b)
<1>4. z \in M /\ Link(h, z) = Null
  BY <1>1, <1>3 DEF LastOf
<1> HIDE DEF z
<1> DEFINE g == merge(h, b, t)
<1>5. g = [h EXCEPT ![z] = Linked(@, t)]
  BY DEF merge, z
<1> HIDE DEF g
<1>6. DOMAIN h = 1 .. Len(h)
  BY DEF Heap
<1>7. /\ DOMAIN g = 1 .. Len(h) /\ g = [k \in DOMAIN g |-> g[k]]
      /\ \A k \in 1 .. Len(h) : g[k] = IF k \in {z} THEN Linked(h[k], t) ELSE h[k]
  BY <1>2, <1>4, <1>5, <1>6
<1>8. {z} \in SUBSET (1 .. Len(h))
  BY <1>2, <1>4
<1>9. Repointed(h, g, {z}, t)
  BY <1>7, <1>8, RepointLemma
<1> QED
  BY <1>4, <1>9 DEF g

SetHead(h, b, t) == [h EXCEPT ![b].head = t]

(* The head of a block is set.                                             *)
LEMMA HeadLemma ==
    ASSUME NEW h \in Heap, NEW b \in 1 .. Len(h), NEW t \in Nat
    PROVE  LET g == SetHead(h, b, t)
           IN  /\ g \in Heap /\ Len(g) = Len(h)
               /\ \A k \in 1 .. Len(h) : k # b => Alike(h, g, k)
               /\ Link(g, b) = Link(h, b) /\ Other(g, b) = Other(h, b)
               /\ \A q : ByLink(g, b, q) <=> ByLink(h, b, q)
               /\ g[b].head = t
<1> DEFINE g == SetHead(h, b, t)
<1> USE DEF SetHead
<1>1. h[b] \in Block /\ h[b].sense \in BOOLEAN
  <2>1. h[b] \in Block
    BY DEF Heap
  <2> QED
    BY <2>1 DEF Block
<1>2. g \in Heap /\ Len(g) = Len(h)
  <2> DEFINE new == [h[b] EXCEPT !.head = t]
  <2>1. new \in Block
    BY <1>1 DEF Block
  <2>2. g = [h EXCEPT ![b] = new]
    OBVIOUS
  <2> HIDE DEF new, g
  <2> QED
    BY <2>1, <2>2 DEF Heap
<1>3. \A k \in 1 .. Len(h) : k # b => g[k] = h[k]
  BY DEF Heap
<1>4. g[b] = [h[b] EXCEPT !.head = t]
  BY DEF Heap
<1>5. /\ g[b].sense = h[b].sense /\ g[b].jt = h[b].jt /\ g[b].jf = h[b].jf
      /\ g[b].stmts = h[b].stmts /\ g[b].head = t
  BY <1>1, <1>4 DEF Block
<1>6. \A k \in 1 .. Len(h) : k # b => Alike(h, g, k)
  BY <1>3, AlikeEqual
<1> HIDE DEF g
<1>7. Link(g, b) = Link(h, b) /\ Other(g, b) = Other(h, b)
  BY <1>1, <1>5 DEF Link, Other
<1>8. \A q : ByLink(g, b, q) <=> ByLink(h, b, q)
  BY <1>1, <1>5 DEF ByLink
<1> QED
  BY <1>2, <1>5, <1>6, <1>7, <1>8 DEF g

-----------------------------------------------------------------------------
(* The blocks lo .. b are a term with the true list T and the false list   *)
(* F: only their last block is on both, and every edge that is not on a    *)
(* list leads forward inside the term.                                     *)
Shape(h, lo, b, T, F) ==
    /\ lo \in 1 .. b
    /\ Threaded(h, lo, b, Link(h, b), T)
    /\ Threaded(h, lo, b, Other(h, b), F)
    /\ T \cap F = {b}
    /\ \A k \in lo .. b - 1 : /\ Other(h, k) \in k + 1 .. b
                              /\ k \notin T \cup F => Link(h, k) \in k + 1 .. b

(* A packet that comes to a block of V leaves the term by the true list,   *)
(* one that comes to another block by the false list.                      *)
Leads(h, lo, b, T, F, q, V) ==
    /\ b \in V <=> ByLink(h, b, q)
    /\ \A k \in lo .. b - 1 :
         /\ ByLink(h, k, q) /\ k \in T => k \in V
         /\ ByLink(h, k, q) /\ k \in F => k \notin V
         /\ ByLink(h, k, q) /\ k \notin T \cup F => (k \in V <=> Link(h, k) \in V)
         /\ ~ByLink(h, k, q) => (k \in V <=> Other(h, k) \in V)

Means(h, lo, b, T, F, holds) ==
    \A q \in Packet : \E V \in SUBSET (lo .. b) :
        Leads(h, lo, b, T, F, q, V) /\ (q \in holds <=> lo \in V)

(* What gen_and does with the terms that end in b0 and b1: z is the last   *)
(* block of the second one's false list.                                   *)
Joined(h, g, b0, b1, lo0, lo1, T0, z) ==
    /\ g \in Heap /\ Len(g) = Len(h)
    /\ \A k \in 1 .. Len(h) : k \notin T0 \cup {z, b1} => Alike(h, g, k)
    /\ \A k \in T0 \ {b0} : /\ Link(g, k) = lo1
                            /\ Other(g, k) = Other(h, k)
                            /\ \A q : ByLink(g, k, q) <=> ByLink(h, k, q)
    /\ Link(g, b0) = Other(h, b0)
    /\ Other(g, b0) = lo1
    /\ \A q : ByLink(g, b0, q) <=> ~ByLink(h, b0, q)
    /\ Link(g, b1) = Link(h, b1)
    /\ \A q : ByLink(g, b1, q) <=> ByLink(h, b1, q)
    /\ z = b1 => Other(h, b1) = Null /\ Other(g, b1) = b0
    /\ z # b1 => /\ Link(h, z) = Null /\ Link(g, z) = b0
                 /\ Other(g, z) = Other(h, z)
                 /\ \A q : ByLink(g, z, q) <=> ByLink(h, z, q)
                 /\ Other(g, b1) = Other(h, b1)
    /\ g[b1].head = lo0

(* The conjunction is a term again: its true list is that of the second    *)
(* term, its false list has the blocks of both.                            *)
LEMMA JoinShape ==
    ASSUME NEW h \in Heap, NEW g, NEW b0 \in Nat, NEW b1 \in 1 .. Len(h), NEW lo0,
           NEW T0, NEW F0, NEW T1, NEW F1, NEW z \in F1,
           Shape(h, lo0, b0, T0, F0), Shape(h, b0 + 1, b1, T1, F1),
           Joined(h, g, b0, b1, lo0, b0 + 1, T0, z)
    PROVE  Shape(g, lo0, b1, T1, F1 \cup F0)
<1> DEFINE lo1 == b0 + 1
           F == F1 \cup F0
<1>1. /\ Len(h) \in Nat /\ b1 \in Nat /\ b1 <= Len(h)
      /\ lo0 \in Nat /\ 1 <= lo0 /\ lo0 <= b0 /\ b0 < b1
  BY DEF Heap, Shape
<1>2. /\ T0 \subseteq lo0 .. b0 /\ F0 \subseteq lo0 .. b0
      /\ T1 \subseteq lo1 .. b1 /\ F1 \subseteq lo1 .. b1
      /\ b0 \in T0 /\ b0 \in F0 /\ b1 \in T1 /\ b1 \in F1
  BY DEF Shape, Threaded
<1>3. T0 \cap F0 = {b0} /\ T1 \cap F1 = {b1}
  BY DEF Shape
<1>4. /\ z \in lo1 .. b1 /\ b0 < z
      /\ \A x \in T1 \cup F1 : x \in 1 .. Len(h) /\ b0 < x /\ x \notin T0 /\ x \notin F0
      /\ \A x \in F0 \cup T0 : x \in 1 .. Len(h) /\ x <= b0 /\ x # b1 /\ x # z
                               /\ x \notin T1 /\ x \notin F1
  BY <1>1, <1>2
<1>5. \A x \in T1 \ {b1} : Link(g, x) = Link(h, x)
  BY <1>3, <1>4 DEF Joined, Alike
<1>6. \A x \in F1 \ {b1} : x # z => Link(g, x) = Link(h, x)
  BY <1>4 DEF Joined, Alike
<1>7. \A x \in F0 \ {b0} : Link(g, x) = Link(h, x)
  BY <1>3, <1>4 DEF Joined, Alike
<1>8. Threaded(g, lo0, b1, Link(g, b1), T1)
  <2>1. T1 \subseteq lo0 .. b1
    BY <1>1, <1>2
  <2>2. Link(g, b1) = Link(h, b1)
    BY DEF Joined
  <2>3. /\ b1 \in T1
        /\ Link(h, b1) \in (T1 \ {b1}) \cup {Null}
        /\ \A x \in T1 \ {b1} : /\ Link(h, x) \in (T1 \ {b1}) \cup {Null}
                                /\ Link(h, x) < x
        /\ \A x \in T1 \ {b1} : x = Link(h, b1) \/ \E y \in T1 \ {b1} : Link(h, y) = x
    BY DEF Shape, Threaded
  <2> QED
    BY <2>1, <2>2, <2>3, <1>5 DEF Threaded
<1>9. Threaded(g, lo0, b1, Other(g, b1), F)
  <2>1. F \subseteq lo0 .. b1 /\ b1 \in F
    BY <1>1, <1>2
  <2>2. /\ Other(h, b1) \in (F1 \ {b1}) \cup {Null}
        /\ \A x \in F1 \ {b1} : /\ Link(h, x) \in (F1 \ {b1}) \cup {Null}
                                /\ Link(h, x) < x
        /\ \A x \in F1 \ {b1} : x = Other(h, b1) \/ \E y \in F1 \ {b1} : Link(h, y) = x
    BY DEF Shape, Threaded
  <2>3. /\ Other(h, b0) \in (F0 \ {b0}) \cup {Null}
        /\ \A x \in F0 \ {b0} : /\ Link(h, x) \in (F0 \ {b0}) \cup {Null}
                                /\ Link(h, x) < x
        /\ \A x \in F0 \ {b0} : x = Other(h, b0) \/ \E y \in F0 \ {b0} : Link(h, y) = x
    BY DEF Shape, Threaded
  <2>4. b0 \in F \ {b1} /\ F0 \subseteq F \ {b1} /\ F1 \ {b1} \subseteq F \ {b1}
    BY <1>2, <1>4
  <2>5. Link(g, b0) = Other(h, b0)
    BY DEF Joined
  <2>6. /\ z = b1 => Other(h, b1) = Null /\ Other(g, b1) = b0
        /\ z # b1 => /\ Link(h, z) = Null /\ Link(g, z) = b0
                     /\ Other(g, b1) = Other(h, b1)
    BY DEF Joined
  <2>7. Other(g, b1) \in (F \ {b1}) \cup {Null}
    BY <2>2, <2>4, <2>6
  <2>8. ASSUME NEW x \in F \ {b1}
        PROVE  Link(g, x) \in (F \ {b1}) \cup {Null} /\ Link(g, x) < x
    <3>1. CASE x = b0
      <4>1. \A y \in F0 \ {b0} : y < b0
        BY <1>1, <1>2
      <4>2. Null < b0
        BY <1>1 DEF Null
      <4> QED
        BY <3>1, <4>1, <4>2, <2>3, <2>4, <2>5
    <3>2. CASE x \in F0 \ {b0}
      BY <3>2, <1>7, <2>3, <2>4
    <3>3. CASE x \in F1 \ {b1} /\ x # z
      BY <3>3, <1>6, <2>2, <2>4
    <3>4. CASE x = z /\ z # b1
      BY <3>4, <2>4, <2>6, <1>4
    <3> QED
      BY <3>1, <3>2, <3>3, <3>4
  <2>9. ASSUME NEW x \in F \ {b1}
        PROVE  x = Other(g, b1) \/ \E y \in F \ {b1} : Link(g, y) = x
    <3>1. CASE x = b0
      <4>1. z # b1 => z \in F \ {b1}
        BY <2>4
      <4> QED
        BY <3>1, <4>1, <2>6
    <3>2. CASE x \in F0 \ {b0}
      BY <3>2, <1>7, <2>3, <2>4, <2>5
    <3>3. CASE x \in F1 \ {b1}
      <4>1. x # Null
        BY <3>3, <1>4 DEF Null
      <4> QED
        BY <3>3, <4>1, <1>6, <2>2, <2>4, <2>6
    <3> QED
      BY <3>1, <3>2, <3>3
  <2> HIDE DEF F
  <2> QED
    BY <2>1, <2>7, <2>8, <2>9 DEF Threaded
<1>10. T1 \cap F = {b1}
  BY <1>2, <1>3, <1>4
<1>11. ASSUME NEW k \in lo0 .. b1 - 1
       PROVE  /\ Other(g, k) \in k + 1 .. b1
              /\ k \notin T1 \cup F => Link(g, k) \in k + 1 .. b1
  <2>1. k \in 1 .. Len(h) /\ k # b1 /\ k \in Nat
    BY <1>1
  <2>2. CASE k = b0
    <3>1. Other(g, b0) = b0 + 1
      BY DEF Joined
    <3> QED
      BY <2>2, <3>1, <1>1, <1>2
  <2>3. CASE k < b0
    <3>1. k \in lo0 .. b0 - 1 /\ k \notin T1 \cup F1 /\ k # z /\ k # b0
      BY <2>1, <2>3, <1>1, <1>2, <1>4
    <3>2. /\ Other(h, k) \in k + 1 .. b0
          /\ k \notin T0 \cup F0 => Link(h, k) \in k + 1 .. b0
      BY <3>1 DEF Shape
    <3>3. /\ Other(g, k) = Other(h, k)
          /\ k \in T0 => Link(g, k) = lo1
          /\ k \notin T0 => Link(g, k) = Link(h, k)
      BY <2>1, <3>1 DEF Joined, Alike
    <3>4. k + 1 .. b0 \subseteq k + 1 .. b1 /\ lo1 \in k + 1 .. b1
      BY <1>1, <2>1, <2>3
    <3> QED
      BY <3>2, <3>3, <3>4
  <2>4. CASE b0 < k
    <3>1. k \in lo1 .. b1 - 1 /\ k \notin T0 \cup F0 /\ k # b0
      BY <2>1, <2>4, <1>1, <1>2
    <3>2. /\ Other(h, k) \in k + 1 .. b1
          /\ k \notin T1 \cup F1 => Link(h, k) \in k + 1 .. b1
      BY <3>1 DEF Shape
    <3>3. Other(g, k) = Other(h, k) /\ (k # z => Link(g, k) = Link(h, k))
      BY <2>1, <3>1 DEF Joined, Alike
    <3> QED
      BY <3>2, <3>3
  <2> QED
    BY <2>1, <2>2, <2>3, <2>4, <1>1
<1>12. lo0 \in 1 .. b1
  BY <1>1
<1> HIDE DEF F
<1>13. Shape(g, lo0, b1, T1, F)
  BY <1>8, <1>9, <1>10, <1>11, <1>12 DEF Shape
<1> QED
  BY <1>13 DEF F

(* And it means the conjunction: from a block of the first term a packet   *)
(* comes to the true list exactly if it would have come to the first       *)
(* term's true list, and comes to the second's from the second's head.     *)
LEMMA JoinMeans ==
    ASSUME NEW h \in Heap, NEW g, NEW b0 \in Nat, NEW b1 \in 1 .. Len(h), NEW lo0,
           NEW T0, NEW F0, NEW T1, NEW F1, NEW z \in F1, NEW H0, NEW H1,
           Shape(h, lo0, b0, T0, F0), Shape(h, b0 + 1, b1, T1, F1),
           Means(h, lo0, b0, T0, F0, H0), Means(h, b0 + 1, b1, T1, F1, H1),
           Joined(h, g, b0, b1, lo0, b0 + 1, T0, z)
    PROVE  Means(g, lo0, b1, T1, F1 \cup F0, H1 \cap H0)
<1> DEFINE lo1 == b0 + 1
           F == F1 \cup F0
<1>1. /\ Len(h) \in Nat /\ b1 \in Nat /\ b1 <= Len(h)
      /\ lo0 \in Nat /\ 1 <= lo0 /\ lo0 <= b0 /\ b0 < b1
  BY DEF Heap, Shape
<1>2. /\ T0 \subseteq lo0 .. b0 /\ F0 \subseteq lo0 .. b0
      /\ T1 \subseteq lo1 .. b1 /\ F1 \subseteq lo1 .. b1
      /\ b0 \in T0 /\ b0 \in F0 /\ b1 \in T1 /\ b1 \in F1
  BY DEF Shape, Threaded
<1>3. T0 \cap F0 = {b0} /\ T1 \cap F1 = {b1}
  BY DEF Shape
<1> SUFFICES ASSUME NEW q \in Packet
             PROVE  \E V \in SUBSET (lo0 .. b1) :
                        /\ Leads(g, lo0, b1, T1, F, q, V)
                        /\ q \in H1 \cap H0 <=> lo0 \in V
  <2> HIDE DEF Packet
  <2> QED
    BY Zenon DEF Means
<1>4. PICK V0 \in SUBSET (lo0 .. b0) :
         Leads(h, lo0, b0, T0, F0, q, V0) /\ (q \in H0 <=> lo0 \in V0)
  BY DEF Means
<1>5. PICK V1 \in SUBSET (lo1 .. b1) :
         Leads(h, lo1, b1, T1, F1, q, V1) /\ (q \in H1 <=> lo1 \in V1)
  BY DEF Means
<1> DEFINE V == V1 \cup {k \in V0 : lo1 \in V1}
<1>6. V \in SUBSET (lo0 .. b1)
  <2>1. lo0 .. b0 \subseteq lo0 .. b1 /\ lo1 .. b1 \subseteq lo0 .. b1
    BY <1>1
  <2> QED
    BY <2>1
<1>7. /\ \A k \in lo0 .. b0 : k \in V <=> (k \in V0 /\ lo1 \in V1)
      /\ \A k \in lo1 .. b1 : k \in V <=> k \in V1
  BY <1>1
<1> HIDE DEF V
<1>8. q \in H1 \cap H0 <=> lo0 \in V
  BY <1>1, <1>4, <1>5, <1>7
<1>9. b1 \in V <=> ByLink(g, b1, q)
  BY <1>1, <1>2, <1>5, <1>7 DEF Leads, Joined
<1>10. ASSUME NEW k \in lo0 .. b1 - 1
       PROVE  /\ ByLink(g, k, q) /\ k \in T1 => k \in V
              /\ ByLink(g, k, q) /\ k \in F => k \notin V
              /\ ByLink(g, k, q) /\ k \notin T1 \cup F => (k \in V <=> Link(g, k) \in V)
              /\ ~ByLink(g, k, q) => (k \in V <=> Other(g, k) \in V)
  <2>1. k \in 1 .. Len(h) /\ k # b1 /\ k \in Nat
    BY <1>1
  <2>2. lo1 \in lo1 .. b1
    BY <1>1
  <2>3. CASE k = b0
    <3>1. /\ Other(g, k) = lo1 /\ k \in F /\ k \notin T1 /\ k \in lo0 .. b0
          /\ ByLink(g, k, q) <=> ~ByLink(h, k, q)
      BY <2>3, <1>1, <1>2 DEF Joined
    <3>2. k \in V0 <=> ByLink(h, k, q)
      BY <2>3, <1>4 DEF Leads
    <3> QED
      BY <3>1, <3>2, <2>2, <1>7
  <2>4. CASE k < b0
    <3>1. /\ k \in lo0 .. b0 - 1 /\ k \in lo0 .. b0
          /\ k \notin T1 \cup F1 /\ k # z /\ k # b0
      BY <2>1, <2>4, <1>1, <1>2
    <3>2. /\ Other(h, k) \in lo0 .. b0
          /\ k \notin T0 \cup F0 => Link(h, k) \in lo0 .. b0
      <4>1. /\ Other(h, k) \in k + 1 .. b0
            /\ k \notin T0 \cup F0 => Link(h, k) \in k + 1 .. b0
        BY <3>1 DEF Shape
      <4>2. k + 1 .. b0 \subseteq lo0 .. b0
        BY <3>1, <1>1
      <4> QED
        BY <4>1, <4>2
    <3>3. /\ Other(g, k) = Other(h, k)
          /\ ByLink(g, k, q) <=> ByLink(h, k, q)
          /\ k \in T0 => Link(g, k) = lo1
          /\ k \notin T0 => Link(g, k) = Link(h, k)
      BY <2>1, <3>1 DEF Joined, Alike
    <3>4. /\ ByLink(h, k, q) /\ k \in T0 => k \in V0
          /\ ByLink(h, k, q) /\ k \in F0 => k \notin V0
          /\ ByLink(h, k, q) /\ k \notin T0 \cup F0
               => (k \in V0 <=> Link(h, k) \in V0)
          /\ ~ByLink(h, k, q) => (k \in V0 <=> Other(h, k) \in V0)
      BY <3>1, <1>4 DEF Leads
    <3>5. k \in T0 => k \notin F0
      BY <3>1, <1>3
    <3> QED
      BY <3>1, <3>2, <3>3, <3>4, <3>5, <2>2, <1>7
  <2>5. CASE b0 < k
    <3>1. /\ k \in lo1 .. b1 - 1 /\ k \in lo1 .. b1
          /\ k \notin T0 \cup F0 /\ k # b0
      BY <2>1, <2>5, <1>1, <1>2
    <3>2. /\ Other(h, k) \in lo1 .. b1
          /\ k \notin T1 \cup F1 => Link(h, k) \in lo1 .. b1
      <4>1. /\ Other(h, k) \in k + 1 .. b1
            /\ k \notin T1 \cup F1 => Link(h, k) \in k + 1 .. b1
        BY <3>1 DEF Shape
      <4>2. k + 1 .. b1 \subseteq lo1 .. b1
        BY <3>1, <1>1
      <4> QED
        BY <4>1, <4>2
    <3>3. /\ Other(g, k) = Other(h, k)
          /\ ByLink(g, k, q) <=> ByLink(h, k, q)
          /\ k # z => Link(g, k) = Link(h, k)
      BY <2>1, <3>1 DEF Joined, Alike
    <3>4. /\ ByLink(h, k, q) /\ k \in T1 => k \in V1
          /\ ByLink(h, k, q) /\ k \in F1 => k \notin V1
          /\ ByLink(h, k, q) /\ k \notin T1 \cup F1
               => (k \in V1 <=> Link(h, k) \in V1)
          /\ ~ByLink(h, k, q) => (k \in V1 <=> Other(h, k) \in V1)
      BY <3>1, <1>5 DEF Leads
    <3> QED
      BY <3>1, <3>2, <3>3, <3>4, <1>7
  <2> QED
    BY <2>1, <2>3, <2>4, <2>5, <1>1
<1> HIDE DEF F
<1>11. Leads(g, lo0, b1, T1, F, q, V)
  BY <1>9, <1>10 DEF Leads
<1> QED
  BY <1>6, <1>8, <1>11

-----------------------------------------------------------------------------
(* A term on the parser's stack: the blocks lo .. b mean the packets in    *)
(* holds.                                                                  *)
TermIs(h, lo, b, holds) ==
    /\ h[b].head = lo
    /\ \E T, F \in SUBSET (lo .. b) :
         Shape(h, lo, b, T, F) /\ Means(h, lo, b, T, F, holds)

(* A term only depends on its own blocks.                                  *)
LEMMA ShapeKeeps ==
    ASSUME NEW h, NEW g, NEW lo \in Nat \ {0}, NEW b \in Nat, NEW holds, NEW T, NEW F,
           Shape(h, lo, b, T, F), Means(h, lo, b, T, F, holds),
           \A k \in lo .. b : Alike(h, g, k)
    PROVE  Shape(g, lo, b, T, F) /\ Means(g, lo, b, T, F, holds)
<1>2. b \in lo .. b /\ T \subseteq lo .. b /\ F \subseteq lo .. b
  BY DEF Shape, Threaded
<1>3. /\ \A k \in lo .. b : Link(g, k) = Link(h, k) /\ Other(g, k) = Other(h, k)
      /\ \A k \in lo .. b : \A q : ByLink(g, k, q) <=> ByLink(h, k, q)
  BY <1>2 DEF Alike
<1>4. /\ Threaded(g, lo, b, Link(g, b), T)
      /\ Threaded(g, lo, b, Other(g, b), F)
  <2>1. /\ Threaded(h, lo, b, Link(h, b), T)
        /\ Threaded(h, lo, b, Other(h, b), F)
    BY DEF Shape
  <2> QED
    BY <2>1, <1>2, <1>3 DEF Threaded
<1>5. \A k \in lo .. b - 1 : k \in lo .. b
  OBVIOUS
<1>6. Shape(g, lo, b, T, F)
  BY <1>3, <1>4, <1>5 DEF Shape
<1>7. Means(g, lo, b, T, F, holds)
  <2>1. ASSUME NEW q, NEW V, Leads(h, lo, b, T, F, q, V)
        PROVE  Leads(g, lo, b, T, F, q, V)
    BY <2>1, <1>2, <1>3, <1>5 DEF Leads
  <2> QED
    BY <2>1 DEF Means
<1> QED
  BY <1>6, <1>7

(* So a step that leaves its blocks alone keeps it.                        *)
LEMMA TermKeeps ==
    ASSUME NEW h, NEW g, NEW lo \in Nat \ {0}, NEW b \in Nat, NEW holds,
           TermIs(h, lo, b, holds), \A k \in lo .. b : Alike(h, g, k)
    PROVE  TermIs(g, lo, b, holds)
<1>1. PICK T \in SUBSET (lo .. b), F \in SUBSET (lo .. b) :
         Shape(h, lo, b, T, F) /\ Means(h, lo, b, T, F, holds)
  BY DEF TermIs
<1>2. b \in lo .. b
  BY <1>1 DEF Shape
<1>3. g[b].head = h[b].head
  BY <1>2 DEF Alike
<1>4. Shape(g, lo, b, T, F) /\ Means(g, lo, b, T, F, holds)
  BY <1>1, ShapeKeeps
<1> QED
  BY <1>3, <1>4 DEF TermIs

(* gen_not exchanges the lists of a term (gencode.c, line 639).            *)
LEMMA ShapeFlips ==
    ASSUME NEW h, NEW g, NEW lo, NEW b \in 1 .. Len(h), NEW holds, NEW T, NEW F,
           Shape(h, lo, b, T, F), Means(h, lo, b, T, F, holds), Flipped(h, g, b)
    PROVE  /\ Shape(g, lo, b, F, T) /\ Means(g, lo, b, F, T, Packet \ holds)
           /\ g[b].head = h[b].head
<1>1. Shape(h, lo, b, T, F) /\ Means(h, lo, b, T, F, holds)
  OBVIOUS
<1>2. lo \in 1 .. b
  BY <1>1 DEF Shape
<1>3. \A k \in lo .. b : k # b => Alike(h, g, k)
  <2>1. Len(g) \in Nat /\ Len(g) = Len(h)
    BY DEF Flipped, Heap
  <2>2. \A k \in lo .. b : k \in 1 .. Len(h)
    BY <1>2, <2>1
  <2> QED
    BY <2>2 DEF Flipped
<1>4. /\ \A k \in lo .. b : k # b => Link(g, k) = Link(h, k) /\ Other(g, k) = Other(h, k)
      /\ \A k \in lo .. b : k # b => \A q : ByLink(g, k, q) <=> ByLink(h, k, q)
      /\ Link(g, b) = Other(h, b) /\ Other(g, b) = Link(h, b)
      /\ \A q : ByLink(g, b, q) <=> ~ByLink(h, b, q)
      /\ g[b].head = h[b].head
  BY <1>3 DEF Alike, Flipped
<1>5. /\ Threaded(g, lo, b, Link(g, b), F)
      /\ Threaded(g, lo, b, Other(g, b), T)
  <2>1. /\ Threaded(h, lo, b, Link(h, b), T)
        /\ Threaded(h, lo, b, Other(h, b), F)
    BY <1>1 DEF Shape
  <2> QED
    BY <2>1, <1>4 DEF Threaded
<1>6. \A k \in lo .. b - 1 : k \in lo .. b /\ k # b
  BY <1>2
<1>7. Shape(g, lo, b, F, T)
  BY <1>1, <1>4, <1>5, <1>6 DEF Shape
<1>8. ASSUME NEW q \in Packet
      PROVE  \E V \in SUBSET (lo .. b) :
               /\ Leads(g, lo, b, F, T, q, V)
               /\ q \in Packet \ holds <=> lo \in V
  <2>1. PICK V \in SUBSET (lo .. b) :
           Leads(h, lo, b, T, F, q, V) /\ (q \in holds <=> lo \in V)
    BY <1>1 DEF Means
  <2> DEFINE W == (lo .. b) \ V
  <2>2. \A k \in lo .. b : k \in W <=> k \notin V
    OBVIOUS
  <2>3. lo \in lo .. b /\ b \in lo .. b
    BY <1>2
  <2>4. ASSUME NEW k \in lo .. b - 1
        PROVE  /\ Other(h, k) \in lo .. b
               /\ k \notin T \cup F => Link(h, k) \in lo .. b
    <3>1. /\ Other(h, k) \in k + 1 .. b
          /\ k \notin T \cup F => Link(h, k) \in k + 1 .. b
      BY <1>1 DEF Shape
    <3>2. k + 1 .. b \subseteq lo .. b
      BY <1>2
    <3> QED
      BY <3>1, <3>2
  <2> HIDE DEF W
  <2>5. ASSUME NEW k \in lo .. b - 1
        PROVE  /\ ByLink(g, k, q) /\ k \in F => k \in W
               /\ ByLink(g, k, q) /\ k \in T => k \notin W
               /\ ByLink(g, k, q) /\ k \notin F \cup T => (k \in W <=> Link(g, k) \in W)
               /\ ~ByLink(g, k, q) => (k \in W <=> Other(g, k) \in W)
    <3>1. k \in lo .. b /\ k # b
      BY <1>6
    <3>2. /\ Link(g, k) = Link(h, k) /\ Other(g, k) = Other(h, k)
          /\ ByLink(g, k, q) <=> ByLink(h, k, q)
      BY <3>1, <1>4
    <3>3. /\ ByLink(h, k, q) /\ k \in T => k \in V
          /\ ByLink(h, k, q) /\ k \in F => k \notin V
          /\ ByLink(h, k, q) /\ k \notin T \cup F => (k \in V <=> Link(h, k) \in V)
          /\ ~ByLink(h, k, q) => (k \in V <=> Other(h, k) \in V)
      BY <2>1 DEF Leads
    <3> QED
      BY <3>1, <3>2, <3>3, <2>2, <2>4
  <2>6. b \in W <=> ByLink(g, b, q)
    BY <2>1, <2>2, <2>3, <1>4 DEF Leads
  <2>7. W \in SUBSET (lo .. b) /\ (q \in Packet \ holds <=> lo \in W)
    BY <2>1, <2>2, <2>3 DEF W
  <2> QED
    BY <2>5, <2>6, <2>7 DEF Leads
<1>9. Means(g, lo, b, F, T, Packet \ holds)
  BY <1>8 DEF Means
<1> QED
  BY <1>4, <1>7, <1>9

(* So the negation of a term is a term.                                    *)
LEMMA FlippedTerm ==
    ASSUME NEW h, NEW g, NEW lo, NEW b \in 1 .. Len(h), NEW holds,
           TermIs(h, lo, b, holds), Flipped(h, g, b)
    PROVE  TermIs(g, lo, b, Packet \ holds)
<1>1. PICK T \in SUBSET (lo .. b), F \in SUBSET (lo .. b) :
         Shape(h, lo, b, T, F) /\ Means(h, lo, b, T, F, holds)
  BY DEF TermIs
<1>2. /\ Shape(g, lo, b, F, T) /\ Means(g, lo, b, F, T, Packet \ holds)
      /\ g[b].head = h[b].head
  BY <1>1, ShapeFlips
<1> QED
  BY <1>2 DEF TermIs

(* What gen_and makes of two neighbouring terms.                           *)
LEMMA JoinTerm ==
    ASSUME NEW h \in Heap, NEW g, NEW b0 \in Nat, NEW b1 \in 1 .. Len(h), NEW lo0,
           NEW T0, NEW F0, NEW T1, NEW F1, NEW z \in F1, NEW H0, NEW H1,
           Shape(h, lo0, b0, T0, F0), Shape(h, b0 + 1, b1, T1, F1),
           Means(h, lo0, b0, T0, F0, H0), Means(h, b0 + 1, b1, T1, F1, H1),
           Joined(h, g, b0, b1, lo0, b0 + 1, T0, z)
    PROVE  TermIs(g, lo0, b1, H1 \cap H0)
<1> DEFINE F == F1 \cup F0
<1>1. Shape(g, lo0, b1, T1, F)
  BY JoinShape
<1>2. Means(g, lo0, b1, T1, F, H1 \cap H0)
  BY JoinMeans
<1>3. T1 \in SUBSET (lo0 .. b1) /\ F \in SUBSET (lo0 .. b1)
  BY <1>1 DEF Shape, Threaded
<1>4. g[b1].head = lo0
  BY DEF Joined
<1> HIDE DEF F
<1> QED
  BY <1>1, <1>2, <1>3, <1>4 DEF TermIs

(* Two terms side by side on the heap, with the lists of each.             *)
Sides(h, lo0, b0, b1, T0, F0, T1, F1) ==
    /\ h \in Heap /\ b0 \in Nat /\ b1 \in 1 .. Len(h)
    /\ h[b0].head = lo0 /\ h[b1].head = b0 + 1
    /\ Shape(h, lo0, b0, T0, F0) /\ Shape(h, b0 + 1, b1, T1, F1)

(* gen_and, step by step (gencode.c, lines 612 to 622).                    *)
LEMMA AndJoins ==
    ASSUME NEW h, NEW lo0, NEW b0, NEW b1, NEW T0, NEW F0, NEW T1, NEW F1,
           Sides(h, lo0, b0, b1, T0, F0, T1, F1)
    PROVE  \E z \in F1 : Joined(h, gen_and(h, b0, b1), b0, b1, lo0, b0 + 1, T0, z)
<1> DEFINE lo1 == b0 + 1
           N == Len(h)
<1>1. /\ h \in Heap /\ N \in Nat /\ b0 \in 1 .. N /\ b1 \in 1 .. N /\ b0 < b1
      /\ lo0 \in 1 .. b0 /\ lo1 \in 1 .. b1 /\ lo0 \in Nat \ {0} /\ lo1 \in Nat \ {0}
      /\ b0 \in lo0 .. N /\ b1 \in lo1 .. N
  BY DEF Sides, Shape, Heap
<1>2. /\ T0 \subseteq lo0 .. b0 /\ F1 \subseteq lo1 .. b1 /\ b0 \in T0 /\ b1 \in F1
      /\ Threaded(h, lo0, b0, Link(h, b0), T0)
      /\ Threaded(h, lo1, b1, Other(h, b1), F1)
  BY DEF Sides, Shape, Threaded
<1>3. /\ \A x \in T0 : x \in 1 .. N /\ x # b1 /\ x \notin F1
      /\ \A x \in F1 : x \in 1 .. N /\ x # b0 /\ x \notin T0
  BY <1>1, <1>2
<1> DEFINE h1 == backpatch(h, b0, h[b1].head)
           h2 == Flip(h1, b0)
           h3 == Flip(h2, b1)
           h4 == merge(h3, b1, b0)
           h5 == Flip(h4, b1)
           g == SetHead(h5, b1, h5[b0].head)
<1>4. gen_and(h, b0, b1) = g
  BY DEF gen_and, SetHead
<1>5. Repointed(h, h1, T0, lo1)
  <2>1. ListOf(h, b0) = T0
    BY <1>1, <1>2, ListIs
  <2>2. T0 \in SUBSET (1 .. N) /\ lo1 \in Nat
    BY <1>1, <1>3
  <2>3. h[b1].head = lo1
    BY DEF Sides
  <2> QED
    BY <2>1, <2>2, <2>3, <1>1, BackpatchLemma
<1> HIDE DEF h1
<1>6. h1 \in Heap /\ Len(h1) = N
  BY <1>5 DEF Repointed
<1>7. Flipped(h1, h2, b0)
  BY <1>1, <1>6, FlipLemma
<1> HIDE DEF h2
<1>8. h2 \in Heap /\ Len(h2) = N
  BY <1>6, <1>7 DEF Flipped
<1>9. Flipped(h2, h3, b1)
  BY <1>1, <1>8, FlipLemma
<1> HIDE DEF h3
<1>10. h3 \in Heap /\ Len(h3) = N
  BY <1>8, <1>9 DEF Flipped
<1>11. Threaded(h3, lo1, b1, Link(h3, b1), F1)
  <2>1. Link(h3, b1) = Other(h, b1)
    BY <1>1, <1>3, <1>5, <1>6, <1>7, <1>8, <1>9, <1>2
    DEF Repointed, Flipped, Alike
  <2>2. \A x \in F1 \ {b1} : Link(h3, x) = Link(h, x)
    BY <1>3, <1>5, <1>6, <1>7, <1>8, <1>9 DEF Repointed, Flipped, Alike
  <2> QED
    BY <2>1, <2>2, <1>2 DEF Threaded
<1>12. PICK z \in F1 : Link(h3, z) = Null /\ Repointed(h3, h4, {z}, b0)
  <2>1. b0 \in Nat /\ b1 \in lo1 .. Len(h3)
    BY <1>1, <1>10
  <2> QED
    BY <2>1, <1>1, <1>10, <1>11, MergeLemma
<1> HIDE DEF h4
<1>13. h4 \in Heap /\ Len(h4) = N
  BY <1>10, <1>12 DEF Repointed
<1>14. Flipped(h4, h5, b1)
  BY <1>1, <1>13, FlipLemma
<1> HIDE DEF h5
<1>15. h5 \in Heap /\ Len(h5) = N
  BY <1>13, <1>14 DEF Flipped
<1>16. h5[b0].head = lo0
  BY <1>1, <1>2, <1>3, <1>5, <1>6, <1>7, <1>8, <1>9, <1>10, <1>12, <1>13, <1>14
  DEF Repointed, Flipped, Alike, Sides
<1>17. /\ g \in Heap /\ Len(g) = N
       /\ \A k \in 1 .. N : k # b1 => Alike(h5, g, k)
       /\ Link(g, b1) = Link(h5, b1) /\ Other(g, b1) = Other(h5, b1)
       /\ \A q : ByLink(g, b1, q) <=> ByLink(h5, b1, q)
       /\ g[b1].head = lo0
  <2>1. b1 \in 1 .. Len(h5) /\ lo0 \in Nat /\ g = SetHead(h5, b1, lo0)
    BY <1>1, <1>15, <1>16
  <2> HIDE DEF g
  <2> QED
    BY <2>1, <1>15, HeadLemma
<1> HIDE DEF g
<1>18. \A k \in 1 .. N : k \notin T0 \cup {z, b1} => Alike(h, g, k)
  BY <1>2, <1>5, <1>6, <1>7, <1>8, <1>9, <1>10, <1>12, <1>13, <1>14, <1>15, <1>17
  DEF Repointed, Flipped, Alike
<1>19. \A k \in T0 \ {b0} : /\ Link(g, k) = lo1
                            /\ Other(g, k) = Other(h, k)
                            /\ \A q : ByLink(g, k, q) <=> ByLink(h, k, q)
  BY <1>3, <1>5, <1>6, <1>7, <1>8, <1>9, <1>10, <1>12, <1>13, <1>14, <1>15, <1>17
  DEF Repointed, Flipped, Alike
<1>20. /\ Link(g, b0) = Other(h, b0) /\ Other(g, b0) = lo1
       /\ \A q : ByLink(g, b0, q) <=> ~ByLink(h, b0, q)
  BY <1>1, <1>2, <1>3, <1>5, <1>6, <1>7, <1>8, <1>9, <1>10, <1>12, <1>13, <1>14,
     <1>15, <1>17
  DEF Repointed, Flipped, Alike
<1>21. /\ Link(g, b1) = Link(h, b1)
       /\ \A q : ByLink(g, b1, q) <=> ByLink(h, b1, q)
       /\ z = b1 => Other(h, b1) = Null /\ Other(g, b1) = b0
       /\ z # b1 => Other(g, b1) = Other(h, b1)
  BY <1>1, <1>2, <1>3, <1>5, <1>6, <1>7, <1>8, <1>9, <1>10, <1>12, <1>13, <1>14,
     <1>15, <1>17
  DEF Repointed, Flipped, Alike
<1>22. z # b1 => /\ Link(h, z) = Null /\ Link(g, z) = b0
                 /\ Other(g, z) = Other(h, z)
                 /\ \A q : ByLink(g, z, q) <=> ByLink(h, z, q)
  BY <1>3, <1>5, <1>6, <1>7, <1>8, <1>9, <1>10, <1>12, <1>13, <1>14, <1>15, <1>17
  DEF Repointed, Flipped, Alike
<1>23. Joined(h, g, b0, b1, lo0, lo1, T0, z)
  BY <1>17, <1>18, <1>19, <1>20, <1>21, <1>22 DEF Joined
<1> QED
  BY <1>4, <1>23

(* gen_or, step by step (gencode.c, lines 624 to 633): it is gen_and seen  *)
(* through three exchanges of edges, of the two terms before it and of the *)
(* result.                                                                 *)
LEMMA OrJoins ==
    ASSUME NEW h, NEW lo0, NEW b0, NEW b1, NEW T0, NEW F0, NEW T1, NEW F1,
           Sides(h, lo0, b0, b1, T0, F0, T1, F1)
    PROVE  /\ gen_or(h, b0, b1) \in Heap /\ Len(gen_or(h, b0, b1)) = Len(h)
           /\ \E z \in T1 :
                 Joined(Flip(Flip(h, b0), b1), Flip(gen_or(h, b0, b1), b1),
                        b0, b1, lo0, b0 + 1, F0, z)
<1> DEFINE lo1 == b0 + 1
           N == Len(h)
<1>1. /\ h \in Heap /\ N \in Nat /\ b0 \in 1 .. N /\ b1 \in 1 .. N /\ b0 < b1
      /\ lo0 \in 1 .. b0 /\ lo1 \in 1 .. b1 /\ lo0 \in Nat \ {0} /\ lo1 \in Nat \ {0}
      /\ b0 \in lo0 .. N /\ b1 \in lo1 .. N
  BY DEF Sides, Shape, Heap
<1>2. /\ F0 \subseteq lo0 .. b0 /\ T1 \subseteq lo1 .. b1 /\ b0 \in F0 /\ b1 \in T1
      /\ Threaded(h, lo0, b0, Other(h, b0), F0)
      /\ Threaded(h, lo1, b1, Link(h, b1), T1)
  BY DEF Sides, Shape, Threaded
<1>3. /\ \A x \in F0 : x \in 1 .. N /\ x # b1 /\ x \notin T1
      /\ \A x \in T1 : x \in 1 .. N /\ x # b0 /\ x \notin F0
  BY <1>1, <1>2
<1> DEFINE h1 == Flip(h, b0)
           n == Flip(h1, b1)
           h2 == backpatch(h1, b0, h[b1].head)
           h3 == Flip(h2, b0)
           h4 == merge(h3, b1, b0)
           h5 == SetHead(h4, b1, h4[b0].head)
           g == Flip(h5, b1)
<1>4. gen_or(h, b0, b1) = h5
  BY DEF gen_or, SetHead
<1>5. Flipped(h, h1, b0)
  BY <1>1, FlipLemma
<1> HIDE DEF h1
<1>6. h1 \in Heap /\ Len(h1) = N
  BY <1>5 DEF Flipped
<1>7. Flipped(h1, n, b1)
  BY <1>1, <1>6, FlipLemma
<1> HIDE DEF n
<1>8. n \in Heap /\ Len(n) = N
  BY <1>6, <1>7 DEF Flipped
<1>9. Repointed(h1, h2, F0, lo1)
  <2>1. Threaded(h1, lo0, b0, Link(h1, b0), F0)
    <3>1. Link(h1, b0) = Other(h, b0)
      BY <1>5 DEF Flipped
    <3>2. \A x \in F0 \ {b0} : Link(h1, x) = Link(h, x)
      BY <1>3, <1>5 DEF Flipped, Alike
    <3> QED
      BY <3>1, <3>2, <1>2 DEF Threaded
  <2>2. Len(h1) \in Nat /\ b0 \in lo0 .. Len(h1)
    BY <1>1, <1>6
  <2>3. ListOf(h1, b0) = F0
    BY <2>1, <2>2, <1>1, ListIs
  <2>4. F0 \in SUBSET (1 .. Len(h1)) /\ lo1 \in Nat
    BY <1>1, <1>3, <1>6
  <2>5. h[b1].head = lo1
    BY DEF Sides
  <2> QED
    BY <2>3, <2>4, <2>5, <1>6, BackpatchLemma
<1> HIDE DEF h2
<1>10. h2 \in Heap /\ Len(h2) = N
  BY <1>6, <1>9 DEF Repointed
<1>11. Flipped(h2, h3, b0)
  BY <1>1, <1>10, FlipLemma
<1> HIDE DEF h3
<1>12. h3 \in Heap /\ Len(h3) = N
  BY <1>10, <1>11 DEF Flipped
<1>13. Threaded(h3, lo1, b1, Link(h3, b1), T1)
  <2>1. \A x \in T1 : Link(h3, x) = Link(h, x)
    BY <1>3, <1>5, <1>6, <1>9, <1>10, <1>11 DEF Repointed, Flipped, Alike
  <2> QED
    BY <2>1, <1>2 DEF Threaded
<1>14. PICK z \in T1 : Link(h3, z) = Null /\ Repointed(h3, h4, {z}, b0)
  <2>1. b0 \in Nat /\ b1 \in lo1 .. Len(h3)
    BY <1>1, <1>12
  <2> QED
    BY <2>1, <1>1, <1>12, <1>13, MergeLemma
<1> HIDE DEF h4
<1>15. h4 \in Heap /\ Len(h4) = N
  BY <1>12, <1>14 DEF Repointed
<1>16. h4[b0].head = lo0
  BY <1>1, <1>2, <1>3, <1>5, <1>6, <1>9, <1>10, <1>11, <1>12, <1>14
  DEF Repointed, Flipped, Alike, Sides
<1>17. /\ h5 \in Heap /\ Len(h5) = N
       /\ \A k \in 1 .. N : k # b1 => Alike(h4, h5, k)
       /\ Link(h5, b1) = Link(h4, b1) /\ Other(h5, b1) = Other(h4, b1)
       /\ \A q : ByLink(h5, b1, q) <=> ByLink(h4, b1, q)
       /\ h5[b1].head = lo0
  <2>1. b1 \in 1 .. Len(h4) /\ lo0 \in Nat /\ h5 = SetHead(h4, b1, lo0)
    BY <1>1, <1>15, <1>16
  <2> HIDE DEF h5
  <2> QED
    BY <2>1, <1>15, HeadLemma
<1> HIDE DEF h5
<1>18. Flipped(h5, g, b1)
  BY <1>1, <1>17, FlipLemma
<1> HIDE DEF g
<1>19. g \in Heap /\ Len(g) = N /\ g[b1].head = lo0
  BY <1>17, <1>18 DEF Flipped
<1>20. \A k \in 1 .. N : k \notin F0 \cup {z, b1} => Alike(n, g, k)
  BY <1>2, <1>5, <1>6, <1>7, <1>9, <1>10, <1>11, <1>12, <1>14, <1>15, <1>17, <1>18
  DEF Repointed, Flipped, Alike
<1>21. \A k \in F0 \ {b0} : /\ Link(g, k) = lo1
                            /\ Other(g, k) = Other(n, k)
                            /\ \A q : ByLink(g, k, q) <=> ByLink(n, k, q)
  BY <1>3, <1>5, <1>6, <1>7, <1>9, <1>10, <1>11, <1>12, <1>14, <1>15, <1>17, <1>18
  DEF Repointed, Flipped, Alike
<1>22. /\ Link(g, b0) = Other(n, b0) /\ Other(g, b0) = lo1
       /\ \A q : ByLink(g, b0, q) <=> ~ByLink(n, b0, q)
  BY <1>1, <1>2, <1>3, <1>5, <1>6, <1>7, <1>9, <1>10, <1>11, <1>12, <1>14, <1>15,
     <1>17, <1>18
  DEF Repointed, Flipped, Alike
<1>23. /\ Link(g, b1) = Link(n, b1)
       /\ \A q : ByLink(g, b1, q) <=> ByLink(n, b1, q)
       /\ z = b1 => Other(n, b1) = Null /\ Other(g, b1) = b0
       /\ z # b1 => Other(g, b1) = Other(n, b1)
  BY <1>1, <1>2, <1>3, <1>5, <1>6, <1>7, <1>9, <1>10, <1>11, <1>12, <1>14, <1>15,
     <1>17, <1>18
  DEF Repointed, Flipped, Alike
<1>24. z # b1 => /\ Link(n, z) = Null /\ Link(g, z) = b0
                 /\ Other(g, z) = Other(n, z)
                 /\ \A q : ByLink(g, z, q) <=> ByLink(n, z, q)
  BY <1>3, <1>5, <1>6, <1>7, <1>9, <1>10, <1>11, <1>12, <1>14, <1>15, <1>17, <1>18
  DEF Repointed, Flipped, Alike
<1>25. Joined(n, g, b0, b1, lo0, lo1, F0, z)
  BY <1>8, <1>19, <1>20, <1>21, <1>22, <1>23, <1>24 DEF Joined
<1> QED
  BY <1>4, <1>17, <1>25 DEF n, g, h1

-----------------------------------------------------------------------------
(* gen_not: the negation of a term, and nothing else changed.              *)
LEMMA NotMeans ==
    ASSUME NEW h \in Heap, NEW lo, NEW b \in 1 .. Len(h), NEW holds,
           TermIs(h, lo, b, holds)
    PROVE  LET g == gen_not(h, b)
           IN  /\ g \in Heap /\ Len(g) = Len(h)
               /\ TermIs(g, lo, b, Packet \ holds)
               /\ \A k \in 1 .. lo - 1 : Alike(h, g, k)
<1> DEFINE g == gen_not(h, b)
<1>1. Flipped(h, g, b)
  BY FlipLemma DEF gen_not
<1> HIDE DEF g
<1>2. TermIs(g, lo, b, Packet \ holds)
  BY <1>1, FlippedTerm
<1>3. lo \in 1 .. b /\ Len(h) \in Nat
  BY DEF TermIs, Shape, Heap
<1>4. \A k \in 1 .. lo - 1 : k \in 1 .. Len(h) /\ k # b
  BY <1>3
<1>5. g \in Heap /\ Len(g) = Len(h) /\ \A k \in 1 .. lo - 1 : Alike(h, g, k)
  BY <1>1, <1>4 DEF Flipped
<1> QED
  BY <1>2, <1>5 DEF g

(* gen_and: the conjunction of two neighbouring terms, and nothing below   *)
(* them changed.                                                           *)
LEMMA AndMeans ==
    ASSUME NEW h \in Heap, NEW lo0, NEW b0 \in Nat, NEW b1 \in 1 .. Len(h),
           NEW H0, NEW H1, TermIs(h, lo0, b0, H0), TermIs(h, b0 + 1, b1, H1)
    PROVE  LET g == gen_and(h, b0, b1)
           IN  /\ g \in Heap /\ Len(g) = Len(h)
               /\ TermIs(g, lo0, b1, H1 \cap H0)
               /\ \A k \in 1 .. lo0 - 1 : Alike(h, g, k)
<1> DEFINE g == gen_and(h, b0, b1)
<1>1. PICK T0 \in SUBSET (lo0 .. b0), F0 \in SUBSET (lo0 .. b0) :
         Shape(h, lo0, b0, T0, F0) /\ Means(h, lo0, b0, T0, F0, H0)
  BY DEF TermIs
<1>2. PICK T1 \in SUBSET (b0 + 1 .. b1), F1 \in SUBSET (b0 + 1 .. b1) :
         Shape(h, b0 + 1, b1, T1, F1) /\ Means(h, b0 + 1, b1, T1, F1, H1)
  BY DEF TermIs
<1>3. Sides(h, lo0, b0, b1, T0, F0, T1, F1)
  BY <1>1, <1>2 DEF Sides, TermIs
<1>4. PICK z \in F1 : Joined(h, g, b0, b1, lo0, b0 + 1, T0, z)
  BY <1>3, AndJoins
<1> HIDE DEF g
<1>5. TermIs(g, lo0, b1, H1 \cap H0)
  BY <1>1, <1>2, <1>4, JoinTerm
<1>6. lo0 \in 1 .. b0 /\ b0 < b1 /\ b1 \in Nat /\ Len(h) \in Nat
  BY <1>1, <1>2 DEF Shape, Heap
<1>7. \A k \in 1 .. lo0 - 1 : k \in 1 .. Len(h) /\ k \notin T0 \cup {z, b1}
  BY <1>6
<1>8. g \in Heap /\ Len(g) = Len(h) /\ \A k \in 1 .. lo0 - 1 : Alike(h, g, k)
  BY <1>4, <1>7 DEF Joined
<1> QED
  BY <1>5, <1>8 DEF g

(* gen_or: the disjunction, in the same way.                               *)
LEMMA OrMeans ==
    ASSUME NEW h \in Heap, NEW lo0, NEW b0 \in Nat, NEW b1 \in 1 .. Len(h),
           NEW H0 \in SUBSET Packet, NEW H1 \in SUBSET Packet,
           TermIs(h, lo0, b0, H0), TermIs(h, b0 + 1, b1, H1)
    PROVE  LET g == gen_or(h, b0, b1)
           IN  /\ g \in Heap /\ Len(g) = Len(h)
               /\ TermIs(g, lo0, b1, H1 \cup H0)
               /\ \A k \in 1 .. lo0 - 1 : Alike(h, g, k)
<1> DEFINE g == gen_or(h, b0, b1)
           h1 == Flip(h, b0)
           n == Flip(h1, b1)
           m == Flip(g, b1)
           lo1 == b0 + 1
<1>1. PICK T0 \in SUBSET (lo0 .. b0), F0 \in SUBSET (lo0 .. b0) :
         Shape(h, lo0, b0, T0, F0) /\ Means(h, lo0, b0, T0, F0, H0)
  BY DEF TermIs
<1>2. PICK T1 \in SUBSET (lo1 .. b1), F1 \in SUBSET (lo1 .. b1) :
         Shape(h, lo1, b1, T1, F1) /\ Means(h, lo1, b1, T1, F1, H1)
  BY DEF TermIs
<1>3. Sides(h, lo0, b0, b1, T0, F0, T1, F1)
  BY <1>1, <1>2 DEF Sides, TermIs
<1>4. /\ g \in Heap /\ Len(g) = Len(h)
      /\ \E z \in T1 : Joined(n, m, b0, b1, lo0, lo1, F0, z)
  BY <1>3, OrJoins
<1>5. PICK z \in T1 : Joined(n, m, b0, b1, lo0, lo1, F0, z)
  BY <1>4
<1>6. /\ lo0 \in 1 .. b0 /\ b0 < b1 /\ b1 \in Nat /\ Len(h) \in Nat
      /\ b0 \in 1 .. Len(h) /\ lo0 \in Nat \ {0} /\ lo1 \in Nat \ {0}
  BY <1>1, <1>2 DEF Shape, Heap
<1>7. Flipped(h, h1, b0)
  BY <1>6, FlipLemma
<1>8. h1 \in Heap /\ Len(h1) = Len(h)
  BY <1>7 DEF Flipped
<1>9. Flipped(h1, n, b1)
  <2> HIDE DEF h1
  <2> QED
    BY <1>8, FlipLemma
<1>10. Flipped(g, m, b1) /\ Flip(m, b1) = g
  <2> HIDE DEF g
  <2> QED
    BY <1>4, FlipLemma
<1> HIDE DEF g, h1, n, m
<1>11. /\ Shape(h1, lo0, b0, F0, T0) /\ Means(h1, lo0, b0, F0, T0, Packet \ H0)
  BY <1>1, <1>6, <1>7, ShapeFlips
<1>12. \A k \in lo1 .. b1 : Alike(h, h1, k)
  <2>1. \A k \in lo1 .. b1 : k \in 1 .. Len(h) /\ k # b0
    BY <1>6
  <2> QED
    BY <2>1, <1>7 DEF Flipped
<1>13. Shape(h1, lo1, b1, T1, F1) /\ Means(h1, lo1, b1, T1, F1, H1)
  BY <1>2, <1>6, <1>12, ShapeKeeps
<1>14. \A k \in lo0 .. b0 : Alike(h1, n, k)
  <2>1. \A k \in lo0 .. b0 : k \in 1 .. Len(h1) /\ k # b1
    BY <1>6, <1>8
  <2> QED
    BY <2>1, <1>9 DEF Flipped
<1>15. Shape(n, lo0, b0, F0, T0) /\ Means(n, lo0, b0, F0, T0, Packet \ H0)
  BY <1>6, <1>11, <1>14, ShapeKeeps
<1>16. Shape(n, lo1, b1, F1, T1) /\ Means(n, lo1, b1, F1, T1, Packet \ H1)
  <2>1. b1 \in 1 .. Len(h1)
    BY <1>8
  <2> QED
    BY <2>1, <1>9, <1>13, ShapeFlips
<1>17. n \in Heap /\ Len(n) = Len(h) /\ b1 \in 1 .. Len(n)
  BY <1>8, <1>9 DEF Flipped
<1>18. TermIs(m, lo0, b1, (Packet \ H1) \cap (Packet \ H0))
  BY <1>5, <1>15, <1>16, <1>17, JoinTerm
<1>19. m \in Heap /\ Len(m) = Len(h) /\ b1 \in 1 .. Len(m)
  BY <1>4, <1>10 DEF Flipped
<1>20. Flipped(m, g, b1)
  BY <1>10, <1>19, FlipLemma
<1>21. TermIs(g, lo0, b1, Packet \ ((Packet \ H1) \cap (Packet \ H0)))
  BY <1>18, <1>19, <1>20, FlippedTerm
<1>22. Packet \ ((Packet \ H1) \cap (Packet \ H0)) = H1 \cup H0
  <2> HIDE DEF Packet
  <2> QED
    OBVIOUS
<1>23. \A k \in 1 .. lo0 - 1 : /\ k \in 1 .. Len(h)
                               /\ k \notin F0 \cup {z, b1} /\ k # b0 /\ k # b1
  BY <1>6
<1>24. \A k \in 1 .. lo0 - 1 : Alike(h, g, k)
  BY <1>23, <1>5, <1>7, <1>8, <1>9, <1>17, <1>19, <1>20
  DEF Joined, Flipped, Alike
<1> QED
  BY <1>4, <1>21, <1>22, <1>24 DEF g

(* new_block for a term: its two edges are open (gencode.c, lines 359 to   *)
(* 370 and 743 to 765).                                                    *)
LEMMA NewMeans ==
    ASSUME NEW h \in Heap, NEW t \in 0 .. TESTS - 1
    PROVE  LET g == new_block(h, Stmts(t), Branch("jmp_k", "jeq", 1, 0, 0))
               n == Len(h) + 1
           IN  /\ g \in Heap /\ Len(g) = n
               /\ TermIs(g, n, n, Holding(t))
               /\ \A k \in 1 .. n - 1 : Alike(h, g, k)
<1> DEFINE g == new_block(h, Stmts(t), Branch("jmp_k", "jeq", 1, 0, 0))
           n == Len(h) + 1
           new == [stmts |-> Stmts(t), s |-> Branch("jmp_k", "jeq", 1, 0, 0),
                   sense |-> FALSE, jt |-> Null, jf |-> Null, head |-> n,
                   longjt |-> 0, longjf |-> 0, offset |-> 0]
<1>1. TESTS \in Nat /\ t \in Nat /\ Len(h) \in Nat
  BY GrammarAssumption DEF Heap
<1>2. Stmts(t) \in Seq(Code) /\ Stmts(t)[1].k = t
  <2>1. Insn("ld_abs", "b", t) \in Code /\ Insn("alu_k", "and", 1) \in Code
    BY <1>1 DEF Insn, Code, Op, Arg
  <2>2. Insn("ld_abs", "b", t).k = t
    BY DEF Insn
  <2> HIDE DEF Insn
  <2> QED
    BY <2>1, <2>2 DEF Stmts
<1>3. Branch("jmp_k", "jeq", 1, 0, 0) \in Code
  BY DEF Branch, Code, Op, Arg
<1>4. new \in Block
  BY <1>1, <1>2, <1>3 DEF Block, Null
<1>5. g = Append(h, new)
  BY DEF new_block
<1>6. /\ g \in Heap /\ Len(g) = n /\ g[n] = new
      /\ \A k \in 1 .. n - 1 : g[k] = h[k]
  <2> HIDE DEF new, g
  <2> QED
    BY <1>4, <1>5, <1>1 DEF Heap
<1>7. /\ ~g[n].sense /\ g[n].jt = Null /\ g[n].jf = Null /\ g[n].head = n
      /\ g[n].stmts[1].k = t
  BY <1>2, <1>6
<1> HIDE DEF g, new
<1>8. /\ Link(g, n) = Null /\ Other(g, n) = Null
      /\ \A q : ByLink(g, n, q) <=> q[t + 1] = 1
  BY <1>7 DEF Link, Other, ByLink
<1>9. n \in Nat \ {0} /\ n .. n = {n} /\ n .. n - 1 = {} /\ n \in 1 .. n
  BY <1>1
<1> HIDE DEF n
<1>10. Shape(g, n, n, {n}, {n})
  BY <1>8, <1>9 DEF Shape, Threaded
<1>11. Means(g, n, n, {n}, {n}, Holding(t))
  <2> SUFFICES ASSUME NEW q \in Packet
               PROVE  \E V \in SUBSET {n} :
                        /\ Leads(g, n, n, {n}, {n}, q, V)
                        /\ q \in Holding(t) <=> n \in V
    BY <1>9 DEF Means
  <2> DEFINE V == {k \in {n} : q[t + 1] = 1}
  <2>1. V \in SUBSET {n} /\ (n \in V <=> q[t + 1] = 1)
    OBVIOUS
  <2> HIDE DEF V
  <2>2. Leads(g, n, n, {n}, {n}, q, V)
    BY <2>1, <1>8, <1>9 DEF Leads
  <2>3. q \in Holding(t) <=> q[t + 1] = 1
    BY DEF Holding
  <2> QED
    BY <2>1, <2>2, <2>3
<1>12. TermIs(g, n, n, Holding(t))
  BY <1>7, <1>9, <1>10, <1>11 DEF TermIs
<1>13. \A k \in 1 .. n - 1 : Alike(h, g, k)
  BY <1>6, AlikeEqual
<1> QED
  BY <1>6, <1>12, <1>13 DEF g, n

-----------------------------------------------------------------------------
(* The parser's stack: its terms lie side by side on the heap.             *)
Entry == [b : Nat, holds : SUBSET Packet]
Lowest(st, i) == IF i = 1 THEN 1 ELSE st[i - 1].b + 1

StackIs(h, st) ==
    /\ h \in Heap /\ st \in Seq(Entry)
    /\ Len(h) = IF Len(st) = 0 THEN 0 ELSE st[Len(st)].b
    /\ \A i \in 1 .. Len(st) : /\ st[i].b \in 1 .. Len(h)
                               /\ TermIs(h, Lowest(st, i), st[i].b, st[i].holds)
    /\ \A i, j \in 1 .. Len(st) : i < j => st[i].b < st[j].b

(* A reduction replaces what lies above the first m terms by one term.     *)
LEMMA PushTerm ==
    ASSUME NEW h, NEW st, StackIs(h, st), NEW m \in 0 .. Len(st),
           NEW g \in Heap, NEW e \in Entry, e.b = Len(g), Len(h) <= Len(g),
           TermIs(g, Lowest(st, m + 1), e.b, e.holds),
           \A k \in 1 .. Lowest(st, m + 1) - 1 : Alike(h, g, k)
    PROVE  StackIs(g, Append(SubSeq(st, 1, m), e))
<1> DEFINE low == SubSeq(st, 1, m)
           new == Append(low, e)
<1>1. /\ h \in Heap /\ st \in Seq(Entry) /\ Len(st) \in Nat /\ Len(h) \in Nat
      /\ Len(g) \in Nat /\ m \in Nat
  BY DEF StackIs, Heap
<1>2. /\ low \in Seq(Entry) /\ Len(low) = m
      /\ \A i \in 1 .. m : low[i] = st[i]
  BY <1>1
<1> HIDE DEF low
<1>3. /\ new \in Seq(Entry) /\ Len(new) = m + 1 /\ new[m + 1] = e
      /\ \A i \in 1 .. m : new[i] = st[i]
  BY <1>1, <1>2
<1> HIDE DEF new
<1>4. \A i \in 1 .. m : i \in 1 .. Len(st) /\ st[i].b \in 1 .. Len(h) /\ st[i].b \in Nat
  BY <1>1 DEF StackIs
<1>5. \A i \in 1 .. m + 1 : Lowest(new, i) = Lowest(st, i)
  <2> SUFFICES ASSUME NEW i \in 1 .. m + 1, i # 1
               PROVE  new[i - 1].b = st[i - 1].b
    BY DEF Lowest
  <2>1. i - 1 \in 1 .. m
    BY <1>1
  <2> QED
    BY <2>1, <1>3
<1>6. Lowest(st, m + 1) \in 1 .. Len(g)
  BY <1>1 DEF TermIs, Shape
<1>7. \A i \in 1 .. m : st[i].b < Lowest(st, m + 1)
  <2> SUFFICES ASSUME NEW i \in 1 .. m PROVE st[i].b < Lowest(st, m + 1)
    OBVIOUS
  <2>1. Lowest(st, m + 1) = st[m].b + 1
    BY <1>1 DEF Lowest
  <2>2. m \in 1 .. m
    BY <1>1
  <2>3. st[i].b <= st[m].b
    BY <2>2, <1>1, <1>4 DEF StackIs
  <2> QED
    BY <2>1, <2>2, <2>3, <1>4
<1>8. ASSUME NEW i \in 1 .. m
      PROVE  /\ new[i].b \in 1 .. Len(g)
             /\ TermIs(g, Lowest(new, i), new[i].b, new[i].holds)
             /\ new[i].b < e.b
  <2>1. /\ st[i].b \in 1 .. Len(h) /\ st[i].b < Lowest(st, m + 1) /\ new[i] = st[i]
        /\ TermIs(h, Lowest(st, i), st[i].b, st[i].holds)
    BY <1>3, <1>4, <1>7 DEF StackIs
  <2>2. Lowest(st, i) \in 1 .. st[i].b
    BY <2>1 DEF TermIs, Shape
  <2>3. \A k \in Lowest(st, i) .. st[i].b : k \in 1 .. Lowest(st, m + 1) - 1
    BY <2>1, <2>2, <1>1, <1>6
  <2>4. Lowest(st, i) \in Nat \ {0} /\ st[i].b \in Nat
    BY <2>1, <2>2, <1>1
  <2>5. TermIs(g, Lowest(st, i), st[i].b, st[i].holds)
    BY <2>1, <2>3, <2>4, TermKeeps
  <2>6. Lowest(new, i) = Lowest(st, i)
    BY <1>1, <1>5
  <2>7. st[i].b \in 1 .. Len(g) /\ st[i].b < e.b
    BY <2>1, <1>1, <1>6
  <2> QED
    BY <2>1, <2>5, <2>6, <2>7
<1>9. /\ e.b \in 1 .. Len(g)
      /\ TermIs(g, Lowest(new, m + 1), e.b, e.holds)
  <2>1. m + 1 \in 1 .. m + 1 /\ 1 <= Len(g)
    BY <1>1, <1>6
  <2> QED
    BY <2>1, <1>1, <1>5
<1>10. \A i \in 1 .. Len(new) : i \in 1 .. m \/ i = m + 1
  BY <1>1, <1>3
<1>11. \A i \in 1 .. Len(new) : /\ new[i].b \in 1 .. Len(g)
                                /\ TermIs(g, Lowest(new, i), new[i].b, new[i].holds)
  BY <1>3, <1>8, <1>9, <1>10
<1>12. ASSUME NEW i \in 1 .. Len(new), NEW j \in 1 .. Len(new), i < j
       PROVE  new[i].b < new[j].b
  <2>1. i \in 1 .. m
    BY <1>3, <1>12, <1>1
  <2>2. CASE j = m + 1
    BY <2>1, <2>2, <1>3, <1>8
  <2>3. CASE j \in 1 .. m
    BY <2>1, <2>3, <1>3, <1>4, <1>12 DEF StackIs
  <2> QED
    BY <2>2, <2>3, <1>10
<1>13. Len(g) = IF Len(new) = 0 THEN 0 ELSE new[Len(new)].b
  BY <1>1, <1>3
<1>14. StackIs(g, new)
  BY <1>3, <1>11, <1>12, <1>13 DEF StackIs
<1> QED
  BY <1>14 DEF new, low

(* A reduction of a test pushes its term.                                  *)
LEMMA PushNew ==
    ASSUME NEW h, NEW st, StackIs(h, st), NEW t \in 0 .. TESTS - 1
    PROVE  LET g == new_block(h, Stmts(t), Branch("jmp_k", "jeq", 1, 0, 0))
           IN  StackIs(g, Append(st, [b |-> Len(g), holds |-> Holding(t)]))
<1> DEFINE g == new_block(h, Stmts(t), Branch("jmp_k", "jeq", 1, 0, 0))
           n == Len(h) + 1
           m == Len(st)
           e == [b |-> Len(g), holds |-> Holding(t)]
<1>1. /\ h \in Heap /\ st \in Seq(Entry) /\ m \in Nat
      /\ Len(h) = IF m = 0 THEN 0 ELSE st[m].b
  BY DEF StackIs
<1>2. Len(h) \in Nat
  BY <1>1 DEF Heap
<1>3. /\ g \in Heap /\ Len(g) = n
      /\ TermIs(g, n, n, Holding(t))
      /\ \A k \in 1 .. n - 1 : Alike(h, g, k)
  BY <1>1, NewMeans, Zenon
<1>4. Lowest(st, m + 1) = n
  BY <1>1, <1>2 DEF Lowest
<1>5. e \in Entry /\ e.b = n /\ e.holds = Holding(t)
  BY <1>2, <1>3 DEF Entry, Holding
<1>6. SubSeq(st, 1, m) = st
  BY <1>1
<1> HIDE DEF g, e, n, m
<1>7. m \in 0 .. Len(st) /\ Len(h) <= Len(g)
  BY <1>1, <1>2, <1>3 DEF n, m
<1>8. StackIs(g, Append(SubSeq(st, 1, m), e))
  BY <1>3, <1>4, <1>5, <1>7, PushTerm
<1> QED  BY <1>6, <1>8 DEF g, e

(* A negation replaces the term on top of the stack.                       *)
LEMMA PushNot ==
    ASSUME NEW h, NEW st, StackIs(h, st), st # <<>>
    PROVE  LET n == Len(st)
               e == [st[n] EXCEPT !.holds = Packet \ @]
           IN  StackIs(gen_not(h, st[n].b), Append(SubSeq(st, 1, n - 1), e))
<1> DEFINE n == Len(st)
           g == gen_not(h, st[n].b)
           e == [st[n] EXCEPT !.holds = Packet \ @]
<1>1. /\ h \in Heap /\ st \in Seq(Entry) /\ n \in Nat
      /\ Len(h) = IF n = 0 THEN 0 ELSE st[n].b
      /\ \A i \in 1 .. n : /\ st[i].b \in 1 .. Len(h)
                           /\ TermIs(h, Lowest(st, i), st[i].b, st[i].holds)
  BY DEF StackIs
<1>2. n \in 1 .. n /\ n - 1 \in 0 .. n /\ n - 1 + 1 = n
  BY <1>1
<1>3. st[n] \in Entry
  BY <1>1, <1>2
<1>4. e \in Entry /\ e.b = st[n].b /\ e.holds = Packet \ st[n].holds
  BY <1>3 DEF Entry
<1> HIDE DEF e, g, n
<1>5. /\ st[n].b \in 1 .. Len(h) /\ Len(h) = st[n].b
      /\ TermIs(h, Lowest(st, n), st[n].b, st[n].holds)
  BY <1>1, <1>2
<1>6. /\ g \in Heap /\ Len(g) = Len(h)
      /\ TermIs(g, Lowest(st, n), st[n].b, Packet \ st[n].holds)
      /\ \A k \in 1 .. Lowest(st, n) - 1 : Alike(h, g, k)
  BY <1>1, <1>5, NotMeans, Zenon DEF g
<1>7. Len(h) <= Len(g) /\ e.b = Len(g)
  BY <1>4, <1>5, <1>6
<1>8. StackIs(g, Append(SubSeq(st, 1, n - 1), e))
  BY <1>2, <1>4, <1>6, <1>7, PushTerm DEF n
<1> QED  BY <1>8 DEF g, e, n

(* The two terms on top of the stack lie side by side.                     *)
LEMMA TopTerms ==
    ASSUME NEW h, NEW st, StackIs(h, st), Len(st) > 1
    PROVE  LET n == Len(st)
           IN  /\ h \in Heap /\ n \in Nat /\ n - 1 \in 1 .. n /\ n - 2 \in 0 .. n
               /\ st[n] \in Entry /\ st[n - 1] \in Entry
               /\ st[n - 1].b \in Nat /\ st[n].b \in 1 .. Len(h) /\ st[n].b = Len(h)
               /\ TermIs(h, Lowest(st, n - 1), st[n - 1].b, st[n - 1].holds)
               /\ TermIs(h, st[n - 1].b + 1, st[n].b, st[n].holds)
<1> DEFINE n == Len(st)
<1>1. /\ h \in Heap /\ st \in Seq(Entry) /\ n \in Nat
      /\ Len(h) = IF n = 0 THEN 0 ELSE st[n].b
      /\ \A i \in 1 .. n : /\ st[i].b \in 1 .. Len(h)
                           /\ TermIs(h, Lowest(st, i), st[i].b, st[i].holds)
  BY DEF StackIs
<1>2. n \in 1 .. n /\ n - 1 \in 1 .. n /\ n - 2 \in 0 .. n /\ n # 1 /\ n # 0
  BY <1>1
<1>3. st[n] \in Entry /\ st[n - 1] \in Entry
  BY <1>1, <1>2
<1> HIDE DEF n
<1>4. Lowest(st, n) = st[n - 1].b + 1
  BY <1>2 DEF Lowest
<1>5. st[n - 1].b \in Nat
  BY <1>3 DEF Entry
<1> QED  BY <1>1, <1>2, <1>3, <1>4, <1>5 DEF n

(* A conjunction replaces the two terms on top of the stack.               *)
LEMMA PushAnd ==
    ASSUME NEW h, NEW st, StackIs(h, st), Len(st) > 1
    PROVE  LET n == Len(st)
               e == [st[n] EXCEPT !.holds = @ \cap st[n - 1].holds]
           IN  StackIs(gen_and(h, st[n - 1].b, st[n].b), Append(SubSeq(st, 1, n - 2), e))
<1> DEFINE n == Len(st)
           g == gen_and(h, st[n - 1].b, st[n].b)
           e == [st[n] EXCEPT !.holds = @ \cap st[n - 1].holds]
<1>1. /\ h \in Heap /\ n \in Nat /\ n - 1 \in 1 .. n /\ n - 2 \in 0 .. n
      /\ st[n] \in Entry /\ st[n - 1] \in Entry
      /\ st[n - 1].b \in Nat /\ st[n].b \in 1 .. Len(h) /\ st[n].b = Len(h)
      /\ TermIs(h, Lowest(st, n - 1), st[n - 1].b, st[n - 1].holds)
      /\ TermIs(h, st[n - 1].b + 1, st[n].b, st[n].holds)
  BY TopTerms
<1>2. e \in Entry /\ e.b = st[n].b /\ e.holds = st[n].holds \cap st[n - 1].holds
  BY <1>1 DEF Entry
<1> HIDE DEF e, g, n
<1>3. /\ g \in Heap /\ Len(g) = Len(h)
      /\ TermIs(g, Lowest(st, n - 1), st[n].b, st[n].holds \cap st[n - 1].holds)
      /\ \A k \in 1 .. Lowest(st, n - 1) - 1 : Alike(h, g, k)
  BY <1>1, AndMeans, Zenon DEF g
<1>4. Len(h) <= Len(g) /\ e.b = Len(g) /\ n - 2 + 1 = n - 1
  BY <1>1, <1>2, <1>3
<1>5. StackIs(g, Append(SubSeq(st, 1, n - 2), e))
  BY <1>1, <1>2, <1>3, <1>4, PushTerm DEF n
<1> QED  BY <1>5 DEF g, e, n

(* A disjunction replaces the two terms on top of the stack.               *)
LEMMA PushOr ==
    ASSUME NEW h, NEW st, StackIs(h, st), Len(st) > 1
    PROVE  LET n == Len(st)
               e == [st[n] EXCEPT !.holds = @ \cup st[n - 1].holds]
           IN  StackIs(gen_or(h, st[n - 1].b, st[n].b), Append(SubSeq(st, 1, n - 2), e))
<1> DEFINE n == Len(st)
           g == gen_or(h, st[n - 1].b, st[n].b)
           e == [st[n] EXCEPT !.holds = @ \cup st[n - 1].holds]
<1>1. /\ h \in Heap /\ n \in Nat /\ n - 1 \in 1 .. n /\ n - 2 \in 0 .. n
      /\ st[n] \in Entry /\ st[n - 1] \in Entry
      /\ st[n - 1].b \in Nat /\ st[n].b \in 1 .. Len(h) /\ st[n].b = Len(h)
      /\ TermIs(h, Lowest(st, n - 1), st[n - 1].b, st[n - 1].holds)
      /\ TermIs(h, st[n - 1].b + 1, st[n].b, st[n].holds)
  BY TopTerms
<1>2. /\ e \in Entry /\ e.b = st[n].b /\ e.holds = st[n].holds \cup st[n - 1].holds
      /\ st[n].holds \in SUBSET Packet /\ st[n - 1].holds \in SUBSET Packet
  BY <1>1 DEF Entry
<1> HIDE DEF e, g, n
<1>3. /\ g \in Heap /\ Len(g) = Len(h)
      /\ TermIs(g, Lowest(st, n - 1), st[n].b, st[n].holds \cup st[n - 1].holds)
      /\ \A k \in 1 .. Lowest(st, n - 1) - 1 : Alike(h, g, k)
  BY <1>1, <1>2, OrMeans, Zenon DEF g
<1>4. Len(h) <= Len(g) /\ e.b = Len(g) /\ n - 2 + 1 = n - 1
  BY <1>1, <1>2, <1>3
<1>5. StackIs(g, Append(SubSeq(st, 1, n - 2), e))
  BY <1>1, <1>2, <1>3, <1>4, PushTerm DEF n
<1> QED  BY <1>5 DEF g, e, n

(* What the parser keeps: its stack describes its heap.                    *)
ParseInv == source = "expression" /\ phase = "parse" => StackIs(blocks, stack)

(* Every reduction, and the end of the text, keep that.                    *)
LEMMA ParseStep ==
    ASSUME ParseInv, [Reduction \/ Accept]_parsevars
    PROVE  ParseInv'
<1> SUFFICES ASSUME source' = "expression", phase' = "parse"
             PROVE  StackIs(blocks', stack')
  BY DEF ParseInv
<1>1. CASE UNCHANGED parsevars
  BY <1>1 DEF ParseInv, parsevars
<1>2. CASE \E t \in 0 .. TESTS - 1 : Term(t)
  <2>1. PICK t \in 0 .. TESTS - 1 : Term(t)
    BY <1>2
  <2>2. StackIs(blocks, stack)
    BY <2>1 DEF ParseInv, Term, Parsing
  <2> QED  BY <2>1, <2>2, PushNew DEF Term
<1>3. CASE NotTerm
  <2>1. StackIs(blocks, stack) /\ stack # <<>>
    BY <1>3 DEF ParseInv, NotTerm, Parsing
  <2>2. Len(stack) - 0 = Len(stack)
    BY <2>1 DEF StackIs
  <2> QED  BY <1>3, <2>1, <2>2, PushNot DEF NotTerm, Top, Pop
<1>4. CASE AndTerm
  <2>1. StackIs(blocks, stack) /\ Len(stack) > 1
    BY <1>4 DEF ParseInv, AndTerm, Parsing
  <2>2. Len(stack) - 0 = Len(stack)
    BY <2>1 DEF StackIs
  <2> QED  BY <1>4, <2>1, <2>2, PushAnd DEF AndTerm, Top, Pop
<1>5. CASE OrTerm
  <2>1. StackIs(blocks, stack) /\ Len(stack) > 1
    BY <1>5 DEF ParseInv, OrTerm, Parsing
  <2>2. Len(stack) - 0 = Len(stack)
    BY <2>1 DEF StackIs
  <2> QED  BY <1>5, <2>1, <2>2, PushOr DEF OrTerm, Top, Pop
<1>6. CASE Accept
  BY <1>6 DEF Accept
<1> QED  BY <1>1, <1>2, <1>3, <1>4, <1>5, <1>6 DEF Reduction

(* The empty stack describes the empty heap.                               *)
LEMMA ParseStart ==
    GrammarInit => ParseInv
<1> SUFFICES ASSUME blocks = <<>>, stack = <<>>
             PROVE  StackIs(blocks, stack)
  BY DEF GrammarInit, ParseInv
<1>1. blocks \in Heap /\ stack \in Seq(Entry) /\ Len(blocks) = 0 /\ Len(stack) = 0
  BY DEF Heap
<1> QED  BY <1>1 DEF StackIs

(* The links of the blocks M, as edges, and the edge a packet takes.       *)
LinksOf(h, M) == {<<j, ~h[j].sense>> : j \in M}
Exit(h, k, q) == q[h[k].stmts[1].k + 1] = 1

(* A block leaves by the edge its sense makes the link.                    *)
LEMMA EdgeIs ==
    ASSUME NEW h, NEW M, NEW k, h[k].sense \in BOOLEAN, NEW q
    PROVE  <<k, Exit(h, k, q)>> \in LinksOf(h, M) <=> k \in M /\ ByLink(h, k, q)
<1>1. <<k, Exit(h, k, q)>> \in LinksOf(h, M) <=> k \in M /\ Exit(h, k, q) = ~h[k].sense
  BY Zenon DEF LinksOf
<1>2. CASE h[k].sense
  BY <1>1, <1>2, Zenon DEF ByLink, Exit
<1>3. CASE ~h[k].sense
  BY <1>1, <1>3, Zenon DEF ByLink, Exit
<1> QED  BY <1>2, <1>3

(* What the two lists of a term are, and by which edges a packet leaves it.*)
LEMMA OpenIs ==
    ASSUME NEW b \in 1 .. Len(blocks), blocks \in Heap, NEW lo, NEW T, NEW F,
           Shape(blocks, lo, b, T, F), NEW q, NEW k \in lo .. b
    PROVE  /\ <<k, Taken(k, q)>> \in OpenEdges(b, TRUE) <=> k \in T /\ ByLink(blocks, k, q)
           /\ <<k, Taken(k, q)>> \in OpenEdges(b, FALSE) <=>
                k \in F /\ IF k = b THEN ~ByLink(blocks, b, q) ELSE ByLink(blocks, k, q)
           /\ Target(k, Taken(k, q)) =
                IF ByLink(blocks, k, q) THEN Link(blocks, k) ELSE Other(blocks, k)
<1> DEFINE g == Flip(blocks, b)
<1>1. /\ lo \in Nat \ {0} /\ b \in lo .. Len(blocks) /\ Len(blocks) \in Nat
      /\ k \in 1 .. Len(blocks)
  BY DEF Shape, Heap
<1>2. Flipped(blocks, g, b)
  BY FlipLemma
<1>3. /\ g \in Heap /\ Len(g) = Len(blocks)
      /\ \A j \in 1 .. Len(blocks) : j # b => Alike(blocks, g, j)
      /\ Link(g, b) = Other(blocks, b)
      /\ \A v : ByLink(g, b, v) <=> ~ByLink(blocks, b, v)
  BY <1>2, Zenon DEF Flipped
<1>4. blocks[k] \in Block /\ g[k] \in Block
  BY <1>1, <1>3 DEF Heap
<1>5. blocks[k].sense \in BOOLEAN /\ g[k].sense \in BOOLEAN
  BY <1>4 DEF Block
<1>6. g[k].stmts = blocks[k].stmts
  <2>1. blocks[b] \in Block /\ DOMAIN blocks = 1 .. Len(blocks)
    BY <1>1 DEF Heap
  <2>2. CASE k = b
    BY <1>1, <2>1, <2>2 DEF Flip, Block
  <2>3. CASE k # b
    BY <1>1, <2>1, <2>3 DEF Flip
  <2> QED  BY <2>2, <2>3
<1> HIDE DEF g
<1>7. ListOf(blocks, b) = T
  BY <1>1, ListIs DEF Shape
<1>8. \A x \in lo .. b - 1 : Link(g, x) = Link(blocks, x)
  BY <1>1, <1>3 DEF Alike
<1>9. Threaded(g, lo, b, Link(g, b), F)
  <2>1. Threaded(blocks, lo, b, Link(g, b), F)
    BY <1>3 DEF Shape
  <2>2. \A x \in F \ {b} : x \in lo .. b - 1
    BY <1>1, <2>1 DEF Threaded
  <2> QED  BY <1>8, <2>1, <2>2, Zenon DEF Threaded
<1>10. ListOf(g, b) = F
  BY <1>1, <1>3, <1>9, ListIs
<1>11. Taken(k, q) = Exit(blocks, k, q)
  BY Zenon DEF Taken, Exit
<1>12. Taken(k, q) = Exit(g, k, q)
  BY <1>6, Zenon DEF Taken, Exit
<1>13. OpenEdges(b, TRUE) = LinksOf(blocks, T)
  BY <1>7 DEF OpenEdges, LinksOf
<1>14. OpenEdges(b, FALSE) = LinksOf(g, F)
  BY <1>10 DEF OpenEdges, LinksOf, g
<1>15. <<k, Taken(k, q)>> \in OpenEdges(b, TRUE) <=> k \in T /\ ByLink(blocks, k, q)
  <2>1. <<k, Exit(blocks, k, q)>> \in LinksOf(blocks, T) <=> k \in T /\ ByLink(blocks, k, q)
    BY <1>5, EdgeIs
  <2> QED  BY <1>11, <1>13, <2>1, Zenon
<1>16. <<k, Taken(k, q)>> \in OpenEdges(b, FALSE) <=> k \in F /\ ByLink(g, k, q)
  <2>1. <<k, Exit(g, k, q)>> \in LinksOf(g, F) <=> k \in F /\ ByLink(g, k, q)
    BY <1>5, EdgeIs
  <2> QED  BY <1>12, <1>14, <2>1, Zenon
<1>17. ByLink(g, k, q) <=> IF k = b THEN ~ByLink(blocks, b, q) ELSE ByLink(blocks, k, q)
  BY <1>1, <1>3 DEF Alike
<1>18. Target(k, Taken(k, q)) =
           IF ByLink(blocks, k, q) THEN Link(blocks, k) ELSE Other(blocks, k)
  BY <1>5 DEF Target, Taken, ByLink, Link, Other
<1> QED  BY <1>15, <1>16, <1>17, <1>18, Zenon

(* A packet walks through a term upwards, and leaves by the list that the  *)
(* blocks it meets promise.                                                *)
LEMMA OutcomeIs ==
    ASSUME blocks \in Heap, NEW b \in 1 .. Len(blocks), NEW lo, NEW holds,
           TermIs(blocks, lo, b, holds), NEW q \in Packet
    PROVE  Outcomes(b, q) = {(q \in holds)}
<1>1. PICK T \in SUBSET (lo .. b), F \in SUBSET (lo .. b) :
          Shape(blocks, lo, b, T, F) /\ Means(blocks, lo, b, T, F, holds)
  BY DEF TermIs
<1>2. PICK V \in SUBSET (lo .. b) :
          Leads(blocks, lo, b, T, F, q, V) /\ (q \in holds <=> lo \in V)
  BY <1>1 DEF Means
<1>3. blocks[b].head = lo
  BY DEF TermIs
<1> DEFINE N == Len(blocks)
           On(side, k) == <<k, Taken(k, q)>> \in OpenEdges(b, side)
           next == [k \in 1 .. N |-> IF On(TRUE, k) \/ On(FALSE, k) THEN Null
                                     ELSE Target(k, Taken(k, q))]
           R == Follow(next, lo)
           S == {k \in lo .. b : k \in V <=> lo \in V}
           rank == [k \in 1 .. N |-> N - k]
<1>4. N \in Nat /\ lo \in 1 .. b /\ b \in 1 .. N /\ lo .. b \subseteq 1 .. N
  BY <1>1 DEF Shape, Heap
<1>5. ASSUME NEW k \in lo .. b
      PROVE  /\ On(TRUE, k) <=> k \in T /\ ByLink(blocks, k, q)
             /\ On(FALSE, k) <=>
                  k \in F /\ IF k = b THEN ~ByLink(blocks, b, q) ELSE ByLink(blocks, k, q)
             /\ Target(k, Taken(k, q)) =
                  IF ByLink(blocks, k, q) THEN Link(blocks, k) ELSE Other(blocks, k)
  BY <1>1, OpenIs
<1>6. \A k \in 1 .. N : next[k] = IF On(TRUE, k) \/ On(FALSE, k) THEN Null
                                  ELSE Target(k, Taken(k, q))
  OBVIOUS
<1>7. Len(next) = N
  BY <1>4
<1>8. Outcomes(b, q) = {side \in BOOLEAN : \E k \in R : On(side, k)}
  <2>1. \A k : <<k, Taken(k, q)>> \in OpenEdges(b, TRUE) \cup OpenEdges(b, FALSE)
               <=> On(TRUE, k) \/ On(FALSE, k)
    OBVIOUS
  <2> QED  BY <1>3, <2>1, Zenon DEF Outcomes, Terms
<1> HIDE DEF On, next, R, N
<1>9. b \in T \cap F
  BY <1>1 DEF Shape, Threaded
<1>10. On(TRUE, b) \/ On(FALSE, b)
  BY <1>4, <1>5, <1>9
<1>11. ASSUME NEW k \in lo .. b, next[k] # Null
       PROVE  /\ next[k] \in lo .. b /\ k < next[k]
              /\ k \in V <=> next[k] \in V
  <2>1. ~On(TRUE, k) /\ ~On(FALSE, k) /\ next[k] = Target(k, Taken(k, q))
    BY <1>4, <1>6, <1>11
  <2>a. k # b
    BY <1>10, <2>1, Zenon
  <2>2. k # b /\ k \in lo .. b - 1
    BY <1>4, <2>a
  <2>3. CASE ByLink(blocks, k, q)
    <3>1. k \notin T \cup F /\ next[k] = Link(blocks, k)
      BY <1>5, <2>1, <2>2, <2>3
    <3>2. next[k] \in k + 1 .. b
      BY <1>1, <2>2, <3>1 DEF Shape
    <3>3. k \in V <=> next[k] \in V
      BY <1>2, <2>2, <2>3, <3>1 DEF Leads
    <3> QED  BY <1>4, <3>2, <3>3
  <2>4. CASE ~ByLink(blocks, k, q)
    <3>1. next[k] = Other(blocks, k)
      BY <1>5, <2>1, <2>4
    <3>2. next[k] \in k + 1 .. b
      BY <1>1, <2>2, <3>1 DEF Shape
    <3>3. k \in V <=> next[k] \in V
      BY <1>2, <2>2, <2>4, <3>1 DEF Leads
    <3> QED  BY <1>4, <3>2, <3>3
  <2> QED  BY <2>3, <2>4
<1>12. ASSUME NEW k \in lo .. b
       PROVE  (On(TRUE, k) => k \in V) /\ (On(FALSE, k) => k \notin V)
  <2>1. CASE k = b
    BY <1>2, <1>5, <2>1 DEF Leads
  <2>2. CASE k # b
    <3>1. k \in lo .. b - 1
      BY <1>4, <2>2
    <3> QED  BY <1>2, <1>5, <2>2, <3>1 DEF Leads
  <2> QED  BY <2>1, <2>2
<1>13. Descent(next, N, S, rank)
  <2>1. S \subseteq 1 .. N
    BY <1>4
  <2>2. rank \in [1 .. N -> 0 .. N - 1]
    BY <1>4
  <2>3. ASSUME NEW x \in S
        PROVE  /\ next[x] \in S \cup {Null}
               /\ next[x] # Null => rank[next[x]] < rank[x]
    <3>1. CASE next[x] = Null
      BY <3>1
    <3>2. CASE next[x] # Null
      <4>1. /\ next[x] \in lo .. b /\ x < next[x]
            /\ x \in V <=> next[x] \in V
        BY <1>11, <3>2
      <4>2. next[x] \in S
        BY <4>1
      <4>3. rank[next[x]] = N - next[x] /\ rank[x] = N - x
        BY <1>4, <2>1, <4>2
      <4> QED  BY <1>4, <2>1, <4>1, <4>2, <4>3
    <3> QED  BY <3>1, <3>2
  <2> QED  BY <1>4, <1>7, <2>1, <2>2, <2>3 DEF Descent
<1>14. lo \in S
  BY <1>4
<1>15. R \subseteq S
  BY <1>13, <1>14, FollowLemma DEF R
<1>16. lo \in R /\ \A x \in R : next[x] \in R \cup {Null}
  BY <1>13, <1>14, FollowLemma DEF R
<1>17. PICK x \in R : \A y \in R : y <= x
  <2>1. R \subseteq 0 .. N /\ R # {}
    BY <1>4, <1>15, <1>16
  <2> HIDE DEF S, rank
  <2> QED  BY <1>4, <2>1, Greatest, Zenon
<1>18. next[x] = Null
  <2>1. x \in lo .. b
    BY <1>15
  <2> SUFFICES ASSUME next[x] # Null PROVE FALSE
    OBVIOUS
  <2>2. x < next[x] /\ next[x] \in lo .. b
    BY <1>11, <2>1
  <2>3. next[x] <= x
    BY <1>16, <1>17
  <2> QED  BY <1>4, <2>1, <2>2, <2>3
<1>19. On(TRUE, x) \/ On(FALSE, x)
  <2>1. x \in lo .. b /\ x \in 1 .. N
    BY <1>4, <1>15
  <2> SUFFICES ASSUME ~On(TRUE, x), ~On(FALSE, x) PROVE FALSE
    OBVIOUS
  <2>a. x # b
    BY <1>10, Zenon
  <2>2. x # b /\ x \in lo .. b - 1
    BY <1>4, <2>1, <2>a
  <2>3. Target(x, Taken(x, q)) = Null
    BY <1>6, <1>18, <2>1
  <2>4. Target(x, Taken(x, q)) \in x + 1 .. b
    <3>1. Other(blocks, x) \in x + 1 .. b
      BY <1>1, <2>2 DEF Shape
    <3>2. ByLink(blocks, x, q) => x \notin T \cup F
      BY <1>5, <2>1, <2>2
    <3>3. ByLink(blocks, x, q) => Link(blocks, x) \in x + 1 .. b
      BY <1>1, <2>2, <3>2 DEF Shape
    <3> QED  BY <1>5, <2>1, <3>1, <3>3
  <2> QED  BY <1>4, <2>1, <2>3, <2>4 DEF Null
<1>20. \A k \in R : k \in lo .. b /\ (k \in V <=> lo \in V)
  BY <1>15
<1>21. (\E k \in R : On(TRUE, k)) <=> q \in holds
  BY <1>2, <1>12, <1>17, <1>19, <1>20
<1>22. (\E k \in R : On(FALSE, k)) <=> q \notin holds
  BY <1>2, <1>12, <1>17, <1>19, <1>20
<1>23. CASE q \in holds
  <2>1. (q \in holds) = TRUE
    BY <1>23
  <2>2. {side \in BOOLEAN : \E k \in R : On(side, k)} = {TRUE}
    BY <1>21, <1>22, <1>23, Zenon
  <2>3. {(q \in holds)} = {TRUE}
    BY <2>1
  <2> HIDE DEF On
  <2> QED  BY <1>8, <2>2, <2>3
<1>24. CASE q \notin holds
  <2>1. (q \in holds) = FALSE
    BY <1>24
  <2>2. {side \in BOOLEAN : \E k \in R : On(side, k)} = {FALSE}
    BY <1>21, <1>22, <1>24, Zenon
  <2>3. {(q \in holds)} = {FALSE}
    BY <2>1
  <2> HIDE DEF On
  <2> QED  BY <1>8, <2>2, <2>3
<1> QED  BY <1>23, <1>24

(* At every moment of the parse and for every term on the parser's stack,  *)
(* a packet leaves the term by its true list exactly if the expression     *)
(* holds of it.                                                            *)
LEMMA TermsAreExpression == GrammarSpec => []TermsMeanExpression
<1>1. ParseInv => TermsMeanExpression
  <2> SUFFICES ASSUME StackIs(blocks, stack), NEW i \in 1 .. Len(stack), NEW q \in Packet
               PROVE  Outcomes(stack[i].b, q) = {(q \in stack[i].holds)}
    BY DEF ParseInv, TermsMeanExpression
  <2>1. /\ blocks \in Heap /\ stack[i].b \in 1 .. Len(blocks)
        /\ TermIs(blocks, Lowest(stack, i), stack[i].b, stack[i].holds)
    BY DEF StackIs
  <2> QED  BY <2>1, OutcomeIs, Zenon
<1> QED  BY <1>1, ParseStart, ParseStep, PTL DEF GrammarSpec

-----------------------------------------------------------------------------
(* A new block leaves the others alone.                                    *)
LEMMA NewKeeps ==
    ASSUME NEW h \in Heap, NEW test \in Code
    PROVE  LET g == new_block(h, <<>>, test)
           IN  /\ g \in Heap /\ Len(g) = Len(h) + 1
               /\ \A k \in 1 .. Len(h) : Alike(h, g, k)
<1> DEFINE g == new_block(h, <<>>, test)
           n == Len(h) + 1
           new == [stmts |-> <<>>, s |-> test, sense |-> FALSE, jt |-> Null,
                   jf |-> Null, head |-> n, longjt |-> 0, longjf |-> 0, offset |-> 0]
<1>1. Len(h) \in Nat
  BY DEF Heap
<1>2. new \in Block
  BY <1>1 DEF Block, Null
<1>3. g = Append(h, new)
  BY DEF new_block
<1> HIDE DEF new, g
<1>4. g \in Heap /\ Len(g) = n /\ \A k \in 1 .. Len(h) : g[k] = h[k]
  BY <1>1, <1>2, <1>3 DEF Heap
<1>5. \A k \in 1 .. Len(h) : Alike(h, g, k)
  BY <1>4, AlikeEqual
<1> QED
  BY <1>4, <1>5 DEF g

(* What finish_parse makes of a term: the links of its two lists lead to   *)
(* the two return blocks behind it, and nothing else has changed.          *)
Closed(h, g, lo, b, T, F) ==
    /\ g \in Heap /\ Len(g) = Len(h) + 2
    /\ \A k \in lo .. b - 1 :
         /\ Other(g, k) = Other(h, k)
         /\ \A q : ByLink(g, k, q) <=> ByLink(h, k, q)
         /\ Link(g, k) = IF k \in T THEN Len(h) + 1
                         ELSE IF k \in F THEN Len(h) + 2 ELSE Link(h, k)
    /\ Other(g, b) = Len(h) + 1
    /\ Link(g, b) = Len(h) + 2
    /\ \A q : ByLink(g, b, q) <=> ~ByLink(h, b, q)
    /\ g[b].head = h[b].head

(* finish_parse closes a term (gencode.c, lines 605 to 609).               *)
LEMMA FinishIs ==
    ASSUME NEW h \in Heap, NEW lo, NEW b \in 1 .. Len(h), NEW T, NEW F,
           Shape(h, lo, b, T, F), NEW accept \in Code, NEW reject \in Code
    PROVE  Closed(h, finish_parse(h, b, accept, reject), lo, b, T, F)
<1> DEFINE N == Len(h)
           h1 == new_block(h, <<>>, accept)
           h2 == backpatch(h1, b, Len(h1))
           h3 == Flip(h2, b)
           h4 == new_block(h3, <<>>, reject)
           g == backpatch(h4, b, Len(h4))
<1>1. finish_parse(h, b, accept, reject) = g
  BY DEF finish_parse
<1>2. /\ N \in Nat /\ lo \in Nat \ {0} /\ lo \in 1 .. b /\ b \in 1 .. N
      /\ \A k \in lo .. b : k \in 1 .. N
  BY DEF Shape, Heap
<1>3. /\ Threaded(h, lo, b, Link(h, b), T) /\ Threaded(h, lo, b, Other(h, b), F)
      /\ T \subseteq lo .. b /\ F \subseteq lo .. b /\ b \in T /\ b \in F
      /\ \A x \in F \ {b} : x \notin T
  BY DEF Shape, Threaded
<1>4. h1 \in Heap /\ Len(h1) = N + 1 /\ \A k \in 1 .. N : Alike(h, h1, k)
  BY NewKeeps
<1> HIDE DEF h1
<1>5. Repointed(h1, h2, T, N + 1)
  <2>1. \A x \in T : Link(h1, x) = Link(h, x)
    BY <1>2, <1>3, <1>4 DEF Alike
  <2>2. Threaded(h1, lo, b, Link(h1, b), T)
    BY <1>3, <2>1 DEF Threaded
  <2>3. Len(h1) \in Nat /\ b \in lo .. Len(h1)
    BY <1>2, <1>4
  <2>4. ListOf(h1, b) = T
    BY <1>2, <2>2, <2>3, ListIs
  <2>5. T \in SUBSET (1 .. Len(h1)) /\ Len(h1) \in Nat
    BY <1>2, <1>3, <1>4
  <2>6. Repointed(h1, h2, T, Len(h1))
    BY <1>4, <2>4, <2>5, BackpatchLemma
  <2> QED
    BY <1>4, <2>6
<1> HIDE DEF h2
<1>6. h2 \in Heap /\ Len(h2) = N + 1
  BY <1>4, <1>5 DEF Repointed
<1>7. Flipped(h2, h3, b)
  <2>1. b \in 1 .. Len(h2)
    BY <1>2, <1>6
  <2> QED
    BY <1>6, <2>1, FlipLemma
<1> HIDE DEF h3
<1>8. h3 \in Heap /\ Len(h3) = N + 1
  BY <1>6, <1>7 DEF Flipped
<1>9. h4 \in Heap /\ Len(h4) = N + 2 /\ \A k \in 1 .. N + 1 : Alike(h3, h4, k)
  <2>1. h4 \in Heap /\ Len(h4) = Len(h3) + 1 /\ \A k \in 1 .. Len(h3) : Alike(h3, h4, k)
    BY <1>8, NewKeeps
  <2> QED
    BY <1>2, <1>8, <2>1
<1> HIDE DEF h4
<1>10. /\ Link(h4, b) = Other(h, b) /\ Other(h4, b) = N + 1
       /\ \A q : ByLink(h4, b, q) <=> ~ByLink(h, b, q)
       /\ h4[b].head = h[b].head
  <2>1. b \in 1 .. N + 1
    BY <1>2
  <2>2. /\ Link(h2, b) = N + 1 /\ Other(h2, b) = Other(h1, b)
        /\ \A q : ByLink(h2, b, q) <=> ByLink(h1, b, q)
        /\ h2[b].head = h1[b].head
    BY <1>3, <1>5 DEF Repointed
  <2>3. Alike(h, h1, b) /\ Alike(h3, h4, b)
    BY <1>2, <1>4, <1>9, <2>1
  <2> QED
    BY <1>7, <2>2, <2>3, Zenon DEF Flipped, Alike
<1>11. ASSUME NEW k \in lo .. b - 1
       PROVE  /\ Other(h4, k) = Other(h, k)
              /\ \A q : ByLink(h4, k, q) <=> ByLink(h, k, q)
              /\ Link(h4, k) = IF k \in T THEN N + 1 ELSE Link(h, k)
  <2>1. k \in 1 .. N /\ k \in 1 .. N + 1 /\ k # b
    BY <1>2
  <2>2. Alike(h, h1, k) /\ Alike(h2, h3, k) /\ Alike(h3, h4, k)
    BY <1>4, <1>6, <1>7, <1>9, <2>1 DEF Flipped
  <2>3. CASE k \in T
    <3>1. /\ Link(h2, k) = N + 1 /\ Other(h2, k) = Other(h1, k)
          /\ \A q : ByLink(h2, k, q) <=> ByLink(h1, k, q)
      BY <1>5, <2>3 DEF Repointed
    <3> QED
      BY <2>2, <2>3, <3>1, Zenon DEF Alike
  <2>4. CASE k \notin T
    <3>1. Alike(h1, h2, k)
      BY <1>4, <1>5, <2>1, <2>4 DEF Repointed
    <3> QED
      BY <2>2, <2>4, <3>1, Zenon DEF Alike
  <2> QED
    BY <2>3, <2>4
<1>12. Repointed(h4, g, F, N + 2)
  <2>1. \A x \in F \ {b} : x \in lo .. b - 1
    BY <1>2, <1>3
  <2>2. \A x \in F \ {b} : Link(h4, x) = Link(h, x)
    BY <1>3, <1>11, <2>1
  <2>3. Threaded(h4, lo, b, Link(h4, b), F)
    BY <1>3, <1>10, <2>2 DEF Threaded
  <2>4. Len(h4) \in Nat /\ b \in lo .. Len(h4)
    BY <1>2, <1>9
  <2>5. ListOf(h4, b) = F
    BY <1>2, <2>3, <2>4, ListIs
  <2>6. F \in SUBSET (1 .. Len(h4))
    BY <1>2, <1>3, <1>9
  <2>7. Repointed(h4, g, F, Len(h4))
    BY <1>9, <2>4, <2>5, <2>6, BackpatchLemma
  <2> QED
    BY <1>9, <2>7
<1> HIDE DEF g
<1>13. g \in Heap /\ Len(g) = N + 2
  BY <1>9, <1>12 DEF Repointed
<1>14. ASSUME NEW k \in lo .. b - 1
       PROVE  /\ Other(g, k) = Other(h, k)
              /\ \A q : ByLink(g, k, q) <=> ByLink(h, k, q)
              /\ Link(g, k) = IF k \in T THEN N + 1 ELSE IF k \in F THEN N + 2 ELSE Link(h, k)
  <2>1. k \in 1 .. Len(h4) /\ k # b
    BY <1>2, <1>9
  <2>2. /\ Other(h4, k) = Other(h, k)
        /\ \A q : ByLink(h4, k, q) <=> ByLink(h, k, q)
        /\ Link(h4, k) = IF k \in T THEN N + 1 ELSE Link(h, k)
    BY <1>11
  <2>3. CASE k \in F
    <3>1. k \notin T
      BY <1>3, <2>1, <2>3
    <3>2. /\ Link(g, k) = N + 2 /\ Other(g, k) = Other(h4, k)
          /\ \A q : ByLink(g, k, q) <=> ByLink(h4, k, q)
      BY <1>12, <2>3 DEF Repointed
    <3> QED
      BY <2>2, <2>3, <3>1, <3>2, Zenon
  <2>4. CASE k \notin F
    <3>1. Alike(h4, g, k)
      BY <1>12, <2>1, <2>4 DEF Repointed
    <3> QED
      BY <2>2, <2>4, <3>1, Zenon DEF Alike
  <2> QED
    BY <2>3, <2>4
<1>15. /\ Other(g, b) = N + 1 /\ Link(g, b) = N + 2
       /\ \A q : ByLink(g, b, q) <=> ~ByLink(h, b, q)
       /\ g[b].head = h[b].head
  <2>1. /\ Link(g, b) = N + 2 /\ Other(g, b) = Other(h4, b)
        /\ \A q : ByLink(g, b, q) <=> ByLink(h4, b, q)
        /\ g[b].head = h4[b].head
    BY <1>3, <1>12 DEF Repointed
  <2> QED
    BY <1>10, <2>1, Zenon
<1>16. Closed(h, g, lo, b, T, F)
  BY <1>13, <1>14, <1>15 DEF Closed
<1> QED
  BY <1>1, <1>16

(* Where a packet goes in a finished graph, and the blocks it meets.       *)
Turn(g, q) ==
    [k \in 1 .. Len(g) |->
        IF k > Len(g) - 2 THEN Null
        ELSE IF q[g[k].stmts[1].k + 1] = 1 THEN g[k].jt ELSE g[k].jf]
MetIn(g, b, q) == Follow(Turn(g, q), g[b].head)

(* A block sends a packet on by its link or by its other edge.             *)
LEMMA TurnIs ==
    ASSUME NEW g \in Heap, NEW q, NEW k \in 1 .. Len(g)
    PROVE  Turn(g, q)[k] = IF k > Len(g) - 2 THEN Null
                           ELSE IF ByLink(g, k, q) THEN Link(g, k) ELSE Other(g, k)
<1>1. g[k] \in Block
  BY DEF Heap
<1>2. g[k].sense \in BOOLEAN
  BY <1>1 DEF Block
<1> QED
  BY <1>2 DEF Turn, ByLink, Link, Other

(* In the finished graph of a term, a packet comes to the return block     *)
(* that the expression asks for, and only to that one.                     *)
LEMMA FinishMeans ==
    ASSUME NEW h \in Heap, NEW lo, NEW b, b = Len(h), NEW T, NEW F, NEW holds,
           Shape(h, lo, b, T, F), Means(h, lo, b, T, F, holds), h[b].head = lo,
           NEW g, Closed(h, g, lo, b, T, F), NEW q \in Packet
    PROVE  MetIn(g, b, q) \cap {Len(g) - 1, Len(g)} =
               {IF q \in holds THEN Len(g) - 1 ELSE Len(g)}
<1>1. PICK V \in SUBSET (lo .. b) :
          Leads(h, lo, b, T, F, q, V) /\ (q \in holds <=> lo \in V)
  BY DEF Means
<1> DEFINE N == b + 2
           next == Turn(g, q)
           R == Follow(next, lo)
           end == IF lo \in V THEN b + 1 ELSE b + 2
           S == {k \in lo .. b : k \in V <=> lo \in V} \cup {end}
           rank == [k \in 1 .. N |-> N - k]
<1>2. /\ b \in Nat /\ lo \in 1 .. b /\ N \in Nat
      /\ lo .. b \subseteq 1 .. N /\ b \in lo .. b
  BY DEF Shape, Heap
<1>3. g \in Heap /\ Len(g) = N /\ g[b].head = lo
  BY DEF Closed
<1>4. \A k \in lo .. b : next[k] = IF ByLink(g, k, q) THEN Link(g, k) ELSE Other(g, k)
  <2> SUFFICES ASSUME NEW k \in lo .. b
               PROVE  next[k] = IF ByLink(g, k, q) THEN Link(g, k) ELSE Other(g, k)
    OBVIOUS
  <2>1. k \in 1 .. Len(g) /\ ~(k > Len(g) - 2)
    BY <1>2, <1>3
  <2> QED
    BY <1>3, <2>1, TurnIs
<1>5. next[b + 1] = Null /\ next[b + 2] = Null
  <2>1. /\ b + 1 \in 1 .. Len(g) /\ b + 1 > Len(g) - 2
        /\ b + 2 \in 1 .. Len(g) /\ b + 2 > Len(g) - 2
    BY <1>2, <1>3
  <2> QED
    BY <1>3, <2>1, TurnIs
<1>6. Len(next) = N
  BY <1>2, <1>3 DEF Turn
<1>7. MetIn(g, b, q) = R
  BY <1>3 DEF MetIn
<1> HIDE DEF next, R, N
<1>8. b \in T /\ b \in F
  BY DEF Shape, Threaded
<1>9. ASSUME NEW k \in lo .. b
      PROVE  /\ next[k] \in k + 1 .. b + 2
             /\ next[k] \in lo .. b => (k \in V <=> next[k] \in V)
             /\ next[k] = b + 1 => k \in V
             /\ next[k] = b + 2 => k \notin V
  <2>1. CASE k = b
    <3>1. next[k] = IF ByLink(h, b, q) THEN b + 1 ELSE b + 2
      BY <1>4, <2>1 DEF Closed
    <3>2. b \in V <=> ByLink(h, b, q)
      BY <1>1 DEF Leads
    <3> QED
      BY <1>2, <2>1, <3>1, <3>2
  <2>2. CASE k # b
    <3>1. k \in lo .. b - 1
      BY <1>2, <2>2
    <3>2. next[k] = IF ~ByLink(h, k, q) THEN Other(h, k)
                    ELSE IF k \in T THEN b + 1
                    ELSE IF k \in F THEN b + 2 ELSE Link(h, k)
      BY <1>4, <3>1 DEF Closed
    <3>3. /\ Other(h, k) \in k + 1 .. b
          /\ k \notin T \cup F => Link(h, k) \in k + 1 .. b
      BY <3>1 DEF Shape
    <3>4. /\ ByLink(h, k, q) /\ k \in T => k \in V
          /\ ByLink(h, k, q) /\ k \in F => k \notin V
          /\ ByLink(h, k, q) /\ k \notin T \cup F => (k \in V <=> Link(h, k) \in V)
          /\ ~ByLink(h, k, q) => (k \in V <=> Other(h, k) \in V)
      BY <1>1, <3>1 DEF Leads
    <3>5. CASE ~ByLink(h, k, q)
      BY <1>2, <3>1, <3>2, <3>3, <3>4, <3>5
    <3>6. CASE ByLink(h, k, q) /\ k \notin T \cup F
      BY <1>2, <3>1, <3>2, <3>3, <3>4, <3>6
    <3>7. CASE ByLink(h, k, q) /\ k \in T
      BY <1>2, <3>1, <3>2, <3>4, <3>7
    <3>8. CASE ByLink(h, k, q) /\ k \in F /\ k \notin T
      BY <1>2, <3>1, <3>2, <3>4, <3>8
    <3> QED
      BY <3>5, <3>6, <3>7, <3>8
  <2> QED
    BY <2>1, <2>2
<1>10. end \in {b + 1, b + 2} /\ end \in 1 .. N /\ next[end] = Null
  BY <1>2, <1>5 DEF N
<1>11. Descent(next, N, S, rank)
  <2>1. S \subseteq 1 .. N
    BY <1>2, <1>10
  <2>2. rank \in [1 .. N -> 0 .. N - 1]
    BY <1>2
  <2>3. ASSUME NEW x \in S
        PROVE  /\ next[x] \in S \cup {Null}
               /\ next[x] # Null => rank[next[x]] < rank[x]
    <3>1. CASE x = end
      BY <1>10, <3>1
    <3>2. CASE x \in lo .. b /\ (x \in V <=> lo \in V)
      <4>1. /\ next[x] \in x + 1 .. b + 2
            /\ next[x] \in lo .. b => (x \in V <=> next[x] \in V)
            /\ next[x] = b + 1 => x \in V
            /\ next[x] = b + 2 => x \notin V
        BY <1>9, <3>2
      <4>2. next[x] \in lo .. b \/ next[x] = b + 1 \/ next[x] = b + 2
        BY <1>2, <3>2, <4>1
      <4>3. next[x] \in S
        BY <3>2, <4>1, <4>2
      <4>4. rank[next[x]] = N - next[x] /\ rank[x] = N - x
        BY <2>1, <4>3
      <4>5. x < next[x] /\ x \in Nat /\ next[x] \in Nat
        BY <1>2, <3>2, <4>1
      <4>6. rank[next[x]] < rank[x]
        BY <1>2, <4>4, <4>5
      <4> QED
        BY <4>3, <4>6
    <3> QED
      BY <3>1, <3>2
  <2> HIDE DEF S, rank
  <2> QED
    BY <1>2, <1>6, <2>1, <2>2, <2>3 DEF Descent
<1>12. lo \in S
  BY <1>2
<1>13. S \subseteq 0 .. N
  BY <1>2, <1>10
<1>14. \A k \in S : k # end => k \in lo .. b
  OBVIOUS
<1>15. S \cap {b + 1, b + 2} = {end}
  BY <1>2, <1>10
<1>16. end = IF q \in holds THEN b + 1 ELSE b + 2
  BY <1>1
<1> HIDE DEF S, rank, end
<1>17. /\ R \subseteq S /\ lo \in R
       /\ \A x \in R : next[x] \in R \cup {Null}
  BY <1>11, <1>12, FollowLemma DEF R
<1>18. PICK x \in R : \A y \in R : y <= x
  <2>1. R \subseteq 0 .. N /\ R # {}
    BY <1>13, <1>17
  <2> QED
    BY <1>2, <2>1, Greatest, Zenon
<1>19. x = end
  <2> SUFFICES ASSUME x # end PROVE FALSE
    OBVIOUS
  <2>1. x \in lo .. b
    BY <1>14, <1>17, <1>18
  <2>2. next[x] \in x + 1 .. b + 2
    BY <1>9, <2>1
  <2>3. next[x] # Null
    BY <1>2, <2>1, <2>2 DEF Null
  <2>4. next[x] <= x
    BY <1>17, <1>18, <2>3
  <2> QED
    BY <1>2, <2>1, <2>2, <2>4
<1>20. R \cap {b + 1, b + 2} = {end}
  BY <1>10, <1>15, <1>17, <1>18, <1>19
<1>21. Len(g) = b + 2 /\ Len(g) - 1 = b + 1
  BY <1>2, <1>3 DEF N
<1> QED
  BY <1>7, <1>16, <1>20, <1>21

(* When the parse is over, a packet that enters at the head comes to the   *)
(* accepting return block exactly if the expression holds of it, and else  *)
(* to the rejecting one.                                                   *)
LEMMA FinishedIsExpression == GrammarSpec => []FinishedMeansExpression
<1>1. GrammarInit => FinishedMeansExpression
  BY DEF GrammarInit, FinishedMeansExpression
<1>2. ASSUME ParseInv, FinishedMeansExpression, [Reduction \/ Accept]_parsevars
      PROVE  FinishedMeansExpression'
  <2>1. CASE UNCHANGED parsevars
    BY <1>2, <2>1
       DEF FinishedMeansExpression, parsevars, Met, Target, Taken, Terms, Top
  <2>2. CASE Reduction
    <3>1. phase' # "convert"
      BY <2>2 DEF Reduction, Term, NotTerm, AndTerm, OrTerm, Parsing
    <3> QED
      BY <3>1 DEF FinishedMeansExpression
  <2>3. CASE Accept
    <3> SUFFICES ASSUME source' = "expression", NEW q \in Packet
                 PROVE  (Met(Top(0).b, q) \cap {Terms - 1, Terms} =
                            {IF q \in Top(0).holds THEN Terms - 1 ELSE Terms})'
      BY DEF FinishedMeansExpression
    <3> DEFINE b == stack[1].b
               holds == stack[1].holds
               accept == Insn("ret_k", "-", SNAPLEN)
               reject == Insn("ret_k", "-", 0)
    <3>1. StackIs(blocks, stack) /\ Len(stack) = 1 /\ UNCHANGED stack
      BY <1>2, <2>3 DEF Accept, ParseInv
    <3>2. Top(0) = stack[1] /\ Top(0)' = stack[1]
      <4>1. Len(stack) - 0 = 1 /\ stack' = stack
        BY <3>1
      <4>2. Top(0) = stack[Len(stack) - 0] /\ Top(0)' = stack'[Len(stack') - 0]
        BY DEF Top
      <4> QED
        BY <4>1, <4>2, Zenon
    <3>3. /\ blocks \in Heap /\ b = Len(blocks) /\ b \in 1 .. Len(blocks)
          /\ TermIs(blocks, 1, b, holds)
      <4>1. 1 \in 1 .. Len(stack) /\ Len(stack) # 0
        BY <3>1
      <4>2. Lowest(stack, 1) = 1
        BY DEF Lowest
      <4> QED
        BY <3>1, <4>1, <4>2 DEF StackIs
    <3>4. accept \in Code /\ reject \in Code
      <4>1. SNAPLEN \in Nat
        BY GrammarAssumption, WordAssumption
      <4> QED
        BY <4>1 DEF Insn, Code, Op, Arg
    <3>5. blocks' = finish_parse(blocks, b, accept, reject)
      BY <2>3, <3>2 DEF Accept
    <3> HIDE DEF b, holds, accept, reject
    <3>6. PICK T, F : Shape(blocks, 1, b, T, F) /\ Means(blocks, 1, b, T, F, holds)
      BY <3>3 DEF TermIs
    <3>7. blocks[b].head = 1
      BY <3>3 DEF TermIs
    <3>8. Closed(blocks, blocks', 1, b, T, F)
      BY <3>3, <3>4, <3>5, <3>6, FinishIs
    <3>9. MetIn(blocks', b, q) \cap {Len(blocks') - 1, Len(blocks')} =
              {IF q \in holds THEN Len(blocks') - 1 ELSE Len(blocks')}
      BY <3>3, <3>6, <3>7, <3>8, FinishMeans
    <3>10. (Met(Top(0).b, q))' = MetIn(blocks', b, q)
      BY <3>2 DEF Met, MetIn, Turn, Target, Taken, Terms, b
    <3>11. Terms' = Len(blocks') /\ (Top(0).holds)' = holds
      BY <3>2 DEF Terms, holds
    <3> QED
      BY <3>9, <3>10, <3>11
  <2> QED
    BY <1>2, <2>1, <2>2, <2>3
<1> QED
  BY <1>1, <1>2, ParseStart, ParseStep, PTL DEF GrammarSpec

(* The graph of every expression, however long and however nested: at      *)
(* every moment of the parse, for every term on the parser's stack, and in *)
(* the graph finish_parse leaves behind, gencode.c sends a packet where    *)
(* the expression does.                                                    *)
THEOREM GraphIsExpression == GrammarSpec => []GraphMeansExpression
  BY TermsAreExpression, FinishedIsExpression, PTL DEF GraphMeansExpression
=============================================================================
