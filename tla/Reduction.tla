----------------------------- MODULE Reduction ------------------------------
(***************************************************************************)
(* One block of the kernels dot, sum and sumSquare of coefficient.cu.      *)
(* They differ only in the term a thread adds for an input; a value is     *)
(* therefore kept as the number of times each input's term is in it.       *)
(*                                                                         *)
(* Between two barriers the threads run in any order: a thread may read    *)
(* its neighbour's cell before or after the neighbour has updated it.      *)
(***************************************************************************)
EXTENDS Integers, FiniteSetsExt

CONSTANTS
  THREAD_NUM,       \* blockDim.x; the grid has one block
  ARRAY_LENGTH,     \* inputs
  threadsPerBlock,  \* cells of the shared array cache
  UNINIT            \* what a cell holds before it is written

ASSUME ReductionAssumption ==
  /\ THREAD_NUM \in Nat \ {0}
  /\ ARRAY_LENGTH \in Nat
  /\ threadsPerBlock \in Nat /\ THREAD_NUM <= threadsPerBlock
  /\ UNINIT \notin [0 .. ARRAY_LENGTH - 1 -> Nat]

VARIABLES
  pc,     \* where each thread is
  tid,    \* input each thread loads next
  temp,   \* what each thread has loaded
  cache,  \* the shared array
  i,      \* stride of the reduction; the same in every thread
  reg,    \* sum a thread has computed and not yet written
  output  \* output[blockIdx.x]

vars == <<pc, tid, temp, cache, i, reg, output>>

Thread == 0 .. THREAD_NUM - 1
Input == 0 .. ARRAY_LENGTH - 1
Zero == [k \in Input |-> 0]
Term(x) == [k \in Input |-> IF k = x THEN 1 ELSE 0]

Plus(v, w) ==
  IF UNINIT \in {v, w} THEN UNINIT ELSE [k \in Input |-> v[k] + w[k]]

Init ==
  /\ pc = [t \in Thread |-> "load"]
  /\ tid = [t \in Thread |-> t]
  /\ temp = [t \in Thread |-> Zero]
  /\ cache = [c \in 0 .. threadsPerBlock - 1 |-> UNINIT]
  /\ i = THREAD_NUM
  /\ reg = [t \in Thread |-> Zero]
  /\ output = UNINIT

Goto(t, label) == pc' = [pc EXCEPT ![t] = label]

(* blockDim.x * gridDim.x                                                  *)
LoadStride == THREAD_NUM

Load(t) ==
  /\ pc[t] = "load"
  /\ tid[t] < ARRAY_LENGTH
  /\ temp' = [temp EXCEPT ![t] = Plus(@, Term(tid[t]))]
  /\ tid' = [tid EXCEPT ![t] = @ + LoadStride]
  /\ UNCHANGED <<pc, cache, i, reg, output>>

StoreTemp(t) ==
  /\ pc[t] = "load"
  /\ tid[t] >= ARRAY_LENGTH
  /\ cache' = [cache EXCEPT ![t] = temp[t]]
  /\ Goto(t, "sync")
  /\ UNCHANGED <<tid, temp, i, reg, output>>

(* __syncthreads: no thread passes before all have arrived.  Behind it the *)
(* stride becomes blockDim.x/2 the first time and is halved afterwards.    *)
Barrier ==
  /\ \A t \in Thread : pc[t] = "sync"
  /\ pc' = [t \in Thread |-> "loop"]
  /\ i' = i \div 2
  /\ UNCHANGED <<tid, temp, cache, reg, output>>

(* Mutants: one thread too many adds; every thread adds.                   *)
OneMoreAdds(t) == t <= i
AllAdd(t) == TRUE

Adds(t) == t < i

(* cache[cacheIndex] += cache[cacheIndex+1]: the reads, then the write.    *)
ReadCells(t) ==
  /\ pc[t] = "loop"
  /\ i # 0
  /\ Adds(t)
  /\ reg' = [reg EXCEPT ![t] = Plus(cache[t], cache[t + 1])]
  /\ Goto(t, "write")
  /\ UNCHANGED <<tid, temp, cache, i, output>>

WriteCell(t) ==
  /\ pc[t] = "write"
  /\ cache' = [cache EXCEPT ![t] = reg[t]]
  /\ Goto(t, "sync")
  /\ UNCHANGED <<tid, temp, i, reg, output>>

(* Mutant: a thread that does not add leaves without the barrier.          *)
LeaveEarly(t) ==
  /\ pc[t] = "loop"
  /\ i # 0
  /\ ~Adds(t)
  /\ Goto(t, "done")
  /\ UNCHANGED <<tid, temp, cache, i, reg, output>>

(* A thread that does not add goes to the barrier all the same.            *)
PassBy(t) ==
  /\ pc[t] = "loop"
  /\ i # 0
  /\ ~Adds(t)
  /\ Goto(t, "sync")
  /\ UNCHANGED <<tid, temp, cache, i, reg, output>>

WriteOutput(t) ==
  /\ pc[t] = "loop"
  /\ i = 0
  /\ output' = IF t = 0 THEN cache[0] ELSE output
  /\ Goto(t, "done")
  /\ UNCHANGED <<tid, temp, cache, i, reg>>

Step(t) ==
  \/ Load(t) \/ StoreTemp(t)
  \/ ReadCells(t) \/ WriteCell(t) \/ PassBy(t)
  \/ WriteOutput(t)

Done == \A t \in Thread : pc[t] = "done"

Next == (\E t \in Thread : Step(t)) \/ Barrier

Spec == Init /\ [][Next]_vars

(* The device runs every thread that can run.                              *)
FairSpec == Spec /\ (\A t \in Thread : WF_vars(Step(t))) /\ WF_vars(Barrier)

-----------------------------------------------------------------------------
(* Only THREAD_NUM of the threadsPerBlock cells are ever written: no       *)
(* thread adds one of the others, in whatever order the threads run.       *)
ReadsInitialised == UNINIT \notin {reg[t] : t \in Thread}

(* Lane of an input: the thread that loads it.                             *)
Lane(k) == k % THREAD_NUM

(* What reaches the output in every schedule: the inputs of lane 0 once,   *)
(* those of the other lanes up to THREAD_NUM/2 an unspecified number of    *)
(* times, those of the upper lanes never, since no cell beyond             *)
(* THREAD_NUM/2 is read (line 104 adds the neighbour).                     *)
OutputLanes ==
  Done => \A k \in Input :
            /\ Lane(k) = 0 => output[k] = 1
            /\ Lane(k) > THREAD_NUM \div 2 => output[k] = 0

(* Every thread passes the same barriers and the kernel ends.              *)
Terminates == <>Done

(* The kernel returns the sum of all inputs, as in the formula above       *)
(* coefficient_single.                                                     *)
SumComplete == Done => \A k \in Input : output[k] = 1
=============================================================================
