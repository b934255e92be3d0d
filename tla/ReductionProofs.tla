-------------------------- MODULE ReductionProofs ---------------------------
(***************************************************************************)
(* A block of the reduction kernels, for every number of threads and every *)
(* length of the arrays: every value added was written, and only the lanes *)
(* that the tree of additions passes through reach the output.             *)
(***************************************************************************)
EXTENDS Reduction, TLAPS

(* The first stride of the tree, and a sum: how often each input is in it. *)
Half == THREAD_NUM \div 2
Sum == [Input -> Nat]

(* What a thread has loaded: the inputs of its lane below tid, once each.  *)
Loaded(t) ==
  [k \in Input |-> IF Lane(k) = t /\ k < tid[t] THEN 1 ELSE 0]

(* A value of cell c <= Half: no lane below c and none above Half, and in  *)
(* cell 0 those of lane 0 once.                                            *)
Content(c, v) ==
  \A k \in Input : /\ Lane(k) < c \/ Lane(k) > Half => v[k] = 0
                   /\ c = 0 /\ Lane(k) = 0 => v[k] = 1

(* The stride is THREAD_NUM until every thread has passed the first        *)
(* barrier, and at most Half from then on.                                 *)
RedType ==
  /\ pc \in [Thread -> {"load", "sync", "loop", "write", "done"}]
  /\ tid \in [Thread -> Nat]
  /\ temp \in [Thread -> Sum]
  /\ cache \in [0 .. threadsPerBlock - 1 -> Sum \cup {UNINIT}]
  /\ reg \in [Thread -> Sum]
  /\ i \in 0 .. Half \/ i = THREAD_NUM
  /\ i = THREAD_NUM => \A t \in Thread : pc[t] \in {"load", "sync"}
  /\ i # THREAD_NUM => \A t \in Thread : pc[t] # "load"

(* A thread is at an input of its lane, and has added those before it.     *)
Lanes == \A t \in Thread : tid[t] % THREAD_NUM = t /\ temp[t] = Loaded(t)

(* What cells hold once they are stored, what a thread is about to write   *)
(* back, and what thread 0 has written as the output.                      *)
Cells ==
  /\ \A t \in Thread : pc[t] # "load" => cache[t] \in Sum
  /\ \A t \in Thread : pc[t] # "load" /\ t <= Half => Content(t, cache[t])
  /\ \A t \in Thread : pc[t] = "write" => t < i /\ Content(t, reg[t])
  /\ pc[0] = "done" => Content(0, output)

RedInv == RedType /\ Lanes /\ Cells

(* Half of the threads are fewer than all.                                 *)
LEMMA Halves ==
  /\ THREAD_NUM \in Nat \ {0} /\ Half \in Nat /\ Half < THREAD_NUM
  /\ 0 \in Thread
  /\ \A x \in 0 .. Half : x \div 2 \in 0 .. Half
<1>1. THREAD_NUM \in Nat \ {0}
  BY ReductionAssumption
<1>2. Half \in Nat /\ Half < THREAD_NUM
  BY <1>1 DEF Half
<1> QED
  BY <1>1, <1>2 DEF Thread

(* A multiple of n that is nearer to 0 than n is 0.                        *)
LEMMA SmallMultiple ==
  ASSUME NEW n \in Nat \ {0}, NEW d \in Int, -n < n * d, n * d < n
  PROVE  d = 0
<1>1. CASE d >= 1
  <2>1. PICK e \in Nat : d = 1 + e
    <3>1. d - 1 \in Nat /\ d = 1 + (d - 1)
      BY <1>1
    <3> QED
      BY <3>1
  <2>2. n * d = n + n * e /\ n * e \in Nat
    BY <2>1
  <2> QED
    BY <2>2
<1>2. CASE d <= -1
  <2>1. PICK e \in Nat : d = -1 - e
    <3>1. -1 - d \in Nat /\ d = -1 - (-1 - d)
      BY <1>2
    <3> QED
      BY <3>1
  <2>2. n * d = -n - n * e /\ n * e \in Nat
    BY <2>1
  <2> QED
    BY <2>2
<1> QED
  BY <1>1, <1>2

(* Two inputs of a lane are a multiple of THREAD_NUM apart.                *)
LEMMA SameLane ==
  ASSUME NEW k \in Nat, NEW x \in Nat, NEW n \in Nat \ {0},
         k % n = x % n, x <= k, k < x + n
  PROVE  k = x
<1> DEFINE a == k \div n
           b == x \div n
           r == x % n
<1>1. k = n * a + r /\ x = n * b + r /\ a \in Int /\ b \in Int /\ r \in Int
  OBVIOUS
<1> HIDE DEF a, b, r
<1>2. n * (a - b) = n * a - n * b
  BY <1>1
<1>3. n * (a - b) = k - x
  BY <1>1, <1>2
<1>4. a - b \in Int /\ -n < n * (a - b) /\ n * (a - b) < n
  BY <1>1, <1>3
<1>5. a - b = 0
  BY <1>4, SmallMultiple
<1> QED
  BY <1>1, <1>5

(* The next input of a lane is in that lane.                               *)
LEMMA NextInLane ==
  ASSUME NEW x \in Nat, NEW n \in Nat \ {0}
  PROVE  (x + n) % n = x % n
<1> DEFINE b == x \div n
           r == x % n
           c == (x + n) \div n
           s == (x + n) % n
<1>1. /\ x = n * b + r /\ b \in Int /\ r \in 0 .. n - 1
      /\ x + n = n * c + s /\ c \in Int /\ s \in 0 .. n - 1
  OBVIOUS
<1> HIDE DEF b, r, c, s
<1>2. n * (c - b - 1) = n * c - n * b - n
  BY <1>1
<1>3. n * (c - b - 1) = r - s
  BY <1>1, <1>2
<1>4. /\ c - b - 1 \in Int
      /\ -n < n * (c - b - 1) /\ n * (c - b - 1) < n
  BY <1>1, <1>3
<1>5. c - b - 1 = 0
  BY <1>4, SmallMultiple
<1>6. r = s
  BY <1>1, <1>3, <1>5
<1> QED
  BY <1>6 DEF r, s

(* An input below THREAD_NUM is its own lane.                              *)
LEMMA OwnLane ==
  ASSUME NEW x \in Nat, NEW n \in Nat \ {0}, x < n
  PROVE  x % n = x
<1> DEFINE b == x \div n
           r == x % n
<1>1. x = n * b + r /\ b \in Int /\ r \in 0 .. n - 1
  OBVIOUS
<1> HIDE DEF b, r
<1>2. -n < n * b /\ n * b < n
  BY <1>1
<1>3. b = 0
  BY <1>1, <1>2, SmallMultiple
<1>4. x = r
  BY <1>1, <1>3
<1> QED
  BY <1>4 DEF r

(* Before the first load nothing is written but the threads' own sums.     *)
LEMMA RedInit == Init => RedInv
<1> SUFFICES ASSUME Init PROVE RedInv
  OBVIOUS
<1>1. RedType
  BY Halves DEF Init, RedType, Sum, Zero, Thread
<1>2. ASSUME NEW t \in Thread
      PROVE  tid[t] % THREAD_NUM = t /\ temp[t] = Loaded(t)
  <2>1. t \in Nat /\ t < THREAD_NUM /\ tid[t] = t /\ temp[t] = Zero
    BY Halves DEF Init, Thread
  <2>2. t % THREAD_NUM = t
    BY <2>1, Halves, OwnLane
  <2>3. \A k \in Input : ~(Lane(k) = t /\ k < tid[t])
    <3>1. \A k \in Input : k \in Nat
      BY DEF Input
    <3>2. \A k \in Input : k < t => k < THREAD_NUM
      BY <2>1, <3>1, Halves
    <3>3. \A k \in Input : k < t => k % THREAD_NUM = k
      BY <3>1, <3>2, Halves, OwnLane, Zenon
    <3> QED
      BY <2>1, <3>1, <3>3 DEF Lane
  <2> QED
    BY <2>1, <2>2, <2>3 DEF Loaded, Zero
<1>3. Cells
  <2>1. \A t \in Thread : pc[t] = "load"
    BY DEF Init
  <2> QED
    BY <2>1, Halves DEF Cells
<1> QED
  BY <1>1, <1>2, <1>3 DEF RedInv, Lanes

(* A sum of two sums.                                                      *)
LEMMA PlusSums ==
  ASSUME NEW v \in Sum, NEW w \in Sum
  PROVE  /\ Plus(v, w) \in Sum
         /\ Plus(v, w) = [k \in Input |-> v[k] + w[k]]
<1>1. UNINIT \notin {v, w}
  BY ReductionAssumption DEF Sum, Input
<1> QED
  BY <1>1 DEF Plus, Sum

(* A load adds the next input of the lane.                                 *)
LEMMA LoadKeeps == ASSUME RedInv, NEW t \in Thread, Load(t) PROVE RedInv'
<1>1. /\ pc' = pc /\ cache' = cache /\ i' = i /\ reg' = reg
      /\ output' = output
      /\ temp' = [temp EXCEPT ![t] = Plus(temp[t], Term(tid[t]))]
      /\ tid' = [tid EXCEPT ![t] = tid[t] + THREAD_NUM]
      /\ tid[t] < ARRAY_LENGTH
  BY DEF Load, LoadStride
<1>2. /\ tid \in [Thread -> Nat] /\ temp \in [Thread -> Sum]
      /\ tid[t] \in Nat /\ temp[t] \in Sum /\ THREAD_NUM \in Nat \ {0}
  BY Halves DEF RedInv, RedType
<1>3. Term(tid[t]) \in Sum
  BY DEF Term, Sum
<1>4. /\ Plus(temp[t], Term(tid[t])) \in Sum
      /\ Plus(temp[t], Term(tid[t])) =
           [k \in Input |-> temp[t][k] + Term(tid[t])[k]]
  BY <1>2, <1>3, PlusSums
<1>5. tid[t] + THREAD_NUM \in Nat
  BY <1>2
<1>6. tid' \in [Thread -> Nat] /\ temp' \in [Thread -> Sum]
  BY <1>1, <1>2, <1>4, <1>5
<1>7. RedType'
  BY <1>1, <1>6 DEF RedInv, RedType
<1>8. Cells'
  BY <1>1 DEF RedInv, Cells, Content
<1>9. ASSUME NEW u \in Thread
      PROVE  tid'[u] % THREAD_NUM = u /\ temp'[u] = Loaded(u)'
  <2>1. tid[u] % THREAD_NUM = u /\ temp[u] = Loaded(u)
    BY DEF RedInv, Lanes
  <2>2. CASE u # t
    <3>1. tid'[u] = tid[u] /\ temp'[u] = temp[u]
      BY <1>1, <1>2, <2>2
    <3> QED
      BY <2>1, <3>1 DEF Loaded
  <2>3. CASE u = t
    <3>1. /\ tid'[u] = tid[t] + THREAD_NUM
          /\ temp'[u] = [k \in Input |-> temp[t][k] + Term(tid[t])[k]]
      BY <1>1, <1>2, <1>4, <2>3
    <3>2. tid'[u] % THREAD_NUM = u
      BY <1>2, <2>1, <2>3, <3>1, NextInLane
    <3>3. ASSUME NEW k \in Input
          PROVE  temp[t][k] + Term(tid[t])[k] =
                   IF Lane(k) = t /\ k < tid[t] + THREAD_NUM THEN 1 ELSE 0
      <4>1. /\ temp[t][k] = IF Lane(k) = t /\ k < tid[t] THEN 1 ELSE 0
            /\ Term(tid[t])[k] = IF k = tid[t] THEN 1 ELSE 0
        BY <2>1, <2>3 DEF Loaded, Term
      <4>2. k \in Nat
        BY DEF Input
      <4>3. k = tid[t] => Lane(k) = t
        BY <2>1, <2>3 DEF Lane
      <4>4. Lane(k) = t /\ tid[t] <= k /\ k < tid[t] + THREAD_NUM
              => k = tid[t]
        BY <1>2, <2>1, <2>3, <4>2, SameLane DEF Lane
      <4> HIDE DEF Lane
      <4> QED
        BY <1>2, <4>1, <4>2, <4>3, <4>4
    <3>4. temp'[u] = [k \in Input |->
                       IF Lane(k) = t /\ k < tid[t] + THREAD_NUM
                       THEN 1 ELSE 0]
      BY <3>1, <3>3
    <3> QED
      BY <2>3, <3>1, <3>2, <3>4 DEF Loaded
  <2> QED
    BY <2>2, <2>3
<1> QED
  BY <1>7, <1>8, <1>9 DEF RedInv, Lanes

(* A thread that has loaded its lane stores it.                            *)
LEMMA StoreKeeps ==
  ASSUME RedInv, NEW t \in Thread, StoreTemp(t)
  PROVE  RedInv'
<1>1. /\ pc[t] = "load" /\ tid[t] >= ARRAY_LENGTH
      /\ cache' = [cache EXCEPT ![t] = temp[t]]
      /\ pc' = [pc EXCEPT ![t] = "sync"]
      /\ tid' = tid /\ temp' = temp /\ i' = i /\ reg' = reg
      /\ output' = output
  BY DEF StoreTemp, Goto
<1>2. /\ pc \in [Thread -> {"load", "sync", "loop", "write", "done"}]
      /\ cache \in [0 .. threadsPerBlock - 1 -> Sum \cup {UNINIT}]
      /\ temp[t] \in Sum /\ tid[t] \in Nat /\ temp[t] = Loaded(t)
      /\ Thread \subseteq 0 .. threadsPerBlock - 1
  BY ReductionAssumption DEF RedInv, RedType, Lanes, Thread
<1>3. i = THREAD_NUM
  BY <1>1 DEF RedInv, RedType
<1>4. RedType'
  BY <1>1, <1>2, <1>3 DEF RedInv, RedType
<1>5. Lanes'
  BY <1>1 DEF RedInv, Lanes, Loaded
<1>6. t <= Half => Content(t, temp[t])
  <2>1. \A k \in Input : /\ k \in Nat /\ k < ARRAY_LENGTH
                         /\ Lane(k) \in Nat /\ k < tid[t]
    BY <1>1, <1>2, Halves, ReductionAssumption DEF Input, Lane
  <2>2. \A k \in Input : temp[t][k] = IF Lane(k) = t THEN 1 ELSE 0
    BY <1>2, <2>1 DEF Loaded
  <2>3. t \in Nat /\ Half \in Nat
    BY Halves DEF Thread
  <2> QED
    BY <2>1, <2>2, <2>3 DEF Content
<1>7. \A u \in Thread : /\ u # t => cache'[u] = cache[u] /\ pc'[u] = pc[u]
                        /\ u = t => cache'[u] = temp[t] /\ pc'[u] = "sync"
  BY <1>1, <1>2
<1>8. Cells'
  <2>1. \A u \in Thread : pc'[u] # "load" => cache'[u] \in Sum
    BY <1>2, <1>7 DEF RedInv, Cells
  <2>2. \A u \in Thread : pc'[u] # "load" /\ u <= Half
                            => Content(u, cache'[u])
    BY <1>6, <1>7 DEF RedInv, Cells
  <2>3. \A u \in Thread : pc'[u] = "write" => u < i /\ Content(u, reg[u])
    BY <1>7 DEF RedInv, Cells
  <2>4. pc'[0] = "done" => Content(0, output)
    BY <1>7, Halves DEF RedInv, Cells
  <2> QED
    BY <1>1, <2>1, <2>2, <2>3, <2>4 DEF Cells, Content
<1> QED
  BY <1>4, <1>5, <1>8 DEF RedInv

(* Behind the barrier the stride is at most half of the threads.           *)
LEMMA BarrierKeeps == ASSUME RedInv, Barrier PROVE RedInv'
<1>1. /\ \A t \in Thread : pc[t] = "sync"
      /\ pc' = [t \in Thread |-> "loop"]
      /\ i' = i \div 2
      /\ tid' = tid /\ temp' = temp /\ cache' = cache /\ reg' = reg
      /\ output' = output
  BY DEF Barrier
<1>2. i' \in 0 .. Half
  <2>1. CASE i = THREAD_NUM
    BY <1>1, <2>1, Halves DEF Half
  <2>2. CASE i \in 0 .. Half
    BY <1>1, <2>2, Halves
  <2> QED
    BY <2>1, <2>2 DEF RedInv, RedType
<1>3. i' # THREAD_NUM
  BY <1>2, Halves
<1>4. RedType'
  BY <1>1, <1>2, <1>3 DEF RedInv, RedType
<1>5. Lanes'
  BY <1>1 DEF RedInv, Lanes, Loaded
<1>6. Cells'
  BY <1>1, Halves DEF RedInv, Cells, Content
<1> QED
  BY <1>4, <1>5, <1>6 DEF RedInv

(* A thread that adds its neighbour adds a cell that has been stored.      *)
LEMMA ReadKeeps ==
  ASSUME RedInv, NEW t \in Thread, ReadCells(t)
  PROVE  RedInv'
<1>1. /\ pc[t] = "loop" /\ i # 0 /\ t < i
      /\ reg' = [reg EXCEPT ![t] = Plus(cache[t], cache[t + 1])]
      /\ pc' = [pc EXCEPT ![t] = "write"]
      /\ tid' = tid /\ temp' = temp /\ i' = i /\ cache' = cache
      /\ output' = output
  BY DEF ReadCells, Goto, Adds
<1>2. /\ pc \in [Thread -> {"load", "sync", "loop", "write", "done"}]
      /\ reg \in [Thread -> Sum]
      /\ i # THREAD_NUM /\ i \in 0 .. Half
      /\ \A u \in Thread : pc[u] # "load"
  BY <1>1 DEF RedInv, RedType
<1>3. /\ t \in Nat /\ t + 1 \in Thread /\ t <= Half /\ t + 1 <= Half
  BY <1>1, <1>2, Halves DEF Thread
<1>4. /\ cache[t] \in Sum /\ cache[t + 1] \in Sum
      /\ Content(t, cache[t]) /\ Content(t + 1, cache[t + 1])
  BY <1>2, <1>3 DEF RedInv, Cells
<1> DEFINE v == Plus(cache[t], cache[t + 1])
<1>5. v \in Sum /\ v = [k \in Input |-> cache[t][k] + cache[t + 1][k]]
  BY <1>4, PlusSums
<1> HIDE DEF v
<1>6. Content(t, v)
  <2>1. \A k \in Input : Lane(k) \in Nat
    BY Halves DEF Input, Lane
  <2>2. \A k \in Input : /\ Lane(k) < t => Lane(k) < t + 1
                         /\ Lane(k) = 0 => Lane(k) < t + 1
    BY <1>3, <2>1
  <2>3. \A k \in Input : v[k] = cache[t][k] + cache[t + 1][k]
    BY <1>5
  <2> QED
    BY <1>4, <2>2, <2>3 DEF Content
<1>7. \A u \in Thread : /\ u # t => reg'[u] = reg[u] /\ pc'[u] = pc[u]
                        /\ u = t => reg'[u] = v /\ pc'[u] = "write"
  BY <1>1, <1>2 DEF v
<1>8. RedType'
  <2>1. reg' \in [Thread -> Sum]
    BY <1>1, <1>2, <1>5 DEF v
  <2>2. pc' \in [Thread -> {"load", "sync", "loop", "write", "done"}]
    BY <1>1, <1>2
  <2>3. \A u \in Thread : pc'[u] # "load"
    BY <1>2, <1>7
  <2> QED
    BY <1>1, <1>2, <2>1, <2>2, <2>3 DEF RedInv, RedType
<1>9. Lanes'
  BY <1>1 DEF RedInv, Lanes, Loaded
<1>10. Cells'
  <2>1. \A u \in Thread : cache[u] \in Sum
    BY <1>2 DEF RedInv, Cells
  <2>2. \A u \in Thread : u <= Half => Content(u, cache[u])
    BY <1>2 DEF RedInv, Cells
  <2>3. \A u \in Thread : pc'[u] = "write" => u < i /\ Content(u, reg'[u])
    BY <1>1, <1>6, <1>7 DEF RedInv, Cells
  <2>4. pc'[0] = "done" => Content(0, output)
    BY <1>7, Halves DEF RedInv, Cells
  <2> QED
    BY <1>1, <2>1, <2>2, <2>3, <2>4 DEF Cells, Content
<1> QED
  BY <1>8, <1>9, <1>10 DEF RedInv

(* Writing back what was added, passing by and writing the output.         *)
LEMMA OtherKeeps ==
  ASSUME RedInv, NEW t \in Thread, WriteCell(t) \/ PassBy(t) \/ WriteOutput(t)
  PROVE  RedInv'
<1>1. /\ pc \in [Thread -> {"load", "sync", "loop", "write", "done"}]
      /\ cache \in [0 .. threadsPerBlock - 1 -> Sum \cup {UNINIT}]
      /\ reg \in [Thread -> Sum]
      /\ Thread \subseteq 0 .. threadsPerBlock - 1
      /\ pc[t] \in {"write", "loop"} => i # THREAD_NUM
      /\ i # THREAD_NUM => \A u \in Thread : pc[u] # "load"
  <2>1. RedType
    BY DEF RedInv
  <2>2. Thread \subseteq 0 .. threadsPerBlock - 1
    BY ReductionAssumption DEF Thread
  <2>3. pc[t] \in {"write", "loop"} => i # THREAD_NUM
    BY <2>1 DEF RedType
  <2> QED
    BY <2>1, <2>2, <2>3, Zenon DEF RedType
<1>2. /\ pc[t] \in {"write", "loop"}
      /\ tid' = tid /\ temp' = temp /\ i' = i /\ reg' = reg
  BY DEF WriteCell, PassBy, WriteOutput
<1>3. PICK label \in {"sync", "done"} : pc' = [pc EXCEPT ![t] = label]
  BY DEF WriteCell, PassBy, WriteOutput, Goto
<1>4. \A u \in Thread : /\ pc[u] # "load" /\ pc'[u] # "load"
                        /\ pc'[u] = "write" => pc[u] = "write"
  BY <1>1, <1>2, <1>3
<1>5. Lanes'
  BY <1>2 DEF RedInv, Lanes, Loaded
<1>6. \A u \in Thread : pc'[u] = "write" => u < i /\ Content(u, reg[u])
  BY <1>4 DEF RedInv, Cells
<1>7. \A u \in Thread : /\ cache[u] \in Sum
                        /\ u <= Half => Content(u, cache[u])
  BY <1>4 DEF RedInv, Cells
<1>8. CASE WriteCell(t)
  <2>1. /\ pc[t] = "write" /\ cache' = [cache EXCEPT ![t] = reg[t]]
        /\ pc' = [pc EXCEPT ![t] = "sync"] /\ output' = output
    BY <1>8 DEF WriteCell, Goto
  <2>2. \A u \in Thread : /\ u = t => cache'[u] = reg[t]
                          /\ u # t => cache'[u] = cache[u]
    BY <1>1, <2>1
  <2>3. reg[t] \in Sum /\ Content(t, reg[t])
    BY <1>1, <2>1 DEF RedInv, Cells
  <2>4. \A u \in Thread : /\ cache'[u] \in Sum
                          /\ u <= Half => Content(u, cache'[u])
    BY <1>7, <2>2, <2>3
  <2>5. cache' \in [0 .. threadsPerBlock - 1 -> Sum \cup {UNINIT}]
    BY <1>1, <2>1, <2>3
  <2>6. RedType'
    BY <1>1, <1>2, <1>3, <1>4, <2>5 DEF RedInv, RedType
  <2>7. pc'[0] = "done" => Content(0, output)
    BY <1>1, <2>1, Halves DEF RedInv, Cells
  <2>8. Cells'
    BY <1>2, <1>6, <2>1, <2>4, <2>7 DEF Cells, Content
  <2> QED
    BY <1>5, <2>6, <2>8 DEF RedInv
<1>9. CASE PassBy(t) \/ WriteOutput(t)
  <2>1. cache' = cache
    BY <1>9 DEF PassBy, WriteOutput
  <2>2. RedType'
    BY <1>1, <1>2, <1>3, <1>4, <2>1 DEF RedInv, RedType
  <2>3. pc'[0] = "done" => Content(0, output')
    <3>1. 0 \in Thread /\ 0 <= Half
      BY Halves
    <3>2. CASE PassBy(t)
      <4>1. pc' = [pc EXCEPT ![t] = "sync"] /\ output' = output
        BY <3>2 DEF PassBy, Goto
      <4> QED
        BY <1>1, <3>1, <4>1 DEF RedInv, Cells
    <3>3. CASE WriteOutput(t)
      <4>1. /\ output' = IF t = 0 THEN cache[0] ELSE output
            /\ t # 0 => pc'[0] = pc[0]
        BY <1>1, <1>3, <3>1, <3>3 DEF WriteOutput
      <4> QED
        BY <1>7, <3>1, <4>1 DEF RedInv, Cells
    <3> QED
      BY <1>9, <3>2, <3>3
  <2>4. Cells'
    BY <1>2, <1>6, <1>7, <2>1, <2>3 DEF Cells, Content
  <2> QED
    BY <1>5, <2>2, <2>4 DEF RedInv
<1> QED
  BY <1>8, <1>9

(* One step per action.                                                    *)
LEMMA RedNext == RedInv /\ [Next]_vars => RedInv'
<1> SUFFICES ASSUME RedInv, [Next]_vars PROVE RedInv'
  OBVIOUS
<1>1. ASSUME NEW t \in Thread, Step(t) PROVE RedInv'
  BY <1>1, LoadKeeps, StoreKeeps, ReadKeeps, OtherKeeps DEF Step
<1>2. CASE Barrier
  BY <1>2, BarrierKeeps
<1>3. CASE UNCHANGED vars
  BY <1>3 DEF vars, RedInv, RedType, Lanes, Loaded, Cells, Content
<1> QED
  BY <1>1, <1>2, <1>3 DEF Next

(* The inductive invariant of a block.                                     *)
THEOREM BlockInvariant == Spec => []RedInv
  BY RedInit, RedNext, PTL DEF Spec

(* No thread ever adds a cell that was not written.                        *)
THEOREM SumsInitialised == Spec => []ReadsInitialised
<1>1. RedInv => ReadsInitialised
  <2>1. UNINIT \notin Sum
    BY ReductionAssumption DEF Sum, Input
  <2> QED
    BY <2>1 DEF RedInv, RedType, ReadsInitialised
<1> QED
  BY <1>1, BlockInvariant, PTL

(* What reaches the output in every schedule.                              *)
THEOREM LanesOfOutput == Spec => []OutputLanes
<1>1. RedInv => OutputLanes
  BY Halves DEF RedInv, Cells, Content, OutputLanes, Done, Half
<1> QED
  BY <1>1, BlockInvariant, PTL
=============================================================================
