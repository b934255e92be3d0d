------------------------- MODULE CoefficientProofs --------------------------
(***************************************************************************)
(* The search for the smallest factor and the buffers of                   *)
(* coefficient_single, for every number of stocks, every set of numbers    *)
(* the kernels may return, and every number of failures.                   *)
(***************************************************************************)
EXTENDS Coefficient, SequenceTheorems, TLAPS

Known == Number \cup {UNINIT}
Fractions == [num : Nat, den : Nat]

(* What the launches up to the n-th have left in a buffer.                 *)
Past(n) == {result[S!Launches[m]] : m \in 1 .. n} \cup {UNINIT}

(* The n-th number is that of its launch, or, if that failed, older.       *)
OwnOrPast(val, n) ==
  IF n \notin failed
  THEN val = result[S!Launches[n]]
  ELSE val \in {result[S!Launches[m]] : m \in 1 .. n - 1} \cup {UNINIT}

(* The call of coefficient_single: the device buffer is as old as the last *)
(* launch that did not fail, and the failures are of launches begun.       *)
CallInv ==
  /\ sums \in [Stock -> Number]
  /\ pc \in {"idle", "launch", "copy", "return"}
  /\ host \in Seq(Known)
  /\ pc = "idle" => dev_o = UNINIT /\ host = << >> /\ failed = {}
  /\ pc # "idle" => result \in [Launched -> Number]
  /\ pc # "idle" => \A n \in 1 .. Len(host) : OwnOrPast(host[n], n)
  /\ pc = "launch" => /\ Len(host) < 5
                      /\ failed \subseteq 1 .. Len(host)
                      /\ dev_o \in Past(Len(host))
  /\ pc = "copy" => /\ Len(host) < 5
                    /\ failed \subseteq 1 .. Len(host) + 1
                    /\ OwnOrPast(dev_o, Len(host) + 1)
  /\ pc = "return" => Len(host) = 5

(* The pairs compared before the pair <<i, j>>.                            *)
Visited == {p \in Pair : p[1] < i \/ (p[1] = i /\ p[2] < j)}

(* The loops: what has been compared is everything before i and j.         *)
LoopInv ==
  /\ phase \in {"copy", "search", "reported", "aborted"}
  /\ i \in 0 .. SERVER_STOCK
  /\ j \in Nat
  /\ phase = "copy" => DOMAIN factor = {} /\ pc = "idle"
  /\ phase = "search" /\ i < SERVER_STOCK => j \in i + 1 .. SERVER_STOCK
  /\ phase = "search" => DOMAIN factor = Visited
  /\ phase = "reported" => DOMAIN factor = Pair
  /\ pc # "idle" => phase = "search" /\ i < SERVER_STOCK /\ j < SERVER_STOCK

Proper(val) == val = NaN \/ val \in Fractions

(* min_cof is the first minimum of what has been compared.                 *)
MinInv ==
  /\ \A p \in DOMAIN factor : Proper(factor[p])
  /\ min_cof \in Fractions /\ min_cof.den > 0 /\ min_cof.num <= min_cof.den
  /\ IF Candidates = {}
     THEN min_cof = ONE /\ {stock_x, stock_y} = {UNINIT}
     ELSE /\ <<stock_x, stock_y>> \in Candidates
          /\ factor[<<stock_x, stock_y>>] = min_cof
          /\ \A p \in Candidates \ {<<stock_x, stock_y>>} :
               LET f == factor[p] IN
               \/ min_cof.num * f.den < f.num * min_cof.den
               \/ /\ min_cof.num * f.den = f.num * min_cof.den
                  /\ Before(<<stock_x, stock_y>>, p)

IInv == CallInv /\ LoopInv /\ MinInv

-----------------------------------------------------------------------------
(* coefficient_single launches three different kernels.                    *)
LEMMA LaunchedKernels ==
  /\ Launched = {"dot(x,y)", "sum(x)", "sum(y)"}
  /\ Len(S!Launches) = 5
  /\ \A n \in 1 .. 5 : S!Launches[n] \in Launched
<1>1. \A n \in 1 .. 5 : n = 1 \/ n = 2 \/ n = 3 \/ n = 4 \/ n = 5
  OBVIOUS
<1>2. /\ S!Launches[1] = "dot(x,y)" /\ S!Launches[2] = "sum(x)"
      /\ S!Launches[3] = "sum(y)" /\ S!Launches[4] = "sum(y)"
      /\ S!Launches[5] = "sum(x)" /\ Len(S!Launches) = 5
  BY DEF S!Launches
<1>3. Launched = {"dot(x,y)", "sum(x)", "sum(y)"}
  <2>1. \A k \in Launched : k \in {"dot(x,y)", "sum(x)", "sum(y)"}
    BY <1>1, <1>2 DEF Launched
  <2>2. 1 \in 1 .. 5 /\ 2 \in 1 .. 5 /\ 3 \in 1 .. 5
    OBVIOUS
  <2>3. \A k \in {"dot(x,y)", "sum(x)", "sum(y)"} : k \in Launched
    BY <1>2, <2>2, Zenon DEF Launched
  <2> QED
    BY <2>1, <2>3
<1> QED
  BY <1>1, <1>2, <1>3

(* Before the first call nothing has been compared.                        *)
LEMMA InitIInv == Init => IInv
<1> SUFFICES ASSUME Init PROVE IInv
  OBVIOUS
<1>1. CallInv
  BY DEF Init, CallInv, Known
<1>2. LoopInv
  BY CoefficientAssumption DEF Init, LoopInv
<1>3. DOMAIN factor = {} /\ Candidates = {}
  BY DEF Init, Candidates
<1>4. MinInv
  BY <1>3 DEF Init, MinInv, ONE, Fractions
<1> QED
  BY <1>1, <1>2, <1>4 DEF IInv

(* The number left by an earlier copy is not newer than the launch before. *)
LEMMA LastCopiedPast ==
  ASSUME CallInv, pc # "idle", Len(host) < 5
  PROVE  /\ S!LastCopied \in Past(Len(host))
         /\ S!LastCopied \in Known
<1>1. CASE host = << >>
  BY <1>1 DEF S!LastCopied, Past, Known
<1>2. CASE host # << >>
  <2>1. /\ host \in Seq(Known)
        /\ \A n \in 1 .. Len(host) : OwnOrPast(host[n], n)
    BY DEF CallInv
  <2>2. Len(host) \in 1 .. 4
    <3>1. Len(host) \in Nat \ {0}
      BY <2>1, <1>2, EmptySeq, Zenon
    <3>2. \A x \in Nat \ {0} : x < 5 => x \in 1 .. 4
      OBVIOUS
    <3> QED
      BY <3>1, <3>2, Zenon
  <2>3. OwnOrPast(host[Len(host)], Len(host)) /\ host[Len(host)] \in Known
    BY <2>1, <2>2
  <2>4. host[Len(host)] \in Past(Len(host))
    <3> DEFINE n == Len(host)
               val == host[n]
    <3>1. n \in 1 .. n /\ \A m \in 1 .. n - 1 : m \in 1 .. n
      BY <2>2
    <3> HIDE DEF n, val
    <3>2. val \in Past(n)
      BY <3>1, <2>3, Zenon DEF OwnOrPast, Past, n, val
    <3> QED
      BY <3>2 DEF n, val
  <2> QED
    BY <1>2, <2>3, <2>4 DEF S!LastCopied
<1> QED
  BY <1>1, <1>2

(* A number that is own or older is a number, or uninitialised.            *)
LEMMA OwnOrPastKnown ==
  ASSUME result \in [Launched -> Number], NEW n \in 1 .. 5,
         NEW val, OwnOrPast(val, n)
  PROVE  val \in Known /\ val \in Past(n)
<1>1. n \in 1 .. n /\ \A m \in 1 .. n - 1 : m \in 1 .. n
  OBVIOUS
<1>2. \A m \in 1 .. n : result[S!Launches[m]] \in Number
  <2>1. \A m \in 1 .. n : m \in 1 .. 5
    OBVIOUS
  <2>2. \A k \in Launched : result[k] \in Number
    BY Zenon
  <2> QED
    BY <2>1, <2>2, LaunchedKernels, Zenon
<1>3. val \in Past(n)
  BY <1>1, Zenon DEF OwnOrPast, Past
<1> QED
  BY <1>2, <1>3, Zenon DEF Past, Known

(* A step of coefficient_single keeps the ages of its numbers.             *)
LEMMA SingleKeeps ==
  ASSUME CallInv, S!Next, UNCHANGED search
  PROVE  CallInv'
<1> DEFINE N == Len(host) + 1
<1>t. /\ sums \in [Stock -> Number] /\ sums' = sums
      /\ host \in Seq(Known) /\ Len(host) \in Nat
      /\ pc # "idle" => result \in [Launched -> Number]
      /\ pc # "idle" => \A n \in 1 .. Len(host) : OwnOrPast(host[n], n)
      /\ pc = "launch" => /\ Len(host) < 5
                          /\ failed \subseteq 1 .. Len(host)
                          /\ dev_o \in Past(Len(host))
      /\ pc = "copy" => /\ Len(host) < 5
                        /\ failed \subseteq 1 .. Len(host) + 1
                        /\ OwnOrPast(dev_o, Len(host) + 1)
  BY DEF CallInv, search
<1>n. Len(host) < 5 => N \in 1 .. 5
  <2>1. \A x \in Nat : x < 5 => x + 1 \in 1 .. 5
    OBVIOUS
  <2> QED
    BY <1>t, <2>1, Zenon
<1>c. pc = "copy" => dev_o \in Past(N) /\ dev_o \in Known
  <2> HIDE DEF N
  <2>1. pc = "copy" => N \in 1 .. 5 /\ OwnOrPast(dev_o, N)
                         /\ result \in [Launched -> Number]
    BY <1>t, <1>n DEF N
  <2> QED
    BY <2>1, OwnOrPastKnown, Zenon
<1>1. CASE S!Launch
  <2>1. /\ pc = "launch" /\ pc' = "copy" /\ dev_o' = result[S!Launches[N]]
        /\ result' = result /\ host' = host /\ failed' = failed
    BY <1>1 DEF S!Launch
  <2>2. N \notin failed
    BY <1>t, <2>1
  <2>3. OwnOrPast(dev_o, N)'
    BY <2>1, <2>2 DEF OwnOrPast
  <2>4. \A n \in 1 .. Len(host') : OwnOrPast(host[n], n)'
    BY <1>t, <2>1 DEF OwnOrPast
  <2> QED
    BY <1>t, <2>1, <2>3, <2>4 DEF CallInv
<1>2. CASE S!LaunchFails
  <2>1. /\ pc = "launch" /\ pc' = "copy" /\ dev_o' = dev_o
        /\ result' = result /\ host' = host
        /\ failed' = failed \cup {N}
    BY <1>2 DEF S!LaunchFails
  <2>3. OwnOrPast(dev_o, N)'
    <3>1. N \in failed' /\ N - 1 = Len(host)
      BY <1>t, <2>1
    <3> QED
      BY <1>t, <2>1, <3>1, Zenon DEF OwnOrPast, Past
  <2>4. \A n \in 1 .. Len(host') : OwnOrPast(host[n], n)'
    <3>1. \A n \in 1 .. Len(host) : n \in failed <=> n \in failed'
      BY <1>t, <2>1
    <3> QED
      BY <1>t, <2>1, <3>1, Zenon DEF OwnOrPast
  <2>5. failed' \subseteq 1 .. Len(host) + 1
    BY <1>t, <2>1
  <2> QED
    BY <1>t, <2>1, <2>3, <2>4, <2>5 DEF CallInv
<1>3. ASSUME NEW val \in Known, S!Take(val),
             IF N \notin failed'
             THEN val = result[S!Launches[N]]
             ELSE val \in {result[S!Launches[m]] : m \in 1 .. N - 1}
                            \cup {UNINIT},
             \/ failed' = failed
             \/ failed' = failed \cup {N}
      PROVE  CallInv'
  <2>1. /\ pc = "copy" /\ pc' = IF N < 5 THEN "launch" ELSE "return"
        /\ host' = Append(host, val)
        /\ result' = result /\ dev_o' = dev_o
    BY <1>3, LaunchedKernels DEF S!Take
  <2>2. /\ host' \in Seq(Known) /\ Len(host') = N
        /\ host'[N] = val
        /\ \A n \in 1 .. Len(host) : host'[n] = host[n]
    BY <1>t, <2>1
  <2>3. \A n \in 1 .. N : n \in 1 .. Len(host) \/ n = N
    BY <1>t
  <2>4. \A n \in 1 .. Len(host) : n \in failed <=> n \in failed'
    BY <1>t, <1>3
  <2>5. \A n \in 1 .. Len(host) : OwnOrPast(host[n], n)'
    BY <1>t, <2>1, <2>2, <2>4, Zenon DEF OwnOrPast
  <2>6. \A n \in 1 .. Len(host') : OwnOrPast(host[n], n)'
    <3>1. \A n \in 1 .. N : n = N => OwnOrPast(host[n], n)'
      BY <1>3, <2>1, <2>2, Zenon DEF OwnOrPast
    <3> QED
      BY <2>2, <2>3, <2>5, <3>1, Zenon
  <2>7. dev_o' \in Past(Len(host))'
    BY <1>c, <2>1, <2>2, Zenon DEF Past
  <2>8. failed' \subseteq 1 .. Len(host')
    BY <1>t, <1>3, <2>1, <2>2
  <2> QED
    BY <1>t, <2>1, <2>2, <2>6, <2>7, <2>8 DEF CallInv
<1>4. CASE S!CopyToHost
  <2>1. S!Take(dev_o) /\ failed' = failed /\ pc = "copy"
    BY <1>4 DEF S!CopyToHost, S!Take
  <2>2. IF N \notin failed'
        THEN dev_o = result[S!Launches[N]]
        ELSE dev_o \in {result[S!Launches[m]] : m \in 1 .. N - 1}
                         \cup {UNINIT}
    BY <1>t, <2>1, Zenon DEF OwnOrPast
  <2> HIDE DEF N
  <2> QED
    BY <1>3, <1>c, <2>1, <2>2, Zenon
<1>5. CASE S!CopyFails
  <2>1. /\ S!Take(S!LastCopied) /\ failed' = failed \cup {N}
        /\ pc = "copy"
    BY <1>5 DEF S!CopyFails, S!Take
  <2>2. S!LastCopied \in Past(Len(host)) /\ S!LastCopied \in Known
    BY <1>t, <2>1, LastCopiedPast
  <2>3. N - 1 = Len(host)
    BY <1>t
  <2>4. S!LastCopied \in {result[S!Launches[m]] : m \in 1 .. N - 1}
                           \cup {UNINIT}
    BY <2>2, <2>3, Zenon DEF Past
  <2> HIDE DEF N
  <2> QED
    BY <1>3, <2>1, <2>2, <2>4, Zenon
<1> QED
  BY <1>1, <1>2, <1>4, <1>5 DEF S!Next

(* The other steps begin or end a call, or leave it alone.                 *)
LEMMA CallKept ==
  ASSUME CallInv, LoopInv, [Next]_vars
  PROVE  CallInv'
<1>1. ASSUME UNCHANGED <<sums, call>> PROVE CallInv'
  BY <1>1 DEF CallInv, call, OwnOrPast, Past
<1>2. CASE Call
  <2>1. i \in Stock /\ j \in Stock
    <3>1. /\ i \in Nat /\ i < SERVER_STOCK
          /\ j \in Nat /\ j < SERVER_STOCK
      <4>1. i < SERVER_STOCK /\ j < SERVER_STOCK
        BY <1>2 DEF Call
      <4>2. i \in 0 .. SERVER_STOCK /\ j \in Nat
        BY DEF LoopInv
      <4> QED
        BY <4>1, <4>2, CoefficientAssumption
    <3> QED
      BY <3>1, CoefficientAssumption DEF Stock
  <2>2. sums[i] \in Number /\ sums[j] \in Number
    BY <2>1 DEF CallInv
  <2>3. PICK dot \in Number :
          result' = [k \in Launched |-> CASE k = "dot(x,y)" -> dot
                                          [] k = "sum(x)"   -> sums[i]
                                          [] k = "sum(y)"   -> sums[j]]
    BY <1>2 DEF Call
  <2>4. result' \in [Launched -> Number]
    BY <2>2, <2>3, LaunchedKernels
  <2>5. /\ dev_o' = UNINIT /\ host' = << >> /\ failed' = {}
        /\ pc' = "launch" /\ sums' = sums
    BY <1>2 DEF Call, CallInv, search
  <2>6. dev_o' \in Past(Len(host))'
    BY <2>5 DEF Past
  <2> QED
    BY <2>4, <2>5, <2>6 DEF CallInv
<1>3. CASE Single
  BY <1>3, SingleKeeps DEF Single
<1>4. ASSUME NEW val \in Returned, ComparePair(val) PROVE CallInv'
  BY <1>4 DEF ComparePair, CallInv
<1>5. CASE CopyWindow \/ StartSearch \/ NextRow \/ Report \/ Abort
  <2>1. UNCHANGED <<sums, call>>
    BY <1>5 DEF CopyWindow, StartSearch, NextRow, Report, Abort
  <2> QED
    BY <1>1, <2>1
<1>6. CASE UNCHANGED vars
  BY <1>1, <1>6 DEF vars, search
<1> QED
  BY <1>2, <1>3, <1>4, <1>5, <1>6 DEF Next

(* The two loops visit every pair of different stocks, once.               *)
LEMMA LoopKept ==
  ASSUME CallInv, LoopInv, [Next]_vars
  PROVE  LoopInv'
<1>t. SERVER_STOCK \in Nat /\ i \in 0 .. SERVER_STOCK /\ j \in Nat
  BY CoefficientAssumption DEF LoopInv
<1>p. \A p \in Pair : /\ p[1] \in 0 .. SERVER_STOCK - 1
                      /\ p[2] \in 0 .. SERVER_STOCK - 1
                      /\ p[1] < p[2]
  BY DEF Pair, Stock
<1>1. CASE CopyWindow
  <2>1. /\ phase = "copy" /\ phase' = phase /\ factor' = factor /\ j' = j
        /\ pc' = pc /\ i < SERVER_STOCK /\ i' = i + 1
    BY <1>1 DEF CopyWindow, call
  <2>2. i' \in 0 .. SERVER_STOCK
    BY <1>t, <2>1
  <2> QED
    BY <2>1, <2>2 DEF LoopInv
<1>2. CASE StartSearch
  <2>1. /\ phase = "copy" /\ phase' = "search" /\ factor' = factor
        /\ i' = 0 /\ j' = 1 /\ pc' = pc
    BY <1>2 DEF StartSearch, call, FirstPartner
  <2>2. Visited' = {}
    BY <1>p, <2>1 DEF Visited
  <2>3. SERVER_STOCK > 0 => 1 \in 0 + 1 .. SERVER_STOCK
    BY <1>t
  <2>4. DOMAIN factor' = {} /\ pc' = "idle"
    BY <2>1 DEF LoopInv
  <2> QED
    BY <1>t, <2>1, <2>2, <2>3, <2>4 DEF LoopInv
<1>3. CASE Call
  BY <1>3 DEF Call, search, LoopInv, Visited
<1>4. CASE Single
  <2>1. pc # "idle"
    BY <1>4 DEF Single, S!Next, S!Launch, S!LaunchFails, S!CopyToHost,
                S!CopyFails, S!Take
  <2>2. UNCHANGED search
    BY <1>4 DEF Single
  <2> QED
    BY <2>1, <2>2 DEF LoopInv, search, Visited
<1>5. ASSUME pc = "return", NEW val \in Returned, ComparePair(val)
      PROVE  LoopInv'
  <2>1. /\ phase = "search" /\ phase' = phase /\ i' = i /\ j' = j + 1
        /\ pc' = "idle" /\ i < SERVER_STOCK /\ j < SERVER_STOCK
        /\ DOMAIN factor = Visited
    BY <1>5 DEF ComparePair, LoopInv
  <2>2. j \in i + 1 .. SERVER_STOCK
    BY <2>1 DEF LoopInv
  <2>3. DOMAIN factor' = Visited \cup {<<i, j>>}
    BY <1>5, <2>1 DEF ComparePair
  <2>4. <<i, j>> \in Pair
    BY <1>t, <2>1, <2>2 DEF Pair, Stock
  <2>5. Visited' = {p \in Pair : p[1] < i \/ (p[1] = i /\ p[2] < j + 1)}
    BY <2>1 DEF Visited
  <2>6. \A p \in Pair : p[2] < j + 1 <=> p[2] < j \/ p[2] = j
    BY <1>t, <1>p
  <2>7. \A p \in Pair : p = <<i, j>> <=> p[1] = i /\ p[2] = j
    BY DEF Pair
  <2>8. Visited \cup {<<i, j>>} = Visited'
    BY <1>t, <2>4, <2>5, <2>6, <2>7, Zenon DEF Visited
  <2>9. j + 1 \in i + 1 .. SERVER_STOCK
    BY <1>t, <2>1, <2>2
  <2> QED
    BY <1>t, <2>1, <2>3, <2>8, <2>9 DEF LoopInv
<1>6. CASE NextRow
  <2>1. /\ phase = "search" /\ phase' = phase /\ i' = i + 1 /\ j' = i + 2
        /\ pc' = pc /\ i < SERVER_STOCK /\ j >= SERVER_STOCK
        /\ factor' = factor /\ DOMAIN factor = Visited
    BY <1>t, <1>6 DEF NextRow, LoopInv, call, FirstPartner
  <2>2. pc = "idle"
    BY <1>t, <2>1 DEF LoopInv
  <2>3. j = SERVER_STOCK
    BY <1>t, <2>1 DEF LoopInv
  <2>4. \A p \in Pair : p[1] < i \/ (p[1] = i /\ p[2] < j)
                   <=> p[1] < i + 1 \/ (p[1] = i + 1 /\ p[2] < i + 2)
    BY <1>t, <1>p, <2>3
  <2>5. Visited' = Visited
    BY <2>1, <2>4 DEF Visited
  <2>6. i + 1 \in 0 .. SERVER_STOCK /\ i + 2 \in Nat
    BY <1>t, <2>1
  <2>7. i + 1 < SERVER_STOCK => i + 2 \in (i + 1) + 1 .. SERVER_STOCK
    BY <1>t
  <2> QED
    BY <2>1, <2>2, <2>5, <2>6, <2>7 DEF LoopInv
<1>7. CASE Report
  <2>1. /\ phase = "search" /\ i = SERVER_STOCK /\ phase' = "reported"
        /\ DOMAIN factor = Visited
        /\ UNCHANGED <<i, j, factor, pc>>
    BY <1>7 DEF Report, LoopInv, call
  <2>2. pc = "idle"
    BY <1>t, <2>1 DEF LoopInv
  <2>3. Visited = Pair
    BY <1>t, <1>p, <2>1 DEF Visited
  <2> QED
    BY <1>t, <2>1, <2>2, <2>3 DEF LoopInv
<1>8. CASE Abort
  BY <1>8 DEF Abort, LoopInv, call
<1>9. CASE UNCHANGED vars
  BY <1>9 DEF vars, search, call, LoopInv, Visited
<1> QED
  BY <1>1, <1>2, <1>3, <1>4, <1>5, <1>6, <1>7, <1>8, <1>9 DEF Next

-----------------------------------------------------------------------------
(* A square is not negative.                                               *)
LEMMA SquareNat == ASSUME NEW x \in Int PROVE x * x \in Nat
<1>1. CASE x >= 0
  BY <1>1
<1>2. CASE x < 0
  <2>1. PICK y \in Nat : x = -y
    <3>1. -x \in Nat /\ x = -(-x)
      BY <1>2
    <3> QED
      BY <3>1
  <2>2. x * x = y * y /\ y * y \in Nat
    BY <2>1
  <2> QED
    BY <2>2
<1> QED
  BY <1>1, <1>2

(* What coefficient_single returns is NaN or a fraction of natural         *)
(* numbers, the denominator of an infinite one being 0.                    *)
LEMMA ReturnedProper ==
  ASSUME CallInv, pc = "return", NEW val \in Returned
  PROVE  Proper(val)
<1>1. \A num, den \in Int : num >= 0 => Proper(Fraction(num, den))
  BY DEF Proper, Fraction, Fractions
<1>2. CASE UNINIT \in {host[n] : n \in 1 .. 5}
  BY <1>1, <1>2 DEF Returned, Proper
<1>3. CASE UNINIT \notin {host[n] : n \in 1 .. 5}
  <2>1. host \in Seq(Known) /\ Len(host) = 5
    BY DEF CallInv
  <2>2. \A n \in 1 .. 5 : host[n] \in Int
    <3>1. \A n \in 1 .. 5 : host[n] \in Known
      BY <2>1, ElementOfSeq, Zenon
    <3>2. \A n \in 1 .. 5 : host[n] # UNINIT
      BY <1>3, Zenon
    <3>3. \A v \in Known : v = UNINIT \/ v \in Int
      BY CoefficientAssumption, Zenon DEF Known, CoefficientAssumption
    <3> QED
      BY <3>1, <3>2, <3>3, Zenon
  <2>3. \A name \in {"dot", "sum_x", "sum_y", "sum_y_2", "sum_x_2"} :
          S!Value(name) \in Int
    <3> TAKE name \in {"dot", "sum_x", "sum_y", "sum_y_2", "sum_x_2"}
    <3> DEFINE P(n) == S!Names[n] = name
    <3>1. \E n \in 1 .. Len(S!Names) : S!Names[n] = name
      BY DEF S!Names
    <3>2. Len(S!Names) = 5
      BY DEF S!Names
    <3>3. (CHOOSE n \in 1 .. Len(S!Names) : S!Names[n] = name) \in 1 .. 5
      BY <3>1, <3>2, Zenon
    <3> QED
      BY <2>2, <3>3, Zenon DEF S!Value
  <2>4. S!fenzi \in Int
    <3>1. \A a, b, c \in Int : a - b * c \in Int
      OBVIOUS
    <3> QED
      BY <2>3, <3>1, Zenon DEF S!fenzi
  <2>5. S!fenmu \in Int
    <3>1. \A square, sum \in Int : S!Spread(square, sum) \in Int
      BY CoefficientAssumption DEF S!Spread
    <3>2. /\ S!Spread(S!Value("sum_x_2"), S!Value("sum_x")) \in Int
          /\ S!Spread(S!Value("sum_y_2"), S!Value("sum_y")) \in Int
      BY <2>3, <3>1, Zenon
    <3>3. \A a, b \in Int : a * b \in Int
      OBVIOUS
    <3> QED
      BY <3>2, <3>3, Zenon DEF S!fenmu
  <2>6. S!fenzi * S!fenzi \in Nat
    BY <2>4, SquareNat, Zenon
  <2>7. val = Fraction(S!fenzi * S!fenzi, S!fenmu)
    BY <1>3 DEF Returned
  <2>8. S!fenzi * S!fenzi \in Int /\ S!fenzi * S!fenzi >= 0
    BY <2>6
  <2> QED
    BY <1>1, <2>5, <2>7, <2>8, Zenon
<1> QED
  BY <1>2, <1>3

(* Fractions are ordered: one below the minimum is below all that were not *)
(* below it.                                                               *)
LEMMA FractionOrder ==
  ASSUME NEW vn \in Nat, NEW vd \in Nat, NEW mn \in Nat, NEW md \in Nat,
         NEW fn \in Nat, NEW fd \in Nat,
         vn * md < mn * vd, mn * fd <= fn * md, md > 0, fd > 0
  PROVE  vn * fd < fn * vd
<1> DEFINE a == vn * md
           b == mn * vd
           c == mn * fd
           d == fn * md
           x == vn * fd
           y == fn * vd
<1>1. /\ a \in Nat /\ b \in Nat /\ c \in Nat /\ d \in Nat
      /\ x \in Nat /\ y \in Nat
  OBVIOUS
<1>2. x * md = a * fd /\ c * vd = b * fd /\ y * md = d * vd
  OBVIOUS
<1>3. a + 1 <= b /\ c <= d
  BY <1>1
<1> HIDE DEF a, b, c, d, x, y
<1>4. ASSUME NEW p \in Nat, NEW q \in Nat, NEW r \in Nat, p <= q
      PROVE  p * r <= q * r
  <2>1. PICK e \in Nat : q = p + e
    <3>1. q - p \in Nat /\ q = p + (q - p)
      BY <1>4
    <3> QED
      BY <3>1
  <2>2. q * r = p * r + e * r /\ e * r \in Nat /\ p * r \in Nat
    BY <2>1
  <2> QED
    BY <2>2
<1>5. (a + 1) * fd <= b * fd /\ c * vd <= d * vd
  BY <1>1, <1>3, <1>4
<1>6. (a + 1) * fd = a * fd + fd
  BY <1>1
<1> DEFINE xm == x * md
           ym == y * md
<1>7. xm < ym
  <2> DEFINE s == a * fd
             t == b * fd
             u == d * vd
  <2>1. s \in Nat /\ t \in Nat /\ u \in Nat
    BY <1>1
  <2>2. xm = s /\ c * vd = t /\ ym = u /\ s + fd <= t /\ t <= u
    BY <1>2, <1>5, <1>6
  <2> HIDE DEF s, t, u, xm, ym
  <2> QED
    BY <2>1, <2>2
<1>8. CASE y <= x
  <2>1. y * md <= x * md
    BY <1>1, <1>4, <1>8
  <2>2. xm \in Nat /\ ym \in Nat /\ ym <= xm
    BY <1>1, <2>1
  <2> HIDE DEF xm, ym
  <2> QED
    BY <1>7, <2>2
<1>9. CASE x < y
  BY <1>9 DEF x, y
<1> QED
  BY <1>1, <1>8, <1>9

(* A fraction below one that is at most 1 is below 1.                      *)
LEMMA BelowOne ==
  ASSUME NEW vn \in Nat, NEW vd \in Nat, NEW mn \in Nat, NEW md \in Nat,
         vn * md < mn * vd, mn <= md, md > 0
  PROVE  vn < vd
<1>1. CASE vd <= vn
  <2>1. PICK e \in Nat : vn = vd + e
    <3>1. vn - vd \in Nat /\ vn = vd + (vn - vd)
      BY <1>1
    <3> QED
      BY <3>1
  <2>2. PICK f \in Nat : md = mn + f
    <3>1. md - mn \in Nat /\ md = mn + (md - mn)
      OBVIOUS
    <3> QED
      BY <3>1
  <2>3. vn * md = mn * vd + vd * f + e * md
    BY <2>1, <2>2
  <2>4. vd * f \in Nat /\ e * md \in Nat /\ mn * vd \in Nat /\ vn * md \in Nat
    OBVIOUS
  <2> QED
    BY <2>3, <2>4
<1> QED
  BY <1>1

(* Comparing the next pair keeps the first minimum.                        *)
LEMMA CompareKeeps ==
  ASSUME CallInv, LoopInv, MinInv, pc = "return",
         NEW val \in Returned, ComparePair(val)
  PROVE  MinInv'
<1> DEFINE P == <<i, j>>
           X == <<stock_x, stock_y>>
           good(v) == v # NaN /\ v.num < v.den
           after(p) == LET f == factor[p] IN
                       \/ min_cof.num * f.den < f.num * min_cof.den
                       \/ /\ min_cof.num * f.den = f.num * min_cof.den
                          /\ Before(X, p)
<1>1. Proper(val)
  BY ReturnedProper
<1>2. P \notin DOMAIN factor /\ \A p \in DOMAIN factor : Before(p, P)
  <2>1. DOMAIN factor = Visited /\ i \in 0 .. SERVER_STOCK /\ j \in Nat
    BY DEF LoopInv
  <2>2. SERVER_STOCK \in Nat /\ \A p \in Pair : p[1] \in Int /\ p[2] \in Int
    BY CoefficientAssumption DEF Pair, Stock
  <2> QED
    BY <2>1, <2>2 DEF Visited, Before
<1>3. /\ DOMAIN factor' = DOMAIN factor \cup {P}
      /\ factor'[P] = val
      /\ \A p \in DOMAIN factor : factor'[p] = factor[p]
  BY <1>2 DEF ComparePair
<1>4. \A p \in DOMAIN factor' : Proper(factor'[p])
  BY <1>1, <1>3 DEF MinInv
<1>5. /\ min_cof \in Fractions /\ min_cof.den > 0
      /\ min_cof.num <= min_cof.den
      /\ min_cof.num \in Nat /\ min_cof.den \in Nat
  BY DEF MinInv, Fractions
<1>6. /\ Candidates = {p \in DOMAIN factor : good(factor[p])}
      /\ Candidates' = {p \in DOMAIN factor' : good(factor'[p])}
  BY DEF Candidates
<1>7. Candidates' = Candidates \cup (IF good(val) THEN {P} ELSE {})
  <2> HIDE DEF good, P
  <2> QED
    BY <1>3, <1>6
<1>8. \A p \in Candidates : /\ p \in DOMAIN factor
                            /\ factor[p].num \in Nat /\ factor[p].den \in Nat
                            /\ factor[p].num < factor[p].den
                            /\ factor[p].den > 0
  <2>1. \A v : Proper(v) /\ good(v) => /\ v.num \in Nat /\ v.den \in Nat
                                       /\ v.num < v.den /\ v.den > 0
    BY DEF Proper, Fractions
  <2> QED
    BY <1>6, <2>1 DEF MinInv
<1>9. /\ Candidates = {} => min_cof = ONE /\ {stock_x, stock_y} = {UNINIT}
      /\ Candidates # {} => /\ X \in Candidates /\ factor[X] = min_cof
                            /\ \A p \in Candidates \ {X} : after(p)
  BY DEF MinInv
<1>10. CASE Less(val, min_cof)
  <2>1. /\ stock_x' = i /\ stock_y' = j /\ min_cof' = val
    BY <1>10 DEF ComparePair
  <2>2. /\ val \in Fractions /\ val.num \in Nat /\ val.den \in Nat
        /\ val.num * min_cof.den < min_cof.num * val.den
        /\ val # NaN
    BY <1>1, <1>10 DEF Less, Proper, Fractions
  <2>3. val.num < val.den /\ val.den > 0
    <3>1. val.num < val.den
      BY <1>5, <2>2, BelowOne, Zenon
    <3> QED
      BY <2>2, <3>1
  <2>4. P \in Candidates'
    BY <1>7, <2>2, <2>3
  <2>5. ASSUME NEW p \in Candidates' \ {P}
        PROVE  val.num * factor'[p].den < factor'[p].num * val.den
    <3>1. p \in Candidates /\ factor'[p] = factor[p]
      BY <1>3, <1>7, <1>8, <2>5
    <3>2. min_cof.num * factor[p].den <= factor[p].num * min_cof.den
      <4>1. CASE p = X
        <5>1. factor[p] = min_cof
          BY <1>9, <3>1, <4>1
        <5> QED
          BY <5>1, <1>5
      <4>2. CASE p # X
        <5>1. after(p)
          BY <1>9, <3>1, <4>2
        <5> QED
          BY <5>1, <1>5, <1>8, <3>1
      <4> QED
        BY <4>1, <4>2
    <3>3. val.num * factor[p].den < factor[p].num * val.den
      BY <1>5, <1>8, <2>2, <3>1, <3>2, FractionOrder, Zenon
    <3> QED
      BY <3>1, <3>3
  <2>6. min_cof' \in Fractions /\ min_cof'.den > 0
          /\ min_cof'.num <= min_cof'.den
    BY <2>1, <2>2, <2>3
  <2>7. <<stock_x', stock_y'>> = P
    BY <2>1
  <2>8. /\ <<stock_x', stock_y'>> \in Candidates'
        /\ factor'[<<stock_x', stock_y'>>] = min_cof'
        /\ \A p \in Candidates' \ {<<stock_x', stock_y'>>} :
             min_cof'.num * factor'[p].den < factor'[p].num * min_cof'.den
    <3> HIDE DEF P
    <3> QED
      BY <1>3, <2>1, <2>4, <2>5, <2>7
  <2> QED
    BY <1>4, <2>6, <2>8, Zenon DEF MinInv
<1>11. CASE ~Less(val, min_cof)
  <2>1. UNCHANGED <<stock_x, stock_y, min_cof>>
    BY <1>11 DEF ComparePair
  <2>2. CASE ~good(val)
    <3>1. Candidates' = Candidates
      BY <1>7, <2>2
    <3>2. \A p \in Candidates : factor'[p] = factor[p]
      BY <1>3, <1>8
    <3>3. /\ Candidates' = {} => /\ min_cof' = ONE
                                 /\ {stock_x', stock_y'} = {UNINIT}
          /\ Candidates' # {} => X \in Candidates' /\ factor'[X] = min_cof'
      BY <1>9, <2>1, <3>1, <3>2
    <3>4. ASSUME Candidates' # {}, NEW p \in Candidates' \ {X}
          PROVE  LET f == factor'[p] IN
                 \/ min_cof'.num * f.den < f.num * min_cof'.den
                 \/ /\ min_cof'.num * f.den = f.num * min_cof'.den
                    /\ Before(X, p)
      BY <1>9, <2>1, <3>1, <3>2, <3>4
    <3> QED
      BY <1>4, <1>5, <2>1, <3>3, <3>4 DEF MinInv, Before
  <2>3. CASE good(val)
    <3>1. /\ val.num \in Nat /\ val.den \in Nat /\ val # NaN
          /\ val.num < val.den
          /\ min_cof.num * val.den <= val.num * min_cof.den
      BY <1>1, <1>5, <1>11, <2>3 DEF Proper, Less, Fractions
    <3>2. Candidates # {}
      <4>1. CASE Candidates = {}
        <5>1. min_cof.num = 1 /\ min_cof.den = 1
          BY <1>9, <4>1 DEF ONE
        <5> QED
          BY <3>1, <5>1
      <4> QED
        BY <4>1
    <3>3. X \in Candidates /\ factor[X] = min_cof /\ X # P
      BY <1>2, <1>8, <1>9, <3>2
    <3>4. X \in Candidates' /\ factor'[X] = min_cof'
      BY <1>3, <1>7, <1>8, <2>1, <3>3
    <3>5. ASSUME NEW p \in Candidates' \ {X}
          PROVE  LET f == factor'[p] IN
                 \/ min_cof'.num * f.den < f.num * min_cof'.den
                 \/ /\ min_cof'.num * f.den = f.num * min_cof'.den
                    /\ Before(X, p)
      <4>1. CASE p = P
        <5>1. Before(X, P)
          BY <1>2, <1>8, <3>3
        <5>2. factor'[p] = val
          BY <1>3, <4>1
        <5>3. \/ min_cof.num * val.den < val.num * min_cof.den
              \/ min_cof.num * val.den = val.num * min_cof.den
          BY <3>1, <1>5
        <5> QED
          BY <2>1, <4>1, <5>1, <5>2, <5>3, Zenon
      <4>2. CASE p # P
        <5>1. p \in Candidates
          BY <1>7, <4>2
        <5>2. factor'[p] = factor[p] /\ after(p)
          BY <1>3, <1>8, <1>9, <3>2, <5>1
        <5> QED
          BY <2>1, <5>2, Zenon
      <4> QED
        BY <4>1, <4>2
    <3> QED
      BY <1>4, <1>5, <2>1, <3>4, <3>5 DEF MinInv, Before
  <2> QED
    BY <2>2, <2>3
<1> QED
  BY <1>10, <1>11

(* Only the comparison changes what has been found.                        *)
LEMMA NextIInv == IInv /\ [Next]_vars => IInv'
<1> SUFFICES ASSUME CallInv, LoopInv, MinInv, [Next]_vars PROVE IInv'
  BY DEF IInv
<1>1. CallInv' /\ LoopInv'
  BY CallKept, LoopKept
<1>2. ASSUME UNCHANGED <<factor, min_cof, stock_x, stock_y>> PROVE MinInv'
  BY <1>2 DEF MinInv, Candidates
<1>3. ASSUME \/ CopyWindow \/ StartSearch \/ Call \/ Single
             \/ NextRow \/ Report \/ Abort \/ UNCHANGED vars
      PROVE  MinInv'
  <2>1. UNCHANGED <<factor, min_cof, stock_x, stock_y>>
    BY <1>3 DEF CopyWindow, StartSearch, Call, Single, NextRow, Report, Abort,
                vars, search
  <2> QED
    BY <1>2, <2>1
<1>4. ASSUME pc = "return", NEW val \in Returned, ComparePair(val)
      PROVE  MinInv'
  BY <1>4, CompareKeeps
<1>5. MinInv'
  BY <1>3, <1>4 DEF Next
<1> QED
  BY <1>1, <1>5 DEF IInv

(* The inductive invariant of the search.                                  *)
THEOREM SearchInvariant == Spec => []IInv
  BY InitIInv, NextIInv, PTL DEF Spec

(* coefficient reports the first pair with the smallest factor below 1, of *)
(* all pairs, and two uninitialised stocks if there is none, for every     *)
(* number of stocks and whatever the kernels return.                       *)
THEOREM FirstMinimumReported == Spec => []ReportIsMinimum
<1>1. IInv => ReportIsMinimum
  BY DEF IInv, LoopInv, MinInv, ReportIsMinimum
<1> QED
  BY <1>1, SearchInvariant, PTL

(* A number that coefficient_single takes is its launch's own, or, if the  *)
(* launch or the copy failed, an earlier one's or uninitialised.           *)
THEOREM FailureLeavesStale == Spec => []WrongIsStale
<1>1. IInv => WrongIsStale
  BY DEF IInv, CallInv, OwnOrPast, WrongIsStale, S!WrongIsStale
<1> QED
  BY <1>1, SearchInvariant, PTL
=============================================================================
