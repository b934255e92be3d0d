---------------------------- MODULE Coefficient -----------------------------
(***************************************************************************)
(* coefficient of coefficient.cu, called with every window full: the       *)
(* windows are copied to the device, coefficient_single (Correlation) is   *)
(* called for every pair of stocks, the pair with the smallest factor is   *)
(* reported, and the process aborts.                                       *)
(*                                                                         *)
(* A factor is kept as its square, a fraction, so that it can be compared  *)
(* exactly: the rounding of float is left out.  It is NaN if the argument  *)
(* of sqrt is negative, or both fenzi and fenmu are 0; a fraction over 0   *)
(* is infinite.                                                            *)
(***************************************************************************)
EXTENDS Integers, FiniteSets

CONSTANTS
  SERVER_STOCK,
  ARRAY_LENGTH,
  Number,       \* numbers a kernel may return
  MAX_FAILED,   \* bound: launches and copies of a call that fail
  NaN,
  UNINIT        \* the value of an uninitialised variable

ASSUME CoefficientAssumption ==
  /\ SERVER_STOCK \in Nat /\ ARRAY_LENGTH \in Nat \ {0}
  /\ Number \subseteq Int

VARIABLES
  i, j,              \* the loop variables
  array,             \* stocks whose window is on the device
  sums,              \* the sum of each stock's window
  min_cof,
  stock_x, stock_y,
  phase,
  factor,            \* auxiliary: the factors computed so far, by pair
  result, dev_o, host, pc, failed  \* the call of coefficient_single

call == <<result, dev_o, host, pc, failed>>
search == <<i, j, array, sums, min_cof, stock_x, stock_y, phase, factor>>
vars == <<search, call>>

S == INSTANCE Correlation

Stock == 0 .. SERVER_STOCK - 1
Pair == {p \in Stock \X Stock : p[1] < p[2]}
ONE == [num |-> 1, den |-> 1]

Init ==
  /\ i = 0
  /\ j = 0
  /\ array = {}
  /\ sums \in [Stock -> Number]
  /\ min_cof = ONE
  /\ stock_x = UNINIT
  /\ stock_y = UNINIT
  /\ phase = "copy"
  /\ factor = << >>
  /\ pc = "idle" /\ result = << >>
  /\ dev_o = UNINIT /\ host = << >> /\ failed = {}

(* One window goes to the device; the error codes are not looked at.       *)
CopyWindow ==
  /\ phase = "copy"
  /\ i < SERVER_STOCK
  /\ array' = array \cup {i}
  /\ i' = i + 1
  /\ UNCHANGED <<j, sums, min_cof, stock_x, stock_y, phase, factor>>
  /\ UNCHANGED call

(* First partner of a stock in the inner loop.                             *)
FirstPartner(row) == row + 1

(* "start coefficient calculate"                                           *)
StartSearch ==
  /\ phase = "copy"
  /\ i = SERVER_STOCK
  /\ i' = 0
  /\ j' = FirstPartner(0)
  /\ phase' = "search"
  /\ UNCHANGED <<array, sums, min_cof, stock_x, stock_y, factor>>
  /\ UNCHANGED call

-----------------------------------------------------------------------------
(* coefficient_single(array[i], array[j]): a kernel returns the same sum   *)
(* for a stock in every pair.                                              *)
Launched == {S!Launches[n] : n \in 1 .. 5}

Call ==
  /\ phase = "search"
  /\ i < SERVER_STOCK
  /\ j < SERVER_STOCK
  /\ pc = "idle"
  /\ \E dot \in Number :
       result' = [k \in Launched |->
                    CASE k = "dot(x,y)" -> dot
                      [] k = "sum(x)"   -> sums[i]
                      [] k = "sum(y)"   -> sums[j]]
  /\ pc' = "launch"
  /\ UNCHANGED <<dev_o, host, failed>>
  /\ UNCHANGED search

Single ==
  /\ S!Next
  /\ Cardinality(failed') <= MAX_FAILED
  /\ UNCHANGED search

(* fabs of what coefficient_single returns.  If one of its numbers is      *)
(* uninitialised this may be anything.                                     *)
Fraction(num, den) ==
  IF den < 0 \/ (num = 0 /\ den = 0) THEN NaN ELSE [num |-> num, den |-> den]
Returned ==
  IF UNINIT \in {host[n] : n \in 1 .. 5}
  THEN {NaN, Fraction(0, 1), Fraction(1, 2), Fraction(1, 0)}
  ELSE {Fraction(S!fenzi * S!fenzi, S!fenmu)}

(* Mutant: a later pair with the same factor replaces the first.           *)
LessOrEqual(val, bound) == val # NaN /\ val.num * bound.den <= bound.num * val.den

(* val < min_cof: false when val is NaN.                                   *)
Less(val, bound) == val # NaN /\ val.num * bound.den < bound.num * val.den

ComparePair(val) ==
  /\ factor' = [p \in DOMAIN factor \cup {<<i, j>>} |->
                  IF p = <<i, j>> THEN val ELSE factor[p]]
  /\ IF Less(val, min_cof)
     THEN stock_x' = i /\ stock_y' = j /\ min_cof' = val
     ELSE UNCHANGED <<stock_x, stock_y, min_cof>>
  /\ j' = j + 1
  /\ pc' = "idle" /\ result' = << >>
  /\ dev_o' = UNINIT /\ host' = << >> /\ failed' = {}
  /\ UNCHANGED <<i, array, sums, phase>>

NextRow ==
  /\ phase = "search"
  /\ i < SERVER_STOCK
  /\ j >= SERVER_STOCK
  /\ i' = i + 1
  /\ j' = FirstPartner(i + 1)
  /\ UNCHANGED <<array, sums, min_cof, stock_x, stock_y, phase, factor>>
  /\ UNCHANGED call

(* "Min coefficient factor": min_cof, stock_x and stock_y are printed.     *)
Report ==
  /\ phase = "search"
  /\ i = SERVER_STOCK
  /\ phase' = "reported"
  /\ UNCHANGED <<i, j, array, sums, min_cof, stock_x, stock_y, factor>>
  /\ UNCHANGED call

(* cudaFree(array[loop]) frees none of the windows, whatever the word      *)
(* behind the array holds; then abort().                                   *)
Abort ==
  /\ phase = "reported"
  /\ phase' = "aborted"
  /\ UNCHANGED <<i, j, array, sums, min_cof, stock_x, stock_y, factor>>
  /\ UNCHANGED call

Next ==
  \/ CopyWindow \/ StartSearch
  \/ Call \/ Single
  \/ pc = "return" /\ \E val \in Returned : ComparePair(val)
  \/ NextRow \/ Report \/ Abort

Spec == Init /\ [][Next]_vars

-----------------------------------------------------------------------------
Before(p, q) == p[1] < q[1] \/ (p[1] = q[1] /\ p[2] < q[2])

(* The factors that can replace the initial 1.0.                           *)
Candidates ==
  {p \in DOMAIN factor :
     factor[p] # NaN /\ factor[p].num < factor[p].den}

(* The report names the first pair of different stocks with the smallest   *)
(* factor below 1, of all pairs.  When there is none, when all factors are *)
(* NaN or at least 1, it names stocks nobody has chosen: stock_x and       *)
(* stock_y have no initial value.                                          *)
ReportIsMinimum ==
  phase = "reported" =>
    /\ DOMAIN factor = Pair
    /\ IF Candidates = {}
       THEN min_cof = ONE /\ {stock_x, stock_y} = {UNINIT}
       ELSE /\ <<stock_x, stock_y>> \in Candidates
            /\ factor[<<stock_x, stock_y>>] = min_cof
            /\ \A p \in Candidates \ {<<stock_x, stock_y>>} :
                 LET f == factor[p] IN
                 \/ min_cof.num * f.den < f.num * min_cof.den
                 \/ /\ min_cof.num * f.den = f.num * min_cof.den
                    /\ Before(<<stock_x, stock_y>>, p)

(* Both buffers of coefficient_single are used five times, and failures go *)
(* unnoticed.  In the call for any pair, the number of a launch that did   *)
(* not fail is its own, whatever failed before it; the number of one that  *)
(* did is left over from an earlier launch of the same call, or            *)
(* uninitialised.                                                          *)
WrongIsStale == pc # "idle" => S!WrongIsStale
=============================================================================
