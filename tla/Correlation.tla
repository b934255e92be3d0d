---------------------------- MODULE Correlation -----------------------------
(***************************************************************************)
(* coefficient_single of coefficient.cu: five kernel launches into the     *)
(* same one-word device buffer, each followed by a copy to the host, and   *)
(* the formula over the five numbers.                                      *)
(*                                                                         *)
(* What a kernel returns is left open (Reduction is about that): result    *)
(* gives a number for every kernel and argument.  No error code is looked  *)
(* at: a launch that fails leaves the device buffer as it was, a copy that *)
(* fails leaves the host buffer as it was.                                 *)
(***************************************************************************)
EXTENDS Integers, Sequences

CONSTANTS
  ARRAY_LENGTH,
  Number,       \* numbers a kernel may return
  UNINIT        \* a buffer before it is written

Kernel == {"dot(x,y)", "sum(x)", "sum(y)", "sumSquare(x)", "sumSquare(y)"}

(* The launches, in the order of the code, and the variables the five      *)
(* numbers go to.  Two launches of sum on one window return one result;    *)
(* the race in the reduction could also make them differ, on which no      *)
(* property here depends.                                                  *)
Launches == <<"dot(x,y)", "sum(x)", "sum(y)", "sum(y)", "sum(x)">>
Names == <<"dot", "sum_x", "sum_y", "sum_y_2", "sum_x_2">>

VARIABLES
  result,  \* what each kernel returns for this pair
  dev_o,   \* the device buffer
  host,    \* the numbers copied so far, by position in Launches
  pc,      \* "launch", "copy" or "return"
  failed   \* auxiliary: positions where the launch or the copy failed

vars == <<result, dev_o, host, pc, failed>>

(* host_o and dev_o are allocated anew in every call.                      *)
Init ==
  /\ result \in [Kernel -> Number]
  /\ dev_o = UNINIT
  /\ host = << >>
  /\ pc = "launch"
  /\ failed = {}

Launch ==
  /\ pc = "launch"
  /\ dev_o' = result[Launches[Len(host) + 1]]
  /\ pc' = "copy"
  /\ UNCHANGED <<result, host, failed>>

LaunchFails ==
  /\ pc = "launch"
  /\ pc' = "copy"
  /\ failed' = failed \cup {Len(host) + 1}
  /\ UNCHANGED <<result, dev_o, host>>

(* The number in host_o is added to the variable of this launch.           *)
Take(host_o) ==
  /\ pc = "copy"
  /\ host' = Append(host, host_o)
  /\ pc' = IF Len(host) + 1 < Len(Launches) THEN "launch" ELSE "return"
  /\ UNCHANGED <<result, dev_o>>

(* What the last copy left in host_o.                                      *)
LastCopied == IF host = << >> THEN UNINIT ELSE host[Len(host)]

(* Mutant: the copy does not wait for the kernel.                          *)
CopyEarly == Take(LastCopied) /\ UNCHANGED failed

(* cudaMemcpy waits for the kernel and takes what is in the buffer.        *)
CopyToHost == Take(dev_o) /\ UNCHANGED failed

CopyFails == Take(LastCopied) /\ failed' = failed \cup {Len(host) + 1}

Next == Launch \/ LaunchFails \/ CopyToHost \/ CopyFails

Spec == Init /\ [][Next]_vars

(* The variables of the formula.  The square of fenzi / fenmu is           *)
(* fenzi^2 / fenmu: ARRAY_LENGTH cancels out.                              *)
Value(name) == host[CHOOSE n \in 1 .. Len(Names) : Names[n] = name]

fenzi == Value("dot") - Value("sum_x") * Value("sum_y")
Spread(square, sum) == ARRAY_LENGTH * square - sum * sum
fenmu ==
  Spread(Value("sum_x_2"), Value("sum_x"))
    * Spread(Value("sum_y_2"), Value("sum_y"))

-----------------------------------------------------------------------------
(* Both buffers are used five times, and failures go unnoticed.  The       *)
(* number of a launch that did not fail is its own, whatever failed before *)
(* it; the number of one that did is left over from an earlier launch, or  *)
(* uninitialised.                                                          *)
WrongIsStale ==
  \A n \in 1 .. Len(host) :
    IF n \notin failed
    THEN host[n] = result[Launches[n]]
    ELSE host[n] \in {result[Launches[m]] : m \in 1 .. n - 1} \cup {UNINIT}

(* The comment above coefficient_single:                                   *)
(*   fenzi = sum(X .* Y) - (sum(X) * sum(Y)) / length(X);                  *)
(*   fenmu = sqrt((sum(X .^2) - sum(X)^2 / length(X)) * (...));            *)
FormulaAsDocumented ==
  pc = "return" /\ failed = {} =>
    /\ fenzi = ARRAY_LENGTH * result["dot(x,y)"]
                 - result["sum(x)"] * result["sum(y)"]
    /\ fenmu = Spread(result["sumSquare(x)"], result["sum(x)"])
                 * Spread(result["sumSquare(y)"], result["sum(y)"])
=============================================================================
