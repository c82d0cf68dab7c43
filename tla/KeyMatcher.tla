------------------------------- MODULE KeyMatcher -------------------------------
(***************************************************************************)
(* How a long key ID is measured, twice: EvaluateKeyIDForDigits on the     *)
(* CPU, matching_run in the OpenCL kernel.  A key ID is the sequence of    *)
(* its hexadecimal digits, most significant first; a DigitSet is a set of  *)
(* digits, never empty (Search replaces an empty one by all digits).       *)
(***************************************************************************)
EXTENDS Integers, Sequences, SequencesExt

Scopes == {"suffix", "any"}

(* The suffix loop of both: count equal digits from the last one up. *)
TrailingRun(key) ==
  LET Count(s, digit) == IF s.counting /\ digit = Last(key)
                         THEN [s EXCEPT !.run = @ + 1]
                         ELSE [s EXCEPT !.counting = FALSE]
  IN  FoldLeft(Count, [run |-> 1, counting |-> TRUE], Tail(Reverse(key))).run

(* The any-scope loop on the CPU, at digit i of the key (from 0). *)
Evaluate(key, allowed, s, i) ==
  LET digit == key[i + 1]
      start == IF digit = s.digit THEN s.start ELSE i
      run   == IF digit = s.digit THEN s.run + 1 ELSE 1
      better == \/ run > s.best.RunLength
                \/ run = s.best.RunLength /\ start > s.best.Start
  IN  [digit |-> digit, start |-> start, run |-> run,
       best  |-> IF digit \in allowed /\ better
                 THEN [RunLength |-> run, Start |-> start, Digit |-> digit] ELSE s.best]

EvaluateKeyIDForDigits(key, scope, allowed) ==
  LET last == Len(key)
      Step(s, i) == Evaluate(key, allowed, s, i)
      first == IF key[1] \in allowed THEN 1 ELSE 0
  IN  IF scope = "suffix"
      THEN IF Last(key) \in allowed
           THEN [RunLength |-> TrailingRun(key), Start |-> last - TrailingRun(key),
                 Digit |-> Last(key)]
           ELSE [RunLength |-> 0, Start |-> last - 1, Digit |-> Last(key)]
      ELSE FoldLeft(Step,
                    [digit |-> key[1], start |-> 0, run |-> 1,
                     best |-> [RunLength |-> first, Start |-> 0, Digit |-> key[1]]],
                    [i \in 1 .. last - 1 |-> i]).best

(* Mutant: current_run is not reset when the digit changes. *)
MeasureOn(allowed, s, digit) ==
  [previous |-> digit, run |-> s.run + 1,
   best |-> IF digit \in allowed /\ s.run + 1 > s.best THEN s.run + 1 ELSE s.best]

(* The any-scope loop of the kernel, at one digit. *)
Measure(allowed, s, digit) ==
  LET run == IF digit = s.previous THEN s.run + 1 ELSE 1 IN
  [previous |-> digit, run |-> run,
   best |-> IF digit \in allowed /\ run > s.best THEN run ELSE s.best]

matching_run(key, scope, allowed) ==
  LET Step(s, digit) == Measure(allowed, s, digit) IN
  IF scope = "suffix"
  THEN IF Last(key) \in allowed THEN TrailingRun(key) ELSE 0
  ELSE FoldLeft(Step, [previous |-> key[1], run |-> 1,
                       best |-> IF key[1] \in allowed THEN 1 ELSE 0],
                Tail(key)).best

-------------------------------------------------------------------------------
(* The definition both are meant to compute. *)

IsRun(key, scope, allowed, start, n) ==
  /\ start + n <= Len(key)
  /\ scope = "suffix" => start + n = Len(key)
  /\ \A i \in start + 1 .. start + n : key[i] \in allowed /\ key[i] = key[start + 1]

RunLengths(key, scope, allowed) ==
  {n \in 0 .. Len(key) : \E i \in 0 .. Len(key) : IsRun(key, scope, allowed, i, n)}

LongestRun(key, scope, allowed) ==
  CHOOSE n \in RunLengths(key, scope, allowed) :
    \A m \in RunLengths(key, scope, allowed) : m <= n

(* The last place at which the longest run starts. *)
LastStart(key, scope, allowed) ==
  LET n == LongestRun(key, scope, allowed)
      places == {i \in 0 .. Len(key) - 1 : IsRun(key, scope, allowed, i, n)}
  IN  CHOOSE i \in places : \A j \in places : j <= i
================================================================================
