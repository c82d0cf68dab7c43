---------------------------- MODULE ScoreCalculator ----------------------------
(***************************************************************************)
(* CalculateScores, the loop that scores the digits of a fingerprint's     *)
(* tail.  One step is one turn of the loop.  repeatScoreMap and            *)
(* sequenceScoreMap grow strictly with the length of a run, so a score is  *)
(* abstracted to the length it was looked up with, 0 when there is none.   *)
(***************************************************************************)
EXTENDS Integers, Sequences, FiniteSets

CONSTANTS
  Digits,       (* hexadecimal digits of the lines, a part of 0 .. 15        *)
  MaxLength     (* bound of the model: digits of a line, 16 in the code      *)

ASSUME ScoreAssumption == Digits \subseteq 0 .. 15 /\ MaxLength \in Nat \ {0}

minSeqLength == 3

VARIABLES
  line,          (* the digits read so far                                   *)
  uniqueMask,    (* the different ones                                       *)
  repeatLen, increasingLen, decreasingLen,      (* the runs they end with    *)
  maxRepeat, maxIncreasing, maxDecreasing,      (* the best scores so far    *)
  hasMagicSequence

vars == <<line, uniqueMask, repeatLen, increasingLen, decreasingLen,
          maxRepeat, maxIncreasing, maxDecreasing, hasMagicSequence>>

Larger(a, b) == IF a > b THEN a ELSE b

(* A repetition counts from three digits on, a sequence from four. *)
BestRepeat(len)     == IF len >= minSeqLength THEN Larger(maxRepeat, len) ELSE maxRepeat
BestIncreasing(len) == IF len > minSeqLength THEN Larger(maxIncreasing, len)
                                             ELSE maxIncreasing
BestDecreasing(len) == IF len > minSeqLength THEN Larger(maxDecreasing, len)
                                             ELSE maxDecreasing

(* Mutant: the wrap from F to 0 is forgotten. *)
AscendsNoWrap(prev, current) == current - prev = 1

Ascends(prev, current)  == current - prev = 1 \/ (prev = 15 /\ current = 0)
Descends(prev, current) == Ascends(current, prev)

(* The first digit, read before the loop. *)
Init ==
  /\ \E digit \in Digits : line = <<digit>> /\ uniqueMask = {digit}
  /\ repeatLen = 1 /\ increasingLen = 1 /\ decreasingLen = 1
  /\ maxRepeat = 0 /\ maxIncreasing = 0 /\ maxDecreasing = 0
  /\ hasMagicSequence = FALSE

UpdateRepeat(prev, current) ==
  IF current = prev
  THEN repeatLen' = repeatLen + 1 /\ UNCHANGED maxRepeat
  ELSE repeatLen' = 1 /\ maxRepeat' = BestRepeat(repeatLen)

(* The switch: a step up or down resets the other length, and only a       *)
(* digit that does neither scores the run that ends here.                  *)
UpdateSequence(prev, current) ==
  \/ /\ Ascends(prev, current)
     /\ increasingLen' = increasingLen + 1 /\ decreasingLen' = 1
     /\ UNCHANGED <<maxIncreasing, maxDecreasing>>
  \/ /\ Descends(prev, current)
     /\ decreasingLen' = decreasingLen + 1 /\ increasingLen' = 1
     /\ UNCHANGED <<maxIncreasing, maxDecreasing>>
  \/ /\ ~Ascends(prev, current) /\ ~Descends(prev, current)
     /\ maxIncreasing' = BestIncreasing(increasingLen)
     /\ maxDecreasing' = BestDecreasing(decreasingLen)
     /\ increasingLen' = 1 /\ decreasingLen' = 1

(* One turn of the loop. *)
ReadDigit(current) ==
  LET prev == line[Len(line)] IN
  /\ Len(line) < MaxLength
  /\ line' = Append(line, current)
  /\ hasMagicSequence' = (hasMagicSequence \/ (prev = 4 /\ current = 9))
  /\ uniqueMask' = uniqueMask \cup {current}
  /\ UpdateRepeat(prev, current)
  /\ UpdateSequence(prev, current)

Next == \E digit \in Digits : ReadDigit(digit)

Spec == Init /\ [][Next]_vars

(* The value returned if the line ends here. *)
Scores == [repeat     |-> BestRepeat(repeatLen),
           increasing |-> BestIncreasing(increasingLen),
           decreasing |-> BestDecreasing(decreasingLen),
           magic      |-> hasMagicSequence,
           unique     |-> Cardinality(uniqueMask)]

-------------------------------------------------------------------------------
(* The runs of the line: maximal stretches whose neighbours are related. *)

Stretches(Related(_, _)) ==
  {s \in (DOMAIN line) \X (DOMAIN line) :
     s[1] <= s[2] /\ \A k \in s[1] .. s[2] - 1 : Related(line[k], line[k + 1])}

(* The longest stretch of at least `least` digits that Counts, or 0. *)
Longest(Related(_, _), least, Counts(_)) ==
  LET lengths == {s[2] - s[1] + 1 : s \in {t \in Stretches(Related) : Counts(t)}}
      scored  == {n \in lengths : n >= least} \cup {0}
  IN  CHOOSE n \in scored : \A m \in scored : m <= n

Same(a, b)     == a = b
Up(a, b)       == b = (a + 1) % 16
Down(a, b)     == a = (b + 1) % 16
Every(s)       == TRUE

(* The stretch ends the line, or the digit after it goes neither way: the   *)
(* stretch does not go on and does not turn round.                         *)
Breaks(s) ==
  s[2] < Len(line) => /\ ~Up(line[s[2]], line[s[2] + 1])
                      /\ ~Down(line[s[2]], line[s[2] + 1])

(* calculator.go:97-173: whatever the one pass over the digits does at the *)
(* wrap from F to 0, at the end of the line and where one run follows      *)
(* another, it scores the longest repetition of three digits or more and   *)
(* the longest increasing and decreasing runs of four or more that do not  *)
(* turn straight round, and nothing else; 49 is found wherever it stands,  *)
(* and each different digit counts once.                                   *)
RunsScored ==
  /\ Scores.repeat = Longest(Same, 3, Every)
  /\ Scores.increasing = Longest(Up, 4, Breaks)
  /\ Scores.decreasing = Longest(Down, 4, Breaks)
  /\ Scores.magic <=> \E i \in 1 .. Len(line) - 1 : line[i] = 4 /\ line[i + 1] = 9
  /\ Scores.unique = Cardinality({line[i] : i \in DOMAIN line})

(* README.md:320-321: an increasing sequence such as 1234 and a decreasing *)
(* one such as DCBA raise the score.                                       *)
SequencesScored ==
  /\ Scores.increasing = Longest(Up, 4, Every)
  /\ Scores.decreasing = Longest(Down, 4, Every)
================================================================================
