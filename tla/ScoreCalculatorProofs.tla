------------------------- MODULE ScoreCalculatorProofs -------------------------
(***************************************************************************)
(* Proofs about ScoreCalculator, for lines of any length over any digits.  *)
(* A line is seen as the positions k at which digit k is joined to the     *)
(* next (`links`) and those at which a run may end and count (`ends`);     *)
(* the three kinds of run differ in nothing else.                          *)
(***************************************************************************)
EXTENDS ScoreCalculator, SequenceTheorems, TLAPS

Joined(links, a, b) == \A k \in a .. b - 1 : k \in links

(* A run from a to b of a line of n digits, which may count. *)
Run(n, links, ends, a, b) ==
  a <= b /\ Joined(links, a, b) /\ (b < n => b \in ends)

(* The run the line ends with has len digits. *)
LastRun(n, links, len) ==
  /\ len \in 1 .. n /\ Joined(links, n - len + 1, n)
  /\ len < n => n - len \notin links

(* `top` is the length of the longest run of at least `least` digits, or 0. *)
BestOf(n, links, ends, least, top) ==
  /\ top = 0 \/ /\ top >= least
                /\ \E a, b \in 1 .. n : Run(n, links, ends, a, b) /\ b - a + 1 = top
  /\ \A a, b \in 1 .. n :
       Run(n, links, ends, a, b) /\ b - a + 1 >= least => b - a + 1 <= top

(* The same of the runs before the last one, which is still open. *)
Kept(n, links, ends, least, len, top) ==
  /\ top = 0 \/ /\ top >= least
                /\ \E a, b \in 1 .. n :
                     Run(n, links, ends, a, b) /\ b < n /\ b - a + 1 = top
  /\ \A a, b \in 1 .. n :
       Run(n, links, ends, a, b) /\ b < n /\ b - a + 1 >= least
         => b - a + 1 <= top \/ a > n - len

(* What the pass knows of one kind of run. *)
Tracked(n, links, ends, least, len, top) ==
  /\ links \subseteq 1 .. n - 1 /\ ends \subseteq 1 .. n - 1 /\ top \in Nat
  /\ LastRun(n, links, len) /\ Kept(n, links, ends, least, len, top)

Best(least, len, top) == IF len >= least THEN Larger(top, len) ELSE top

(* The links of the line, and the ends of its sequences. *)
Positions == 1 .. Len(line) - 1
Repeats   == {k \in Positions : Same(line[k], line[k + 1])}
Rises     == {k \in Positions : Up(line[k], line[k + 1])}
Falls     == {k \in Positions : Down(line[k], line[k + 1])}
Stops     == Positions \ (Rises \cup Falls)

Shape ==
  /\ line \in Seq(Digits) /\ line # <<>>
  /\ uniqueMask = {line[i] : i \in 1 .. Len(line)}
  /\ hasMagicSequence \in BOOLEAN
  /\ hasMagicSequence <=> \E i \in Positions : line[i] = 4 /\ line[i + 1] = 9

IInv ==
  /\ Shape
  /\ Tracked(Len(line), Repeats, Positions, 3, repeatLen, maxRepeat)
  /\ Tracked(Len(line), Rises, Stops, 4, increasingLen, maxIncreasing)
  /\ Tracked(Len(line), Falls, Stops, 4, decreasingLen, maxDecreasing)

-------------------------------------------------------------------------------
(* What the pass knows is enough to score the line, were it to end here. *)
LEMMA Scored ==
  ASSUME NEW n \in Nat \ {0}, NEW links, NEW ends, NEW least \in Nat \ {0},
         NEW len, NEW top, Tracked(n, links, ends, least, len, top)
  PROVE  /\ Best(least, len, top) \in Nat
         /\ BestOf(n, links, ends, least, Best(least, len, top))
<1>1. len \in 1 .. n /\ top \in Nat
  BY DEF Tracked, LastRun
<1>2. Best(least, len, top) \in Nat
  BY <1>1 DEF Best, Larger
<1>3. /\ len >= least => Best(least, len, top) = top \/ Best(least, len, top) = len
      /\ len >= least => Best(least, len, top) >= len
      /\ len < least => Best(least, len, top) = top
      /\ Best(least, len, top) >= top
  BY <1>1 DEF Best, Larger
<1> DEFINE m == Best(least, len, top)
<1> HIDE DEF m
<1>4. m = 0 \/ /\ m >= least
               /\ \E a, b \in 1 .. n : Run(n, links, ends, a, b) /\ b - a + 1 = m
  <2>1. CASE m = top
    BY <2>1 DEF Tracked, Kept
  <2>2. CASE m = len /\ len >= least
    <3>1. n - len + 1 \in 1 .. n /\ n \in 1 .. n /\ n - (n - len + 1) + 1 = m
      BY <1>1, <2>2
    <3>2. Run(n, links, ends, n - len + 1, n)
      BY <1>1 DEF Tracked, LastRun, Run
    <3> QED BY <3>1, <3>2, <2>2
  <2> QED BY <1>1, <1>3, <2>1, <2>2 DEF m
<1>5. ASSUME NEW a \in 1 .. n, NEW b \in 1 .. n, Run(n, links, ends, a, b),
             b - a + 1 >= least
      PROVE  b - a + 1 <= m
  <2>1. CASE a > n - len
    <3>1. b - a + 1 <= len
      BY <2>1, <1>1
    <3> QED BY <3>1, <1>1, <1>2, <1>3, <1>5 DEF m
  <2>2. CASE a <= n - len
    <3>1. n - len \notin links
      BY <1>1, <2>2 DEF Tracked, LastRun
    <3>2. b < n
      <4>1. SUFFICES ASSUME b = n PROVE FALSE
        BY <1>1
      <4>2. n - len \in a .. b - 1
        BY <4>1, <2>2, <1>1
      <4> QED BY <4>2, <3>1, <1>5 DEF Run, Joined
    <3>3. b - a + 1 <= top
      BY <3>2, <2>2, <1>1, <1>5 DEF Tracked, Kept
    <3> QED BY <3>3, <1>1, <1>2, <1>3 DEF m
  <2> QED BY <2>1, <2>2, <1>1
<1> QED BY <1>2, <1>4, <1>5 DEF m, BestOf

(* A joined digit makes the last run longer and ends none: it is not scored. *)
LEMMA Lengthened ==
  ASSUME NEW n \in Nat \ {0}, NEW links, NEW ends, NEW least \in Nat \ {0},
         NEW len, NEW top, Tracked(n, links, ends, least, len, top),
         NEW more, more \subseteq 1 .. n, ends \subseteq more, more \subseteq ends \cup {n}
  PROVE  Tracked(n + 1, links \cup {n}, more, least, len + 1, top)
<1> DEFINE joined == links \cup {n}
<1>1. len \in 1 .. n /\ top \in Nat /\ links \subseteq 1 .. n - 1 /\ ends \subseteq 1 .. n - 1
  BY DEF Tracked, LastRun
<1>2. \A k \in 1 .. n - 1 : k \in joined <=> k \in links
  OBVIOUS
<1>3. LastRun(n + 1, joined, len + 1)
  <2>1. ASSUME NEW k \in (n + 1) - (len + 1) + 1 .. (n + 1) - 1 PROVE k \in joined
    <3>1. k = n \/ k \in n - len + 1 .. n - 1
      BY <1>1
    <3> QED BY <3>1 DEF Tracked, LastRun, Joined
  <2>2. ASSUME len + 1 < n + 1 PROVE (n + 1) - (len + 1) \notin joined
    <3>1. (n + 1) - (len + 1) = n - len /\ n - len \in 1 .. n - 1 /\ len < n
      BY <1>1, <2>2
    <3> QED BY <3>1, <1>2 DEF Tracked, LastRun
  <2> QED BY <1>1, <2>1, <2>2 DEF LastRun, Joined
<1>4. ASSUME NEW a \in 1 .. n, NEW b \in 1 .. n, b < n
      PROVE  Run(n + 1, joined, more, a, b) <=> Run(n, links, ends, a, b)
  <2>1. \A k \in a .. b - 1 : k \in joined <=> k \in links
    BY <1>2, <1>4
  <2>2. b \in more <=> b \in ends
    BY <1>4
  <2> QED BY <2>1, <2>2, <1>4 DEF Run, Joined
<1>5. Kept(n + 1, joined, more, least, len + 1, top)
  <2>1. top = 0 \/ /\ top >= least
                   /\ \E a, b \in 1 .. n + 1 :
                        Run(n + 1, joined, more, a, b) /\ b < n + 1 /\ b - a + 1 = top
    <3>1. CASE top = 0
      BY <3>1
    <3>2. CASE top # 0
      <4>1. PICK a \in 1 .. n, b \in 1 .. n :
              Run(n, links, ends, a, b) /\ b < n /\ b - a + 1 = top
        BY <3>2 DEF Tracked, Kept
      <4>2. Run(n + 1, joined, more, a, b)
        BY <4>1, <1>4
      <4>3. a \in 1 .. n + 1 /\ b \in 1 .. n + 1 /\ b < n + 1
        OBVIOUS
      <4> QED BY <4>1, <4>2, <4>3, <3>2 DEF Tracked, Kept
    <3> QED BY <3>1, <3>2
  <2>2. ASSUME NEW a \in 1 .. n + 1, NEW b \in 1 .. n + 1, b < n + 1,
               Run(n + 1, joined, more, a, b), b - a + 1 >= least
        PROVE  b - a + 1 <= top \/ a > (n + 1) - (len + 1)
    <3>0. a \in 1 .. n /\ b \in 1 .. n
      BY <2>2 DEF Run
    <3>1. CASE b < n
      <4>1. b - a + 1 <= top \/ a > n - len
        BY <3>0, <3>1, <1>4, <2>2 DEF Tracked, Kept
      <4> QED BY <4>1, <1>1
    <3>2. CASE b = n
      <4>1. SUFFICES ASSUME a <= n - len PROVE FALSE
        BY <1>1, <3>0
      <4>2. len < n /\ n - len \in 1 .. n - 1 /\ n - len \in a .. b - 1
        BY <4>1, <3>2, <3>0, <1>1
      <4>3. n - len \notin joined
        BY <4>2, <1>2 DEF Tracked, LastRun
      <4> QED BY <4>2, <4>3, <2>2 DEF Run, Joined
    <3> QED BY <3>0, <3>1, <3>2
  <2> QED BY <2>1, <2>2 DEF Kept
<1> QED BY <1>1, <1>3, <1>5 DEF Tracked

(* A digit that is not joined opens a run of its own. *)
LEMMA Opened ==
  ASSUME NEW n \in Nat \ {0}, NEW links, links \subseteq 1 .. n - 1
  PROVE  LastRun(n + 1, links, 1)
BY DEF LastRun, Joined

(* A digit after which the last run counts: it is scored with those before. *)
LEMMA Closed ==
  ASSUME NEW n \in Nat \ {0}, NEW links, NEW ends, NEW least \in Nat \ {0},
         NEW len, NEW top, Tracked(n, links, ends, least, len, top)
  PROVE  Tracked(n + 1, links, ends \cup {n}, least, 1, Best(least, len, top))
<1> DEFINE m == Best(least, len, top)
           more == ends \cup {n}
<1>1. links \subseteq 1 .. n - 1 /\ ends \subseteq 1 .. n - 1
  BY DEF Tracked
<1>2. m \in Nat /\ BestOf(n, links, ends, least, m)
  BY Scored
<1> HIDE DEF m
<1>3. ASSUME NEW a \in 1 .. n, NEW b \in 1 .. n
      PROVE  Run(n + 1, links, more, a, b) <=> Run(n, links, ends, a, b)
  BY <1>1 DEF Run
<1>4. Kept(n + 1, links, more, least, 1, m)
  <2>1. m = 0 \/ /\ m >= least
                 /\ \E a, b \in 1 .. n + 1 :
                      Run(n + 1, links, more, a, b) /\ b < n + 1 /\ b - a + 1 = m
    <3>1. CASE m = 0
      BY <3>1
    <3>2. CASE m # 0
      <4>1. PICK a \in 1 .. n, b \in 1 .. n : Run(n, links, ends, a, b) /\ b - a + 1 = m
        BY <3>2, <1>2 DEF BestOf
      <4>2. Run(n + 1, links, more, a, b)
        BY <4>1, <1>3
      <4>3. a \in 1 .. n + 1 /\ b \in 1 .. n + 1 /\ b < n + 1
        OBVIOUS
      <4> QED BY <4>1, <4>2, <4>3, <3>2, <1>2 DEF BestOf
    <3> QED BY <3>1, <3>2
  <2>2. ASSUME NEW a \in 1 .. n + 1, NEW b \in 1 .. n + 1, b < n + 1,
               Run(n + 1, links, more, a, b), b - a + 1 >= least
        PROVE  b - a + 1 <= m
    <3>1. a \in 1 .. n /\ b \in 1 .. n
      BY <2>2 DEF Run
    <3> QED BY <3>1, <2>2, <1>3, <1>2 DEF BestOf
  <2> QED BY <2>1, <2>2 DEF Kept
<1>5. LastRun(n + 1, links, 1)
  BY <1>1, Opened
<1>6. links \subseteq 1 .. (n + 1) - 1 /\ more \subseteq 1 .. (n + 1) - 1
  BY <1>1
<1> QED BY <1>2, <1>4, <1>5, <1>6 DEF Tracked, m

(* A digit at which the last run turns: it is dropped, and nothing inside it
   had ended.                                                              *)
LEMMA Dropped ==
  ASSUME NEW n \in Nat \ {0}, NEW links, NEW ends, NEW least \in Nat \ {0},
         NEW len, NEW top, Tracked(n, links, ends, least, len, top),
         links \cap ends = {}
  PROVE  Tracked(n + 1, links, ends, least, 1, top)
<1>1. /\ links \subseteq 1 .. n - 1 /\ ends \subseteq 1 .. n - 1
      /\ len \in 1 .. n /\ top \in Nat
  BY DEF Tracked, LastRun
<1>2. ASSUME NEW a \in 1 .. n + 1, NEW b \in 1 .. n + 1
      PROVE  Run(n + 1, links, ends, a, b) /\ b < n + 1
               <=> Run(n, links, ends, a, b) /\ b < n
  BY <1>1 DEF Run
<1>3. Kept(n + 1, links, ends, least, 1, top)
  <2>1. top = 0 \/ /\ top >= least
                   /\ \E a, b \in 1 .. n + 1 :
                        Run(n + 1, links, ends, a, b) /\ b < n + 1 /\ b - a + 1 = top
    <3>1. CASE top = 0
      BY <3>1
    <3>2. CASE top # 0
      <4>1. PICK a \in 1 .. n, b \in 1 .. n :
              Run(n, links, ends, a, b) /\ b < n /\ b - a + 1 = top
        BY <3>2 DEF Tracked, Kept
      <4>2. a \in 1 .. n + 1 /\ b \in 1 .. n + 1
        OBVIOUS
      <4> QED BY <4>1, <4>2, <1>2, <3>2 DEF Tracked, Kept
    <3> QED BY <3>1, <3>2
  <2>2. ASSUME NEW a \in 1 .. n + 1, NEW b \in 1 .. n + 1, b < n + 1,
               Run(n + 1, links, ends, a, b), b - a + 1 >= least
        PROVE  b - a + 1 <= top
    <3>1. Run(n, links, ends, a, b) /\ b < n
      BY <2>2, <1>2
    <3>2. a \in 1 .. n /\ b \in 1 .. n /\ b \in ends
      BY <3>1, <1>1 DEF Run
    <3>3. a <= n - len
      <4>1. SUFFICES ASSUME a > n - len PROVE FALSE
        BY <1>1, <3>2
      <4>2. b \in n - len + 1 .. n - 1
        BY <4>1, <3>1, <3>2, <1>1 DEF Run
      <4>3. b \in links
        BY <4>2 DEF Tracked, LastRun, Joined
      <4> QED BY <4>3, <3>2
    <3> QED BY <3>1, <3>2, <3>3, <2>2, <1>1 DEF Tracked, Kept
  <2> QED BY <2>1, <2>2 DEF Kept
<1>4. LastRun(n + 1, links, 1)
  BY <1>1, Opened
<1>5. links \subseteq 1 .. (n + 1) - 1 /\ ends \subseteq 1 .. (n + 1) - 1
  BY <1>1
<1> QED BY <1>1, <1>3, <1>4, <1>5 DEF Tracked

-------------------------------------------------------------------------------
(* What is best of the runs is the highest of the lengths that count. *)
LEMMA Highest ==
  ASSUME NEW n \in Nat, NEW links, NEW ends, NEW least \in Nat, NEW top \in Nat,
         BestOf(n, links, ends, least, top), NEW stretches,
         stretches \subseteq (1 .. n) \X (1 .. n),
         \A s \in (1 .. n) \X (1 .. n) :
           s \in stretches <=> Run(n, links, ends, s[1], s[2]),
         NEW scored,
         scored = {x \in {s[2] - s[1] + 1 : s \in stretches} : x >= least} \cup {0}
  PROVE  top \in scored /\ \A m \in scored : m \in Int /\ m <= top
<1>1. top \in scored
  <2>1. CASE top = 0
    BY <2>1
  <2>2. CASE top # 0
    <3>1. PICK a \in 1 .. n, b \in 1 .. n : Run(n, links, ends, a, b) /\ b - a + 1 = top
      BY <2>2 DEF BestOf
    <3>2. <<a, b>> \in stretches /\ <<a, b>>[2] - <<a, b>>[1] + 1 = top
      BY <3>1
    <3>3. top \in {s[2] - s[1] + 1 : s \in stretches}
      BY <3>2
    <3> QED BY <3>3, <2>2 DEF BestOf
  <2> QED BY <2>1, <2>2
<1>2. ASSUME NEW m \in scored PROVE m \in Int /\ m <= top
  <2>1. CASE m = 0
    BY <2>1
  <2>2. CASE m # 0
    <3>1. PICK s \in stretches : m = s[2] - s[1] + 1
      BY <2>2
    <3>2. /\ s[1] \in 1 .. n /\ s[2] \in 1 .. n /\ Run(n, links, ends, s[1], s[2])
          /\ s[2] - s[1] + 1 >= least
      BY <3>1, <2>2
    <3> QED BY <3>1, <3>2 DEF BestOf
  <2> QED BY <2>1, <2>2
<1> QED BY <1>1, <1>2

(* On hexadecimal digits, the code's comparison is a step modulo 16. *)
LEMMA StepUp ==
  ASSUME NEW a \in 0 .. 15, NEW b \in 0 .. 15
  PROVE  /\ Ascends(a, b) <=> Up(a, b)
         /\ Descends(a, b) <=> Down(a, b)
         /\ ~(Up(a, b) /\ Down(a, b))
<1>1. \A x \in 0 .. 15 : x < 15 => (x + 1) % 16 = x + 1
  OBVIOUS
<1>2. \A x \in 0 .. 15 : x = 15 => (x + 1) % 16 = 0
  OBVIOUS
<1>3. /\ a = 15 \/ a < 15
      /\ b = 15 \/ b < 15
  OBVIOUS
<1> QED BY <1>1, <1>2, <1>3 DEF Ascends, Descends, Up, Down

(* What a line looks like one digit later. *)
LEMMA Extended ==
  ASSUME Shape, NEW current \in Digits, line' = Append(line, current)
  PROVE  /\ line' \in Seq(Digits) /\ line' # <<>>
         /\ Len(line) \in Nat \ {0} /\ Len(line') = Len(line) + 1
         /\ \A k \in 1 .. Len(line) : line'[k] = line[k] /\ line[k] \in 0 .. 15
         /\ line'[Len(line) + 1] = current /\ current \in 0 .. 15
<1>1. line \in Seq(Digits) /\ line # <<>> /\ Digits \subseteq 0 .. 15
  BY ScoreAssumption DEF Shape
<1>2. Len(line) \in Nat \ {0}
  BY <1>1
<1>3. /\ line' \in Seq(Digits) /\ Len(line') = Len(line) + 1
      /\ line'[Len(line) + 1] = current
      /\ \A k \in 1 .. Len(line) : line'[k] = line[k]
  BY <1>1
<1>4. \A k \in 1 .. Len(line) : line[k] \in Digits
  BY <1>1
<1>5. line' # <<>>
  BY <1>2, <1>3
<1> QED BY <1>1, <1>2, <1>3, <1>4, <1>5

(* A new digit adds its own position to those that it is linked at. *)
LEMMA Links ==
  ASSUME Shape, NEW current \in Digits, line' = Append(line, current)
  PROVE  LET n == Len(line) IN
         /\ Positions' = Positions \cup {n}
         /\ Repeats' = IF Same(line[n], current) THEN Repeats \cup {n} ELSE Repeats
         /\ Rises' = IF Ascends(line[n], current) THEN Rises \cup {n} ELSE Rises
         /\ Falls' = IF Descends(line[n], current) THEN Falls \cup {n} ELSE Falls
<1> DEFINE n == Len(line)
<1>1. /\ n \in Nat \ {0} /\ Len(line') = n + 1
      /\ \A k \in 1 .. n : line'[k] = line[k] /\ line[k] \in 0 .. 15
      /\ line'[n + 1] = current /\ current \in 0 .. 15
  BY Extended
<1>2. Positions = 1 .. n - 1 /\ Positions' = 1 .. n
  BY <1>1 DEF Positions
<1>3. /\ Ascends(line[n], current) <=> Up(line[n], current)
      /\ Descends(line[n], current) <=> Down(line[n], current)
  <2>1. line[n] \in 0 .. 15 /\ current \in 0 .. 15
    BY <1>1
  <2> QED BY <2>1, StepUp
<1>4. \A k \in 1 .. n - 1 : line'[k] = line[k] /\ line'[k + 1] = line[k + 1]
  BY <1>1
<1>5. line'[n] = line[n] /\ line'[n + 1] = current
  BY <1>1
<1> HIDE DEF n
<1>6. Positions' = Positions \cup {n}
  BY <1>1, <1>2
<1>7. Repeats' = IF Same(line[n], current) THEN Repeats \cup {n} ELSE Repeats
  <2>1. Repeats = {k \in 1 .. n - 1 : Same(line[k], line[k + 1])}
    BY <1>2 DEF Repeats
  <2>2. Repeats' = {k \in 1 .. n : Same(line'[k], line'[k + 1])}
    BY <1>2 DEF Repeats, Same
  <2> QED BY <2>1, <2>2, <1>1, <1>4, <1>5
<1>8. Rises' = IF Ascends(line[n], current) THEN Rises \cup {n} ELSE Rises
  <2>1. Rises = {k \in 1 .. n - 1 : Up(line[k], line[k + 1])}
    BY <1>2 DEF Rises
  <2>2. Rises' = {k \in 1 .. n : Up(line'[k], line'[k + 1])}
    BY <1>2 DEF Rises, Up
  <2> QED BY <2>1, <2>2, <1>1, <1>3, <1>4, <1>5
<1>9. Falls' = IF Descends(line[n], current) THEN Falls \cup {n} ELSE Falls
  <2>1. Falls = {k \in 1 .. n - 1 : Down(line[k], line[k + 1])}
    BY <1>2 DEF Falls
  <2>2. Falls' = {k \in 1 .. n : Down(line'[k], line'[k + 1])}
    BY <1>2 DEF Falls, Down
  <2> QED BY <2>1, <2>2, <1>1, <1>3, <1>4, <1>5
<1> QED BY <1>6, <1>7, <1>8, <1>9 DEF n

-------------------------------------------------------------------------------
LEMMA BestOK ==
  /\ BestRepeat(repeatLen) = Best(3, repeatLen, maxRepeat)
  /\ increasingLen \in Int => BestIncreasing(increasingLen) = Best(4, increasingLen, maxIncreasing)
  /\ decreasingLen \in Int => BestDecreasing(decreasingLen) = Best(4, decreasingLen, maxDecreasing)
BY DEF BestRepeat, BestIncreasing, BestDecreasing, Best, minSeqLength

(* No sequence stops where it goes on. *)
LEMMA Apart == Rises \cap Stops = {} /\ Falls \cap Stops = {}
BY DEF Stops

LEMMA ShapeStep == ASSUME Shape, NEW current \in Digits, ReadDigit(current) PROVE Shape'
<1> DEFINE n == Len(line)
<1>1. /\ line' = Append(line, current)
      /\ hasMagicSequence' = (hasMagicSequence \/ (line[n] = 4 /\ current = 9))
      /\ uniqueMask' = uniqueMask \cup {current}
  BY DEF ReadDigit
<1>2. /\ line' \in Seq(Digits) /\ line' # <<>>
      /\ n \in Nat \ {0} /\ Len(line') = n + 1
      /\ \A k \in 1 .. n : line'[k] = line[k] /\ line[k] \in 0 .. 15
      /\ line'[n + 1] = current
  BY <1>1, Extended
<1>3. Positions = 1 .. n - 1 /\ Positions' = 1 .. n
  BY <1>2 DEF Positions
<1>4. uniqueMask = {line[i] : i \in 1 .. n}
  BY DEF Shape
<1>5. hasMagicSequence <=> \E i \in 1 .. n - 1 : line[i] = 4 /\ line[i + 1] = 9
  BY <1>3 DEF Shape
<1> HIDE DEF n
<1>6. uniqueMask' = {line'[i] : i \in 1 .. n + 1}
  <2>1. ASSUME NEW x \in uniqueMask' PROVE \E i \in 1 .. n + 1 : x = line'[i]
    <3>1. CASE x = current
      BY <3>1, <1>2
    <3>2. CASE x # current
      <4>1. PICK i \in 1 .. n : x = line[i]
        BY <3>2, <1>1, <1>4
      <4> QED BY <4>1, <1>2
    <3> QED BY <3>1, <3>2
  <2>2. ASSUME NEW i \in 1 .. n + 1 PROVE line'[i] \in uniqueMask'
    <3>1. i = n + 1 \/ i \in 1 .. n
      BY <1>2
    <3> QED BY <3>1, <1>1, <1>2, <1>4
  <2> QED BY <2>1, <2>2
<1>7. hasMagicSequence' <=> \E i \in 1 .. n : line'[i] = 4 /\ line'[i + 1] = 9
  <2>1. ASSUME NEW i \in 1 .. n - 1
        PROVE  line'[i] = line[i] /\ line'[i + 1] = line[i + 1] /\ i \in 1 .. n
    BY <1>2
  <2>2. ASSUME NEW i \in 1 .. n PROVE i = n \/ i \in 1 .. n - 1
    BY <1>2
  <2>3. line'[n] = line[n] /\ line'[n + 1] = current /\ n \in 1 .. n
    BY <1>2
  <2> QED BY <2>1, <2>2, <2>3, <1>1, <1>5
<1>8. hasMagicSequence' \in BOOLEAN
  BY <1>1
<1> QED BY <1>2, <1>3, <1>6, <1>7, <1>8 DEF Shape

LEMMA RepeatsStep ==
  ASSUME IInv, NEW current \in Digits, ReadDigit(current)
  PROVE  Tracked(Len(line'), Repeats', Positions', 3, repeatLen', maxRepeat')
<1> DEFINE n == Len(line)
<1>1. line' = Append(line, current) /\ UpdateRepeat(line[n], current)
  BY DEF ReadDigit
<1>2. n \in Nat \ {0} /\ Len(line') = n + 1
  BY <1>1, Extended DEF IInv
<1>3. /\ Positions' = Positions \cup {n}
      /\ Repeats' = IF Same(line[n], current) THEN Repeats \cup {n} ELSE Repeats
  BY <1>1, Links DEF IInv
<1>4. Tracked(n, Repeats, Positions, 3, repeatLen, maxRepeat)
  BY DEF IInv
<1>5. Positions \subseteq 1 .. n - 1
  BY DEF Positions
<1> HIDE DEF n
<1>6. CASE current = line[n]
  <2>1. repeatLen' = repeatLen + 1 /\ maxRepeat' = maxRepeat /\ Repeats' = Repeats \cup {n}
    BY <1>1, <1>3, <1>6 DEF UpdateRepeat, Same
  <2>2. /\ Positions \cup {n} \subseteq 1 .. n /\ Positions \subseteq Positions \cup {n}
        /\ Positions \cup {n} \subseteq Positions \cup {n}
    BY <1>2, <1>5
  <2>3. Tracked(n + 1, Repeats \cup {n}, Positions \cup {n}, 3, repeatLen + 1, maxRepeat)
    BY <2>2, <1>2, <1>4, Lengthened
  <2> QED BY <2>1, <2>3, <1>2, <1>3
<1>7. CASE current # line[n]
  <2>1. repeatLen' = 1 /\ maxRepeat' = Best(3, repeatLen, maxRepeat) /\ Repeats' = Repeats
    BY <1>1, <1>3, <1>7, BestOK DEF UpdateRepeat, Same
  <2> QED BY <2>1, <1>2, <1>3, <1>4, Closed
<1> QED BY <1>6, <1>7

LEMMA SequencesStep ==
  ASSUME IInv, NEW current \in Digits, ReadDigit(current)
  PROVE  /\ Tracked(Len(line'), Rises', Stops', 4, increasingLen', maxIncreasing')
         /\ Tracked(Len(line'), Falls', Stops', 4, decreasingLen', maxDecreasing')
<1> DEFINE n == Len(line)
           up == Ascends(line[n], current)
           down == Descends(line[n], current)
<1>1. line' = Append(line, current) /\ UpdateSequence(line[n], current)
  BY DEF ReadDigit
<1>2. n \in Nat \ {0} /\ Len(line') = n + 1
  BY <1>1, Extended DEF IInv
<1>3. /\ Positions' = Positions \cup {n}
      /\ Rises' = IF up THEN Rises \cup {n} ELSE Rises
      /\ Falls' = IF down THEN Falls \cup {n} ELSE Falls
  BY <1>1, Links DEF IInv
<1>4. /\ Tracked(n, Rises, Stops, 4, increasingLen, maxIncreasing)
      /\ Tracked(n, Falls, Stops, 4, decreasingLen, maxDecreasing)
  BY DEF IInv
<1>5. ~(up /\ down)
  <2>1. line[n] \in 0 .. 15 /\ current \in 0 .. 15
    BY <1>1, <1>2, Extended DEF IInv
  <2> QED BY <2>1, StepUp
<1>6. n \notin Rises /\ n \notin Falls /\ n \notin Positions
  BY <1>2 DEF Positions, Rises, Falls
<1>7. Stops' = IF up \/ down THEN Stops ELSE Stops \cup {n}
  <2>1. Stops' = Positions' \ (Rises' \cup Falls')
    BY DEF Stops
  <2> HIDE DEF n, up, down
  <2> QED BY <2>1, <1>3, <1>6 DEF Stops
<1>8. Stops \subseteq 1 .. n /\ Stops \subseteq Stops /\ Stops \subseteq Stops \cup {n}
  BY <1>2 DEF Stops, Positions
<1>9. increasingLen \in Int /\ decreasingLen \in Int
  BY <1>4 DEF Tracked, LastRun
<1> HIDE DEF n
<1>10. CASE up
  <2>1. /\ increasingLen' = increasingLen + 1 /\ maxIncreasing' = maxIncreasing
        /\ decreasingLen' = 1 /\ maxDecreasing' = maxDecreasing
    BY <1>1, <1>5, <1>10 DEF UpdateSequence
  <2>2. Rises' = Rises \cup {n} /\ Falls' = Falls /\ Stops' = Stops
    BY <1>3, <1>5, <1>7, <1>10
  <2> HIDE DEF up, down
  <2>3. Tracked(n + 1, Rises \cup {n}, Stops, 4, increasingLen + 1, maxIncreasing)
    <3>1. Tracked(n, Rises, Stops, 4, increasingLen, maxIncreasing) /\ n \in Nat \ {0} /\ 4 \in Nat \ {0}
      BY <1>2, <1>4
    <3> QED BY <3>1, <1>8, Lengthened
  <2>4. Tracked(n + 1, Falls, Stops, 4, 1, maxDecreasing)
    BY <1>2, <1>4, Apart, Dropped
  <2> QED BY <2>1, <2>2, <2>3, <2>4, <1>2
<1>11. CASE down
  <2>1. /\ increasingLen' = 1 /\ maxIncreasing' = maxIncreasing
        /\ decreasingLen' = decreasingLen + 1 /\ maxDecreasing' = maxDecreasing
    BY <1>1, <1>5, <1>11 DEF UpdateSequence
  <2>2. Rises' = Rises /\ Falls' = Falls \cup {n} /\ Stops' = Stops
    BY <1>3, <1>5, <1>7, <1>11
  <2> HIDE DEF up, down
  <2>3. Tracked(n + 1, Falls \cup {n}, Stops, 4, decreasingLen + 1, maxDecreasing)
    <3>1. Tracked(n, Falls, Stops, 4, decreasingLen, maxDecreasing) /\ n \in Nat \ {0} /\ 4 \in Nat \ {0}
      BY <1>2, <1>4
    <3> QED BY <3>1, <1>8, Lengthened
  <2>4. Tracked(n + 1, Rises, Stops, 4, 1, maxIncreasing)
    BY <1>2, <1>4, Apart, Dropped
  <2> QED BY <2>1, <2>2, <2>3, <2>4, <1>2
<1>12. CASE ~up /\ ~down
  <2>1. /\ increasingLen' = 1 /\ maxIncreasing' = Best(4, increasingLen, maxIncreasing)
        /\ decreasingLen' = 1 /\ maxDecreasing' = Best(4, decreasingLen, maxDecreasing)
    BY <1>1, <1>9, <1>12, BestOK DEF UpdateSequence
  <2>2. Rises' = Rises /\ Falls' = Falls /\ Stops' = Stops \cup {n}
    BY <1>3, <1>7, <1>12
  <2> HIDE DEF up, down
  <2>3. Tracked(n + 1, Rises, Stops \cup {n}, 4, 1, Best(4, increasingLen, maxIncreasing))
    BY <1>2, <1>4, Closed
  <2>4. Tracked(n + 1, Falls, Stops \cup {n}, 4, 1, Best(4, decreasingLen, maxDecreasing))
    BY <1>2, <1>4, Closed
  <2> QED BY <2>1, <2>2, <2>3, <2>4, <1>2
<1> QED BY <1>10, <1>11, <1>12

LEMMA OneDigit ==
  ASSUME NEW least \in Nat
  PROVE  Tracked(1, {}, {}, least, 1, 0)
BY DEF Tracked, LastRun, Kept, Joined, Run

LEMMA InitOK == Init => IInv
<1> SUFFICES ASSUME Init PROVE IInv
  OBVIOUS
<1>1. PICK digit \in Digits : line = <<digit>> /\ uniqueMask = {digit}
  BY DEF Init
<1>2. Len(line) = 1 /\ line \in Seq(Digits) /\ line # <<>> /\ line[1] = digit
  BY <1>1
<1>3. Positions = {}
  BY <1>2 DEF Positions
<1>4. Repeats = {} /\ Rises = {} /\ Falls = {} /\ Stops = {}
  BY <1>3 DEF Repeats, Rises, Falls, Stops
<1>5. Shape
  <2>1. uniqueMask = {line[i] : i \in 1 .. Len(line)}
    <3>1. 1 .. Len(line) = {1}
      BY <1>2
    <3> QED BY <3>1, <1>1, <1>2
  <2> QED BY <2>1, <1>2, <1>3 DEF Shape, Init
<1>6. Tracked(1, {}, {}, 3, 1, 0) /\ Tracked(1, {}, {}, 4, 1, 0)
  BY OneDigit
<1> QED BY <1>2, <1>3, <1>4, <1>5, <1>6 DEF IInv, Init

(* For every line: the pass knows what it needs of the three kinds of run. *)
THEOREM Invariant == Spec => []IInv
<1>1. IInv /\ [Next]_vars => IInv'
  <2> SUFFICES ASSUME IInv, [Next]_vars PROVE IInv'
    OBVIOUS
  <2>1. ASSUME NEW digit \in Digits, ReadDigit(digit) PROVE IInv'
    BY <2>1, ShapeStep, RepeatsStep, SequencesStep DEF IInv
  <2>2. CASE UNCHANGED vars
    BY <2>2 DEF IInv, Shape, Positions, Repeats, Rises, Falls, Stops, vars, Same, Up, Down
  <2> QED BY <2>1, <2>2 DEF Next
<1> QED BY InitOK, <1>1, PTL DEF Spec

-------------------------------------------------------------------------------
(* The score of each kind of run is the longest one that counts. *)
LEMMA RepeatScored ==
  ASSUME IInv
  PROVE  Best(3, repeatLen, maxRepeat) = Longest(Same, 3, Every)
<1> DEFINE n == Len(line)
           top == Best(3, repeatLen, maxRepeat)
           stretches == {t \in Stretches(Same) : Every(t)}
           scored == {x \in {s[2] - s[1] + 1 : s \in stretches} : x >= 3} \cup {0}
<1>1. n \in Nat \ {0} /\ DOMAIN line = 1 .. n /\ Positions = 1 .. n - 1
  BY DEF IInv, Shape, Positions
<1>2. top \in Nat /\ BestOf(n, Repeats, Positions, 3, top)
  BY <1>1, Scored DEF IInv
<1>3. ASSUME NEW s \in (1 .. n) \X (1 .. n)
      PROVE  s \in stretches <=> Run(n, Repeats, Positions, s[1], s[2])
  <2>1. s[1] \in 1 .. n /\ s[2] \in 1 .. n
    BY <1>3
  <2>2. \A k \in s[1] .. s[2] - 1 : k \in Repeats <=> Same(line[k], line[k + 1])
    BY <1>1, <2>1 DEF Repeats
  <2>3. (s[2] < n => s[2] \in Positions) <=> Every(s)
    BY <1>1, <2>1 DEF Every
  <2> HIDE DEF n
  <2> QED BY <1>1, <1>3, <2>1, <2>2, <2>3 DEF n, Stretches, Run, Joined
<1>4. stretches \subseteq (1 .. n) \X (1 .. n)
  BY <1>1 DEF Stretches
<1>5. top \in scored /\ \A m \in scored : m \in Int /\ m <= top
  <2>1. scored = {x \in {s[2] - s[1] + 1 : s \in stretches} : x >= 3} \cup {0}
    OBVIOUS
  <2>2. n \in Nat /\ 3 \in Nat
    BY <1>1
  <2> HIDE DEF n, top, stretches, scored
  <2> QED BY <1>2, <1>3, <1>4, <2>1, <2>2, Highest
<1>6. top = CHOOSE x \in scored : \A m \in scored : m <= x
  <2>1. ASSUME NEW x \in scored, \A m \in scored : m <= x PROVE x = top
    BY <1>2, <1>5, <2>1
  <2> HIDE DEF top, scored
  <2> QED BY <1>5, <2>1
<1> QED BY <1>6 DEF Longest

LEMMA IncreasingScored ==
  ASSUME IInv
  PROVE  Best(4, increasingLen, maxIncreasing) = Longest(Up, 4, Breaks)
<1> DEFINE n == Len(line)
           top == Best(4, increasingLen, maxIncreasing)
           stretches == {t \in Stretches(Up) : Breaks(t)}
           scored == {x \in {s[2] - s[1] + 1 : s \in stretches} : x >= 4} \cup {0}
<1>1. n \in Nat \ {0} /\ DOMAIN line = 1 .. n /\ Positions = 1 .. n - 1
  BY DEF IInv, Shape, Positions
<1>2. top \in Nat /\ BestOf(n, Rises, Stops, 4, top)
  BY <1>1, Scored DEF IInv
<1>3. ASSUME NEW s \in (1 .. n) \X (1 .. n)
      PROVE  s \in stretches <=> Run(n, Rises, Stops, s[1], s[2])
  <2>1. s[1] \in 1 .. n /\ s[2] \in 1 .. n
    BY <1>3
  <2>2. \A k \in s[1] .. s[2] - 1 : k \in Rises <=> Up(line[k], line[k + 1])
    BY <1>1, <2>1 DEF Rises
  <2>3. (s[2] < n => s[2] \in Stops) <=> Breaks(s)
    BY <1>1, <2>1 DEF Breaks, Stops, Rises, Falls
  <2> HIDE DEF n
  <2> QED BY <1>1, <1>3, <2>1, <2>2, <2>3 DEF n, Stretches, Run, Joined
<1>4. stretches \subseteq (1 .. n) \X (1 .. n)
  BY <1>1 DEF Stretches
<1>5. top \in scored /\ \A m \in scored : m \in Int /\ m <= top
  <2>1. scored = {x \in {s[2] - s[1] + 1 : s \in stretches} : x >= 4} \cup {0}
    OBVIOUS
  <2>2. n \in Nat /\ 4 \in Nat
    BY <1>1
  <2> HIDE DEF n, top, stretches, scored
  <2> QED BY <1>2, <1>3, <1>4, <2>1, <2>2, Highest
<1>6. top = CHOOSE x \in scored : \A m \in scored : m <= x
  <2>1. ASSUME NEW x \in scored, \A m \in scored : m <= x PROVE x = top
    BY <1>2, <1>5, <2>1
  <2> HIDE DEF top, scored
  <2> QED BY <1>5, <2>1
<1> QED BY <1>6 DEF Longest

LEMMA DecreasingScored ==
  ASSUME IInv
  PROVE  Best(4, decreasingLen, maxDecreasing) = Longest(Down, 4, Breaks)
<1> DEFINE n == Len(line)
           top == Best(4, decreasingLen, maxDecreasing)
           stretches == {t \in Stretches(Down) : Breaks(t)}
           scored == {x \in {s[2] - s[1] + 1 : s \in stretches} : x >= 4} \cup {0}
<1>1. n \in Nat \ {0} /\ DOMAIN line = 1 .. n /\ Positions = 1 .. n - 1
  BY DEF IInv, Shape, Positions
<1>2. top \in Nat /\ BestOf(n, Falls, Stops, 4, top)
  BY <1>1, Scored DEF IInv
<1>3. ASSUME NEW s \in (1 .. n) \X (1 .. n)
      PROVE  s \in stretches <=> Run(n, Falls, Stops, s[1], s[2])
  <2>1. s[1] \in 1 .. n /\ s[2] \in 1 .. n
    BY <1>3
  <2>2. \A k \in s[1] .. s[2] - 1 : k \in Falls <=> Down(line[k], line[k + 1])
    BY <1>1, <2>1 DEF Falls
  <2>3. (s[2] < n => s[2] \in Stops) <=> Breaks(s)
    BY <1>1, <2>1 DEF Breaks, Stops, Rises, Falls
  <2> HIDE DEF n
  <2> QED BY <1>1, <1>3, <2>1, <2>2, <2>3 DEF n, Stretches, Run, Joined
<1>4. stretches \subseteq (1 .. n) \X (1 .. n)
  BY <1>1 DEF Stretches
<1>5. top \in scored /\ \A m \in scored : m \in Int /\ m <= top
  <2>1. scored = {x \in {s[2] - s[1] + 1 : s \in stretches} : x >= 4} \cup {0}
    OBVIOUS
  <2>2. n \in Nat /\ 4 \in Nat
    BY <1>1
  <2> HIDE DEF n, top, stretches, scored
  <2> QED BY <1>2, <1>3, <1>4, <2>1, <2>2, Highest
<1>6. top = CHOOSE x \in scored : \A m \in scored : m <= x
  <2>1. ASSUME NEW x \in scored, \A m \in scored : m <= x PROVE x = top
    BY <1>2, <1>5, <2>1
  <2> HIDE DEF top, scored
  <2> QED BY <1>5, <2>1
<1> QED BY <1>6 DEF Longest

(* Whatever the line, its longest repetition and its longest runs that do   *)
(* not turn are scored, 49 is found and each digit counts once.            *)
THEOREM RunsScoredAlways == Spec => []RunsScored
<1>1. IInv => RunsScored
  <2> SUFFICES ASSUME IInv PROVE RunsScored
    OBVIOUS
  <2>1. increasingLen \in Int /\ decreasingLen \in Int
    BY DEF IInv, Tracked, LastRun
  <2>2. /\ Scores.repeat = Longest(Same, 3, Every)
        /\ Scores.increasing = Longest(Up, 4, Breaks)
        /\ Scores.decreasing = Longest(Down, 4, Breaks)
    BY <2>1, BestOK, RepeatScored, IncreasingScored, DecreasingScored DEF Scores
  <2>3. Scores.magic <=> \E i \in 1 .. Len(line) - 1 : line[i] = 4 /\ line[i + 1] = 9
    BY DEF Scores, IInv, Shape, Positions
  <2>4. Scores.unique = Cardinality({line[i] : i \in DOMAIN line})
    <3>1. DOMAIN line = 1 .. Len(line)
      BY DEF IInv, Shape
    <3> QED BY <3>1 DEF Scores, IInv, Shape
  <2> QED BY <2>2, <2>3, <2>4 DEF RunsScored
<1> QED BY Invariant, <1>1, PTL

===============================================================================
