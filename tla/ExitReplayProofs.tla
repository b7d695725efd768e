--------------------------- MODULE ExitReplayProofs ---------------------------
(***************************************************************************)
(* Type correctness and safety of the two exit jobs (ExitReplay), for any  *)
(* levels in order, any market and any length of candle.  The first part   *)
(* says what a decision of ExitRules shows; the rest carries, through every*)
(* interleaving, which candles the replay has judged and how old the       *)
(* active stop is.                                                         *)
(***************************************************************************)
EXTENDS ExitReplay, TLAPS, SequenceTheorems, NaturalsInduction, WellFoundedInduction

-----------------------------------------------------------------------------
(* Decisions                                                               *)

Actions == {"HOLD", "CLOSE", "MOVE_STOP", "PARTIAL_CLOSE"}
Triggers == {"STOP", "TARGET1", "TARGET2", "TIME_EXIT"}

LEMMA SideOrder ==
    ASSUME NEW side \in {"LONG", "SHORT"}, NEW a \in Int, NEW b \in Int, NEW c \in Int
    PROVE  /\ AtLeast(side, a, a)
           /\ AtLeast(side, a, b) \/ AtLeast(side, b, a)
           /\ AtLeast(side, a, b) /\ AtLeast(side, b, c) => AtLeast(side, a, c)
           /\ AtLeast(side, a, b) /\ AtLeast(side, b, a) => a = b
BY DEF AtLeast

LEMMA StopTypes ==
    ASSUME NEW p \in Levels, NEW ev \in EvidenceType
    PROVE  /\ TrailingStop(p, ev) \in Int
           /\ ProtectionStop(p) \in Int
           /\ StopTrigger(p, ev) \in Int
<1>1. /\ p.entry \in Int /\ p.initial \in Int /\ p.stop \in Int /\ p.target1 \in Int
      /\ ev.high \in Int /\ ev.low \in Int /\ ev.close \in Int
  BY DEF Levels, EvidenceType
<1>2. Gain(p, ev.close) \in Int /\ Gain(p, p.target1) \in Int
  BY <1>1 DEF Gain
<1>3. Gain(p, ev.close) \div 2 \in Int /\ Gain(p, p.target1) \div 2 \in Int
  BY <1>2
<1>4. TrailingStop(p, ev) \in Int
  BY <1>1, <1>2, <1>3 DEF TrailingStop, Toward
<1>5. ProtectionStop(p) \in Int
  BY <1>1, <1>3 DEF ProtectionStop, Toward
<1>6. StopTrigger(p, ev) \in Int
  BY <1>1 DEF StopTrigger, Worst, Adverse
<1> QED BY <1>4, <1>5, <1>6

\* What each decision shows about the evidence.
LEMMA DecisionFacts ==
    ASSUME NEW p \in Levels, NEW ev \in EvidenceType, NEW d, d = Decide(p, ev)
    PROVE  /\ d.action \in Actions
           /\ d.action = "CLOSE" => d.reason \in Triggers
           /\ d.price \in Int
           /\ d.action # "CLOSE" => ~ StopHit(p, ev)
           /\ d.action = "CLOSE" /\ d.reason = "STOP" => StopHit(p, ev)
           /\ d.action = "PARTIAL_CLOSE" => p.staged /\ ~ p.t1
           /\ d.action = "PARTIAL_CLOSE" => TargetHit(p, ev, p.target1)
           /\ d.action \in {"HOLD", "MOVE_STOP"} =>
                ~ TargetHit(p, ev, IF p.staged /\ p.t1 THEN p.target2 ELSE p.target1)
           /\ d.action = "MOVE_STOP" =>
                /\ p.staged /\ ~ p.locked
                /\ Better(p.side, d.price, p.stop)
                /\ \/ d.price = p.target1 /\ TrailTriggerHit(p, ev)
                   \/ d.price = TrailingStop(p, ev) /\ TrailsAt(p, ev)
<1>1. p.target1 \in Int /\ p.target2 \in Int /\ ev.close \in Int
  BY DEF Levels, EvidenceType
<1>2. p.staged \in BOOLEAN /\ p.t1 \in BOOLEAN /\ p.locked \in BOOLEAN
  BY DEF Levels
<1> USE DEF Hold, CloseAt, MoveStopTo, Partial
<1>3. CASE ~ p.staged
  <2>1. d = DecideUnstaged(p, ev)
    BY <1>3 DEF Decide
  <2>2. CASE StopHit(p, ev)
    <3>1. d = CloseAt("STOP", StopTrigger(p, ev))
      BY <2>1, <2>2 DEF DecideUnstaged
    <3> QED BY <2>2, <3>1, StopTypes DEF Actions, Triggers
  <2>3. CASE ~ StopHit(p, ev) /\ TargetHit(p, ev, p.target1)
    <3>1. d = CloseAt("TARGET1", p.target1)
      BY <2>1, <2>3 DEF DecideUnstaged
    <3> QED BY <1>1, <3>1 DEF Actions, Triggers
  <2>4. CASE ~ StopHit(p, ev) /\ ~ TargetHit(p, ev, p.target1)
    <3>1. d = Hold
      BY <2>1, <2>4 DEF DecideUnstaged
    <3> QED BY <1>3, <2>4, <3>1 DEF Actions
  <2> QED BY <2>2, <2>3, <2>4
<1>4. CASE p.staged
  <2> DEFINE target == IF p.t1 THEN p.target2 ELSE p.target1
  <2>1. d = DecideStaged(p, ev)
    BY <1>4 DEF Decide
  <2>2. CASE DeadlineDue(p, ev)
    <3>1. d = CloseAt("TIME_EXIT", ev.close)
      BY <2>1, <2>2 DEF DecideStaged
    <3> QED BY <1>1, <3>1 DEF Actions, Triggers
  <2>3. CASE ~ DeadlineDue(p, ev) /\ StopHit(p, ev)
    <3>1. d = CloseAt("STOP", StopTrigger(p, ev))
      BY <2>1, <2>3 DEF DecideStaged
    <3> QED BY <2>3, <3>1, StopTypes DEF Actions, Triggers
  <2>4. CASE ~ DeadlineDue(p, ev) /\ ~ StopHit(p, ev) /\ TargetHit(p, ev, target)
    <3>1. d = IF p.t1 THEN CloseAt("TARGET2", p.target2) ELSE Partial(p.target1)
      BY <2>1, <2>4 DEF DecideStaged
    <3> QED BY <1>1, <1>4, <2>4, <3>1 DEF Actions, Triggers
  <2>5. CASE ~ DeadlineDue(p, ev) /\ ~ StopHit(p, ev) /\ ~ TargetHit(p, ev, target)
    <3>1. d = IF p.locked THEN Hold ELSE Protect(p, ev)
      BY <2>1, <2>5 DEF DecideStaged
    <3>2. ~ TargetHit(p, ev, IF p.staged /\ p.t1 THEN p.target2 ELSE p.target1)
      BY <1>4, <2>5
    <3>3. \/ d = Hold
          \/ /\ ~ p.locked /\ d = MoveStopTo(p.target1)
             /\ TrailTriggerHit(p, ev) /\ ~ AtLeast(p.side, p.stop, p.target1)
          \/ /\ ~ p.locked /\ d = MoveStopTo(TrailingStop(p, ev))
             /\ TrailsAt(p, ev) /\ Better(p.side, TrailingStop(p, ev), p.stop)
      BY <3>1 DEF Protect
    <3>4. ~ AtLeast(p.side, p.stop, p.target1) => Better(p.side, p.target1, p.stop)
      BY SideOrder DEF Better, Levels
    <3> QED BY <1>1, <1>4, <2>5, <3>2, <3>3, <3>4, StopTypes DEF Actions
  <2> QED BY <2>2, <2>3, <2>4, <2>5
<1> QED BY <1>2, <1>3, <1>4

Point(ev) == ev.high = ev.close /\ ev.low = ev.close

\* A stop moved on a single mark lies behind that mark.
LEMMA MovedBehindMark ==
    ASSUME NEW p \in Levels, Ordered(p), AtLeast(p.side, p.stop, p.initial),
           NEW ev \in EvidenceType, Point(ev), ~ StopHit(p, ev)
    PROVE  /\ TrailTriggerHit(p, ev) => ~ AtLeast(p.side, p.target1, ev.close)
           /\ TrailsAt(p, ev) /\ Better(p.side, TrailingStop(p, ev), p.stop)
                => ~ AtLeast(p.side, TrailingStop(p, ev), ev.close)
           /\ TargetHit(p, ev, p.target1)
                => ~ AtLeast(p.side, Best(p.side, p.stop, ProtectionStop(p)), ev.close)
<1> DEFINE m == ev.close
<1>1. /\ m \in Int /\ p.entry \in Int /\ p.initial \in Int /\ p.stop \in Int
      /\ p.target1 \in Int /\ p.target2 \in Int /\ p.activation \in Nat
      /\ p.side \in {"LONG", "SHORT"} /\ p.profile \in {"BASELINE", "COST_SAFE"}
  BY DEF Levels, EvidenceType
<1>2. ~ AtLeast(p.side, p.stop, m)
  BY DEF Point, StopHit, Adverse
<1>3. TrailTriggerHit(p, ev) => ~ AtLeast(p.side, p.target1, m)
  BY <1>1 DEF TrailTriggerHit, Favourable, Point, AtLeast, Ordered, Gain
<1>4. ASSUME TrailsAt(p, ev), Better(p.side, TrailingStop(p, ev), p.stop)
      PROVE  ~ AtLeast(p.side, TrailingStop(p, ev), m)
  <2> DEFINE g == Gain(p, m)
  <2>1. g \in Int /\ Risk(p) \in Int
    BY <1>1 DEF Gain, Risk
  <2>2. CASE p.profile = "COST_SAFE"
    <3>1. p.activation > 0 /\ Risk(p) > 0 /\ g >= Risk(p) * p.activation
      BY <1>4, <2>2 DEF TrailsAt
    <3>2. g > 0
      <4>1. \A r, a \in Nat : r > 0 /\ a > 0 => r * a > 0
        OBVIOUS
      <4>2. Risk(p) \in Nat
        BY <2>1, <3>1
      <4>3. Risk(p) * p.activation > 0 /\ Risk(p) * p.activation \in Int
        BY <1>1, <3>1, <4>1, <4>2
      <4> HIDE DEF g
      <4> QED BY <2>1, <3>1, <4>3
    <3>3. TrailingStop(p, ev) = Toward(p, p.entry, g \div 2)
      BY <2>2 DEF TrailingStop
    <3> QED BY <1>1, <3>2, <3>3 DEF Toward, AtLeast, Gain
  <2>3. CASE p.profile # "COST_SAFE"
    <3>1. TrailingStop(p, ev) = Toward(p, p.initial, IF g > 0 THEN g ELSE 0)
      BY <2>3 DEF TrailingStop
    <3>2. CASE g > 0
      BY <1>1, <3>1, <3>2 DEF Toward, AtLeast, Gain, Ordered
    <3>3. CASE ~ (g > 0)
      <4>1. TrailingStop(p, ev) = p.initial
        BY <1>1, <3>1, <3>3 DEF Toward
      <4> QED BY <1>1, <1>4, <4>1 DEF Better, AtLeast
    <3> QED BY <3>2, <3>3
  <2> QED BY <2>2, <2>3
<1>5. ASSUME TargetHit(p, ev, p.target1)
      PROVE  ~ AtLeast(p.side, Best(p.side, p.stop, ProtectionStop(p)), m)
  <2>1. AtLeast(p.side, m, p.target1)
    BY <1>5 DEF TargetHit, Favourable, Point
  <2>2. ~ AtLeast(p.side, ProtectionStop(p), m)
    BY <1>1, <2>1 DEF ProtectionStop, Toward, Gain, AtLeast, Ordered
  <2> QED BY <1>2, <2>2 DEF Best
<1> QED BY <1>3, <1>4, <1>5

-----------------------------------------------------------------------------
(* Candles                                                                 *)

LEMMA CandleTimes ==
    ASSUME NEW c \in Nat
    PROVE  /\ Start(c) \in Nat /\ End(c) \in Nat
           /\ Start(c) < End(c)
           /\ \A d \in Nat : c < d => End(c) =< Start(d)
           /\ \A d \in Nat : c < d => End(c) < End(d)
<1>1. CandleLength \in Nat /\ CandleLength > 0
  BY TimeAssumption
<1>2. \A a, b \in Nat : a * b \in Nat
  OBVIOUS
<1>3. \A d \in Nat : Start(d) \in Nat /\ End(d) = Start(d) + CandleLength
  BY <1>1, <1>2 DEF Start, End
<1>4. ASSUME NEW d \in Nat, c < d PROVE End(c) =< Start(d)
  <2>1. PICK e \in Nat : d = (c + 1) + e
    <3>1. d - (c + 1) \in Nat /\ d = (c + 1) + (d - (c + 1))
      BY <1>4
    <3> QED BY <3>1
  <2>2. d * CandleLength = (c + 1) * CandleLength + e * CandleLength
    BY <1>1, <2>1
  <2>3. e * CandleLength \in Nat /\ (c + 1) * CandleLength \in Nat
    BY <1>1, <1>2
  <2> QED BY <2>2, <2>3 DEF Start, End
<1> QED BY <1>1, <1>3, <1>4

\* Of finitely many integers one is the greatest, and one the least.
LEMMA GreatestOf ==
    ASSUME NEW f \in [Nat -> Int], NEW n \in Nat
    PROVE  \E i \in 0 .. n : \A j \in 0 .. n : f[j] =< f[i]
<1> DEFINE Bad == {k \in Nat : ~ \E i \in 0 .. k : \A j \in 0 .. k : f[j] =< f[i]}
<1>1. SUFFICES ASSUME Bad # {} PROVE FALSE
  OBVIOUS
<1>2. PICK k \in Bad : \A l \in Bad : <<l, k>> \notin OpToRel(<, Nat)
  <2>1. Bad \subseteq Nat
    OBVIOUS
  <2> HIDE DEF Bad
  <2> QED BY <1>1, <2>1, NatLessThanWellFounded, WFMin
<1>3. \A l \in Bad : ~ (l < k)
  BY <1>2 DEF OpToRel
<1>4. k # 0
  <2>1. f[0] \in Int /\ 0 .. 0 = {0}
    OBVIOUS
  <2>2. \E i \in 0 .. 0 : \A j \in 0 .. 0 : f[j] =< f[i]
    BY <2>1
  <2> QED BY <2>2
<1>5. PICK i \in 0 .. k - 1 : \A j \in 0 .. k - 1 : f[j] =< f[i]
  <2>1. k \in Nat /\ k - 1 \in Nat /\ k - 1 < k
    BY <1>4
  <2>2. k - 1 \notin Bad
    <3> HIDE DEF Bad
    <3> QED BY <1>3, <2>1
  <2> QED BY <2>1, <2>2
<1>6. f[i] \in Int /\ f[k] \in Int /\ \A j \in 0 .. k : f[j] \in Int
  OBVIOUS
<1>7. \A j \in 0 .. k : j \in 0 .. k - 1 \/ j = k
  BY <1>4
<1>8. CASE f[k] =< f[i]
  <2>1. i \in 0 .. k /\ \A j \in 0 .. k : f[j] =< f[i]
    BY <1>5, <1>7, <1>8
  <2> QED BY <2>1
<1>9. CASE ~ (f[k] =< f[i])
  <2>1. k \in 0 .. k /\ \A j \in 0 .. k : f[j] =< f[k]
    BY <1>5, <1>6, <1>7, <1>9
  <2> QED BY <2>1
<1> QED BY <1>8, <1>9

\* Marks that lie from tick a to tick a + n have a highest and a lowest one.
LEMMA MarksExtremes ==
    ASSUME NEW s \in Seq(Int), NEW a \in Nat, NEW n \in Nat, a + n + 1 =< Len(s),
           NEW S, S = {s[k + 1] : k \in a .. a + n}
    PROVE  /\ S \subseteq Int
           /\ Max(S) \in S /\ \A x \in S : x =< Max(S)
           /\ Min(S) \in S /\ \A x \in S : Min(S) =< x
<1> DEFINE f == [i \in Nat |-> IF i =< n THEN s[a + i + 1] ELSE 0]
           g == [i \in Nat |-> IF i =< n THEN 0 - s[a + i + 1] ELSE 0]
<1>1. \A i \in 0 .. n : s[a + i + 1] \in Int
  OBVIOUS
<1>2. f \in [Nat -> Int] /\ g \in [Nat -> Int]
  BY <1>1
<1>3. /\ \A i \in 0 .. n : s[a + i + 1] \in S
      /\ \A x \in S : \E i \in 0 .. n : x = s[a + i + 1]
  <2>1. ASSUME NEW x \in S PROVE \E i \in 0 .. n : x = s[a + i + 1]
    <3>1. PICK k \in a .. a + n : x = s[k + 1]
      OBVIOUS
    <3>2. k - a \in 0 .. n /\ a + (k - a) + 1 = k + 1
      OBVIOUS
    <3> QED BY <3>1, <3>2
  <2>2. ASSUME NEW i \in 0 .. n PROVE s[a + i + 1] \in S
    <3>1. a + i \in a .. a + n /\ a + i + 1 = (a + i) + 1
      OBVIOUS
    <3> QED BY <3>1
  <2> QED BY <2>1, <2>2
<1>4. PICK i \in 0 .. n : \A j \in 0 .. n : f[j] =< f[i]
  <2> HIDE DEF f
  <2> QED BY <1>2, GreatestOf
<1>5. PICK l \in 0 .. n : \A j \in 0 .. n : g[j] =< g[l]
  <2> HIDE DEF g
  <2> QED BY <1>2, GreatestOf
<1>6. \A j \in 0 .. n : s[a + j + 1] =< s[a + i + 1] /\ s[a + l + 1] =< s[a + j + 1]
  <2>1. \A j \in 0 .. n : f[j] = s[a + j + 1] /\ g[j] = 0 - s[a + j + 1]
    OBVIOUS
  <2> HIDE DEF f, g
  <2>2. ASSUME NEW j \in 0 .. n
        PROVE  s[a + j + 1] =< s[a + i + 1] /\ s[a + l + 1] =< s[a + j + 1]
    <3>1. f[j] =< f[i] /\ g[j] =< g[l]
      BY <1>4, <1>5
    <3>2. s[a + j + 1] \in Int /\ s[a + i + 1] \in Int /\ s[a + l + 1] \in Int
      BY <1>1
    <3>3. f[j] = s[a + j + 1] /\ f[i] = s[a + i + 1]
      BY <2>1
    <3>4. g[j] = 0 - s[a + j + 1] /\ g[l] = 0 - s[a + l + 1]
      BY <2>1
    <3>5. \A x, y \in Int : 0 - x =< 0 - y => y =< x
      OBVIOUS
    <3>6. s[a + j + 1] =< s[a + i + 1]
      BY <3>1, <3>3, Zenon
    <3>7. s[a + l + 1] =< s[a + j + 1]
      BY <3>1, <3>2, <3>4, <3>5, Zenon
    <3> QED BY <3>6, <3>7
  <2> QED BY <2>2
<1> HIDE DEF f, g
<1> DEFINE hi == s[a + i + 1]
           lo == s[a + l + 1]
<1>12. hi \in S /\ lo \in S /\ hi \in Int /\ lo \in Int
  BY <1>1, <1>3
<1>13. \A x \in S : x =< hi /\ lo =< x
  BY <1>3, <1>6
<1> HIDE DEF hi, lo
<1>7. \E x \in S : \A y \in S : x >= y
  <2>1. \A y \in S : hi >= y
    BY <1>1, <1>3, <1>12, <1>13
  <2> QED BY <1>12, <2>1
<1>8. \E x \in S : \A y \in S : x =< y
  BY <1>12, <1>13
<1>9. S \subseteq Int
  BY <1>1, <1>3
<1>10. Max(S) \in S /\ \A y \in S : Max(S) >= y
  BY <1>7 DEF Max
<1>11. Min(S) \in S /\ \A y \in S : Min(S) =< y
  BY <1>8 DEF Min
<1> QED BY <1>9, <1>10, <1>11

\* A stored candle is over, and its high and low are among its marks.
LEMMA CandleMarks ==
    ASSUME TypeOK, NEW c \in 0 .. stored - 1
    PROVE  /\ c \in Nat /\ End(c) =< now /\ End(c) - 1 \in Ticks(c)
           /\ Ticks(c) \subseteq 0 .. now /\ \A k \in Ticks(c) : Mark(k) \in Int
           /\ Candle(c) \in EvidenceType
           /\ Candle(c).end = End(c) /\ Candle(c).live = FALSE
           /\ \A k \in Ticks(c) : Candle(c).low =< Mark(k) /\ Mark(k) =< Candle(c).high
           /\ \E k \in Ticks(c) : Mark(k) = Candle(c).low
           /\ \E k \in Ticks(c) : Mark(k) = Candle(c).high
<1> DEFINE marks == {Mark(k) : k \in Ticks(c)}
<1>1. /\ price \in Seq(Int) /\ Len(price) \in Nat /\ stored \in Nat /\ now \in Nat
      /\ c \in Nat /\ c < stored
  <2>1. OpenedAt \in Nat
    BY TimeAssumption
  <2> QED BY <2>1 DEF TypeOK, now
<1>2. Start(c) \in Nat /\ End(c) \in Nat /\ Start(c) < End(c) /\ End(c) =< now
  <2>1. Start(stored) =< now
    BY DEF TypeOK, Start
  <2>2. Start(c) \in Nat /\ End(c) \in Nat /\ Start(c) < End(c) /\ Start(stored) \in Nat
    BY <1>1, CandleTimes
  <2>3. End(c) =< Start(stored)
    BY <1>1, CandleTimes
  <2> HIDE DEF now
  <2> QED BY <1>1, <2>1, <2>2, <2>3
<1>3. Ticks(c) \subseteq 0 .. now /\ End(c) - 1 \in Ticks(c)
  BY <1>1, <1>2 DEF Ticks
<1>4. \A k \in 0 .. now : Mark(k) \in Int
  BY <1>1 DEF now, Mark
<1>5. PICK n \in Nat : End(c) - 1 = Start(c) + n
  <2>1. (End(c) - 1) - Start(c) \in Nat
        /\ End(c) - 1 = Start(c) + ((End(c) - 1) - Start(c))
    BY <1>2
  <2> QED BY <2>1
<1>6. marks = {price[k + 1] : k \in Start(c) .. Start(c) + n}
  BY <1>5 DEF Ticks, Mark
<1>7. /\ marks \subseteq Int
      /\ Max(marks) \in marks /\ \A x \in marks : x =< Max(marks)
      /\ Min(marks) \in marks /\ \A x \in marks : Min(marks) =< x
  <2>1. Start(c) + n + 1 =< Len(price)
    BY <1>1, <1>2, <1>5 DEF now
  <2> HIDE DEF marks
  <2> QED BY <1>1, <1>2, <1>6, <2>1, MarksExtremes
<1>8. Candle(c) = [high |-> Max(marks), low |-> Min(marks), close |-> Mark(End(c) - 1),
                   end |-> End(c), live |-> FALSE]
  BY DEF Candle
<1>9. \A k \in Ticks(c) : Mark(k) \in marks
  OBVIOUS
<1>10. (\E k \in Ticks(c) : Mark(k) = Max(marks)) /\ (\E k \in Ticks(c) : Mark(k) = Min(marks))
  BY <1>7
<1>11. Max(marks) \in Int /\ Min(marks) \in Int
  BY <1>7
<1> HIDE DEF marks
<1>12. Candle(c) \in EvidenceType
  BY <1>2, <1>3, <1>4, <1>8, <1>11 DEF EvidenceType
<1>13. Candle(c).high = Max(marks) /\ Candle(c).low = Min(marks)
       /\ Candle(c).end = End(c) /\ Candle(c).live = FALSE
  BY <1>8
<1>14. \A k \in Ticks(c) : Min(marks) =< Mark(k) /\ Mark(k) =< Max(marks)
  BY <1>7, <1>9
<1>15. \A k \in Ticks(c) : Mark(k) \in Int
  BY <1>3, <1>4
<1> HIDE DEF now, Ticks, Mark, Candle
<1> QED BY <1>1, <1>2, <1>3, <1>10, <1>12, <1>13, <1>14, <1>15

\* What the replay judges of a candle.
LEMMA EvidenceFacts ==
    ASSUME TypeOK, NEW c \in 0 .. stored - 1
    PROVE  /\ Evidence(c) \in EvidenceType
           /\ Evidence(c).end = End(c)
           /\ Evidence(c).live = Predates(c)
           /\ ~ Predates(c) => Evidence(c) = Candle(c)
           /\ Predates(c) => /\ Point(Evidence(c))
                             /\ Evidence(c).close = Mark(End(c) - 1)
<1>1. /\ Mark(End(c) - 1) \in Int /\ End(c) \in Nat
      /\ Candle(c) \in EvidenceType
      /\ Candle(c).end = End(c) /\ Candle(c).live = FALSE
  BY CandleMarks, CandleTimes
<1>2. CASE Predates(c)
  <2>1. Evidence(c) = PointAt(Mark(End(c) - 1), End(c), TRUE)
    BY <1>2 DEF Evidence
  <2> QED BY <1>1, <1>2, <2>1 DEF PointAt, EvidenceType, Point
<1>3. CASE ~ Predates(c)
  <2>1. Evidence(c) = Candle(c)
    BY <1>3 DEF Evidence
  <2>2. Evidence(c).live = FALSE
    BY <1>1, <2>1
  <2>3. Predates(c) = FALSE
    BY <1>3 DEF Predates
  <2> QED BY <1>1, <1>3, <2>1, <2>2, <2>3
<1> QED BY <1>2, <1>3

LEMMA LiveFacts ==
    ASSUME TypeOK, NEW k \in 0 .. now
    PROVE  /\ LiveMark(k) \in EvidenceType /\ Point(LiveMark(k))
           /\ LiveMark(k).end = k /\ LiveMark(k).live = TRUE
           /\ LiveMark(k).close = Mark(k)
<1>1. Mark(k) \in Int
  BY DEF TypeOK, Mark, now
<1>2. k \in Nat
  OBVIOUS
<1> HIDE DEF Mark, now
<1> QED BY <1>1, <1>2 DEF LiveMark, PointAt, EvidenceType, Point

LEMMA RecheckFacts ==
    ASSUME NEW ev \in EvidenceType, pos \in Levels
    PROVE  /\ AfterTarget1(ev) \in EvidenceType
           /\ AfterTarget1(ev).end = ev.end
           /\ Favourable(pos.side, AfterTarget1(ev)) = Favourable(pos.side, ev)
           /\ ev.live => AfterTarget1(ev) = ev
<1>1. ev.high \in Int /\ ev.low \in Int /\ ev.end \in Nat /\ ev.live \in BOOLEAN
  BY DEF EvidenceType
<1>2. Favourable(pos.side, ev) \in Int
  BY <1>1 DEF Favourable
<1>3. CASE ev.live
  BY <1>3 DEF AfterTarget1
<1>4. CASE ~ ev.live
  <2>1. AfterTarget1(ev) = PointAt(Favourable(pos.side, ev), ev.end, FALSE)
    BY <1>4 DEF AfterTarget1
  <2>2. /\ AfterTarget1(ev).high = Favourable(pos.side, ev)
        /\ AfterTarget1(ev).low = Favourable(pos.side, ev)
        /\ AfterTarget1(ev).end = ev.end
        /\ AfterTarget1(ev) \in EvidenceType
    BY <1>1, <1>2, <2>1 DEF PointAt, EvidenceType
  <2>3. Favourable(pos.side, AfterTarget1(ev)) = Favourable(pos.side, ev)
    <3>1. \A e : e.high = e.low => Favourable(pos.side, e) = e.high
      BY DEF Favourable
    <3> QED BY <2>2, <3>1
  <2> QED BY <1>4, <2>2, <2>3
<1> QED BY <1>3, <1>4

LEMMA NextInQueue ==
    ASSUME NEW Q \in SUBSET Nat, Q # {}
    PROVE  Min(Q) \in Q /\ \A c \in Q : Min(Q) =< c
<1>1. PICK c \in Q : \A d \in Q : <<d, c>> \notin OpToRel(<, Nat)
  BY NatLessThanWellFounded, WFMin
<1>2. \A d \in Q : ~ (d < c)
  BY <1>1 DEF OpToRel
<1>3. \A d \in Q : c =< d
  BY <1>2
<1> QED BY <1>3 DEF Min

-----------------------------------------------------------------------------
(* What a decision writes                                                  *)

LEMMA WriteFacts ==
    ASSUME pos \in Levels, NEW ev \in EvidenceType, NEW evaluated,
           NEW d, d = Decide(pos, ev), d.action # "HOLD", Apply(d, ev, evaluated)
    PROVE  /\ pos' \in Levels
           /\ pos' = [pos EXCEPT !.t1 = pos'.t1, !.stop = pos'.stop]
           /\ d.action = "CLOSE" =>
                status' = d.reason /\ exitAt' = ev.end
                /\ UNCHANGED <<pos, checkpoint, stopSince>>
           /\ d.action # "CLOSE" =>
                /\ UNCHANGED <<status, exitAt>>
                /\ checkpoint' = IF evaluated = NoTime THEN checkpoint ELSE evaluated
                /\ stopSince' = IF pos'.stop = pos.stop THEN stopSince ELSE ev.end
           /\ d.action = "PARTIAL_CLOSE" => pos'.t1 /\ pos'.stop = StopAfterTarget1
           /\ d.action = "MOVE_STOP" =>
                pos'.t1 = pos.t1 /\ pos'.stop = d.price /\ pos'.stop # pos.stop
<1>1. d.action \in Actions /\ d.price \in Int
  BY DecisionFacts
<1>2. CASE d.action = "CLOSE"
  <2>1. CloseTrade(d, ev.end)
    BY <1>2 DEF Apply
  <2>2. pos' = [pos EXCEPT !.t1 = pos'.t1, !.stop = pos'.stop]
    BY <2>1 DEF CloseTrade, Levels
  <2> QED BY <1>2, <2>1, <2>2 DEF CloseTrade
<1>3. CASE d.action = "PARTIAL_CLOSE"
  <2>1. ApplyTarget1(ev.end, evaluated)
    BY <1>3 DEF Apply
  <2>2. pos.stop \in Int /\ ProtectionStop(pos) \in Int
    BY StopTypes DEF Levels
  <2>3. StopAfterTarget1 \in Int
    BY <2>2 DEF StopAfterTarget1, Best
  <2>4. pos' = [pos EXCEPT !.t1 = TRUE, !.stop = StopAfterTarget1]
    BY <2>1 DEF ApplyTarget1
  <2>5. pos'.t1 = TRUE /\ pos'.stop = StopAfterTarget1 /\ pos' \in Levels
        /\ pos' = [pos EXCEPT !.t1 = pos'.t1, !.stop = pos'.stop]
    BY <2>3, <2>4 DEF Levels
  <2>6. stopSince' = IF pos'.stop = pos.stop THEN stopSince ELSE ev.end
    BY <2>1, <2>5 DEF ApplyTarget1
  <2>7. /\ UNCHANGED <<status, exitAt>>
        /\ checkpoint' = IF evaluated = NoTime THEN checkpoint ELSE evaluated
    BY <2>1 DEF ApplyTarget1
  <2> QED BY <1>3, <2>5, <2>6, <2>7
<1>4. CASE d.action = "MOVE_STOP"
  <2>1. MoveStop(d, ev.end, evaluated)
    BY <1>4 DEF Apply
  <2>2. pos' = [pos EXCEPT !.stop = d.price] /\ d.price # pos.stop
    BY <2>1 DEF MoveStop, Better
  <2>3. pos'.t1 = pos.t1 /\ pos'.stop = d.price /\ pos' \in Levels
        /\ pos' = [pos EXCEPT !.t1 = pos'.t1, !.stop = pos'.stop]
    BY <1>1, <2>2 DEF Levels
  <2> QED BY <1>4, <2>1, <2>2, <2>3 DEF MoveStop
<1> QED BY <1>1, <1>2, <1>3, <1>4 DEF Actions

-----------------------------------------------------------------------------
(* The steps of the reconciler that judge, case by case                    *)

RowSame == UNCHANGED <<pos, status, exitAt, checkpoint, stopSince, passStop>>

LEMMA StopOwnerKept ==
    ASSUME TypeOK, PassSetsStop, UNCHANGED pos
    PROVE  passStop' = passStop
<1>1. passStop \in BOOLEAN /\ pos'.stop = pos.stop
  BY DEF TypeOK
<1>2. passStop' = (passStop \/ FALSE)
  BY <1>1, Zenon DEF PassSetsStop
<1> QED BY <1>1, <1>2

Evaluated(c) == IF Predates(c) THEN NoTime ELSE End(c)

\* Candle c is passed over, found quiet, or acted on.
PassOver(c) ==
    /\ Predates(c) /\ End(c) =< checkpoint
    /\ rec' = [rec EXCEPT !.pc = "holding", !.queue = @ \ {c}]
    /\ RowSame

FindQuiet(c) ==
    /\ ~ (Predates(c) /\ End(c) =< checkpoint)
    /\ Decide(pos, Evidence(c)).action = "HOLD"
    /\ rec' = [rec EXCEPT !.pc = "holding", !.queue = @ \ {c}, !.last = Evaluated(c)]
    /\ RowSame

ActOn(c) ==
    LET ev == Evidence(c)
        d == Decide(pos, ev)
        again == d.action = "PARTIAL_CLOSE" /\ NeedsTarget2Recheck(ev)
    IN  /\ ~ (Predates(c) /\ End(c) =< checkpoint)
        /\ d.action # "HOLD"
        /\ Apply(d, ev, Evaluated(c))
        /\ PassSetsStop
        /\ d.action = "CLOSE" => rec' = Idle
        /\ d.action # "CLOSE" /\ again =>
             rec' = [rec EXCEPT !.pc = "recheck", !.queue = @ \ {c},
                                !.last = Evaluated(c), !.evidence = ev]
        /\ d.action # "CLOSE" /\ ~ again =>
             rec' = [rec EXCEPT !.pc = "fetched", !.queue = @ \ {c}, !.last = Evaluated(c)]

LEMMA ReplayCases ==
    ASSUME TypeOK, ReplayCandle
    PROVE  /\ rec.pc \in {"fetched", "holding"} /\ status = "OPEN"
           /\ UNCHANGED <<price, stored, seen, fastChanges, lost>>
           /\ \E c \in rec.queue :
                /\ c \in 0 .. stored - 1 /\ \A e \in rec.queue : c =< e
                /\ PassOver(c) \/ FindQuiet(c) \/ ActOn(c)
<1> DEFINE c == Min(rec.queue)
<1>1. /\ rec.pc \in {"fetched", "holding"} /\ status = "OPEN" /\ rec.queue # {}
      /\ UNCHANGED <<price, stored, seen, fastChanges, lost>>
  BY DEF ReplayCandle
<1>2. rec.queue \in SUBSET (0 .. stored - 1) /\ stored \in Nat
  BY DEF TypeOK
<1>3. rec.queue \in SUBSET Nat
  BY <1>2
<1>4. c \in rec.queue /\ \A e \in rec.queue : c =< e
  BY <1>1, <1>3, NextInQueue
<1>5. c \in 0 .. stored - 1
  BY <1>2, <1>4
<1> DEFINE ev == Evidence(c)
           d == Decide(pos, ev)
           again == d.action = "PARTIAL_CLOSE" /\ NeedsTarget2Recheck(ev)
<1>6. Evaluated(c) = IF ev.live THEN NoTime ELSE End(c)
  BY <1>5, EvidenceFacts DEF Evaluated
<1>7. PassOver(c) \/ FindQuiet(c) \/ ActOn(c)
  <2>1. CASE Predates(c) /\ End(c) =< checkpoint
    <3>1. /\ rec' = [rec EXCEPT !.pc = "holding", !.queue = rec.queue \ {c}]
          /\ UNCHANGED <<pos, status, exitAt, checkpoint, stopSince>> /\ PassSetsStop
      BY <2>1 DEF ReplayCandle
    <3> QED BY <2>1, <3>1, StopOwnerKept DEF PassOver, RowSame
  <2>2. CASE ~ (Predates(c) /\ End(c) =< checkpoint) /\ d.action = "HOLD"
    <3>1. /\ rec' = [rec EXCEPT !.pc = "holding", !.queue = rec.queue \ {c},
                                !.last = Evaluated(c)]
          /\ UNCHANGED <<pos, status, exitAt, checkpoint, stopSince>> /\ PassSetsStop
      BY <1>6, <2>2 DEF ReplayCandle
    <3> QED BY <2>2, <3>1, StopOwnerKept DEF FindQuiet, RowSame
  <2>3. CASE ~ (Predates(c) /\ End(c) =< checkpoint) /\ d.action # "HOLD"
    <3>1. /\ Apply(d, ev, Evaluated(c)) /\ PassSetsStop
          /\ rec' = IF d.action = "CLOSE" THEN Idle
                    ELSE IF again
                    THEN [rec EXCEPT !.pc = "recheck", !.queue = rec.queue \ {c},
                                     !.last = Evaluated(c), !.evidence = ev]
                    ELSE [rec EXCEPT !.pc = "fetched", !.queue = rec.queue \ {c},
                                     !.last = Evaluated(c)]
      BY <1>6, <2>3 DEF ReplayCandle
    <3> QED BY <2>3, <3>1 DEF ActOn
  <2> QED BY <2>1, <2>2, <2>3
<1> HIDE DEF c
<1> QED BY <1>1, <1>4, <1>5, <1>7

\* The second look after target 1, and the look at a live mark.
LookAgain ==
    LET ev == AfterTarget1(rec.evidence)
        d == Decide(pos, ev)
        onward == [rec EXCEPT !.pc = "fetched", !.evidence = NoEvidence]
    IN  \/ /\ d.action \notin {"CLOSE", "MOVE_STOP"}
           /\ rec' = onward /\ RowSame
        \/ /\ d.action \in {"CLOSE", "MOVE_STOP"}
           /\ Apply(d, ev, rec.last) /\ PassSetsStop
           /\ rec' = IF d.action = "CLOSE" THEN Idle ELSE onward

LEMMA RecheckCases ==
    ASSUME TypeOK, RecheckTarget2
    PROVE  /\ rec.pc = "recheck" /\ status = "OPEN"
           /\ UNCHANGED <<price, stored, seen, fastChanges, lost>>
           /\ LookAgain
<1> DEFINE d == Decide(pos, AfterTarget1(rec.evidence))
           onward == [rec EXCEPT !.pc = "fetched", !.evidence = NoEvidence]
<1>1. /\ rec.pc = "recheck" /\ status = "OPEN" /\ PassSetsStop
      /\ UNCHANGED <<price, stored, seen, fastChanges, lost>>
  BY DEF RecheckTarget2
<1>2. CASE d.action \in {"CLOSE", "MOVE_STOP"}
  BY <1>1, <1>2 DEF RecheckTarget2, LookAgain
<1>3. CASE d.action \notin {"CLOSE", "MOVE_STOP"}
  <2>1. rec' = onward /\ UNCHANGED <<pos, status, exitAt, checkpoint, stopSince>>
    BY <1>3 DEF RecheckTarget2
  <2> QED BY <1>1, <1>3, <2>1, StopOwnerKept DEF LookAgain, RowSame
<1> QED BY <1>1, <1>2, <1>3

LEMMA LiveCases ==
    ASSUME JudgeLiveMark, NEW d, d = Decide(pos, LiveMark(now))
    PROVE  /\ LiveFallback /\ rec.pc = "idle" /\ status = "OPEN" /\ d.action # "HOLD"
           /\ Apply(d, LiveMark(now), NoTime) /\ PassSetsStop
           /\ rec' = IF d.action = "PARTIAL_CLOSE"
                     THEN [Idle EXCEPT !.pc = "recheck", !.evidence = LiveMark(now)]
                     ELSE Idle
           /\ UNCHANGED <<price, stored, seen, fastChanges, lost>>
BY DEF JudgeLiveMark

-----------------------------------------------------------------------------
(* Types                                                                   *)

LEMMA InitTypes == Init => TypeOK
<1> SUFFICES ASSUME Init PROVE TypeOK
  OBVIOUS
<1>1. pos \in Levels /\ Prices[pos.side][pos.official] \subseteq Int
  <2>1. pos \in Levels
    BY LevelAssumption DEF Init
  <2>2. pos.side \in {"LONG", "SHORT"} /\ pos.official \in BOOLEAN
    BY <2>1 DEF Levels
  <2> QED BY <2>1, <2>2, LevelAssumption
<1>2. OpenedAt \in Nat /\ CandleLength \in Nat
  BY TimeAssumption
<1>3. price \in Seq(Int) /\ Len(price) = OpenedAt + 1
  <2>1. price \in [1 .. OpenedAt + 1 -> Int]
    BY <1>1 DEF Init
  <2> QED BY <1>2, <2>1
<1>4. now = OpenedAt
  BY <1>2, <1>3 DEF now
<1>5. stored \in Nat /\ stored * CandleLength =< now
  <2>1. stored = 0 /\ 0 * CandleLength = 0
    BY <1>2 DEF Init
  <2> QED BY <1>2, <1>4, <2>1
<1>6. NoEvidence \in EvidenceType /\ NoEvidence.end = 0
  BY DEF NoEvidence, PointAt, EvidenceType
<1>7. /\ rec \in [pc: {"idle", "fetched", "holding", "recheck"},
                  queue: SUBSET (0 .. stored - 1),
                  last: {NoTime} \cup (0 .. now),
                  evidence: EvidenceType]
      /\ rec.evidence.end = 0
  BY <1>6 DEF Init, Idle
<1>8. /\ checkpoint \in 0 .. now /\ stopSince \in 0 .. now /\ seen \in 0 .. now
      /\ status = "OPEN" /\ exitAt = NoTime /\ fastChanges = {} /\ passStop = FALSE
      /\ lost = {}
  BY <1>2, <1>4 DEF Init
<1>9. Len(price) > OpenedAt /\ rec.evidence.end =< now
  BY <1>2, <1>3, <1>4, <1>7
<1> HIDE DEF now
<1> QED
  BY <1>1, <1>3, <1>5, <1>7, <1>8, <1>9 DEF TypeOK

Pass == [pc: {"idle", "fetched", "holding", "recheck"},
         queue: SUBSET (0 .. stored - 1),
         last: {NoTime} \cup (0 .. now),
         evidence: EvidenceType]

LEMMA NowType == TypeOK => now \in Nat /\ OpenedAt =< now
BY TimeAssumption DEF TypeOK, now

LEMMA IdlePass == TypeOK => Idle \in Pass /\ Idle.evidence.end =< now
BY NowType DEF Idle, NoEvidence, PointAt, EvidenceType, Pass

\* A decision on evidence that is past keeps the types of the row.
LEMMA WriteTypes ==
    ASSUME TypeOK, NEW ev \in EvidenceType, ev.end =< now,
           NEW evaluated \in {NoTime} \cup (0 .. now),
           NEW d, d = Decide(pos, ev), d.action # "HOLD", Apply(d, ev, evaluated)
    PROVE  /\ pos' \in Levels
           /\ status' \in {"OPEN"} \cup Triggers \/ status' = status
           /\ checkpoint' \in 0 .. now /\ stopSince' \in 0 .. now
           /\ exitAt' \in {NoTime} \cup (0 .. now)
<1>1. pos \in Levels /\ ev.end \in 0 .. now /\ now \in Nat
  BY NowType DEF TypeOK, EvidenceType
<1>2. d.action \in Actions /\ (d.action = "CLOSE" => d.reason \in Triggers)
  BY <1>1, DecisionFacts
<1>3. /\ pos' \in Levels
      /\ d.action = "CLOSE" =>
                status' = d.reason /\ exitAt' = ev.end
                /\ UNCHANGED <<pos, checkpoint, stopSince>>
      /\ d.action # "CLOSE" =>
                /\ UNCHANGED <<status, exitAt>>
                /\ checkpoint' = IF evaluated = NoTime THEN checkpoint ELSE evaluated
                /\ stopSince' = IF pos'.stop = pos.stop THEN stopSince ELSE ev.end
  BY <1>1, WriteFacts
<1>4. checkpoint \in 0 .. now /\ stopSince \in 0 .. now /\ exitAt \in {NoTime} \cup (0 .. now)
  BY DEF TypeOK
<1> HIDE DEF now
<1> QED BY <1>1, <1>2, <1>3, <1>4 DEF NoTime

LEMMA NextTypes == TypeOK /\ [Next]_vars => TypeOK'
<1> SUFFICES ASSUME TypeOK, [Next]_vars PROVE TypeOK'
  OBVIOUS
<1>n. now \in Nat /\ rec \in Pass /\ rec.evidence \in EvidenceType /\ rec.evidence.end =< now
      /\ rec.queue \subseteq 0 .. stored - 1 /\ rec.last \in {NoTime} \cup (0 .. now)
  BY NowType DEF TypeOK, Pass
<1>i. Idle \in Pass /\ Idle.evidence.end =< now
  BY IdlePass
\* A step that leaves the market alone has to keep the types of the rest.
<1>q. ASSUME UNCHANGED <<price, stored>>, lost' \subseteq 0 .. now,
             pos' \in Levels, status' \in {"OPEN"} \cup Triggers, checkpoint' \in 0 .. now,
             exitAt' \in {NoTime} \cup (0 .. now), stopSince' \in 0 .. now,
             rec' \in Pass, rec'.evidence.end =< now,
             seen' \in 0 .. now, fastChanges' \subseteq 0 .. now, passStop' \in BOOLEAN
      PROVE  TypeOK'
  <2>1. now' = now
    BY <1>q DEF now
  <2>2. Len(price') > OpenedAt /\ price' \in Seq(Int)
        /\ stored' \in Nat /\ stored' * CandleLength =< now
    BY <1>q DEF TypeOK
  <2>3. rec' \in Pass'
    BY <1>q, <2>1 DEF Pass
  <2> HIDE DEF now
  <2> QED BY <1>q, <2>1, <2>2, <2>3 DEF TypeOK, Pass, Triggers
<1>u. /\ pos \in Levels /\ status \in {"OPEN"} \cup Triggers /\ checkpoint \in 0 .. now
      /\ exitAt \in {NoTime} \cup (0 .. now) /\ stopSince \in 0 .. now
      /\ seen \in 0 .. now /\ fastChanges \subseteq 0 .. now /\ passStop \in BOOLEAN
      /\ lost \subseteq 0 .. now
  BY DEF TypeOK, Triggers
<1>1. CASE Tick
  <2>1. PICK p \in Prices[pos.side][pos.official] : price' = Append(price, p)
    BY <1>1 DEF Tick
  <2>2. p \in Int
    <3>1. pos.side \in {"LONG", "SHORT"} /\ pos.official \in BOOLEAN
      BY <1>u DEF Levels
    <3> QED BY <2>1, <3>1, LevelAssumption
  <2>3. price' \in Seq(Int) /\ Len(price') = Len(price) + 1 /\ Len(price) \in Nat
    BY <2>1, <2>2 DEF TypeOK
  <2>4. now' = now + 1 /\ Len(price') > OpenedAt
    BY <2>3, TimeAssumption DEF now, TypeOK
  <2>5. UNCHANGED <<stored, pos, status, exitAt, checkpoint, rec, stopSince,
                    seen, fastChanges, passStop, lost>>
    BY <1>1 DEF Tick
  <2>6. stored' \in Nat /\ stored' * CandleLength \in Int /\ stored' * CandleLength =< now'
    <3>1. stored * CandleLength \in Int /\ stored * CandleLength =< now
      BY TimeAssumption DEF TypeOK
    <3> HIDE DEF now
    <3> QED BY <1>n, <2>4, <2>5, <3>1 DEF TypeOK
  <2> HIDE DEF now
  <2>7. rec.evidence.end \in Nat /\ (0 .. now) \subseteq (0 .. now')
    BY <1>n, <2>4 DEF EvidenceType
  <2>8. rec' \in Pass' /\ rec'.evidence.end =< now'
    BY <1>n, <2>4, <2>5, <2>7 DEF Pass
  <2> QED BY <1>u, <2>3, <2>4, <2>5, <2>6, <2>7, <2>8 DEF TypeOK, Pass, Triggers
<1>2. CASE StoreCandle
  <2>1. /\ stored' = stored + 1 /\ End(stored) =< now /\ stored \in Nat
        /\ UNCHANGED <<price, pos, status, exitAt, checkpoint, rec, stopSince,
                       seen, fastChanges, passStop, lost>>
    BY <1>2 DEF StoreCandle, TypeOK
  <2>2. now' = now
    BY <2>1 DEF now
  <2>3. stored' \in Nat /\ stored' * CandleLength =< now'
    BY <2>1, <2>2 DEF End
  <2>4. 0 .. stored - 1 \subseteq 0 .. stored' - 1
    BY <2>1
  <2> HIDE DEF now
  <2>5. rec' \in Pass' /\ rec'.evidence.end =< now'
    BY <1>n, <2>1, <2>2, <2>4 DEF Pass
  <2> QED BY <1>u, <2>1, <2>2, <2>3, <2>5 DEF TypeOK, Pass, Triggers
<1>3. CASE FastExit
  <2>1. PICK k \in seen .. now :
          LET d == Decide(pos, LiveMark(k))
          IN  /\ d.action # "HOLD" /\ Apply(d, LiveMark(k), k)
              /\ seen' = k /\ fastChanges' = fastChanges \cup {k}
              /\ passStop' = (passStop /\ pos'.stop = pos.stop)
    BY <1>3 DEF FastExit
  <2> DEFINE d == Decide(pos, LiveMark(k))
  <2>2. k \in 0 .. now
    BY <1>n, <1>u
  <2>3. /\ LiveMark(k) \in EvidenceType /\ LiveMark(k).end = k
    BY <2>2, LiveFacts
  <2>4. LiveMark(k).end =< now /\ k \in {NoTime} \cup (0 .. now) /\ k \in Nat
    BY <1>n, <2>2, <2>3
  <2>5. /\ pos' \in Levels
        /\ status' \in {"OPEN"} \cup Triggers \/ status' = status
        /\ checkpoint' \in 0 .. now /\ stopSince' \in 0 .. now
        /\ exitAt' \in {NoTime} \cup (0 .. now)
    BY <2>1, <2>3, <2>4, WriteTypes
  <2>6. UNCHANGED <<price, stored, rec, lost>>
    BY <1>3 DEF FastExit
  <2> HIDE DEF now
  <2> QED BY <1>q, <1>n, <1>u, <2>1, <2>2, <2>5, <2>6
<1>4. CASE Fetch
  <2>1. rec' = [Idle EXCEPT !.pc = "fetched", !.queue = NewCandles]
        /\ UNCHANGED <<price, stored, pos, status, exitAt, checkpoint, stopSince,
                       seen, fastChanges, passStop, lost>>
    BY <1>4 DEF Fetch
  <2>2. rec' \in Pass /\ rec'.evidence.end =< now
    <3> HIDE DEF now
    <3>1. NewCandles \subseteq 0 .. stored - 1
      BY DEF NewCandles
    <3> HIDE DEF NewCandles
    <3> QED BY <1>i, <2>1, <3>1 DEF Pass, Idle, NoEvidence, PointAt
  <2> HIDE DEF now
  <2> QED BY <1>q, <1>u, <2>1, <2>2
<1>5. CASE FindClosed \/ LockConflict
  <2>1. rec' = Idle
        /\ UNCHANGED <<price, stored, pos, status, exitAt, checkpoint, stopSince,
                       seen, fastChanges, passStop>>
        /\ lost' \subseteq lost \cup {rec.evidence.end}
    BY <1>5 DEF FindClosed, LockConflict
  <2>2. rec.evidence.end \in 0 .. now
    BY <1>n DEF EvidenceType
  <2>3. lost' \subseteq 0 .. now
    BY <1>u, <2>1, <2>2
  <2> HIDE DEF now, Idle
  <2> QED BY <1>i, <1>q, <1>u, <2>1, <2>3
<1>6. CASE ReplayCandle
  <2>1. UNCHANGED <<price, stored, seen, fastChanges, lost>>
    BY <1>6, ReplayCases
  <2>2. PICK c \in rec.queue : /\ c \in 0 .. stored - 1
                               /\ PassOver(c) \/ FindQuiet(c) \/ ActOn(c)
    BY <1>6, ReplayCases
  <2>3. /\ Evaluated(c) \in {NoTime} \cup (0 .. now)
        /\ Evidence(c) \in EvidenceType /\ Evidence(c).end =< now
    <3>1. End(c) \in Nat /\ End(c) =< now
      BY <2>2, CandleTimes, CandleMarks
    <3> HIDE DEF now
    <3> QED BY <1>n, <2>2, <3>1, EvidenceFacts DEF Evaluated
  <2>4. rec.queue \ {c} \subseteq 0 .. stored - 1
    BY <1>n
  <2> HIDE DEF now
  <2>5. CASE PassOver(c)
    <3>1. rec' \in Pass /\ rec'.evidence = rec.evidence
      BY <1>n, <2>4, <2>5 DEF PassOver, Pass
    <3> QED BY <1>q, <1>n, <1>u, <2>1, <2>5, <3>1 DEF PassOver, RowSame
  <2>6. CASE FindQuiet(c)
    <3>1. rec' \in Pass /\ rec'.evidence = rec.evidence
      BY <1>n, <2>3, <2>4, <2>6 DEF FindQuiet, Pass
    <3> QED BY <1>q, <1>n, <1>u, <2>1, <2>6, <3>1 DEF FindQuiet, RowSame
  <2>7. CASE ActOn(c)
    <3> DEFINE d == Decide(pos, Evidence(c))
    <3>1. Apply(d, Evidence(c), Evaluated(c)) /\ d.action # "HOLD" /\ PassSetsStop
      BY <2>7 DEF ActOn
    <3>2. /\ pos' \in Levels
          /\ status' \in {"OPEN"} \cup Triggers \/ status' = status
          /\ checkpoint' \in 0 .. now /\ stopSince' \in 0 .. now
          /\ exitAt' \in {NoTime} \cup (0 .. now)
      BY <2>3, <3>1, WriteTypes
    <3>3. rec' \in Pass /\ rec'.evidence.end =< now
      BY <1>n, <1>i, <2>3, <2>4, <2>7 DEF ActOn, Pass
    <3>4. passStop' \in BOOLEAN
      BY <3>1, <1>u DEF PassSetsStop
    <3> QED BY <1>q, <1>u, <2>1, <3>2, <3>3, <3>4
  <2> QED BY <2>2, <2>5, <2>6, <2>7
<1>7. CASE RecheckTarget2
  <2> DEFINE ev == AfterTarget1(rec.evidence)
             d == Decide(pos, ev)
  <2>1. UNCHANGED <<price, stored, seen, fastChanges, lost>> /\ LookAgain
    BY <1>7, RecheckCases
  <2>2. ev \in EvidenceType /\ ev.end =< now
    BY <1>n, <1>u, RecheckFacts
  <2>3. NoEvidence \in EvidenceType /\ NoEvidence.end =< now
    BY <1>n DEF NoEvidence, PointAt, EvidenceType
  <2> HIDE DEF now
  <2> DEFINE onward == [rec EXCEPT !.pc = "fetched", !.evidence = NoEvidence]
  <2>4. onward \in Pass /\ onward.evidence.end =< now
    BY <1>n, <2>3 DEF Pass
  <2>5. CASE d.action \notin {"CLOSE", "MOVE_STOP"}
    <3>1. rec' = onward /\ RowSame
      BY <2>1, <2>5 DEF LookAgain
    <3> QED BY <1>q, <1>u, <2>1, <2>4, <3>1 DEF RowSame
  <2>6. CASE d.action \in {"CLOSE", "MOVE_STOP"}
    <3>1. /\ Apply(d, ev, rec.last) /\ PassSetsStop
          /\ rec' = IF d.action = "CLOSE" THEN Idle ELSE onward
      BY <2>1, <2>6 DEF LookAgain
    <3>2. /\ pos' \in Levels
          /\ status' \in {"OPEN"} \cup Triggers \/ status' = status
          /\ checkpoint' \in 0 .. now /\ stopSince' \in 0 .. now
          /\ exitAt' \in {NoTime} \cup (0 .. now)
      BY <1>n, <2>2, <2>6, <3>1, WriteTypes
    <3>3. passStop' \in BOOLEAN
      BY <3>1, <1>u DEF PassSetsStop
    <3> QED BY <1>q, <1>i, <1>u, <2>1, <2>4, <3>1, <3>2, <3>3
  <2> QED BY <2>5, <2>6
<1>8. CASE FinishPass
  <2>1. /\ rec' = Idle /\ checkpoint' = IF rec.last > checkpoint THEN rec.last ELSE checkpoint
        /\ UNCHANGED <<price, stored, pos, status, exitAt, stopSince, seen,
                       fastChanges, passStop, lost>>
    BY <1>8 DEF FinishPass
  <2> HIDE DEF now, Idle
  <2>2. checkpoint' \in 0 .. now
    BY <1>n, <1>u, <2>1 DEF NoTime
  <2> QED BY <1>q, <1>i, <1>u, <2>1, <2>2
<1>9. CASE JudgeLiveMark
  <2> DEFINE ev == LiveMark(now)
             d == Decide(pos, ev)
  <2>1. /\ d.action # "HOLD" /\ Apply(d, ev, NoTime) /\ PassSetsStop
        /\ rec' = IF d.action = "PARTIAL_CLOSE"
                  THEN [Idle EXCEPT !.pc = "recheck", !.evidence = ev] ELSE Idle
        /\ UNCHANGED <<price, stored, seen, fastChanges, lost>>
    BY <1>9, LiveCases
  <2>2. ev \in EvidenceType /\ ev.end =< now
    <3> HIDE DEF now
    <3>1. now \in 0 .. now
      BY <1>n
    <3>2. ev \in EvidenceType /\ ev.end = now
      BY <3>1, LiveFacts
    <3> QED BY <1>n, <3>2
  <2>3. [Idle EXCEPT !.pc = "recheck", !.evidence = ev] \in Pass
        /\ [Idle EXCEPT !.pc = "recheck", !.evidence = ev].evidence = ev
    BY <1>i, <2>2 DEF Pass
  <2> HIDE DEF now
  <2>4. /\ pos' \in Levels
        /\ status' \in {"OPEN"} \cup Triggers \/ status' = status
        /\ checkpoint' \in 0 .. now /\ stopSince' \in 0 .. now
        /\ exitAt' \in {NoTime} \cup (0 .. now)
    BY <1>n, <2>1, <2>2, WriteTypes
  <2>5. passStop' \in BOOLEAN
    BY <2>1, <1>u DEF PassSetsStop
  <2>6. rec' \in Pass /\ rec'.evidence.end =< now
    BY <1>i, <2>1, <2>2, <2>3
  <2> QED BY <1>q, <1>u, <2>1, <2>4, <2>5, <2>6
<1>10. CASE UNCHANGED vars
  BY <1>q, <1>n, <1>u, <1>10 DEF vars
<1> QED
  BY <1>1, <1>2, <1>3, <1>4, <1>5, <1>6, <1>7, <1>8, <1>9, <1>10 DEF Next, Reconcile

(* Every variable keeps its type: no job dates anything in the future, and *)
(* no pass holds a candle that is not stored.                              *)
THEOREM ReplayTypeCorrect == Spec => []TypeOK
BY InitTypes, NextTypes, PTL DEF Spec

-----------------------------------------------------------------------------
(* The levels                                                              *)

\* A row changes only by a decision on some evidence.
LEMMA RowChanges ==
    ASSUME TypeOK, Next
    PROVE  \/ UNCHANGED <<pos, status, stopSince>>
           \/ \E ev \in EvidenceType, evaluated \in {NoTime} \cup (0 .. now) :
                 /\ Decide(pos, ev).action # "HOLD"
                 /\ Apply(Decide(pos, ev), ev, evaluated)
<1>n. now \in Nat /\ rec \in Pass /\ rec.evidence \in EvidenceType
      /\ rec.last \in {NoTime} \cup (0 .. now) /\ pos \in Levels /\ seen \in 0 .. now
  BY NowType DEF TypeOK, Pass
<1>1. CASE Tick \/ StoreCandle \/ Fetch \/ FindClosed \/ LockConflict \/ FinishPass
  BY <1>1 DEF Tick, StoreCandle, Fetch, FindClosed, LockConflict, FinishPass
<1>2. CASE FastExit
  <2>1. PICK k \in seen .. now : /\ Decide(pos, LiveMark(k)).action # "HOLD"
                                 /\ Apply(Decide(pos, LiveMark(k)), LiveMark(k), k)
    BY <1>2 DEF FastExit
  <2> HIDE DEF now
  <2>2. k \in 0 .. now
    BY <1>n
  <2>3. LiveMark(k) \in EvidenceType /\ k \in {NoTime} \cup (0 .. now)
    BY <2>2, LiveFacts
  <2> QED BY <2>1, <2>3
<1>3. CASE ReplayCandle
  <2>1. PICK c \in rec.queue : /\ c \in 0 .. stored - 1
                               /\ PassOver(c) \/ FindQuiet(c) \/ ActOn(c)
    BY <1>3, ReplayCases
  <2>2. CASE PassOver(c) \/ FindQuiet(c)
    BY <2>2 DEF PassOver, FindQuiet, RowSame
  <2>3. CASE ActOn(c)
    <3>1. /\ Decide(pos, Evidence(c)).action # "HOLD"
          /\ Apply(Decide(pos, Evidence(c)), Evidence(c), Evaluated(c))
      BY <2>3 DEF ActOn
    <3>2. End(c) \in Nat /\ End(c) =< now
      BY <2>1, CandleTimes, CandleMarks
    <3> HIDE DEF now
    <3>3. Evaluated(c) \in {NoTime} \cup (0 .. now) /\ Evidence(c) \in EvidenceType
      BY <1>n, <2>1, <3>2, EvidenceFacts DEF Evaluated
    <3> QED BY <3>1, <3>3
  <2> QED BY <2>1, <2>2, <2>3
<1>4. CASE RecheckTarget2
  <2>1. LookAgain
    BY <1>4, RecheckCases
  <2>2. AfterTarget1(rec.evidence) \in EvidenceType
    BY <1>n, RecheckFacts
  <2> QED BY <1>n, <2>1, <2>2 DEF LookAgain, RowSame
<1>5. CASE JudgeLiveMark
  <2>1. /\ Decide(pos, LiveMark(now)).action # "HOLD"
        /\ Apply(Decide(pos, LiveMark(now)), LiveMark(now), NoTime)
    BY <1>5, LiveCases
  <2> HIDE DEF now
  <2>2. now \in 0 .. now
    BY <1>n
  <2> QED BY <2>1, <2>2, LiveFacts
<1> QED BY <1>1, <1>2, <1>3, <1>4, <1>5 DEF Next, Reconcile

\* What a decision does to the levels.
LEMMA StopTightens ==
    ASSUME pos \in Levels, NEW ev \in EvidenceType, NEW evaluated,
           Decide(pos, ev).action # "HOLD", Apply(Decide(pos, ev), ev, evaluated)
    PROVE  /\ AtLeast(pos.side, pos'.stop, pos.stop)
           /\ pos.official /\ pos.locked => pos'.stop = pos.stop
           /\ pos.t1 => pos'.t1
           /\ pos'.t1 => pos.t1 \/ pos.staged
<1> DEFINE d == Decide(pos, ev)
<1>1. d.action \in Actions /\ d.action # "HOLD"
  BY DecisionFacts
<1>2. pos.stop \in Int /\ pos.side \in {"LONG", "SHORT"} /\ ProtectionStop(pos) \in Int
  BY StopTypes DEF Levels
<1>3. CASE d.action = "CLOSE"
  <2>1. pos' = pos
    BY <1>3, WriteFacts
  <2> QED BY <1>2, <2>1, SideOrder
<1>4. CASE d.action = "PARTIAL_CLOSE"
  <2>1. pos'.t1 /\ pos'.stop = StopAfterTarget1 /\ pos.staged
    BY <1>4, WriteFacts, DecisionFacts
  <2>2. AtLeast(pos.side, StopAfterTarget1, pos.stop)
    <3>1. AtLeast(pos.side, pos.stop, pos.stop)
      BY <1>2, SideOrder
    <3>2. AtLeast(pos.side, pos.stop, ProtectionStop(pos)) \/ AtLeast(pos.side, ProtectionStop(pos), pos.stop)
      BY <1>2, SideOrder
    <3> QED BY <3>1, <3>2 DEF StopAfterTarget1, Best
  <2>3. pos.official => StopAfterTarget1 = pos.stop
    BY DEF StopAfterTarget1
  <2> QED BY <2>1, <2>2, <2>3
<1>5. CASE d.action = "MOVE_STOP"
  <2>1. pos'.t1 = pos.t1 /\ pos'.stop = d.price
    BY <1>5, WriteFacts
  <2>2. ~ pos.locked /\ Better(pos.side, d.price, pos.stop)
    BY <1>5, DecisionFacts
  <2> QED BY <2>1, <2>2 DEF Better
<1> QED BY <1>1, <1>3, <1>4, <1>5 DEF Actions

(* The protective stop is never loosened: whichever job decides, on what   *)
(* evidence and in what order, the stop of the row moves toward profit or  *)
(* stays.                                                                  *)
THEOREM StopsOnlyTighten == Spec => StopNeverLoosened
<1>1. ASSUME TypeOK, [Next]_vars PROVE AtLeast(pos.side, pos'.stop, pos.stop)
  <2>1. pos \in Levels /\ pos.stop \in Int /\ pos.side \in {"LONG", "SHORT"}
    BY <1>1 DEF TypeOK, Levels
  <2>2. UNCHANGED pos => AtLeast(pos.side, pos'.stop, pos.stop)
    BY <2>1, SideOrder
  <2>3. CASE Next
    BY <1>1, <2>1, <2>2, <2>3, RowChanges, StopTightens
  <2>4. CASE UNCHANGED vars
    BY <2>2, <2>4 DEF vars
  <2> QED BY <1>1, <2>3, <2>4
<1> QED BY <1>1, ReplayTypeCorrect, PTL DEF Spec, StopNeverLoosened

-----------------------------------------------------------------------------
(* The invariants                                                          *)

\* Levels stay in order, whatever the stop does.
LevelsKept ==
    /\ Ordered(pos)
    /\ AtLeast(pos.side, pos.stop, pos.initial)
    /\ pos.t1 => pos.staged

\* The checkpoint and the pass stand at the end of a stored candle, except
\* where the entry or the one-second job put the checkpoint.
PassKept ==
    /\ checkpoint \in Cuts \/ \E d \in 0 .. stored - 1 : checkpoint = End(d)
    /\ rec.last = NoTime \/ \E d \in 0 .. stored - 1 : rec.last = End(d)
    /\ rec.pc = "idle" => rec = Idle

\* Candle c is cut in two by the checkpoint.
Overlaps(c) == Start(c) < checkpoint /\ checkpoint < End(c)

\* What the second look after target 1 holds in its hands.
LookKept ==
    rec.pc = "recheck" =>
        /\ pos.t1
        /\ ~ rec.evidence.live =>
             \E c \in 0 .. stored - 1 : rec.evidence = Candle(c) /\ rec.last = End(c)
        /\ rec.evidence.live => rec.last = NoTime
        /\ rec.evidence.live /\ ~ LiveFallback =>
             \E c \in 0 .. stored - 1 :
                /\ rec.evidence = PointAt(Mark(End(c) - 1), End(c), TRUE)
                /\ Overlaps(c) \/ End(c) =< checkpoint + MaxAge

\* The pass in progress, or one before it, is done with candle c.
Passed(c) ==
    \/ End(c) =< checkpoint
    \/ End(c) =< rec.last
    \/ c \notin rec.queue /\ \E d \in rec.queue : c < d

Rechecking(c) == rec.pc = "recheck" /\ ~ rec.evidence.live /\ rec.last = End(c)

\* No tick of c touched the stop of an official row.
Untouched(c) == pos.official /\ pos.locked => \A k \in Ticks(c) : ~ Breached(k)

\* c did not reach target 2, or the second look is about to find that out, or
\* it was refused the row.
ShortOfTarget2(c) ==
    End(c) \in lost \/ Rechecking(c) \/ ~ TargetHit(pos, Candle(c), pos.target2)

Judged ==
    status = "OPEN" =>
        \A c \in 0 .. stored - 1 :
            Passed(c) /\ Uncut(c) => Untouched(c) /\ ShortOfTarget2(c)

\* How young the active stop may be, unless a live mark of the reconciler
\* set it: of the age of a quote after the checkpoint, or from the close of
\* the candle the checkpoint cuts in two, behind the mark it was set on.
StopDated ==
    status = "OPEN" /\ ~ (LiveFallback /\ passStop) =>
        \/ stopSince =< checkpoint + MaxAge
        \/ \E c \in 0 .. stored - 1 :
              Overlaps(c) /\ stopSince =< End(c) /\ ~ Breached(End(c) - 1)

ReplayInv == TypeOK /\ LevelsKept /\ PassKept /\ LookKept /\ Judged /\ StopDated

-----------------------------------------------------------------------------
(* What every step respects                                                *)

\* Of a row only the stop and the mark of target 1 change; closed is closed.
LEMMA RowKept ==
    ASSUME TypeOK, [Next]_vars
    PROVE  /\ pos \in Levels /\ pos' \in Levels
           /\ UNCHANGED <<pos.side, pos.entry, pos.initial, pos.target1, pos.target2,
                          pos.staged, pos.official, pos.locked>>
           /\ AtLeast(pos.side, pos'.stop, pos.stop)
           /\ pos.official /\ pos.locked => pos'.stop = pos.stop
           /\ pos.t1 => pos'.t1
           /\ pos'.t1 => pos.t1 \/ pos.staged
           /\ status' = "OPEN" => status = "OPEN"
<1>1. pos \in Levels /\ pos.stop \in Int /\ pos.side \in {"LONG", "SHORT"}
  BY DEF TypeOK, Levels
<1>2. CASE UNCHANGED <<pos, status>>
  <2>1. AtLeast(pos.side, pos.stop, pos.stop)
    BY <1>1, SideOrder
  <2> QED BY <1>1, <1>2, <2>1
<1>3. CASE ~ UNCHANGED <<pos, status>>
  <2>1. Next
    BY <1>3 DEF vars
  <2>2. PICK ev \in EvidenceType, evaluated \in {NoTime} \cup (0 .. now) :
               /\ Decide(pos, ev).action # "HOLD"
               /\ Apply(Decide(pos, ev), ev, evaluated)
    BY <1>3, <2>1, RowChanges
  <2>3. /\ pos' \in Levels
        /\ pos' = [pos EXCEPT !.t1 = pos'.t1, !.stop = pos'.stop]
        /\ Decide(pos, ev).action = "CLOSE" => status' = Decide(pos, ev).reason
        /\ Decide(pos, ev).action # "CLOSE" => UNCHANGED status
    BY <1>1, <2>2, WriteFacts
  <2>4. status' = "OPEN" => status = "OPEN"
    BY <1>1, <2>3, DecisionFacts DEF Triggers
  <2>5. UNCHANGED <<pos.side, pos.entry, pos.initial, pos.target1, pos.target2,
                    pos.staged, pos.official, pos.locked>>
    BY <1>1, <2>3 DEF Levels
  <2> QED BY <1>1, <2>2, <2>3, <2>4, <2>5, StopTightens
<1> QED BY <1>2, <1>3

LEMMA LostGrows ==
    ASSUME [Next]_vars PROVE lost \subseteq lost'
BY DEF Next, Reconcile, Tick, StoreCandle, FastExit, LockConflict, Fetch, FindClosed,
       ReplayCandle, RecheckTarget2, FinishPass, JudgeLiveMark, vars

LEMMA SameMarket ==
    ASSUME [Next]_vars
    PROVE  Tick \/ StoreCandle \/ UNCHANGED <<price, stored>>
<1>1. CASE UNCHANGED vars
  BY <1>1 DEF vars
<1>2. CASE Next
  BY <1>2 DEF Next, Reconcile, FastExit, LockConflict, Fetch, FindClosed,
              ReplayCandle, RecheckTarget2, FinishPass, JudgeLiveMark
<1> QED BY <1>1, <1>2

\* A mark that was shown and a candle that was stored stay as they are.
LEMMA MarketKept ==
    ASSUME TypeOK, [Next]_vars
    PROVE  /\ now \in Nat /\ now' \in Nat /\ now =< now'
           /\ stored \in Nat /\ stored' \in Nat /\ stored =< stored'
           /\ \A k \in 0 .. now : Mark(k)' = Mark(k)
           /\ \A c \in 0 .. stored - 1 : c \in 0 .. stored' - 1 /\ Candle(c)' = Candle(c)
<1>1. TypeOK'
  BY NextTypes
<1>2. now \in Nat /\ now' \in Nat /\ stored \in Nat /\ stored' \in Nat
  <2>1. /\ Len(price) > OpenedAt /\ Len(price) \in Nat /\ stored \in Nat
        /\ Len(price') > OpenedAt /\ Len(price') \in Nat /\ stored' \in Nat
    BY <1>1 DEF TypeOK
  <2> QED BY <2>1, TimeAssumption DEF now
<1>3. now =< now' /\ stored =< stored' /\ \A k \in 0 .. now : Mark(k)' = Mark(k)
  <2>1. CASE Tick
    <3>1. price \in Seq(Int) /\ UNCHANGED stored
      BY <2>1 DEF TypeOK, Tick
    <3>2. PICK p : price' = Append(price, p)
      BY <2>1 DEF Tick
    <3>3. Len(price') = Len(price) + 1 /\ Len(price) \in Nat
          /\ \A i \in 1 .. Len(price) : price'[i] = price[i]
      BY <3>1, <3>2
    <3>4. \A k \in 0 .. now : k + 1 \in 1 .. Len(price)
      BY <3>3 DEF now
    <3>5. now =< now' /\ stored =< stored'
      BY <1>2, <3>1, <3>3 DEF now
    <3> QED BY <3>3, <3>4, <3>5 DEF Mark
  <2>2. CASE UNCHANGED price /\ (stored' = stored + 1 \/ UNCHANGED stored)
    <3>1. now' = now /\ stored =< stored'
      BY <1>2, <2>2 DEF now
    <3>2. \A k \in 0 .. now : Mark(k)' = Mark(k)
      BY <2>2 DEF Mark
    <3> QED BY <1>2, <3>1, <3>2
  <2> QED BY <2>1, <2>2, SameMarket DEF StoreCandle
<1>4. ASSUME NEW c \in 0 .. stored - 1
      PROVE  c \in 0 .. stored' - 1 /\ Candle(c)' = Candle(c)
  <2>1. Ticks(c) \subseteq 0 .. now /\ End(c) - 1 \in Ticks(c)
    BY CandleMarks
  <2>2. Mark(End(c) - 1)' = Mark(End(c) - 1) /\ \A k \in Ticks(c) : Mark(k)' = Mark(k)
    BY <1>3, <2>1
  <2>3. {Mark(k) : k \in Ticks(c)}' = {Mark(k) : k \in Ticks(c)}
    BY <2>2
  <2>4. Candle(c)' = Candle(c)
    BY <2>2, <2>3 DEF Candle
  <2>5. c \in 0 .. stored' - 1
    <3>1. stored \in Nat /\ stored' \in Nat /\ stored =< stored'
      BY <1>2, <1>3
    <3>2. \A s, t \in Nat : s =< t => \A i \in 0 .. s - 1 : i \in 0 .. t - 1
      OBVIOUS
    <3> QED BY <3>1, <3>2
  <2> QED BY <2>4, <2>5
<1> QED BY <1>2, <1>3, <1>4

\* Carrying over what the replay has judged: each candle that counts as
\* passed after a step either did before, or has been found good by it.
LEMMA JudgedCarries ==
    ASSUME TypeOK, [Next]_vars, Judged,
           \A c \in 0 .. stored' - 1 :
               status = "OPEN" /\ status' = "OPEN" /\ Passed(c)' /\ Uncut(c)' =>
                   /\ c \in 0 .. stored - 1
                   /\ \/ Passed(c) /\ Uncut(c) /\ (Rechecking(c) => Rechecking(c)')
                      \/ /\ Untouched(c)
                         /\ \/ End(c) \in lost' \/ Rechecking(c)'
                            \/ ~ TargetHit(pos, Candle(c), pos.target2)
    PROVE  Judged'
<1> SUFFICES ASSUME status' = "OPEN", NEW c \in 0 .. stored' - 1, Passed(c)', Uncut(c)'
             PROVE  Untouched(c)' /\ ShortOfTarget2(c)'
  BY DEF Judged
<1>1. status = "OPEN"
  BY RowKept
<1>2. c \in 0 .. stored - 1
  BY <1>1
<1>3. /\ Untouched(c)
      /\ End(c) \in lost' \/ Rechecking(c)' \/ ~ TargetHit(pos, Candle(c), pos.target2)
  <2>1. CASE Passed(c) /\ Uncut(c) /\ (Rechecking(c) => Rechecking(c)')
    BY <1>1, <1>2, <2>1, LostGrows DEF Judged, ShortOfTarget2
  <2> QED BY <1>1, <2>1
<1>4. /\ pos'.side = pos.side /\ pos'.target2 = pos.target2 /\ pos'.locked = pos.locked
      /\ pos'.official = pos.official
      /\ pos.official /\ pos.locked => pos'.stop = pos.stop
  BY RowKept
<1>5. Ticks(c) \subseteq 0 .. now
  BY <1>2, CandleMarks
<1>6. Candle(c)' = Candle(c) /\ \A k \in Ticks(c) : Mark(k)' = Mark(k)
  BY <1>2, <1>5, MarketKept
<1>7. Untouched(c)'
  BY <1>3, <1>4, <1>6 DEF Untouched, Breached
<1>8. ShortOfTarget2(c)'
  BY <1>3, <1>4, <1>6 DEF ShortOfTarget2, TargetHit, Favourable
<1> QED BY <1>7, <1>8

LEMMA LevelsStay == TypeOK /\ LevelsKept /\ [Next]_vars => LevelsKept'
<1> SUFFICES ASSUME TypeOK, LevelsKept, [Next]_vars PROVE LevelsKept'
  OBVIOUS
<1>1. /\ pos \in Levels /\ pos' \in Levels
      /\ UNCHANGED <<pos.side, pos.entry, pos.initial, pos.target1, pos.target2, pos.staged>>
      /\ AtLeast(pos.side, pos'.stop, pos.stop)
      /\ pos'.t1 => pos.t1 \/ pos.staged
  BY RowKept
<1>2. Ordered(pos)'
  BY <1>1 DEF LevelsKept, Ordered, Gain
<1>3. AtLeast(pos.side, pos'.stop, pos.initial)
  <2>1. /\ pos.stop \in Int /\ pos'.stop \in Int /\ pos.initial \in Int
        /\ pos.side \in {"LONG", "SHORT"}
    BY <1>1 DEF Levels
  <2>2. AtLeast(pos.side, pos.stop, pos.initial)
    BY DEF LevelsKept
  <2> QED BY <1>1, <2>1, <2>2, SideOrder
<1> QED BY <1>1, <1>2, <1>3 DEF LevelsKept

LEMMA LookCarries ==
    ASSUME TypeOK, [Next]_vars, LookKept, UNCHANGED rec,
           UNCHANGED checkpoint \/ now - checkpoint' =< MaxAge
    PROVE  LookKept'
<1> SUFFICES ASSUME rec.pc = "recheck"
             PROVE  LookKept'
  BY DEF LookKept
<1>1. pos'.t1 /\ rec'.evidence = rec.evidence /\ rec'.last = rec.last
  BY RowKept DEF LookKept
<1>2. CASE ~ rec.evidence.live
  <2>1. PICK c \in 0 .. stored - 1 : rec.evidence = Candle(c) /\ rec.last = End(c)
    BY <1>2 DEF LookKept
  <2>2. c \in 0 .. stored' - 1 /\ rec'.evidence = Candle(c)' /\ rec'.last = End(c)
    BY <1>1, <2>1, MarketKept
  <2> QED BY <1>1, <1>2, <2>2 DEF LookKept
<1>3. CASE rec.evidence.live /\ LiveFallback
  BY <1>1, <1>3 DEF LookKept
<1>4. CASE rec.evidence.live /\ ~ LiveFallback
  <2>1. PICK c \in 0 .. stored - 1 :
                /\ rec.evidence = PointAt(Mark(End(c) - 1), End(c), TRUE)
                /\ Overlaps(c) \/ End(c) =< checkpoint + MaxAge
    BY <1>4 DEF LookKept
  <2>2. c \in 0 .. stored' - 1 /\ End(c) =< now /\ End(c) \in Nat /\ now \in Nat
        /\ End(c) - 1 \in 0 .. now
    <3>1. c \in Nat /\ End(c) =< now /\ End(c) - 1 \in Ticks(c) /\ Ticks(c) \subseteq 0 .. now
      BY CandleMarks
    <3> QED BY <3>1, CandleTimes, MarketKept
  <2>3. rec'.evidence = PointAt(Mark(End(c) - 1)', End(c), TRUE)
    BY <1>1, <2>1, <2>2, MarketKept
  <2>4. Overlaps(c)' \/ End(c) =< checkpoint' + MaxAge
    <3>1. checkpoint' \in Int /\ MaxAge \in Nat
      <4>1. TypeOK'
        BY NextTypes
      <4> QED BY <4>1, TimeAssumption DEF TypeOK
    <3>2. CASE UNCHANGED checkpoint
      BY <2>1, <3>2 DEF Overlaps
    <3>3. CASE now - checkpoint' =< MaxAge
      <4>1. \A n, e, k \in Int : e =< n /\ n - k =< MaxAge => e =< k + MaxAge
        BY <3>1
      <4>2. now \in Int /\ End(c) \in Int /\ End(c) =< now
        BY <2>2
      <4> QED BY <3>1, <3>3, <4>1, <4>2, Zenon
    <3> QED BY <3>2, <3>3
  <2> QED BY <1>1, <1>4, <2>2, <2>3, <2>4 DEF LookKept
<1> QED BY <1>2, <1>3, <1>4

LEMMA DatedCarries ==
    ASSUME TypeOK, [Next]_vars, StopDated, UNCHANGED <<checkpoint, stopSince>>,
           pos'.stop = pos.stop, passStop => passStop'
    PROVE  StopDated'
<1> SUFFICES ASSUME status' = "OPEN", ~ (LiveFallback /\ passStop')
             PROVE  StopDated'
  BY DEF StopDated
<1>1. status = "OPEN" /\ ~ (LiveFallback /\ passStop) /\ pos'.side = pos.side
  BY RowKept
<1>2. CASE stopSince =< checkpoint + MaxAge
  BY <1>2 DEF StopDated
<1>3. CASE ~ (stopSince =< checkpoint + MaxAge)
  <2>1. PICK c \in 0 .. stored - 1 :
              Overlaps(c) /\ stopSince =< End(c) /\ ~ Breached(End(c) - 1)
    BY <1>1, <1>3 DEF StopDated
  <2>2. c \in 0 .. stored' - 1 /\ End(c) - 1 \in 0 .. now
    BY CandleMarks, MarketKept
  <2>3. Mark(End(c) - 1)' = Mark(End(c) - 1)
    BY <2>2, MarketKept
  <2>4. Overlaps(c)' /\ stopSince' =< End(c) /\ ~ Breached(End(c) - 1)'
    BY <1>1, <2>1, <2>3 DEF Overlaps, Breached
  <2> QED BY <2>2, <2>4 DEF StopDated
<1> QED BY <1>2, <1>3

-----------------------------------------------------------------------------
(* Steps that decide nothing                                               *)

\* A candle just stored has not been passed: nothing stands after it yet.
LEMMA FreshUnpassed ==
    ASSUME TypeOK, PassKept, Passed(stored), Uncut(stored)
    PROVE  FALSE
<1>1. stored \in Nat /\ Start(stored) \in Nat /\ End(stored) \in Nat
      /\ Start(stored) < End(stored)
      /\ \A d \in 0 .. stored - 1 : End(d) < End(stored) /\ End(d) \in Nat
  <2>1. stored \in Nat
    BY DEF TypeOK
  <2>2. \A d \in 0 .. stored - 1 : d \in Nat /\ d < stored
    BY <2>1
  <2> QED BY <2>1, <2>2, CandleTimes
<1>2. checkpoint \in Nat /\ rec.queue \subseteq 0 .. stored - 1
  BY NowType DEF TypeOK
<1>3. CASE End(stored) =< checkpoint
  <2>1. checkpoint \in Cuts
    BY <1>1, <1>3 DEF PassKept
  <2>2. checkpoint =< Start(stored)
    BY <2>1 DEF Uncut
  <2> QED BY <1>1, <1>2, <1>3, <2>2
<1>4. CASE End(stored) =< rec.last
  BY <1>1, <1>4 DEF PassKept, NoTime
<1>5. CASE \E d \in rec.queue : stored < d
  BY <1>1, <1>2, <1>5
<1> QED BY <1>3, <1>4, <1>5 DEF Passed

LEMMA QuietSteps ==
    ASSUME ReplayInv,
           Tick \/ StoreCandle \/ Fetch \/ FindClosed \/ LockConflict \/ UNCHANGED vars
    PROVE  PassKept' /\ LookKept' /\ Judged' /\ StopDated'
<1> USE DEF ReplayInv
<1>1. [Next]_vars
  BY DEF Next, Reconcile
<1>2. UNCHANGED <<pos, status, exitAt, checkpoint, stopSince, seen, fastChanges, passStop>>
  BY DEF Tick, StoreCandle, Fetch, FindClosed, LockConflict, vars
<1>3. stored \in Nat /\ (stored' = stored + 1 \/ UNCHANGED stored)
  BY DEF TypeOK, Tick, StoreCandle, Fetch, FindClosed, LockConflict, vars
<1>4. \/ UNCHANGED rec
      \/ rec' = Idle /\ (status = "OPEN" => LockConflict) /\ UNCHANGED stored
      \/ /\ rec.pc = "idle" /\ rec' = [Idle EXCEPT !.pc = "fetched", !.queue = NewCandles]
         /\ UNCHANGED stored
  BY DEF Tick, StoreCandle, Fetch, FindClosed, LockConflict, vars
<1>5. Idle.pc = "idle" /\ Idle.last = NoTime /\ Idle.queue = {}
  BY DEF Idle
<1>6. PassKept'
  <2>1. Cuts' = Cuts
    BY <1>2 DEF Cuts
  <2>2. checkpoint' \in Cuts' \/ \E d \in 0 .. stored' - 1 : checkpoint' = End(d)
    BY <1>1, <1>2, <2>1, MarketKept DEF PassKept
  <2>3. CASE UNCHANGED rec
    <3>1. rec.last = NoTime \/ \E d \in 0 .. stored' - 1 : rec.last = End(d)
      BY <1>1, MarketKept DEF PassKept
    <3> QED BY <2>2, <2>3, <3>1 DEF PassKept
  <2>4. CASE rec' = Idle
    BY <1>5, <2>2, <2>4 DEF PassKept
  <2>5. CASE rec' = [Idle EXCEPT !.pc = "fetched", !.queue = NewCandles]
    <3>1. rec'.pc = "fetched" /\ rec'.last = NoTime
      BY <2>5 DEF Idle
    <3> QED BY <2>2, <3>1 DEF PassKept
  <2> QED BY <1>4, <2>3, <2>4, <2>5
<1>7. LookKept'
  <2>1. CASE UNCHANGED rec
    BY <1>1, <1>2, <2>1, LookCarries
  <2>2. CASE rec'.pc # "recheck"
    BY <2>2 DEF LookKept
  <2>3. [Idle EXCEPT !.pc = "fetched", !.queue = NewCandles].pc = "fetched"
    BY DEF Idle
  <2> QED BY <1>4, <1>5, <2>1, <2>2, <2>3
<1>8. Judged'
  <2> SUFFICES ASSUME NEW c \in 0 .. stored' - 1, status = "OPEN", Passed(c)', Uncut(c)'
               PROVE  /\ c \in 0 .. stored - 1
                      /\ \/ Passed(c) /\ Uncut(c) /\ (Rechecking(c) => Rechecking(c)')
                         \/ /\ Untouched(c)
                            /\ \/ End(c) \in lost' \/ Rechecking(c)'
                               \/ ~ TargetHit(pos, Candle(c), pos.target2)
    BY <1>1, <1>2, JudgedCarries
  <2>1. Uncut(c) /\ c \in Nat /\ End(c) \in Nat /\ checkpoint \in Nat
    BY <1>2, <1>3, CandleTimes, NowType DEF Uncut, Cuts, TypeOK
  <2>2. CASE UNCHANGED rec
    <3>1. Passed(c) /\ (Rechecking(c) => Rechecking(c)')
      BY <1>2, <2>2 DEF Passed, Rechecking
    <3>2. c # stored
      BY <2>1, <3>1, FreshUnpassed
    <3>3. c \in 0 .. stored - 1
      <4>1. \A s, t \in Nat : t = s + 1 \/ t = s =>
                \A i \in 0 .. t - 1 : i # s => i \in 0 .. s - 1
        OBVIOUS
      <4>2. stored' \in Nat
        BY <1>3
      <4> QED BY <1>3, <3>2, <4>1, <4>2
    <3> QED BY <2>1, <3>1, <3>3
  <2>3. CASE rec' = Idle /\ LockConflict /\ UNCHANGED stored
    <3>1. End(c) =< checkpoint
      BY <1>2, <1>5, <2>1, <2>3 DEF Passed, NoTime
    <3>2. Passed(c) /\ c \in 0 .. stored - 1
      BY <2>3, <3>1 DEF Passed
    <3>3. CASE Rechecking(c)
      <4>1. SecondLook /\ rec.evidence.end = End(c)
        <5>1. rec.pc = "recheck" /\ ~ rec.evidence.live /\ rec.last = End(c)
          BY <3>3 DEF Rechecking
        <5>2. PICK e \in 0 .. stored - 1 : rec.evidence = Candle(e) /\ rec.last = End(e)
          BY <5>1 DEF LookKept
        <5>3. Candle(e).end = End(e)
          BY DEF Candle
        <5> QED BY <5>1, <5>2, <5>3 DEF SecondLook
      <4>2. End(c) \in lost'
        BY <2>3, <4>1 DEF LockConflict
      <4> QED BY <2>1, <3>2, <4>2 DEF Judged
    <3>4. CASE ~ Rechecking(c)
      BY <2>1, <3>2, <3>4
    <3> QED BY <3>3, <3>4
  <2>4. CASE /\ rec.pc = "idle" /\ rec' = [Idle EXCEPT !.pc = "fetched", !.queue = NewCandles]
             /\ UNCHANGED stored
    <3>1. rec'.last = NoTime /\ rec'.queue = NewCandles /\ c \in 0 .. stored - 1
      BY <2>4 DEF Idle
    <3>2. c \notin NewCandles => End(c) =< checkpoint
      BY <2>1, <3>1 DEF NewCandles
    <3>3. End(c) =< checkpoint
      BY <1>2, <2>1, <3>1, <3>2 DEF Passed, NoTime
    <3>4. Passed(c) /\ ~ Rechecking(c)
      BY <2>4, <3>3 DEF Passed, Rechecking
    <3> QED BY <2>1, <3>1, <3>4
  <2> QED BY <1>4, <2>2, <2>3, <2>4
<1>9. StopDated'
  BY <1>1, <1>2, DatedCarries
<1> QED BY <1>6, <1>7, <1>8, <1>9

LEMMA FinishSteps ==
    ASSUME ReplayInv, FinishPass
    PROVE  PassKept' /\ LookKept' /\ Judged' /\ StopDated'
<1> USE DEF ReplayInv
<1>1. [Next]_vars
  BY DEF Next, Reconcile
<1>2. /\ rec.pc \in {"fetched", "holding"} /\ rec' = Idle
      /\ checkpoint' = IF rec.last > checkpoint THEN rec.last ELSE checkpoint
      /\ UNCHANGED <<price, stored, pos, status, stopSince, fastChanges, passStop>>
  BY DEF FinishPass
<1>3. checkpoint \in Nat /\ stored \in Nat /\ stopSince \in Nat /\ MaxAge \in Nat
      /\ rec.last \in Int
  BY NowType, TimeAssumption DEF TypeOK, NoTime
<1>4. Idle.pc = "idle" /\ Idle.last = NoTime /\ Idle.queue = {}
  BY DEF Idle
<1>5. \/ checkpoint' = checkpoint
      \/ \E d \in 0 .. stored - 1 : checkpoint' = End(d) /\ rec.last = End(d)
                                    /\ checkpoint < End(d)
  BY <1>2, <1>3 DEF PassKept, NoTime
<1>6. PassKept'
  <2>1. Cuts' = Cuts
    BY <1>2 DEF Cuts
  <2>2. checkpoint' \in Cuts' \/ \E d \in 0 .. stored' - 1 : checkpoint' = End(d)
    BY <1>2, <1>5, <2>1 DEF PassKept
  <2> QED BY <1>2, <1>4, <2>2 DEF PassKept
<1>7. LookKept'
  BY <1>2, <1>4 DEF LookKept
<1>8. Judged'
  <2> SUFFICES ASSUME NEW c \in 0 .. stored' - 1, Passed(c)', Uncut(c)'
               PROVE  Passed(c) /\ Uncut(c) /\ ~ Rechecking(c)
    BY <1>1, <1>2, JudgedCarries
  <2>1. c \in Nat /\ End(c) \in Nat
    BY <1>2, <1>3, CandleTimes
  <2>2. End(c) =< checkpoint'
    BY <1>2, <1>4, <2>1 DEF Passed, NoTime
  <2>3. Passed(c)
    BY <1>5, <2>2 DEF Passed
  <2> QED BY <1>2, <2>3 DEF Uncut, Cuts, Rechecking
<1>9. StopDated'
  <2>1. CASE checkpoint' = checkpoint
    BY <1>1, <1>2, <2>1, DatedCarries
  <2>2. ASSUME NEW d \in 0 .. stored - 1, checkpoint' = End(d), checkpoint < End(d)
        PROVE  StopDated'
    <3>1. d \in Nat /\ End(d) \in Nat /\ Start(d) \in Nat
      BY <1>3, CandleTimes
    <3>2. SUFFICES ASSUME status = "OPEN", ~ (LiveFallback /\ passStop)
                   PROVE  stopSince =< End(d) + MaxAge
      BY <1>2, <2>2 DEF StopDated
    <3>3. CASE stopSince =< checkpoint + MaxAge
      BY <1>3, <2>2, <3>1, <3>3
    <3>4. CASE \E c \in 0 .. stored - 1 : Overlaps(c) /\ stopSince =< End(c)
      <4>1. PICK c \in 0 .. stored - 1 : Overlaps(c) /\ stopSince =< End(c)
        BY <3>4
      <4>2. c \in Nat /\ Start(c) \in Nat /\ End(c) \in Nat
        BY <1>3, CandleTimes
      <4>3. ~ (d < c)
        <5>1. d < c => End(d) =< Start(c)
          BY <3>1, <4>2, CandleTimes
        <5> QED BY <1>3, <2>2, <3>1, <4>1, <4>2, <5>1 DEF Overlaps
      <4>4. End(c) =< End(d)
        <5>1. c < d => End(c) < End(d)
          BY <3>1, <4>2, CandleTimes
        <5> QED BY <3>1, <4>2, <4>3, <5>1
      <4> QED BY <1>3, <3>1, <4>1, <4>2, <4>4
    <3> QED BY <3>2, <3>3, <3>4 DEF StopDated
  <2> QED BY <1>5, <2>1, <2>2
<1> QED BY <1>6, <1>7, <1>8, <1>9

-----------------------------------------------------------------------------
(* Steps that decide                                                       *)

LEMMA FastSteps ==
    ASSUME ReplayInv, FastExit
    PROVE  PassKept' /\ LookKept' /\ Judged' /\ StopDated'
<1> USE DEF ReplayInv
<1>1. [Next]_vars
  BY DEF Next
<1>2. PICK k \in seen .. now :
        /\ now - k =< MaxAge
        /\ Decide(pos, LiveMark(k)).action # "HOLD"
        /\ Apply(Decide(pos, LiveMark(k)), LiveMark(k), k)
        /\ fastChanges' = fastChanges \cup {k}
  BY DEF FastExit
<1> DEFINE d == Decide(pos, LiveMark(k))
<1>3. UNCHANGED <<price, stored, rec>> /\ status = "OPEN"
  BY DEF FastExit
<1>4. now \in Nat /\ k \in 0 .. now /\ k \in Nat /\ stored \in Nat /\ stopSince \in 0 .. now
      /\ MaxAge \in Nat /\ pos \in Levels
  <2>1. now \in Nat /\ seen \in 0 .. now
    BY NowType DEF TypeOK
  <2> HIDE DEF now
  <2> QED BY <1>2, <2>1, TimeAssumption DEF TypeOK
<1>5. LiveMark(k) \in EvidenceType /\ LiveMark(k).end = k
  BY <1>4, LiveFacts
<1>6. /\ d.action = "CLOSE" => status' # "OPEN" /\ UNCHANGED <<checkpoint, stopSince>>
      /\ d.action # "CLOSE" => /\ checkpoint' = k
                              /\ stopSince' = IF pos'.stop = pos.stop THEN stopSince ELSE k
  <2>1. /\ d.action = "CLOSE" => status' = d.reason /\ UNCHANGED <<checkpoint, stopSince>>
        /\ d.action # "CLOSE" => /\ checkpoint' = IF k = NoTime THEN checkpoint ELSE k
                                /\ stopSince' = IF pos'.stop = pos.stop THEN stopSince ELSE k
    BY <1>2, <1>4, <1>5, WriteFacts
  <2>2. d.action = "CLOSE" => d.reason \in Triggers
    BY <1>4, <1>5, DecisionFacts
  <2>3. k # NoTime
    BY <1>4 DEF NoTime
  <2> QED BY <2>1, <2>2, <2>3 DEF Triggers
<1> HIDE DEF d
<1>7. Cuts \subseteq Cuts' /\ k \in Cuts'
  BY <1>2 DEF Cuts
<1>8. PassKept'
  <2>1. checkpoint' \in Cuts' \/ \E c \in 0 .. stored - 1 : checkpoint' = End(c)
    BY <1>6, <1>7 DEF PassKept
  <2> QED BY <1>3, <2>1 DEF PassKept
<1>9. LookKept'
  BY <1>1, <1>2, <1>3, <1>6, LookCarries
<1>10. Judged'
  <2> SUFFICES ASSUME NEW c \in 0 .. stored' - 1, status' = "OPEN", Passed(c)', Uncut(c)'
               PROVE  Passed(c) /\ Uncut(c) /\ (Rechecking(c) => Rechecking(c)')
    BY <1>1, <1>3, JudgedCarries
  <2>1. c \in Nat /\ End(c) \in Nat /\ Start(c) \in Nat /\ Start(c) < End(c)
    BY <1>3, <1>4, CandleTimes
  <2>2. k =< Start(c) /\ Uncut(c)
    BY <1>7 DEF Uncut
  <2>3. ~ (End(c) =< checkpoint')
    BY <1>4, <1>6, <2>1, <2>2
  <2> QED BY <1>3, <2>2, <2>3 DEF Passed, Rechecking
<1>11. StopDated'
  <2> SUFFICES ASSUME d.action # "CLOSE" PROVE stopSince' =< checkpoint' + MaxAge
    BY <1>6 DEF StopDated
  <2>1. stopSince =< k + MaxAge /\ k =< k + MaxAge
    <3> HIDE DEF now
    <3> QED BY <1>2, <1>4
  <2> QED BY <1>6, <2>1
<1> QED BY <1>8, <1>9, <1>10, <1>11

LEMMA LiveSteps ==
    ASSUME ReplayInv, JudgeLiveMark
    PROVE  PassKept' /\ LookKept' /\ Judged' /\ StopDated'
<1> USE DEF ReplayInv
<1>1. [Next]_vars
  BY DEF Next, Reconcile
<1> DEFINE ev == LiveMark(now)
           d == Decide(pos, ev)
<1>2. /\ LiveFallback /\ rec.pc = "idle" /\ status = "OPEN" /\ d.action # "HOLD"
      /\ Apply(d, ev, NoTime) /\ PassSetsStop
      /\ rec' = IF d.action = "PARTIAL_CLOSE"
                THEN [Idle EXCEPT !.pc = "recheck", !.evidence = ev] ELSE Idle
      /\ UNCHANGED <<price, stored, seen, fastChanges, lost>>
  BY LiveCases
<1>3. ev \in EvidenceType /\ ev.live = TRUE /\ pos \in Levels
  <2>1. now \in 0 .. now /\ pos \in Levels
    <3>1. now \in Nat /\ pos \in Levels
      BY NowType DEF TypeOK
    <3> HIDE DEF now
    <3> QED BY <3>1
  <2> QED BY <2>1, LiveFacts
<1> HIDE DEF ev
<1>4. /\ UNCHANGED checkpoint
      /\ d.action = "CLOSE" => status' # "OPEN" /\ UNCHANGED <<pos, stopSince>>
      /\ d.action # "CLOSE" => stopSince' = IF pos'.stop = pos.stop THEN stopSince ELSE ev.end
      /\ d.action = "PARTIAL_CLOSE" => pos'.t1
  <2>1. /\ d.action = "CLOSE" =>
               status' = d.reason /\ UNCHANGED <<pos, checkpoint, stopSince>>
        /\ d.action # "CLOSE" =>
               /\ UNCHANGED checkpoint
               /\ stopSince' = IF pos'.stop = pos.stop THEN stopSince ELSE ev.end
        /\ d.action = "PARTIAL_CLOSE" => pos'.t1
    BY <1>2, <1>3, WriteFacts
  <2>2. d.action = "CLOSE" => d.reason \in Triggers
    BY <1>3, DecisionFacts
  <2> QED BY <2>1, <2>2 DEF Triggers
<1> HIDE DEF d
<1>5. /\ rec'.last = NoTime /\ rec'.queue = {}
      /\ rec'.pc = "idle" => rec' = Idle
      /\ rec'.pc = "recheck" => rec'.evidence = ev /\ d.action = "PARTIAL_CLOSE"
  BY <1>2 DEF Idle
<1>6. PassKept'
  BY <1>2, <1>4, <1>5 DEF PassKept, Cuts
<1>7. LookKept'
  BY <1>2, <1>3, <1>4, <1>5 DEF LookKept
<1>8. Judged'
  <2> SUFFICES ASSUME NEW c \in 0 .. stored' - 1, Passed(c)', Uncut(c)'
               PROVE  Passed(c) /\ Uncut(c) /\ ~ Rechecking(c)
    BY <1>1, <1>2, JudgedCarries
  <2>1. c \in Nat /\ End(c) \in Nat
    BY <1>2, CandleTimes DEF TypeOK
  <2>2. End(c) =< checkpoint
    BY <1>4, <1>5, <2>1 DEF Passed, NoTime
  <2> QED BY <1>2, <2>2 DEF Passed, Uncut, Cuts, Rechecking
<1>9. StopDated'
  <2>1. CASE pos'.stop = pos.stop
    <3>1. UNCHANGED stopSince
      BY <1>4, <2>1
    <3>2. passStop => passStop'
      BY <1>2 DEF PassSetsStop
    <3> QED BY <1>1, <1>4, <2>1, <3>1, <3>2, DatedCarries
  <2>2. CASE pos'.stop # pos.stop
    BY <1>2, <2>2 DEF StopDated, PassSetsStop
  <2> QED BY <2>1, <2>2
<1> QED BY <1>6, <1>7, <1>8, <1>9

\* A candle touched the stop exactly when one of its ticks did.
LEMMA StopInTicks ==
    ASSUME TypeOK, NEW c \in 0 .. stored - 1
    PROVE  StopHit(pos, Candle(c)) <=> \E k \in Ticks(c) : Breached(k)
<1>1. /\ \A k \in Ticks(c) : Mark(k) \in Int /\ Candle(c).low =< Mark(k) /\ Mark(k) =< Candle(c).high
      /\ \E k \in Ticks(c) : Mark(k) = Candle(c).low
      /\ \E k \in Ticks(c) : Mark(k) = Candle(c).high
      /\ Candle(c) \in EvidenceType
  BY CandleMarks
<1>2. pos.stop \in Int /\ Candle(c).low \in Int /\ Candle(c).high \in Int
  BY <1>1 DEF TypeOK, Levels, EvidenceType
<1> QED BY <1>1, <1>2 DEF StopHit, Breached, Adverse, AtLeast

LEMMA Target2Beyond ==
    ASSUME NEW p \in Levels, Ordered(p), NEW ev \in EvidenceType,
           TargetHit(p, ev, p.target2)
    PROVE  TargetHit(p, ev, p.target1)
BY DEF Levels, EvidenceType, Ordered, Gain, TargetHit, Favourable, AtLeast

\* A candle the checkpoint cuts in two is one that the one-second job cut.
LEMMA OverlapIsCut ==
    ASSUME TypeOK, PassKept, NEW c \in 0 .. stored - 1, Overlaps(c)
    PROVE  ~ Uncut(c)
<1>1. c \in Nat /\ Start(c) \in Nat /\ End(c) \in Nat /\ checkpoint \in Nat
  BY CandleTimes, NowType DEF TypeOK
<1>2. CASE checkpoint \in Cuts
  BY <1>1, <1>2 DEF Uncut, Overlaps
<1>3. ASSUME NEW d \in 0 .. stored - 1, checkpoint = End(d)
      PROVE  FALSE
  <2>1. d \in Nat /\ End(d) \in Nat
    <3>1. d \in Nat
      BY DEF TypeOK
    <3> QED BY <3>1, CandleTimes
  <2>2. /\ d < c => End(d) =< Start(c)
        /\ c < d => End(c) < End(d)
    BY <1>1, <2>1, CandleTimes
  <2> QED BY <1>1, <1>3, <2>1, <2>2 DEF Overlaps
<1> QED BY <1>2, <1>3 DEF PassKept

\* A whole candle that did not close the position left the stop alone, and
\* reached target 2 only if it took target 1 and is looked at again.
LEMMA QuietCandle ==
    ASSUME TypeOK, LevelsKept, NEW c \in 0 .. stored - 1,
           NEW d, d = Decide(pos, Candle(c)), d.action # "CLOSE"
    PROVE  /\ Untouched(c)
           /\ TargetHit(pos, Candle(c), pos.target2) =>
                 d.action = "PARTIAL_CLOSE" /\ NeedsTarget2Recheck(Candle(c))
<1>1. pos \in Levels /\ Candle(c) \in EvidenceType
  BY CandleMarks DEF TypeOK
<1>2. Untouched(c)
  <2>1. ~ StopHit(pos, Candle(c))
    BY <1>1, DecisionFacts
  <2> QED BY <2>1, StopInTicks DEF Untouched
<1>3. d.action \in {"HOLD", "MOVE_STOP"} => ~ TargetHit(pos, Candle(c), pos.target2)
  <2>1. d.action \in {"HOLD", "MOVE_STOP"} =>
          ~ TargetHit(pos, Candle(c), IF pos.staged /\ pos.t1 THEN pos.target2 ELSE pos.target1)
    BY <1>1, DecisionFacts
  <2>2. TargetHit(pos, Candle(c), pos.target2) => TargetHit(pos, Candle(c), pos.target1)
    BY <1>1, Target2Beyond DEF LevelsKept
  <2> QED BY <2>1, <2>2
<1>4. d.action \in Actions
  BY <1>1, DecisionFacts
<1> QED BY <1>2, <1>3, <1>4 DEF Actions, NeedsTarget2Recheck

\* Judging candle c, the first of the queue, passes no other candle.
LEMMA OnlyOnePassed ==
    ASSUME TypeOK, NEW c \in rec.queue, \A e \in rec.queue : c =< e,
           UNCHANGED stored, rec'.queue = rec.queue \ {c},
           rec'.last = rec.last \/ rec'.last = Evaluated(c),
           checkpoint' = checkpoint \/ checkpoint' = End(c),
           NEW e \in 0 .. stored - 1, Passed(e)'
    PROVE  Passed(e) \/ e = c
<1>1. c \in Nat /\ e \in Nat /\ End(c) \in Nat /\ End(e) \in Nat
  <2>1. c \in 0 .. stored - 1
    BY DEF TypeOK
  <2> QED BY <2>1, CandleTimes DEF TypeOK
<1>2. CASE e < c
  <2>1. e \notin rec.queue
    BY <1>1, <1>2
  <2> QED BY <1>2, <2>1 DEF Passed
<1>3. CASE c < e
  <2>1. End(c) < End(e)
    BY <1>1, <1>3, CandleTimes
  <2>2. CASE End(e) =< checkpoint'
    BY <1>1, <2>1, <2>2 DEF Passed
  <2>3. CASE End(e) =< rec'.last
    BY <1>1, <2>1, <2>3 DEF Passed, Evaluated, NoTime
  <2>4. CASE e \notin rec'.queue /\ \E d \in rec'.queue : e < d
    BY <1>3, <2>4 DEF Passed
  <2> QED BY <2>2, <2>3, <2>4 DEF Passed
<1> QED BY <1>1, <1>2, <1>3

\* A stop moved on the single mark of an overlapped candle lies behind it.
LEMMA MovedStopBehind ==
    ASSUME TypeOK, LevelsKept, NEW ev \in EvidenceType, Point(ev), NEW evaluated,
           Decide(pos, ev).action \in {"PARTIAL_CLOSE", "MOVE_STOP"},
           Apply(Decide(pos, ev), ev, evaluated)
    PROVE  ~ AtLeast(pos.side, pos'.stop, ev.close)
<1> DEFINE d == Decide(pos, ev)
<1>1. pos \in Levels /\ Ordered(pos) /\ AtLeast(pos.side, pos.stop, pos.initial)
  BY DEF TypeOK, LevelsKept
<1>2. ~ StopHit(pos, ev)
  BY <1>1, DecisionFacts
<1>3. CASE d.action = "PARTIAL_CLOSE"
  <2>1. pos'.stop = StopAfterTarget1 /\ TargetHit(pos, ev, pos.target1)
    BY <1>1, <1>3, WriteFacts, DecisionFacts
  <2>2. CASE pos.official
    <3>1. pos'.stop = pos.stop
      BY <2>1, <2>2 DEF StopAfterTarget1
    <3> QED BY <1>2, <3>1 DEF StopHit, Adverse, Point
  <2>3. CASE ~ pos.official
    BY <1>1, <1>2, <2>1, <2>3, MovedBehindMark DEF StopAfterTarget1
  <2> QED BY <2>2, <2>3
<1>4. CASE d.action = "MOVE_STOP"
  <2>1. pos'.stop = d.price
    BY <1>1, <1>4, WriteFacts
  <2>2. /\ Better(pos.side, d.price, pos.stop)
        /\ \/ d.price = pos.target1 /\ TrailTriggerHit(pos, ev)
           \/ d.price = TrailingStop(pos, ev) /\ TrailsAt(pos, ev)
    BY <1>1, <1>4, DecisionFacts
  <2> QED BY <1>1, <1>2, <2>1, <2>2, MovedBehindMark
<1> QED BY <1>3, <1>4

LEMMA ReplaySteps ==
    ASSUME ReplayInv, ReplayCandle
    PROVE  PassKept' /\ LookKept' /\ Judged' /\ StopDated'
<1> USE DEF ReplayInv
<1>1. [Next]_vars
  BY DEF Next, Reconcile
<1>2. /\ rec.pc \in {"fetched", "holding"} /\ status = "OPEN"
      /\ UNCHANGED <<price, stored, seen, fastChanges, lost>>
  BY ReplayCases
<1>3. PICK c \in rec.queue : /\ c \in 0 .. stored - 1 /\ \A e \in rec.queue : c =< e
                             /\ PassOver(c) \/ FindQuiet(c) \/ ActOn(c)
  BY ReplayCases
<1> DEFINE ev == Evidence(c)
           d == Decide(pos, ev)
<1>4. /\ c \in Nat /\ Start(c) \in Nat /\ End(c) \in Nat /\ checkpoint \in Nat
      /\ pos \in Levels /\ stopSince \in Nat /\ stopSince =< now /\ now \in Nat
      /\ MaxAge \in Nat
  <2>1. now \in Nat /\ checkpoint \in 0 .. now /\ stopSince \in 0 .. now /\ pos \in Levels
    BY NowType DEF TypeOK
  <2>2. c \in Nat /\ Start(c) \in Nat /\ End(c) \in Nat
    BY <1>3, CandleMarks, CandleTimes
  <2> HIDE DEF now
  <2> QED BY <2>1, <2>2, TimeAssumption
<1>5. /\ ev \in EvidenceType /\ ev.end = End(c) /\ ev.live = Predates(c)
      /\ ~ Predates(c) => ev = Candle(c)
      /\ Predates(c) => Point(ev) /\ ev.close = Mark(End(c) - 1)
      /\ Predates(c) => ev = PointAt(Mark(End(c) - 1), End(c), TRUE)
  BY <1>3, EvidenceFacts DEF Evidence
<1> HIDE DEF ev
\* A decision that closes the position leaves nothing to show.
<1>6. ASSUME ActOn(c), d.action = "CLOSE"
      PROVE  PassKept' /\ LookKept' /\ Judged' /\ StopDated'
  <2>1. Apply(d, ev, Evaluated(c)) /\ d.action # "HOLD" /\ rec' = Idle
    BY <1>6 DEF ActOn, ev
  <2>2. status' = d.reason /\ UNCHANGED checkpoint /\ d.reason # "OPEN"
    BY <1>4, <1>5, <1>6, <2>1, WriteFacts, DecisionFacts DEF Triggers
  <2>3. PassKept'
    BY <1>2, <2>1, <2>2 DEF PassKept, Idle, Cuts
  <2>4. LookKept'
    BY <2>1 DEF LookKept, Idle
  <2> QED BY <2>2, <2>3, <2>4 DEF Judged, StopDated
<1>7. CASE PassOver(c) \/ FindQuiet(c) \/ (ActOn(c) /\ d.action # "CLOSE")
  \* What these three have in common.
  <2> DEFINE again == d.action = "PARTIAL_CLOSE" /\ NeedsTarget2Recheck(ev)
  <2>1. rec.queue \subseteq 0 .. stored - 1 /\ stored \in Nat
    BY DEF TypeOK
  <2>2. CASE PassOver(c)
    <3>1. /\ rec'.queue = rec.queue \ {c} /\ rec'.last = rec.last /\ rec'.pc = "holding"
          /\ RowSame /\ End(c) =< checkpoint
      BY <2>2 DEF PassOver, TypeOK
    <3>2. PassKept'
      BY <1>2, <3>1 DEF PassKept, Cuts, RowSame
    <3>3. LookKept'
      BY <3>1 DEF LookKept
    <3>4. ASSUME NEW e \in 0 .. stored' - 1, Passed(e)', Uncut(e)'
          PROVE  Passed(e) /\ Uncut(e) /\ ~ Rechecking(e)
      <4>1. Passed(e) \/ e = c
        BY <1>2, <1>3, <3>1, <3>4, OnlyOnePassed DEF RowSame
      <4> QED BY <1>2, <3>1, <3>4, <4>1 DEF Passed, Uncut, Cuts, Rechecking
    <3>5. Judged'
      BY <1>1, <1>2, <3>4, JudgedCarries
    <3>6. StopDated'
      BY <1>1, <3>1, DatedCarries DEF RowSame
    <3> QED BY <3>2, <3>3, <3>5, <3>6
  <2>3. CASE FindQuiet(c) \/ (ActOn(c) /\ d.action # "CLOSE")
    <3>1. /\ ~ (Predates(c) /\ End(c) =< checkpoint)
          /\ rec'.queue = rec.queue \ {c} /\ rec'.last = Evaluated(c)
          /\ rec'.pc \in {"holding", "fetched", "recheck"}
          /\ rec'.pc = "recheck" <=> ActOn(c) /\ again
          /\ rec'.pc = "recheck" => rec'.evidence = ev
          /\ FindQuiet(c) => d.action = "HOLD" /\ RowSame
          /\ ActOn(c) => d.action # "HOLD" /\ Apply(d, ev, Evaluated(c)) /\ PassSetsStop
      <4>1. CASE FindQuiet(c)
        <5>1. ~ ActOn(c)
          BY <4>1 DEF FindQuiet, ActOn
        <5> QED BY <4>1, <5>1 DEF FindQuiet, TypeOK, ev
      <4>2. CASE ActOn(c) /\ d.action # "CLOSE"
        <5>1. ~ FindQuiet(c)
          BY <4>2 DEF FindQuiet, ActOn
        <5>2. /\ ~ (Predates(c) /\ End(c) =< checkpoint)
              /\ d.action # "HOLD" /\ Apply(d, ev, Evaluated(c)) /\ PassSetsStop
              /\ again => rec' = [rec EXCEPT !.pc = "recheck", !.queue = @ \ {c},
                                             !.last = Evaluated(c), !.evidence = ev]
              /\ ~ again => rec' = [rec EXCEPT !.pc = "fetched", !.queue = @ \ {c},
                                               !.last = Evaluated(c)]
          BY <4>2 DEF ActOn, ev
        <5> HIDE DEF again, d
        <5> QED BY <4>2, <5>1, <5>2 DEF TypeOK
      <4> QED BY <2>3, <4>1, <4>2
    <3>2. ActOn(c) =>
            /\ checkpoint' = IF Evaluated(c) = NoTime THEN checkpoint ELSE Evaluated(c)
            /\ stopSince' = IF pos'.stop = pos.stop THEN stopSince ELSE End(c)
            /\ d.action = "PARTIAL_CLOSE" => pos'.t1
            /\ d.action \in {"PARTIAL_CLOSE", "MOVE_STOP"}
      BY <1>4, <1>5, <2>3, <3>1, WriteFacts, DecisionFacts DEF Actions, FindQuiet, ActOn, ev
    <3>3. Predates(c) => Overlaps(c) /\ Evaluated(c) = NoTime /\ UNCHANGED checkpoint
      BY <1>4, <2>3, <3>1, <3>2 DEF Predates, Overlaps, Evaluated, RowSame
    <3>4. ~ Predates(c) =>
            /\ Evaluated(c) = End(c) /\ checkpoint =< Start(c)
            /\ ActOn(c) => checkpoint' = End(c)
      BY <1>4, <3>2 DEF Predates, Evaluated, NoTime
    <3>5. checkpoint' = checkpoint \/ (checkpoint' = End(c) /\ ~ Predates(c))
      BY <2>3, <3>1, <3>3, <3>4 DEF RowSame
    <3>6. PassKept'
      <4>1. rec'.last = NoTime \/ \E e \in 0 .. stored - 1 : rec'.last = End(e)
        BY <1>3, <3>1 DEF Evaluated
      <4>2. checkpoint' \in Cuts' \/ \E e \in 0 .. stored - 1 : checkpoint' = End(e)
        BY <1>2, <1>3, <3>5 DEF PassKept, Cuts
      <4> QED BY <1>2, <3>1, <4>1, <4>2 DEF PassKept
    <3>7. LookKept'
      <4> SUFFICES ASSUME rec'.pc = "recheck" PROVE LookKept'
        BY DEF LookKept
      <4>1. pos'.t1 /\ rec'.evidence = ev /\ rec'.last = Evaluated(c)
        BY <3>1, <3>2
      <4>2. c \in 0 .. stored' - 1 /\ Candle(c)' = Candle(c)
            /\ Mark(End(c) - 1)' = Mark(End(c) - 1)
        BY <1>1, <1>2, <1>3, MarketKept DEF Mark
      <4>3. CASE Predates(c)
        <5>1. Overlaps(c)'
          BY <3>3, <4>3 DEF Overlaps
        <5>2. rec'.evidence.live = TRUE /\ rec'.last = NoTime
              /\ rec'.evidence = PointAt(Mark(End(c) - 1)', End(c), TRUE)
          BY <1>5, <3>3, <4>1, <4>2, <4>3
        <5> QED BY <4>1, <4>2, <5>1, <5>2 DEF LookKept
      <4>4. CASE ~ Predates(c)
        <5>1. rec'.evidence = Candle(c)' /\ rec'.last = End(c)
          BY <1>5, <3>4, <4>1, <4>2, <4>4
        <5>2. ~ rec'.evidence.live
          BY <1>5, <4>1, <4>4
        <5> QED BY <4>1, <4>2, <5>1, <5>2 DEF LookKept
      <4> QED BY <4>3, <4>4
    <3>8. Judged'
      <4> SUFFICES ASSUME NEW e \in 0 .. stored' - 1, Passed(e)', Uncut(e)'
                   PROVE  \/ Passed(e) /\ Uncut(e) /\ ~ Rechecking(e)
                          \/ /\ Untouched(e)
                             /\ \/ Rechecking(e)'
                                \/ ~ TargetHit(pos, Candle(e), pos.target2)
        BY <1>1, <1>2, JudgedCarries
      <4>1. Uncut(e) /\ ~ Rechecking(e)
        BY <1>2 DEF Uncut, Cuts, Rechecking
      <4>2. Passed(e) \/ e = c
        BY <1>2, <1>3, <3>1, <3>5, OnlyOnePassed
      <4>3. CASE e = c
        <5>1. ~ Predates(c)
          BY <1>3, <3>3, <4>1, <4>3, OverlapIsCut
        <5>2. ev = Candle(c) /\ d.action # "CLOSE" /\ d = Decide(pos, Candle(c))
          BY <1>5, <2>3, <3>1, <5>1
        <5>3. /\ Untouched(c)
              /\ TargetHit(pos, Candle(c), pos.target2) => again
          <6> HIDE DEF d
          <6> QED BY <1>3, <5>2, QuietCandle
        <5>4. again => Rechecking(c)'
          <6>1. again => ActOn(c)
            BY <2>3, <3>1
          <6>2. rec'.pc = "recheck" => ~ rec'.evidence.live /\ rec'.last = End(c)
            BY <1>5, <3>1, <3>4, <5>1
          <6> QED BY <3>1, <6>1, <6>2 DEF Rechecking
        <5> QED BY <4>3, <5>3, <5>4
      <4> QED BY <4>1, <4>2, <4>3
    <3>9. StopDated'
      <4>1. passStop => passStop'
        BY <2>3, <3>1 DEF RowSame, PassSetsStop
      <4>2. CASE UNCHANGED checkpoint /\ UNCHANGED stopSince /\ pos'.stop = pos.stop
        BY <1>1, <4>1, <4>2, DatedCarries
      <4>3. CASE ActOn(c) /\ ~ Predates(c)
        <5> SUFFICES ASSUME ~ (LiveFallback /\ passStop')
                     PROVE  stopSince' =< checkpoint' + MaxAge
          BY DEF StopDated
        <5>1. stopSince =< End(c) + MaxAge
          <6>1. checkpoint =< Start(c) /\ Start(c) < End(c)
            BY <1>4, <3>4, <4>3, CandleTimes
          <6>2. CASE stopSince =< checkpoint + MaxAge
            BY <1>4, <6>1, <6>2
          <6>3. CASE \E e \in 0 .. stored - 1 : Overlaps(e) /\ stopSince =< End(e)
            <7>1. PICK e \in 0 .. stored - 1 : Overlaps(e) /\ stopSince =< End(e)
              BY <6>3
            <7>2. e \in Nat /\ Start(e) \in Nat /\ End(e) \in Nat
              BY <2>1, CandleTimes
            <7>3. (c < e => End(c) =< Start(e)) /\ (e < c => End(e) =< Start(c))
              BY <1>4, <7>2, CandleTimes
            <7> QED BY <1>4, <6>1, <7>1, <7>2, <7>3 DEF Overlaps
          <6> QED BY <1>2, <4>1, <6>2, <6>3 DEF StopDated
        <5>2. stopSince' = stopSince \/ stopSince' = End(c)
          BY <3>2, <4>3
        <5>3. checkpoint' = End(c)
          BY <3>4, <4>3
        <5>4. End(c) =< End(c) + MaxAge
          BY <1>4
        <5> QED BY <5>1, <5>2, <5>3, <5>4
      <4>4. CASE ActOn(c) /\ Predates(c) /\ pos'.stop # pos.stop
        <5>1. stopSince' = End(c) /\ UNCHANGED checkpoint /\ Overlaps(c)
          BY <3>2, <3>3, <4>4
        <5>2. ~ AtLeast(pos.side, pos'.stop, Mark(End(c) - 1))
          <6>1. /\ ev \in EvidenceType /\ Point(ev) /\ ev.close = Mark(End(c) - 1)
                /\ Decide(pos, ev).action \in {"PARTIAL_CLOSE", "MOVE_STOP"}
                /\ Apply(Decide(pos, ev), ev, Evaluated(c)) /\ TypeOK /\ LevelsKept
            BY <1>5, <3>1, <3>2, <4>4
          <6>2. ~ AtLeast(pos.side, pos'.stop, ev.close)
            BY <6>1, MovedStopBehind
          <6> QED BY <6>1, <6>2
        <5>3. pos'.side = pos.side /\ Mark(End(c) - 1)' = Mark(End(c) - 1)
          BY <1>1, <1>2, RowKept DEF Mark
        <5>4. ~ Breached(End(c) - 1)' /\ Overlaps(c)' /\ stopSince' =< End(c)
          BY <1>4, <5>1, <5>2, <5>3 DEF Breached, Overlaps
        <5>5. c \in 0 .. stored' - 1
          BY <1>2, <1>3
        <5> QED BY <5>4, <5>5 DEF StopDated
      <4>5. CASE ActOn(c) /\ Predates(c) /\ pos'.stop = pos.stop
        BY <3>2, <3>3, <4>2, <4>5
      <4>6. CASE FindQuiet(c)
        BY <3>1, <4>2, <4>6 DEF RowSame
      <4> QED BY <2>3, <4>3, <4>4, <4>5, <4>6
    <3> QED BY <3>6, <3>7, <3>8, <3>9
  <2> QED BY <1>7, <2>2, <2>3
<1> QED BY <1>3, <1>6, <1>7

LEMMA RecheckSteps ==
    ASSUME ReplayInv, RecheckTarget2
    PROVE  PassKept' /\ LookKept' /\ Judged' /\ StopDated'
<1> USE DEF ReplayInv
<1>1. [Next]_vars
  BY DEF Next, Reconcile
<1> DEFINE ev == AfterTarget1(rec.evidence)
           d == Decide(pos, ev)
           onward == [rec EXCEPT !.pc = "fetched", !.evidence = NoEvidence]
<1>2. /\ rec.pc = "recheck" /\ status = "OPEN" /\ LookAgain
      /\ UNCHANGED <<price, stored, seen, fastChanges, lost>>
  BY RecheckCases
<1>3. /\ pos \in Levels /\ rec.evidence \in EvidenceType /\ pos.t1 /\ pos.staged
      /\ stored \in Nat /\ checkpoint \in Nat /\ MaxAge \in Nat /\ stopSince \in Nat
  BY <1>2, NowType, TimeAssumption DEF TypeOK, LookKept, LevelsKept
<1>4. /\ ev \in EvidenceType /\ ev.end = rec.evidence.end
      /\ Favourable(pos.side, ev) = Favourable(pos.side, rec.evidence)
      /\ rec.evidence.live => ev = rec.evidence
  BY <1>3, RecheckFacts
<1> HIDE DEF ev
\* What the look at the favourable extreme of a candle shows of target 2.
<1>5. ASSUME d.action # "CLOSE", NEW e \in 0 .. stored - 1, Rechecking(e)
      PROVE  ~ TargetHit(pos, Candle(e), pos.target2)
  <2>1. PICK c \in 0 .. stored - 1 : rec.evidence = Candle(c) /\ rec.last = End(c)
    BY <1>2, <1>5 DEF LookKept, Rechecking
  <2>2. c = e
    <3>1. c \in Nat /\ e \in Nat /\ End(c) = End(e) /\ End(c) \in Nat
      BY <1>3, <1>5, <2>1, CandleTimes DEF Rechecking
    <3>2. (c < e => End(c) < End(e)) /\ (e < c => End(e) < End(c))
      BY <3>1, CandleTimes
    <3> QED BY <3>1, <3>2
  <2>3. d.action \in {"HOLD", "MOVE_STOP"}
    BY <1>3, <1>4, <1>5, DecisionFacts DEF Actions
  <2>4. ~ TargetHit(pos, ev, pos.target2)
    BY <1>3, <1>4, <2>3, DecisionFacts
  <2> QED BY <1>4, <2>1, <2>2, <2>4 DEF TargetHit
<1>6. /\ onward.pc = "fetched" /\ onward.queue = rec.queue /\ onward.last = rec.last
      /\ Idle.pc = "idle" /\ Idle.last = NoTime
  BY DEF Idle, TypeOK
<1>7. CASE d.action = "CLOSE"
  <2>1. Apply(d, ev, rec.last) /\ rec' = Idle
    BY <1>2, <1>7 DEF LookAgain, ev
  <2>2. status' = d.reason /\ UNCHANGED checkpoint /\ d.reason # "OPEN"
    <3>3. /\ ev \in EvidenceType /\ d.action = "CLOSE" /\ d.action # "HOLD"
          /\ Apply(d, ev, rec.last) /\ pos \in Levels
      BY <1>3, <1>4, <1>7, <2>1
    <3>1. status' = d.reason /\ UNCHANGED checkpoint
      BY <3>3, WriteFacts
    <3>2. d.reason \in Triggers
      BY <1>3, <1>4, <1>7, DecisionFacts
    <3> QED BY <3>1, <3>2 DEF Triggers
  <2>3. PassKept'
    BY <1>2, <1>6, <2>1, <2>2 DEF PassKept, Cuts
  <2>4. LookKept'
    BY <1>6, <2>1 DEF LookKept
  <2> QED BY <2>2, <2>3, <2>4 DEF Judged, StopDated
<1>8. CASE d.action # "CLOSE"
  <2>1. /\ rec' = onward
        /\ \/ RowSame
           \/ d.action = "MOVE_STOP" /\ Apply(d, ev, rec.last) /\ PassSetsStop
    BY <1>2, <1>8 DEF LookAgain, ev
  <2> HIDE DEF onward
  <2>2. ASSUME d.action = "MOVE_STOP", Apply(d, ev, rec.last), PassSetsStop
        PROVE  /\ StopDated'
               /\ checkpoint' = checkpoint \/ (checkpoint' = rec.last /\ rec.last # NoTime)
    <3>1. /\ checkpoint' = IF rec.last = NoTime THEN checkpoint ELSE rec.last
          /\ stopSince' = ev.end /\ pos'.stop # pos.stop
      BY <1>3, <1>4, <2>2, WriteFacts
    <3>2. StopDated'
      <4>1. LiveFallback => StopDated'
        BY <2>2, <3>1 DEF StopDated, PassSetsStop
      <4>2. CASE ~ rec.evidence.live
        <5>1. PICK c \in 0 .. stored - 1 : rec.evidence = Candle(c) /\ rec.last = End(c)
          BY <1>2, <4>2 DEF LookKept
        <5>2. End(c) \in Nat /\ Candle(c).end = End(c)
          BY <1>3, CandleTimes, CandleMarks
        <5>3. checkpoint' = End(c) /\ stopSince' = End(c) /\ End(c) =< End(c) + MaxAge
          BY <1>3, <1>4, <3>1, <5>1, <5>2 DEF NoTime
        <5> QED BY <5>3 DEF StopDated
      <4>3. CASE rec.evidence.live /\ ~ LiveFallback
        <5>1. PICK c \in 0 .. stored - 1 :
                     /\ rec.evidence = PointAt(Mark(End(c) - 1), End(c), TRUE)
                     /\ Overlaps(c) \/ End(c) =< checkpoint + MaxAge
          BY <1>2, <4>3 DEF LookKept
        <5>2. UNCHANGED checkpoint /\ stopSince' = End(c)
          BY <1>2, <1>4, <3>1, <4>3, <5>1 DEF LookKept, PointAt
        <5>3. CASE End(c) =< checkpoint + MaxAge
          BY <5>2, <5>3 DEF StopDated
        <5>4. CASE Overlaps(c)
          <6>1. Point(ev) /\ ev.close = Mark(End(c) - 1)
            BY <1>4, <4>3, <5>1 DEF Point, PointAt
          <6>2. ~ AtLeast(pos.side, pos'.stop, ev.close)
            BY <1>4, <2>2, <6>1, MovedStopBehind
          <6>3. pos'.side = pos.side /\ Mark(End(c) - 1)' = Mark(End(c) - 1)
            BY <1>1, <1>2, RowKept DEF Mark
          <6>4. End(c) \in Nat /\ c \in 0 .. stored' - 1
            BY <1>2, <1>3, CandleTimes
          <6>5. ~ Breached(End(c) - 1)' /\ Overlaps(c)' /\ stopSince' =< End(c)
            BY <5>2, <5>4, <6>1, <6>2, <6>3, <6>4 DEF Breached, Overlaps
          <6> QED BY <6>4, <6>5 DEF StopDated
        <5> QED BY <5>1, <5>3, <5>4
      <4> QED BY <4>1, <4>2, <4>3
    <3> QED BY <3>1, <3>2
  <2>3. /\ StopDated'
        /\ checkpoint' = checkpoint \/ (checkpoint' = rec.last /\ rec.last # NoTime)
    <3>1. ASSUME RowSame
          PROVE  StopDated' /\ checkpoint' = checkpoint
      <4>1. /\ UNCHANGED <<checkpoint, stopSince>> /\ pos'.stop = pos.stop
            /\ passStop => passStop'
        BY <3>1 DEF RowSame
      <4>2. StopDated'
        BY <1>1, <4>1, DatedCarries
      <4> QED BY <4>1, <4>2
    <3> QED BY <2>1, <2>2, <3>1
  <2>4. PassKept'
    BY <1>2, <1>6, <2>1, <2>3 DEF PassKept, Cuts
  <2>5. LookKept'
    BY <1>6, <2>1 DEF LookKept
  <2>6. Judged'
    <3> SUFFICES ASSUME NEW e \in 0 .. stored' - 1, Passed(e)', Uncut(e)'
                 PROVE  \/ Passed(e) /\ Uncut(e) /\ ~ Rechecking(e)
                        \/ Untouched(e) /\ ~ TargetHit(pos, Candle(e), pos.target2)
      BY <1>1, <1>2, JudgedCarries
    <3>1. e \in Nat /\ End(e) \in Nat /\ e \in 0 .. stored - 1
      BY <1>2, <1>3, CandleTimes
    <3>2. Passed(e) /\ Uncut(e)
      <4>1. rec'.queue = rec.queue /\ rec'.last = rec.last
        BY <1>6, <2>1
      <4> QED BY <1>2, <2>3, <4>1 DEF Passed, Uncut, Cuts
    <3>3. Rechecking(e) => ~ TargetHit(pos, Candle(e), pos.target2)
      BY <1>5, <1>8, <3>1
    <3>4. Untouched(e)
      BY <1>2, <3>1, <3>2 DEF Judged
    <3> QED BY <3>2, <3>3, <3>4
  <2> QED BY <2>3, <2>4, <2>5, <2>6
<1> QED BY <1>7, <1>8

-----------------------------------------------------------------------------
(* The theorems                                                            *)

LEMMA ReplayInvHolds == Spec => []ReplayInv
<1>1. Init => ReplayInv
  <2> SUFFICES ASSUME Init PROVE ReplayInv
    OBVIOUS
  <2>1. TypeOK
    BY InitTypes
  <2>2. pos \in Levels /\ Ordered(pos) /\ ~ pos.t1 /\ pos.stop = pos.initial
    BY LevelAssumption DEF Init
  <2>3. pos.stop \in Int /\ pos.side \in {"LONG", "SHORT"}
    BY <2>2 DEF Levels
  <2>4. LevelsKept
    BY <2>2, <2>3, SideOrder DEF LevelsKept
  <2>5. rec = Idle /\ rec.pc = "idle" /\ rec.last = NoTime /\ stored = 0
        /\ checkpoint = OpenedAt /\ stopSince = OpenedAt
    BY DEF Init, Idle
  <2>6. PassKept /\ LookKept
    BY <2>5 DEF PassKept, LookKept, Cuts
  <2>7. Judged
    <3>1. 0 .. stored - 1 = {}
      BY <2>5
    <3> QED BY <3>1 DEF Judged
  <2>8. StopDated
    BY <2>5, TimeAssumption DEF StopDated
  <2> QED BY <2>1, <2>4, <2>6, <2>7, <2>8 DEF ReplayInv
<1>2. ReplayInv /\ [Next]_vars => ReplayInv'
  <2> SUFFICES ASSUME ReplayInv, [Next]_vars PROVE ReplayInv'
    OBVIOUS
  <2>1. TypeOK' /\ LevelsKept'
    BY NextTypes, LevelsStay DEF ReplayInv
  <2>2. PassKept' /\ LookKept' /\ Judged' /\ StopDated'
    BY QuietSteps, FastSteps, LiveSteps, FinishSteps, ReplaySteps, RecheckSteps
       DEF Next, Reconcile
  <2> QED BY <2>1, <2>2 DEF ReplayInv
<1> QED BY <1>1, <1>2, PTL DEF Spec

(* The checkpoint tells the truth about the past: of the candles it has    *)
(* passed since the entry, and since the one-second job last changed the   *)
(* row, none touched the stop of an official position that is still open.  *)
THEOREM CandlesAccountedFor == Spec => []ReplayComplete
<1>1. ReplayInv => ReplayComplete
  BY DEF ReplayInv, Judged, Untouched, ReplayComplete, Passed
<1> QED BY <1>1, ReplayInvHolds, PTL

(* A candle that reached both targets closes both legs in one pass, unless *)
(* the one-second job holds the row at the very moment the pass asks for it*)
(* again: a target 2 that was passed is left open for no other reason.     *)
THEOREM LegsLostOnlyToLocks == Spec => []LegLostOnlyToLock
<1>1. ReplayInv => LegLostOnlyToLock
  BY DEF ReplayInv, Judged, ShortOfTarget2, Rechecking, LegLostOnlyToLock, Passed
<1> QED BY <1>1, ReplayInvHolds, PTL

(* A stop is not applied to the past: whoever closes a position at its     *)
(* stop, the market was at or beyond that stop after it came into force,   *)
(* give or take the age of a quote.                                        *)
THEOREM StopsJudgeTheirOwnTime == Spec => StopNotRetroactive
<1> DEFINE Later == \E k \in 0 .. now : k >= stopSince - MaxAge /\ Breached(k)
<1>1. ASSUME ReplayInv, [Next]_vars, status = "OPEN", status' = "STOP",
             rec.pc = "recheck" => UNCHANGED rec, ~ (LiveFallback /\ passStop)
      PROVE  Later
  <2> USE DEF ReplayInv
  <2>1. /\ now \in Nat /\ stopSince \in 0 .. now /\ stopSince \in Nat /\ MaxAge \in Nat
        /\ checkpoint \in Nat /\ pos \in Levels /\ stored \in Nat /\ seen \in 0 .. now
    <3>1. /\ now \in Nat /\ stopSince \in 0 .. now /\ checkpoint \in 0 .. now
          /\ pos \in Levels /\ stored \in Nat /\ seen \in 0 .. now
      BY <1>1, NowType DEF TypeOK
    <3> HIDE DEF now
    <3> QED BY <3>1, TimeAssumption
  \* A decision that closes at the stop saw the stop touched.
  <2>2. ASSUME NEW ev \in EvidenceType, NEW evaluated,
               Decide(pos, ev).action # "HOLD", Apply(Decide(pos, ev), ev, evaluated)
        PROVE  StopHit(pos, ev)
    <3> DEFINE d == Decide(pos, ev)
    <3>1. d.action # "CLOSE" => UNCHANGED status
      BY <2>1, <2>2, WriteFacts
    <3>2. d.action = "CLOSE" => status' = d.reason
      BY <2>1, <2>2, WriteFacts
    <3>3. d.action = "CLOSE" /\ d.reason = "STOP"
      BY <1>1, <3>1, <3>2
    <3> QED BY <2>1, <3>3, DecisionFacts
  <2>3. ASSUME NEW k \in 0 .. now, StopHit(pos, LiveMark(k)) PROVE Breached(k)
    <3>1. Point(LiveMark(k)) /\ LiveMark(k).close = Mark(k)
      BY <1>1, LiveFacts
    <3> QED BY <2>3, <3>1 DEF StopHit, Adverse, Point, Breached
  <2>4. CASE FastExit
    <3>1. PICK k \in seen .. now : /\ now - k =< MaxAge
                                   /\ Decide(pos, LiveMark(k)).action # "HOLD"
                                   /\ Apply(Decide(pos, LiveMark(k)), LiveMark(k), k)
      BY <2>4 DEF FastExit
    <3>2. k \in 0 .. now /\ k >= stopSince - MaxAge
      <4> HIDE DEF now
      <4> QED BY <2>1, <3>1
    <3>3. LiveMark(k) \in EvidenceType
      BY <1>1, <3>2, LiveFacts
    <3>4. Breached(k)
      BY <2>2, <2>3, <3>1, <3>2, <3>3
    <3> QED BY <3>2, <3>4
  <2>5. CASE JudgeLiveMark
    <3>1. now \in 0 .. now /\ now >= stopSince - MaxAge
      <4> HIDE DEF now
      <4> QED BY <2>1
    <3>2. /\ Decide(pos, LiveMark(now)).action # "HOLD"
          /\ Apply(Decide(pos, LiveMark(now)), LiveMark(now), NoTime)
      BY <2>5, LiveCases
    <3>3. LiveMark(now) \in EvidenceType
      BY <1>1, <3>1, LiveFacts
    <3>4. Breached(now)
      BY <2>2, <2>3, <3>1, <3>2, <3>3
    <3> QED BY <3>1, <3>4
  <2>6. CASE RecheckTarget2
    <3>1. rec.pc = "recheck" /\ LookAgain
      BY <1>1, <2>6, RecheckCases
    <3>2. rec'.pc # "recheck"
      <4>1. Idle.pc = "idle"
        BY DEF Idle
      <4>2. [rec EXCEPT !.pc = "fetched", !.evidence = NoEvidence].pc = "fetched"
        BY <1>1 DEF TypeOK
      <4> QED BY <3>1, <4>1, <4>2 DEF LookAgain
    <3> QED BY <1>1, <3>1, <3>2
  <2>7. CASE ReplayCandle
    <3>1. PICK c \in rec.queue : /\ c \in 0 .. stored - 1
                                 /\ PassOver(c) \/ FindQuiet(c) \/ ActOn(c)
      BY <1>1, <2>7, ReplayCases
    <3>2. ActOn(c)
      BY <1>1, <3>1 DEF PassOver, FindQuiet, RowSame
    <3>3. /\ ~ (Predates(c) /\ End(c) =< checkpoint)
          /\ Decide(pos, Evidence(c)).action # "HOLD"
          /\ Apply(Decide(pos, Evidence(c)), Evidence(c), Evaluated(c))
      BY <3>2 DEF ActOn
    <3>4. /\ Evidence(c) \in EvidenceType /\ c \in Nat
          /\ End(c) \in Nat /\ Start(c) \in Nat /\ Start(c) < End(c)
          /\ End(c) - 1 \in Ticks(c) /\ Ticks(c) \subseteq 0 .. now
      BY <1>1, <3>1, EvidenceFacts, CandleMarks, CandleTimes
    <3>5. StopHit(pos, Evidence(c))
      BY <2>2, <3>3, <3>4
    <3>6. \/ stopSince =< checkpoint + MaxAge
          \/ \E e \in 0 .. stored - 1 :
                Overlaps(e) /\ stopSince =< End(e) /\ ~ Breached(End(e) - 1)
      BY <1>1 DEF StopDated
    <3>7. CASE Predates(c)
      <4>1. Breached(End(c) - 1)
        BY <1>1, <3>1, <3>5, <3>7, EvidenceFacts DEF StopHit, Adverse, Point, Breached
      <4>2. Start(c) < checkpoint /\ checkpoint < End(c)
        BY <2>1, <3>3, <3>4, <3>7 DEF Predates
      <4>3. CASE stopSince =< checkpoint + MaxAge
        <5>1. End(c) - 1 >= stopSince - MaxAge
          BY <2>1, <3>4, <4>2, <4>3
        <5> QED BY <3>4, <4>1, <5>1
      <4>4. ASSUME NEW e \in 0 .. stored - 1, Overlaps(e), ~ Breached(End(e) - 1)
            PROVE  FALSE
        <5>1. e \in Nat /\ Start(e) \in Nat /\ End(e) \in Nat
          BY <2>1, CandleTimes
        <5>2. (c < e => End(c) =< Start(e)) /\ (e < c => End(e) =< Start(c))
          BY <3>4, <5>1, CandleTimes
        <5>3. e = c
          BY <2>1, <3>4, <4>2, <4>4, <5>1, <5>2 DEF Overlaps
        <5> QED BY <4>1, <4>4, <5>3
      <4> QED BY <3>6, <4>3, <4>4
    <3>8. CASE ~ Predates(c)
      <4>1. PICK k \in Ticks(c) : Breached(k)
        BY <1>1, <3>1, <3>5, <3>8, EvidenceFacts, StopInTicks
      <4>2. k \in Nat /\ checkpoint =< Start(c) /\ Start(c) =< k
        BY <2>1, <3>4, <3>8 DEF Predates, Ticks
      <4>3. CASE stopSince =< checkpoint + MaxAge
        <5>1. k >= stopSince - MaxAge
          BY <2>1, <3>4, <4>2, <4>3
        <5> QED BY <3>4, <4>1, <5>1
      <4>4. ASSUME NEW e \in 0 .. stored - 1, Overlaps(e), stopSince =< End(e)
            PROVE  k >= stopSince - MaxAge
        <5>1. e \in Nat /\ Start(e) \in Nat /\ End(e) \in Nat
          BY <2>1, CandleTimes
        <5>2. (c < e => End(c) =< Start(e)) /\ (e < c => End(e) =< Start(c))
          BY <3>4, <5>1, CandleTimes
        <5>3. e < c
          BY <2>1, <3>4, <4>2, <4>4, <5>1, <5>2 DEF Overlaps
        <5> QED BY <2>1, <3>4, <4>2, <4>4, <5>1, <5>2, <5>3
      <4> QED BY <3>4, <3>6, <4>1, <4>3, <4>4
    <3> QED BY <3>7, <3>8
  <2>8. CASE ~ (FastExit \/ JudgeLiveMark \/ RecheckTarget2 \/ ReplayCandle)
    BY <1>1, <2>8 DEF Next, Reconcile, Tick, StoreCandle, Fetch, FindClosed, LockConflict,
                     FinishPass, vars
  <2> QED BY <2>4, <2>5, <2>6, <2>7, <2>8
<1>2. ReplayInv /\ [Next]_vars =>
        (/\ status = "OPEN" /\ status' = "STOP"
         /\ rec.pc = "recheck" => UNCHANGED rec
         /\ ~ (LiveFallback /\ passStop)
         => Later)
  BY <1>1
<1> QED BY <1>2, ReplayInvHolds, PTL DEF Spec, StopNotRetroactive
===============================================================================
