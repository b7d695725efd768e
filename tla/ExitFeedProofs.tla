---------------------------- MODULE ExitFeedProofs ----------------------------
(***************************************************************************)
(* Type correctness and the safety of the exit-protection gate (ExitFeed), *)
(* for every set of symbols and positions and for all limits.  The         *)
(* inductive invariant carries one bound from the last frame to the gate:  *)
(* the stream's age bounds it when a run starts, the run's elapsed time    *)
(* while it works, the age of its record once it is finished, and the      *)
(* heartbeat's age after that.  A second chain does the same for the mark  *)
(* each position was judged on.                                            *)
(***************************************************************************)
EXTENDS ExitFeed, TLAPS, FiniteSetTheorems, WellFoundedInduction

\* A set of bounded natural numbers that is not empty has a greatest element.
LEMMA GreatestExists ==
    ASSUME NEW n \in Nat, NEW S \in SUBSET (0 .. n), S # {}
    PROVE  Max(S) \in S /\ \A x \in S : x =< Max(S)
<1> DEFINE T == {n - x : x \in S}
<1>1. T \subseteq Nat /\ T # {}
  <2>1. \A x \in S : n - x \in Nat
    OBVIOUS
  <2> QED BY <2>1
<1>2. PICK t \in T : \A u \in T : <<u, t>> \notin OpToRel(<, Nat)
  <2> HIDE DEF T
  <2> QED BY <1>1, NatLessThanWellFounded, WFMin
<1>3. \A u \in T : ~(u < t)
  BY <1>1, <1>2 DEF OpToRel
<1>4. PICK x \in S : t = n - x
  OBVIOUS
<1>5. \A y \in S : x >= y
  BY <1>3, <1>4
<1> QED
  BY <1>5 DEF Max

LEMMA Limits ==
    /\ Stale \in Nat /\ Never \in Nat /\ Stale =< Never
    /\ \A age \in Ages : Older(age) \in Ages
    /\ \A age \in Marks : OlderMark(age) \in Marks
BY FeedAssumption DEF Stale, Never, Ages, Marks, Older, OlderMark, Fresh

LEMMA MarksFinite == \A S \in SUBSET Marks : IsFiniteSet(S) /\ Cardinality(S) \in Nat
<1>1. IsFiniteSet(Marks)
  BY Limits, FS_Interval DEF Marks
<1> QED
  BY <1>1, FS_Subset, FS_CardinalityType

\* The queue of a symbol never grows past its length.
LEMMA BufferedBounded ==
    ASSUME NEW S \in SUBSET Marks, NEW age \in Marks, Cardinality(S) =< BufferLength
    PROVE  /\ Buffered(S, age) \in SUBSET Marks
           /\ Cardinality(Buffered(S, age)) =< BufferLength
<1>1. IsFiniteSet(S) /\ Cardinality(S) \in Nat /\ BufferLength \in Nat \ {0}
  BY MarksFinite, FeedAssumption
<1>2. CASE Cardinality(S) < BufferLength
  <2>1. Buffered(S, age) = S \cup {age}
    BY <1>2 DEF Buffered
  <2> QED BY <1>1, <1>2, <2>1, FS_AddElement
<1>3. CASE ~(Cardinality(S) < BufferLength)
  <2>1. Cardinality(S) = BufferLength /\ S # {}
    BY <1>1, <1>3, FS_EmptySet
  <2>2. Max(S) \in S
    BY <2>1, Limits, GreatestExists DEF Marks
  <2> DEFINE R == S \ {Max(S)}
  <2>3. IsFiniteSet(R) /\ Cardinality(R) = BufferLength - 1
    BY <1>1, <2>1, <2>2, FS_RemoveElement
  <2>4. Buffered(S, age) = R \cup {age}
    BY <1>3 DEF Buffered
  <2>5. Cardinality(R \cup {age}) =< BufferLength
    <3> HIDE DEF R
    <3>1. Cardinality(R \cup {age}) = IF age \in R THEN Cardinality(R) ELSE Cardinality(R) + 1
      BY <2>3, FS_AddElement
    <3> QED BY <1>1, <2>3, <3>1
  <2> QED BY <2>4, <2>5
<1> QED
  BY <1>2, <1>3

\* Growing older merges marks at most.
LEMMA OlderBounded ==
    ASSUME NEW S \in SUBSET Marks
    PROVE  LET T == {OlderMark(age) : age \in S} IN
           T \in SUBSET Marks /\ Cardinality(T) =< Cardinality(S)
<1> DEFINE T == {OlderMark(age) : age \in S}
           f == [age \in S |-> OlderMark(age)]
<1>1. f \in Surjection(S, T)
  BY DEF Surjection
<1>2. IsFiniteSet(S)
  BY MarksFinite
<1>3. Cardinality(T) =< Cardinality(S)
  <2> HIDE DEF T, f
  <2> QED BY <1>1, <1>2, FS_Surjection
<1>4. T \in SUBSET Marks
  BY Limits
<1> QED
  BY <1>3, <1>4

-----------------------------------------------------------------------------
(* Types                                                                   *)

\* A mark taken from a queue, or a trade finished, leaves a run's type alone.
LEMMA TaskTypes ==
    ASSUME TypeOK, NEW t \in Task
    PROVE  NextMark(t) \in Task /\ NextTrade(t) \in Task
BY DEF TypeOK, Task, NextMark, NextTrade

LEMMA NoTaskType == NoTask \in Task
BY Limits, FeedAssumption DEF NoTask, Task, Marks

LEMMA NextTypes == TypeOK /\ [Next]_vars => TypeOK'
<1> SUFFICES ASSUME TypeOK, [Next]_vars PROVE TypeOK'
  OBVIOUS
<1> USE Limits, FeedAssumption
<1>1. CASE Connect
  BY <1>1 DEF TypeOK, Connect, Feed
<1>2. CASE Drop
  BY <1>2 DEF TypeOK, Drop, Feed
<1>3. ASSUME NEW S \in SUBSET Coins, NEW age \in 0 .. MaxAge, NEW others \in BOOLEAN,
             Frame(S, age, others)
      PROVE  TypeOK'
  <2>1. age \in Marks
    BY DEF Marks, Stale
  <2>2. latest' \in [Coins -> Marks]
    BY <1>3, <2>1 DEF TypeOK, Frame
  <2>3. \A c \in Coins : pending'[c] \in SUBSET Marks /\ Cardinality(pending'[c]) =< BufferLength
    <3> TAKE c \in Coins
    <3>1. pending'[c] = pending[c] \/ pending'[c] = Buffered(pending[c], age)
      BY <1>3 DEF Frame
    <3> QED BY <2>1, <3>1, BufferedBounded DEF TypeOK
  <2>4. pending' \in [Coins -> SUBSET Marks]
    BY <1>3, <2>3 DEF Frame
  <2>5. feed' \in Feed /\ lastFrame' \in Ages
    <3>3. 0 \in Marks /\ 0 \in Ages
      BY DEF Marks, Ages
    <3>1. Received \in Feed
      BY <3>3 DEF TypeOK, Received, Feed
    <3>2. (feed' = Received /\ lastFrame' = 0) \/ (feed' = feed /\ lastFrame' = lastFrame)
      BY <1>3 DEF Frame
    <3> QED BY <3>1, <3>2, <3>3 DEF TypeOK
  <2> QED BY <1>3, <2>2, <2>3, <2>4, <2>5 DEF TypeOK, Frame
<1>4. CASE StartTask
  <2>1. StreamReady \in BOOLEAN
    BY DEF StreamReady, TypeOK, Feed
  <2>2. task' \in Task
    BY <1>4, <2>1, NoTaskType DEF StartTask, Task
  <2> QED BY <1>4, <2>2 DEF TypeOK, StartTask
<1>5. CASE ListTrades
  <2>1. task' \in Task
    BY <1>5 DEF TypeOK, ListTrades, Task
  <2> QED BY <1>5, <2>1 DEF TypeOK, ListTrades
<1>6. CASE Take
  <2>1. \A p \in Positions : Taken(CoinOf[p]) \in SUBSET Marks
    BY DEF Taken, TypeOK
  <2>2. [p \in Positions |-> IF p \in task.todo THEN Taken(CoinOf[p]) ELSE {}]
          \in [Positions -> SUBSET Marks]
    BY <2>1
  <2>3. task' \in Task
    BY <1>6, <2>2 DEF TypeOK, Take, Task
  <2>4. /\ pending' \in [Coins -> SUBSET Marks]
        /\ \A c \in Coins : Cardinality(pending'[c]) =< BufferLength
    BY <1>6, FS_EmptySet DEF Take
  <2> QED BY <1>6, <2>3, <2>4 DEF TypeOK, Take
<1>7. CASE Judge
  <2> DEFINE counted == [task EXCEPT !.processed = @ \cup {Trade}]
  <2>1. Trade \in Positions /\ Mark \in Marks
    <3>1. Trade \in task.todo /\ task.todo \subseteq Positions
      BY <1>7 DEF Judge, Trade, TypeOK, Task
    <3>2. task.marks[Trade] \in SUBSET Marks /\ task.marks[Trade] # {}
      BY <1>7, <3>1 DEF Judge, TypeOK, Task
    <3>3. Mark \in task.marks[Trade]
      BY <3>2, GreatestExists DEF Mark, Marks
    <3> QED BY <3>1, <3>2, <3>3
  <2>2. counted \in Task
    BY <2>1 DEF TypeOK, Task
  <2>3. [counted EXCEPT !.pc = "locking"] \in Task
    BY <2>2 DEF Task
  <2>4. task' \in Task
    <3> HIDE DEF counted
    <3>1. task' = NextMark(task) \/ task' = NextMark(counted)
            \/ task' = [counted EXCEPT !.pc = "locking"]
      BY <1>7 DEF Judge, counted
    <3> QED BY <2>2, <2>3, <3>1, TaskTypes DEF TypeOK
  <2>5. judged' \in [Positions -> Ages]
    BY <1>7, <2>1 DEF TypeOK, Judge, Ages, Marks
  <2> QED BY <1>7, <2>4, <2>5 DEF TypeOK, Judge
<1>8. CASE Act
  <2>1. task' \in Task
    BY <1>8, TaskTypes DEF TypeOK, Act
  <2>2. position' \in [Positions -> Position]
    BY <1>8 DEF TypeOK, Act, Position
  <2> QED BY <1>8, <2>1, <2>2 DEF TypeOK, Act
<1>9. CASE NoAct
  <2>1. NextMark(task) \in Task /\ task.errors \in BOOLEAN
    BY TaskTypes DEF TypeOK, Task
  <2>2. task' \in Task
    BY <1>9, <2>1 DEF NoAct, Task, NextMark
  <2> QED BY <1>9, <2>2 DEF TypeOK, NoAct
<1>10. CASE FinishTrade
  <2>1. NextTrade(task) \in Task /\ task.errors \in BOOLEAN
    BY TaskTypes DEF TypeOK, Task
  <2>2. task' \in Task
    BY <1>10, <2>1 DEF FinishTrade, Task, NextTrade, Missing
  <2> QED BY <1>10, <2>2 DEF TypeOK, FinishTrade
<1>11. CASE TradeFails
  <2>1. NextTrade(task) \in Task
    BY TaskTypes DEF TypeOK
  <2>2. task' \in Task
    BY <1>11, <2>1 DEF TradeFails, Task
  <2> QED BY <1>11, <2>2 DEF TypeOK, TradeFails
<1>12. CASE Record
  <2>1. task' \in Task
    <3>1. (IF Healthy THEN 0 ELSE Stale) \in Marks
      BY DEF Marks
    <3> QED BY <1>12, <3>1, NoTaskType DEF Record, Task
  <2> QED BY <1>12, <2>1 DEF TypeOK, Record
<1>13. CASE TaskFails
  <2>1. task' \in Task
    BY <1>13, NoTaskType DEF TaskFails, Task
  <2> QED BY <1>13, <2>1 DEF TypeOK, TaskFails
<1>14. CASE Save
  <2>1. task' \in Task
    BY <1>14, NoTaskType DEF Save, TypeOK, Task
  <2>2. heart' \in Marks
    BY <1>14 DEF Save, TypeOK, Task
  <2> QED BY <1>14, <2>1, <2>2 DEF TypeOK, Save
<1>15. CASE WorkerCrash
  <2>1. feed' \in Feed /\ latest' \in [Coins -> Marks]
    BY <1>15 DEF WorkerCrash, NoFeed, Feed, Marks
  <2>2. \A c \in Coins : Cardinality(pending'[c]) =< BufferLength
    BY <1>15, FS_EmptySet DEF WorkerCrash
  <2> QED BY <1>15, <2>1, <2>2, NoTaskType DEF TypeOK, WorkerCrash
<1>16. ASSUME NEW p \in Positions, Enter(p) PROVE TypeOK'
  BY <1>16 DEF TypeOK, Enter, Position, Ages
<1>17. ASSUME NEW p \in Positions, CloseElsewhere(p) PROVE TypeOK'
  BY <1>17 DEF TypeOK, CloseElsewhere, Position
<1>18. CASE Calm
  BY <1>18 DEF TypeOK, Calm
<1>19. CASE Tick
  <2>1. feed' \in Feed /\ latest' \in [Coins -> Marks] /\ heart' \in Marks
          /\ lastFrame' \in Ages
    BY <1>19 DEF Tick, TypeOK, Feed
  <2>2. \A c \in Coins : pending'[c] \in SUBSET Marks /\ Cardinality(pending'[c]) =< BufferLength
    <3> TAKE c \in Coins
    <3>1. pending'[c] = {OlderMark(age) : age \in pending[c]}
      BY <1>19 DEF Tick
    <3>2. pending[c] \in SUBSET Marks /\ Cardinality(pending[c]) =< BufferLength
      BY DEF TypeOK
    <3>3. pending'[c] \in SUBSET Marks /\ Cardinality(pending'[c]) =< Cardinality(pending[c])
      BY <3>1, <3>2, OlderBounded
    <3>4. Cardinality(pending[c]) \in Nat /\ Cardinality(pending'[c]) \in Nat
      BY <3>2, <3>3, MarksFinite
    <3> QED BY <3>2, <3>3, <3>4
  <2>3. pending' \in [Coins -> SUBSET Marks]
    BY <1>19, <2>2 DEF Tick
  <2>4. position' \in [Positions -> Position] /\ judged' \in [Positions -> Ages]
    BY <1>19 DEF Tick, TypeOK, Position
  <2>5. [p \in Positions |-> {OlderMark(age) : age \in task.marks[p]}]
          \in [Positions -> SUBSET Marks]
    BY DEF TypeOK, Task
  <2>6. (IF task.pc = "idle" \/ task.elapsed > MaxDuration THEN task.elapsed
         ELSE task.elapsed + 1) \in 0 .. MaxDuration + 1
    BY DEF TypeOK, Task
  <2>7. OlderMark(task.report) \in Marks
    BY DEF TypeOK, Task
  <2>8. task' \in Task
    BY <1>19, <2>5, <2>6, <2>7 DEF Tick, TypeOK, Task
  <2> QED BY <1>19, <2>1, <2>2, <2>3, <2>4, <2>8 DEF TypeOK, Tick
<1>20. CASE UNCHANGED vars
  BY <1>20 DEF TypeOK, vars
<1> QED
  BY <1>1, <1>2, <1>3, <1>4, <1>5, <1>6, <1>7, <1>8, <1>9, <1>10, <1>11, <1>12, <1>13,
     <1>14, <1>15, <1>16, <1>17, <1>18, <1>19, <1>20 DEF Next, TaskStep

LEMMA InitTypes == Init => TypeOK
<1> SUFFICES ASSUME Init PROVE TypeOK
  OBVIOUS
<1>1. Stale \in Marks /\ Never \in Ages /\ 0 \in Ages
  BY Limits DEF Marks, Ages
<1>2. feed \in Feed /\ task \in Task
  BY <1>1, NoTaskType DEF Init, NoFeed, Feed
<1>3. latest \in [Coins -> Marks] /\ judged \in [Positions -> Ages] /\ position \in [Positions -> Position]
  BY <1>1 DEF Init, Position
<1>4. /\ pending \in [Coins -> SUBSET Marks]
      /\ \A c \in Coins : Cardinality(pending[c]) =< BufferLength
  BY FS_EmptySet, FeedAssumption DEF Init
<1> QED
  BY <1>1, <1>2, <1>3, <1>4 DEF Init, TypeOK

(* Every variable keeps its type, and the queue of a symbol its length.    *)
THEOREM FeedTypeCorrect == Spec => []TypeOK
<1>1. TypeOK /\ [Next]_vars => TypeOK'
  BY NextTypes
<1> QED
  BY <1>1, InitTypes, PTL DEF Spec

-----------------------------------------------------------------------------
(* From the last frame to the gate                                         *)

Over == {"idle", "saving"}

FrameChain ==
    /\ Fresh(feed.age) => lastFrame =< feed.age
    /\ task.stream => task.pc \notin Over
    /\ task.stream /\ task.elapsed =< MaxDuration => lastFrame =< MaxAge + task.elapsed
    /\ Fresh(task.report) => lastFrame =< MaxAge + MaxDuration + task.report
    /\ Fresh(heart) => lastFrame =< MaxAge + MaxDuration + heart

\* What the steps inside a run leave alone.
SameRun ==
    /\ task'.stream = task.stream /\ task'.elapsed = task.elapsed
    /\ task'.report = task.report /\ (task.pc \notin Over => task'.pc \notin Over)

LEMMA RunSteps ==
    ASSUME TypeOK,
           ListTrades \/ Take \/ Judge \/ Act \/ NoAct \/ FinishTrade \/ TradeFails
    PROVE  SameRun /\ UNCHANGED <<feed, heart, lastFrame>>
<1>1. CASE ListTrades
  BY <1>1 DEF ListTrades, SameRun, Over, TypeOK, Task
<1>2. CASE Take
  BY <1>2 DEF Take, SameRun, Over, TypeOK, Task
<1>3. CASE Judge
  BY <1>3 DEF Judge, SameRun, Over, TypeOK, Task, NextMark
<1>4. CASE Act
  BY <1>4 DEF Act, SameRun, Over, TypeOK, Task, NextMark, NextTrade
<1>5. CASE NoAct
  BY <1>5 DEF NoAct, SameRun, Over, TypeOK, Task, NextMark
<1>6. CASE FinishTrade
  BY <1>6 DEF FinishTrade, SameRun, Over, TypeOK, Task, NextTrade
<1>7. CASE TradeFails
  BY <1>7 DEF TradeFails, SameRun, Over, TypeOK, Task, NextTrade
<1> QED
  BY <1>1, <1>2, <1>3, <1>4, <1>5, <1>6, <1>7

LEMMA NextFrameChain == TypeOK /\ FrameChain /\ [Next]_vars => FrameChain'
<1> SUFFICES ASSUME TypeOK, FrameChain, [Next]_vars PROVE FrameChain'
  OBVIOUS
<1> USE Limits, FeedAssumption
<1>t. /\ feed.age \in Nat /\ lastFrame \in Nat /\ heart \in Nat
      /\ task.elapsed \in Nat /\ task.report \in Nat /\ task.stream \in BOOLEAN
  BY DEF TypeOK, Feed, Task, Marks, Ages
<1>1. CASE ListTrades \/ Take \/ Judge \/ Act \/ NoAct \/ FinishTrade \/ TradeFails
  <2>1. SameRun /\ UNCHANGED <<feed, heart, lastFrame>>
    BY <1>1, RunSteps
  <2> QED BY <2>1 DEF FrameChain, SameRun
<1>2. CASE Connect \/ Drop
  <2>1. feed'.age = feed.age /\ UNCHANGED <<task, heart, lastFrame>>
    BY <1>2 DEF Connect, Drop, TypeOK, Feed
  <2> QED BY <2>1 DEF FrameChain
<1>3. ASSUME NEW S \in SUBSET Coins, NEW age \in 0 .. MaxAge, NEW others \in BOOLEAN,
             Frame(S, age, others)
      PROVE  FrameChain'
  <2>1. UNCHANGED <<task, heart>>
    BY <1>3 DEF Frame
  <2>2. lastFrame' = 0 \/ (lastFrame' = lastFrame /\ feed' = feed)
    BY <1>3 DEF Frame
  <2>3. feed'.age \in Nat
    BY <1>3, NextTypes DEF Next, TypeOK, Feed, Marks
  <2>4. CASE lastFrame' = 0
    BY <1>t, <2>1, <2>3, <2>4 DEF FrameChain
  <2>5. CASE lastFrame' = lastFrame /\ feed' = feed
    BY <2>1, <2>5 DEF FrameChain
  <2> QED BY <2>2, <2>4, <2>5
<1>4. CASE StartTask
  <2>1. /\ task'.stream = StreamReady /\ task'.pc = "started" /\ task'.elapsed = 0
        /\ task'.report = Stale
    BY <1>4 DEF StartTask, NoTask
  <2>2. UNCHANGED <<feed, heart, lastFrame>>
    BY <1>4 DEF StartTask
  <2>3. StreamReady => lastFrame =< MaxAge
    BY <1>t DEF StreamReady, FrameChain, Fresh
  <2>4. ~Fresh(Stale)
    BY DEF Fresh, Stale
  <2> QED BY <2>1, <2>2, <2>3, <2>4 DEF FrameChain, Over
<1>5. CASE Record
  <2>1. /\ task'.stream = FALSE /\ task'.pc = "saving"
        /\ task'.report = IF Healthy THEN 0 ELSE Stale
    BY <1>5 DEF Record, NoTask
  <2>2. UNCHANGED <<feed, heart, lastFrame>>
    BY <1>5 DEF Record
  <2>3. Healthy => lastFrame =< MaxAge + MaxDuration
    BY <1>t DEF Healthy, FrameChain
  <2>4. ~Fresh(Stale)
    BY DEF Fresh, Stale
  <2> QED BY <2>1, <2>2, <2>3, <2>4 DEF FrameChain, Over
<1>6. CASE TaskFails
  <2>1. task'.stream = FALSE /\ task'.report = Stale /\ UNCHANGED <<feed, heart, lastFrame>>
    BY <1>6 DEF TaskFails, NoTask
  <2>2. ~Fresh(Stale)
    BY DEF Fresh, Stale
  <2> QED BY <2>1, <2>2 DEF FrameChain
<1>7. CASE Save
  <2>1. task'.stream = FALSE /\ task'.report = Stale /\ UNCHANGED <<feed, lastFrame>>
    BY <1>7 DEF Save, NoTask
  <2>2. heart' = heart \/ heart' = task.report
    BY <1>7 DEF Save
  <2>3. ~Fresh(Stale)
    BY DEF Fresh, Stale
  <2> QED BY <2>1, <2>2, <2>3 DEF FrameChain
<1>8. CASE WorkerCrash
  <2>1. /\ task'.stream = FALSE /\ task'.report = Stale /\ feed'.age = Stale
        /\ UNCHANGED <<heart, lastFrame>>
    BY <1>8 DEF WorkerCrash, NoTask, NoFeed
  <2>2. ~Fresh(Stale)
    BY DEF Fresh, Stale
  <2> QED BY <2>1, <2>2 DEF FrameChain
<1>9. CASE UNCHANGED <<feed, task, heart, lastFrame>>
  BY <1>9 DEF FrameChain
<1>10. CASE Tick
  <2>1. /\ feed'.age = OlderMark(feed.age) /\ heart' = OlderMark(heart)
        /\ lastFrame' = Older(lastFrame)
    BY <1>10 DEF Tick, TypeOK, Feed
  <2>2. /\ task'.pc = task.pc /\ task'.stream = task.stream
        /\ task'.report = OlderMark(task.report)
        /\ task'.elapsed = IF task.pc = "idle" \/ task.elapsed > MaxDuration
                           THEN task.elapsed ELSE task.elapsed + 1
    BY <1>10 DEF Tick, TypeOK, Task
  <2>3. lastFrame' \in Nat /\ lastFrame' =< lastFrame + 1
    BY <1>t, <2>1 DEF Older, Never
  <2>4. \A age \in Nat : Fresh(OlderMark(age)) => Fresh(age) /\ OlderMark(age) = age + 1
    BY DEF Fresh, OlderMark, Stale
  <2>5. Fresh(feed'.age) => lastFrame' =< feed'.age
    BY <1>t, <2>1, <2>3, <2>4 DEF FrameChain
  <2>6. Fresh(task'.report) => lastFrame' =< MaxAge + MaxDuration + task'.report
    BY <1>t, <2>2, <2>3, <2>4 DEF FrameChain
  <2>7. Fresh(heart') => lastFrame' =< MaxAge + MaxDuration + heart'
    BY <1>t, <2>1, <2>3, <2>4 DEF FrameChain
  <2>8. task'.stream /\ task'.elapsed =< MaxDuration => lastFrame' =< MaxAge + task'.elapsed
    BY <1>t, <2>2, <2>3 DEF FrameChain, Over
  <2> QED BY <2>2, <2>5, <2>6, <2>7, <2>8 DEF FrameChain
<1>11. ASSUME NEW p \in Positions, Enter(p) \/ CloseElsewhere(p)
       PROVE  UNCHANGED <<feed, task, heart, lastFrame>>
  BY <1>11 DEF Enter, CloseElsewhere
<1> QED
  BY <1>1, <1>2, <1>3, <1>4, <1>5, <1>6, <1>7, <1>8, <1>9, <1>10, <1>11
     DEF Next, TaskStep, Calm, vars

LEMMA GateFollowsFrames == TypeOK /\ FrameChain => EntryProtected
BY FeedAssumption DEF TypeOK, FrameChain, EntryProtected, GateOpen, Fresh, Marks, Ages, Never, Stale

LEMMA InitFrameChain == Init => FrameChain
BY Limits, FeedAssumption DEF Init, FrameChain, NoFeed, NoTask, Fresh, Stale, Over

(* Whatever crashes, is dropped or cannot be stored, the gate is open only *)
(* while a valid frame arrived within two ages and one run.                *)
THEOREM GateBounded == Spec => []EntryProtected
<1>1. TypeOK /\ FrameChain /\ [Next]_vars => TypeOK' /\ FrameChain'
  BY NextTypes, NextFrameChain
<1>2. Init => TypeOK /\ FrameChain
  BY InitTypes, InitFrameChain
<1> QED
  BY <1>1, <1>2, GateFollowsFrames, PTL DEF Spec

-----------------------------------------------------------------------------
(* From the marks of a position to the gate                                *)

Judging == {"listed", "judging", "locking"}
IsOpen(p) == position[p].status = "OPEN"
Age(p) == position[p].age

ProcessedOK(p) ==
    p \in task.processed =>
        /\ task.pc \notin Over
        /\ task.elapsed =< MaxDuration => judged[p] =< MaxAge + task.elapsed

\* An open position older than the run is listed, and not lost without an error.
ListedOK(p) ==
    task.pc \in Judging /\ ~task.errors /\ task.elapsed =< MaxDuration
        /\ IsOpen(p) /\ Age(p) > task.elapsed
            => p \in task.todo \cup task.processed

ReportOK(p) ==
    Fresh(task.report) /\ IsOpen(p) /\ Age(p) > MaxDuration + task.report
        => judged[p] =< MaxAge + MaxDuration + task.report

HeartOK(p) ==
    Fresh(heart) /\ IsOpen(p) /\ Age(p) > MaxDuration + heart
        => judged[p] =< MaxAge + MaxDuration + heart

WatchChain == \A p \in Positions : ProcessedOK(p) /\ ListedOK(p) /\ ReportOK(p) /\ HeartOK(p)

\* What a step of a run after the listing does to position p.
JudgeEffect(p) ==
    /\ judged'[p] = judged[p] \/ judged'[p] \in 0 .. MaxAge
    /\ Age(p)' = Age(p) /\ (IsOpen(p)' => IsOpen(p))
    /\ p \in task'.processed => p \in task.processed \/ judged'[p] \in 0 .. MaxAge
    /\ task.pc \in Judging /\ task'.pc \notin Over
    /\ IsOpen(p)' /\ ~task'.errors /\ p \in task.todo \cup task.processed
          => p \in task'.todo \cup task'.processed
    /\ ~task'.errors => ~task.errors

LEMMA JudgeEffects ==
    ASSUME TypeOK, NEW p \in Positions,
           Take \/ Judge \/ Act \/ NoAct \/ FinishTrade \/ TradeFails
    PROVE  JudgeEffect(p)
<1> USE DEF JudgeEffect, IsOpen, Age, Over, Judging
<1>1. CASE Take
  BY <1>1 DEF Take, TypeOK, Task
<1>2. CASE Judge
  <2>1. Usable => Mark \in 0 .. MaxAge
    <3>1. Trade \in task.todo /\ task.todo \subseteq Positions
      BY <1>2 DEF Judge, Trade, TypeOK, Task
    <3>2. task.marks[Trade] \in SUBSET Marks /\ task.marks[Trade] # {}
      BY <1>2, <3>1 DEF Judge, TypeOK, Task
    <3>3. Mark \in Marks
      BY <3>2, Limits, GreatestExists DEF Mark, Marks
    <3> QED BY <3>3, FeedAssumption DEF Usable, Fresh, Marks
  <2>2. UNCHANGED position /\ task.pc = "judging"
    BY <1>2 DEF Judge
  <2>3. CASE task' = NextMark(task) /\ UNCHANGED judged
    BY <2>2, <2>3 DEF NextMark, TypeOK, Task
  <2> DEFINE counted == [task EXCEPT !.processed = @ \cup {Trade}]
  <2>4. /\ counted.processed = task.processed \cup {Trade} /\ counted.todo = task.todo
        /\ counted.errors = task.errors
    BY DEF TypeOK, Task
  <2>5. CASE Usable /\ judged' = [judged EXCEPT ![Trade] = Mark] /\ task' = NextMark(counted)
    <3>1. /\ task'.processed = task.processed \cup {Trade} /\ task'.todo = task.todo
          /\ task'.errors = task.errors /\ task'.pc = "judging"
      BY <2>4, <2>5 DEF NextMark, TypeOK, Task
    <3> QED BY <2>1, <2>2, <2>5, <3>1 DEF TypeOK
  <2>6. CASE Usable /\ judged' = [judged EXCEPT ![Trade] = Mark]
               /\ task' = [counted EXCEPT !.pc = "locking"]
    <3>1. /\ task'.processed = task.processed \cup {Trade} /\ task'.todo = task.todo
          /\ task'.errors = task.errors /\ task'.pc = "locking"
      BY <2>4, <2>6 DEF TypeOK, Task
    <3> QED BY <2>1, <2>2, <2>6, <3>1 DEF TypeOK
  <2> QED BY <1>2, <2>3, <2>5, <2>6 DEF Judge
<1>3. CASE Act
  <2>1. CASE position' = [position EXCEPT ![Trade].status = "CLOSED"] /\ task' = NextTrade(task)
    <3>1. /\ task'.processed = task.processed /\ task'.todo = task.todo \ {Trade}
          /\ task'.errors = task.errors /\ task'.pc = "judging"
      BY <2>1 DEF NextTrade, TypeOK, Task
    <3>2. Age(p)' = Age(p) /\ (IsOpen(p)' => IsOpen(p) /\ p # Trade)
      BY <2>1 DEF TypeOK, Position
    <3> QED BY <1>3, <3>1, <3>2 DEF Act
  <2>2. CASE task' = NextMark(task) /\ UNCHANGED position
    BY <1>3, <2>2 DEF Act, NextMark, TypeOK, Task
  <2> QED BY <1>3, <2>1, <2>2 DEF Act
<1>4. CASE NoAct
  BY <1>4 DEF NoAct, NextMark, TypeOK, Task
<1>5. CASE FinishTrade
  <2>1. /\ task'.processed = task.processed /\ task'.todo = task.todo \ {Trade}
        /\ task'.errors = (task.errors \/ Missing) /\ task'.pc = "judging"
    BY <1>5 DEF FinishTrade, NextTrade, TypeOK, Task
  <2>2. task.pc = "judging" /\ UNCHANGED <<position, judged>>
    BY <1>5 DEF FinishTrade
  <2> QED BY <2>1, <2>2 DEF Missing
<1>6. CASE TradeFails
  <2>1. task'.processed = task.processed /\ task'.errors /\ task'.pc = "judging"
    BY <1>6 DEF TradeFails, NextTrade, TypeOK, Task
  <2> QED BY <1>6, <2>1 DEF TradeFails
<1> QED
  BY <1>1, <1>2, <1>3, <1>4, <1>5, <1>6

\* A run that is over, or not there yet, vouches for nothing.
LEMMA NewTaskWatches ==
    ASSUME NEW p \in Positions, task'.processed = {}, task'.pc \notin Judging,
           ~Fresh(task'.report)
    PROVE  ProcessedOK(p)' /\ ListedOK(p)' /\ ReportOK(p)'
BY DEF ProcessedOK, ListedOK, ReportOK

LEMMA NextWatchChain ==
    TypeOK /\ WatchChain /\ [Next]_vars => WatchChain'
<1> SUFFICES ASSUME TypeOK, WatchChain, [Next]_vars, NEW p \in Positions
             PROVE  ProcessedOK(p)' /\ ListedOK(p)' /\ ReportOK(p)' /\ HeartOK(p)'
  BY DEF WatchChain
<1> USE Limits, FeedAssumption
<1>t. /\ heart \in Nat /\ task.elapsed \in Nat /\ task.report \in Nat
      /\ judged[p] \in Nat /\ Age(p) \in Nat
  BY DEF TypeOK, Task, Marks, Ages, Age, Position
<1>w. ProcessedOK(p) /\ ListedOK(p) /\ ReportOK(p) /\ HeartOK(p)
  BY DEF WatchChain
<1>n. ~Fresh(Stale)
  BY DEF Fresh, Stale
<1>1. CASE Take \/ Judge \/ Act \/ NoAct \/ FinishTrade \/ TradeFails
  <2>1. JudgeEffect(p) /\ SameRun /\ UNCHANGED heart
    BY <1>1, JudgeEffects, RunSteps
  <2>2. ProcessedOK(p)'
    BY <1>t, <1>w, <2>1 DEF JudgeEffect, SameRun, ProcessedOK
  <2>3. ListedOK(p)'
    BY <1>w, <2>1 DEF JudgeEffect, SameRun, ListedOK
  <2>4. ReportOK(p)' /\ HeartOK(p)'
    BY <1>t, <1>w, <2>1 DEF JudgeEffect, SameRun, ReportOK, HeartOK
  <2> QED BY <2>2, <2>3, <2>4
<1>2. CASE ListTrades
  <2>1. /\ task'.processed = task.processed /\ UNCHANGED <<heart, position, judged>>
        /\ task'.todo = {q \in Positions : position[q].status = "OPEN"} /\ SameRun
        /\ task.pc \notin Over
    BY <1>2, RunSteps DEF ListTrades, TypeOK, Task, Over
  <2> QED BY <1>w, <2>1 DEF SameRun, ProcessedOK, ListedOK, ReportOK, HeartOK, IsOpen, Age
<1>3. CASE StartTask
  <2>1. /\ task'.processed = {} /\ task'.pc = "started" /\ task'.report = Stale
        /\ UNCHANGED <<heart, position, judged>>
    BY <1>3 DEF StartTask, NoTask
  <2>2. ProcessedOK(p)' /\ ListedOK(p)' /\ ReportOK(p)'
    BY <1>n, <2>1, NewTaskWatches DEF Judging
  <2> QED BY <1>w, <2>1, <2>2 DEF HeartOK, IsOpen, Age
<1>4. CASE Record
  <2>1. /\ task'.processed = {} /\ task'.pc = "saving"
        /\ task'.report = IF Healthy THEN 0 ELSE Stale
        /\ UNCHANGED <<heart, position, judged>>
    BY <1>4 DEF Record, NoTask
  <2>2. Healthy /\ IsOpen(p) /\ Age(p) > MaxDuration => judged[p] =< MaxAge + MaxDuration
    BY <1>4, <1>t, <1>w DEF Record, Healthy, ListedOK, ProcessedOK, Judging
  <2>3. ReportOK(p)'
    BY <1>n, <1>t, <2>1, <2>2 DEF ReportOK, IsOpen, Age
  <2>4. ProcessedOK(p)' /\ ListedOK(p)'
    BY <2>1 DEF ProcessedOK, ListedOK, Judging
  <2> QED BY <1>w, <2>1, <2>3, <2>4 DEF HeartOK, IsOpen, Age
<1>5. CASE TaskFails
  <2>1. /\ task'.processed = {} /\ task'.pc = "saving" /\ task'.report = Stale
        /\ UNCHANGED <<heart, position, judged>>
    BY <1>5 DEF TaskFails, NoTask
  <2>2. ProcessedOK(p)' /\ ListedOK(p)' /\ ReportOK(p)'
    BY <1>n, <2>1, NewTaskWatches DEF Judging
  <2> QED BY <1>w, <2>1, <2>2 DEF HeartOK, IsOpen, Age
<1>6. CASE Save
  <2>1. /\ task'.processed = {} /\ task'.pc = "idle" /\ task'.report = Stale
        /\ UNCHANGED <<position, judged>>
    BY <1>6 DEF Save, NoTask
  <2>2. ProcessedOK(p)' /\ ListedOK(p)' /\ ReportOK(p)'
    BY <1>n, <2>1, NewTaskWatches DEF Judging
  <2>3. heart' = heart \/ heart' = task.report
    BY <1>6 DEF Save
  <2> QED BY <1>w, <2>1, <2>2, <2>3 DEF HeartOK, ReportOK, IsOpen, Age
<1>7. CASE WorkerCrash
  <2>1. /\ task'.processed = {} /\ task'.pc = "idle" /\ task'.report = Stale
        /\ UNCHANGED <<heart, position, judged>>
    BY <1>7 DEF WorkerCrash, NoTask
  <2>2. ProcessedOK(p)' /\ ListedOK(p)' /\ ReportOK(p)'
    BY <1>n, <2>1, NewTaskWatches DEF Judging
  <2> QED BY <1>w, <2>1, <2>2 DEF HeartOK, IsOpen, Age
<1>8. CASE UNCHANGED <<task, heart, position, judged>>
  BY <1>w, <1>8 DEF ProcessedOK, ListedOK, ReportOK, HeartOK, IsOpen, Age
<1>9. ASSUME NEW q \in Positions, Enter(q) PROVE ProcessedOK(p)' /\ ListedOK(p)' /\ ReportOK(p)' /\ HeartOK(p)'
  <2>1. UNCHANGED <<task, heart, judged>>
    BY <1>9 DEF Enter
  <2>2. (IsOpen(p)' = IsOpen(p) /\ Age(p)' = Age(p)) \/ Age(p)' = 0
    BY <1>9 DEF Enter, TypeOK, IsOpen, Age
  <2> QED BY <1>w, <1>t, <2>1, <2>2 DEF ProcessedOK, ListedOK, ReportOK, HeartOK
<1>10. ASSUME NEW q \in Positions, CloseElsewhere(q) PROVE ProcessedOK(p)' /\ ListedOK(p)' /\ ReportOK(p)' /\ HeartOK(p)'
  <2>1. UNCHANGED <<task, heart, judged>>
    BY <1>10 DEF CloseElsewhere
  <2>2. (IsOpen(p)' => IsOpen(p)) /\ Age(p)' = Age(p)
    BY <1>10 DEF CloseElsewhere, TypeOK, IsOpen, Age, Position
  <2> QED BY <1>w, <2>1, <2>2 DEF ProcessedOK, ListedOK, ReportOK, HeartOK
<1>11. CASE Tick
  <2>1. heart' = OlderMark(heart) /\ judged'[p] = Older(judged[p])
    BY <1>11 DEF Tick
  <2>2. /\ task'.pc = task.pc /\ task'.errors = task.errors
        /\ task'.todo = task.todo /\ task'.processed = task.processed
        /\ task'.report = OlderMark(task.report)
        /\ task'.elapsed = IF task.pc = "idle" \/ task.elapsed > MaxDuration
                           THEN task.elapsed ELSE task.elapsed + 1
    BY <1>11 DEF Tick, TypeOK, Task
  <2>3. judged'[p] \in Nat /\ judged'[p] =< judged[p] + 1
    BY <1>t, <2>1 DEF Older, Never
  <2>4. \A age \in Nat : Fresh(OlderMark(age)) => Fresh(age) /\ OlderMark(age) = age + 1
    BY DEF Fresh, OlderMark, Stale
  <2>5. IsOpen(p)' = IsOpen(p) /\ Age(p)' \in Nat /\ Age(p)' =< Age(p) + 1
    BY <1>11, <1>t DEF Tick, TypeOK, IsOpen, Age, Position, Older, Never
  <2>6. ProcessedOK(p)'
    BY <1>t, <1>w, <2>2, <2>3 DEF ProcessedOK, Over
  <2>7. ListedOK(p)'
    BY <1>t, <1>w, <2>2, <2>5 DEF ListedOK, Judging
  <2>8. ReportOK(p)'
    BY <1>t, <1>w, <2>2, <2>3, <2>4, <2>5 DEF ReportOK
  <2>9. HeartOK(p)'
    BY <1>t, <1>w, <2>1, <2>3, <2>4, <2>5 DEF HeartOK
  <2> QED BY <2>6, <2>7, <2>8, <2>9
<1>12. ASSUME NEW S \in SUBSET Coins, NEW age \in 0 .. MaxAge, NEW others \in BOOLEAN,
              Frame(S, age, others)
       PROVE  UNCHANGED <<task, heart, position, judged>>
  BY <1>12 DEF Frame
<1> QED
  BY <1>1, <1>2, <1>3, <1>4, <1>5, <1>6, <1>7, <1>8, <1>9, <1>10, <1>11, <1>12
     DEF Next, TaskStep, Connect, Drop, Calm, vars

LEMMA GateFollowsMarks == TypeOK /\ WatchChain => PositionsWatched
<1> SUFFICES ASSUME TypeOK, WatchChain, GateOpen, NEW p \in Positions,
                    position[p].status = "OPEN", position[p].age > MaxAge + MaxDuration
             PROVE  judged[p] =< 2 * MaxAge + MaxDuration
  BY DEF PositionsWatched
<1>1. heart \in Nat /\ judged[p] \in Nat /\ Age(p) \in Nat
  BY Limits DEF TypeOK, Marks, Ages, Age, Position
<1>2. HeartOK(p)
  BY DEF WatchChain
<1> QED
  BY <1>1, <1>2, FeedAssumption DEF HeartOK, IsOpen, Age, GateOpen, Fresh

LEMMA InitWatchChain == Init => WatchChain
BY Limits DEF Init, WatchChain, ProcessedOK, ListedOK, ReportOK, HeartOK, NoTask, IsOpen

(* While the gate is open, no position that the last good run must have    *)
(* seen goes without a judgement, for any number of positions of any ages. *)
THEOREM GateWatches == Spec => []PositionsWatched
<1>1. TypeOK /\ WatchChain /\ [Next]_vars => TypeOK' /\ WatchChain'
  BY NextTypes, NextWatchChain
<1>2. Init => TypeOK /\ WatchChain
  BY InitTypes, InitWatchChain
<1> QED
  BY <1>1, <1>2, GateFollowsMarks, PTL DEF Spec

-----------------------------------------------------------------------------
(* Fills                                                                   *)

TodoOK == \A p \in task.todo : position[p].status # "NONE"

LockedMark ==
    task.pc = "locking" =>
        task.todo # {} /\ task.marks[Trade] # {} /\ Mark =< position[Trade].age

\* The oldest mark of the current trade is one of its marks.
LEMMA MarkIsMark ==
    ASSUME TypeOK, task.todo # {}, task.marks[Trade] # {}
    PROVE  Trade \in task.todo /\ Trade \in Positions /\ Mark \in task.marks[Trade]
           /\ Mark \in Marks /\ \A age \in task.marks[Trade] : age =< Mark
<1>1. Trade \in task.todo /\ task.todo \subseteq Positions
  BY DEF Trade, TypeOK, Task
<1>2. task.marks[Trade] \in SUBSET Marks
  BY <1>1 DEF TypeOK, Task
<1>3. Mark \in task.marks[Trade] /\ \A age \in task.marks[Trade] : age =< Mark
  BY <1>2, Limits, GreatestExists DEF Mark, Marks
<1> QED
  BY <1>1, <1>2, <1>3

LEMMA NextLockedMark ==
    TypeOK /\ TodoOK /\ LockedMark /\ [Next]_vars => TodoOK' /\ LockedMark'
<1> SUFFICES ASSUME TypeOK, TodoOK, LockedMark, [Next]_vars
             PROVE  TodoOK' /\ LockedMark'
  OBVIOUS
<1>0. task.todo \subseteq Positions
  BY DEF TypeOK, Task
<1>1. CASE Act \/ NoAct \/ FinishTrade \/ TradeFails
  <2>1. task'.pc = "judging" /\ task'.todo \subseteq task.todo
    <3>1. /\ NextMark(task).pc = "judging" /\ NextMark(task).todo = task.todo
          /\ NextTrade(task).pc = "judging" /\ NextTrade(task).todo = task.todo \ {Trade}
          /\ NextMark(task) \in Task /\ NextTrade(task) \in Task
      BY TaskTypes DEF NextMark, NextTrade, TypeOK, Task
    <3>2. \E t \in {NextMark(task), NextTrade(task)} :
             task'.pc = t.pc /\ task'.todo = t.todo
      BY <1>1, <3>1 DEF Act, NoAct, FinishTrade, TradeFails, Task
    <3> QED BY <3>1, <3>2
  <2>2. \A p \in Positions : position[p].status # "NONE" => position'[p].status # "NONE"
    BY <1>1 DEF Act, NoAct, FinishTrade, TradeFails, TypeOK, Position
  <2> QED BY <1>0, <2>1, <2>2 DEF TodoOK, LockedMark
<1>2. CASE Judge
  <2> DEFINE counted == [task EXCEPT !.processed = @ \cup {Trade}]
  <2>1. CASE task' = NextMark(task)
    <3>1. task'.pc = "judging" /\ task'.todo = task.todo
      BY <2>1 DEF NextMark, TypeOK, Task
    <3> QED BY <1>2, <3>1 DEF Judge, TodoOK, LockedMark
  <2>2. CASE task' = NextMark(counted)
    <3>1. task'.pc = "judging" /\ task'.todo = task.todo
      BY <2>2 DEF NextMark, TypeOK, Task
    <3> QED BY <1>2, <3>1 DEF Judge, TodoOK, LockedMark
  <2>3. CASE Usable /\ task' = [counted EXCEPT !.pc = "locking"]
    <3>1. task'.todo = task.todo /\ task'.marks = task.marks /\ UNCHANGED position
      BY <1>2, <2>3 DEF Judge, TypeOK, Task
    <3>2. Trade' = Trade /\ Mark' = Mark
      BY <3>1 DEF Trade, Mark
    <3> QED BY <1>2, <2>3, <3>1, <3>2 DEF Judge, Usable, TodoOK, LockedMark
  <2> QED BY <1>2, <2>1, <2>2, <2>3 DEF Judge
<1>3. CASE ListTrades
  <2>1. task'.pc = "listed" /\ task'.todo = {p \in Positions : position[p].status = "OPEN"}
    BY <1>3 DEF ListTrades, TypeOK, Task
  <2> QED BY <1>3, <2>1 DEF ListTrades, TodoOK, LockedMark
<1>4. CASE Take
  <2>1. task'.pc = "judging" /\ task'.todo = task.todo
    BY <1>4 DEF Take, TypeOK, Task
  <2> QED BY <1>4, <2>1 DEF Take, TodoOK, LockedMark
<1>5. CASE StartTask \/ Record \/ TaskFails \/ Save \/ WorkerCrash
  <2>1. task'.pc # "locking" /\ task'.todo = {}
    <3>1. CASE StartTask
      BY <3>1 DEF StartTask, NoTask
    <3>2. CASE Record \/ TaskFails
      BY <3>2 DEF Record, TaskFails, NoTask
    <3>3. CASE Save \/ WorkerCrash
      BY <3>3 DEF Save, WorkerCrash, NoTask
    <3> QED BY <1>5, <3>1, <3>2, <3>3
  <2> QED BY <2>1 DEF TodoOK, LockedMark
<1>6. ASSUME NEW p \in Positions, Enter(p) \/ CloseElsewhere(p)
      PROVE  TodoOK' /\ LockedMark'
  <2>1. UNCHANGED task /\ Trade' = Trade /\ Mark' = Mark
    BY <1>6 DEF Enter, CloseElsewhere, Trade, Mark
  <2>2. \A q \in Positions : position[q].status # "NONE" =>
          position'[q].status # "NONE" /\ position'[q].age = position[q].age
    BY <1>6 DEF Enter, CloseElsewhere, TypeOK, Position
  <2>3. TodoOK'
    BY <1>0, <2>1, <2>2 DEF TodoOK
  <2>4. ASSUME task.pc = "locking" PROVE Mark =< position'[Trade].age
    BY <1>0, <2>2, <2>4 DEF LockedMark, TodoOK, Trade
  <2> QED BY <2>1, <2>3, <2>4 DEF LockedMark
<1>7. CASE Tick
  <2>1. task'.pc = task.pc /\ task'.todo = task.todo
    BY <1>7 DEF Tick, TypeOK, Task
  <2>2. \A p \in Positions : position[p].status # "NONE" =>
          position'[p].status # "NONE" /\ position'[p].age = Older(position[p].age)
    BY <1>7 DEF Tick, TypeOK, Position
  <2>m. \A p \in Positions : task'.marks[p] = {OlderMark(age) : age \in task.marks[p]}
    BY <1>7 DEF Tick, TypeOK, Task
  <2>3. TodoOK'
    BY <1>0, <2>1, <2>2 DEF TodoOK
  <2>4. ASSUME task.pc = "locking"
        PROVE  task'.marks[Trade] # {} /\ Mark' =< position'[Trade].age
    <3>1. /\ Trade \in task.todo /\ Trade \in Positions /\ Mark \in task.marks[Trade]
          /\ Mark \in Marks /\ \A age \in task.marks[Trade] : age =< Mark
      BY <2>4, MarkIsMark DEF LockedMark
    <3>2. Trade' = Trade /\ task.todo # {}
      BY <2>1, <3>1 DEF Trade
    <3>m. task'.marks[Trade] = {OlderMark(age) : age \in task.marks[Trade]}
      BY <2>m, <3>1
    <3>3. task'.marks[Trade] # {} /\ task'.marks[Trade] \in SUBSET Marks
      BY <3>m, <3>1, Limits DEF TypeOK, Task
    <3>4. Mark' \in task'.marks[Trade]
      BY <3>2, <3>3, Limits, GreatestExists DEF Mark, Marks
    <3>5. PICK age \in task.marks[Trade] : Mark' = OlderMark(age)
      BY <3>m, <3>4
    <3>6. age \in Marks /\ age =< Mark /\ position[Trade].age \in Ages
      BY <3>1, <3>5 DEF TypeOK, Task, Position
    <3>7. OlderMark(age) =< Older(position[Trade].age)
      BY <2>4, <3>6, <3>1, Limits, FeedAssumption
         DEF LockedMark, OlderMark, Older, Fresh, Marks, Ages, Stale, Never
    <3>8. position'[Trade].age = Older(position[Trade].age)
      <4>1. position[Trade].status # "NONE"
        BY <3>1 DEF TodoOK
      <4> QED BY <2>2, <3>1, <4>1
    <3> QED BY <3>3, <3>5, <3>7, <3>8
  <2>5. Trade' = Trade
    BY <2>1 DEF Trade
  <2> QED BY <2>1, <2>3, <2>4, <2>5 DEF LockedMark
<1>8. CASE UNCHANGED <<task, position>>
  <2>1. Trade' = Trade /\ Mark' = Mark
    BY <1>8 DEF Trade, Mark
  <2> QED BY <1>8, <2>1 DEF TodoOK, LockedMark
<1>9. ASSUME NEW S \in SUBSET Coins, NEW age \in 0 .. MaxAge, NEW others \in BOOLEAN,
              Frame(S, age, others)
       PROVE  UNCHANGED <<task, position>>
  BY <1>9 DEF Frame
<1> QED
  BY <1>1, <1>2, <1>3, <1>4, <1>5, <1>6, <1>7, <1>8, <1>9
     DEF Next, TaskStep, Connect, Drop, Calm, vars

LEMMA FreshStep ==
    ASSUME TypeOK, LockedMark, [Next]_vars, NEW p \in Positions,
           position[p].status = "OPEN", position'[p].status = "CLOSED", task' # task
    PROVE  p = Trade /\ Fresh(Mark) /\ Mark =< position[p].age
<1>1. CASE Act
  <2>1. p = Trade
    BY <1>1 DEF Act, TypeOK, Position
  <2> QED BY <1>1, <2>1 DEF Act, Actionable, LockedMark
<1>2. CASE Tick
  BY <1>2 DEF Tick, TypeOK, Position
<1>3. ASSUME NEW q \in Positions, Enter(q) \/ CloseElsewhere(q) PROVE FALSE
  BY <1>3 DEF Enter, CloseElsewhere
<1>4. ASSUME NEW S \in SUBSET Coins, NEW age \in 0 .. MaxAge, NEW others \in BOOLEAN,
             Frame(S, age, others)
      PROVE  FALSE
  BY <1>4 DEF Frame
<1> QED
  BY <1>1, <1>2, <1>3, <1>4
     DEF Next, TaskStep, vars, Connect, Drop, StartTask, ListTrades, Take, Judge, NoAct,
         FinishTrade, TradeFails, Record, TaskFails, Save, WorkerCrash, Calm

LEMMA InitLockedMark == Init => TodoOK /\ LockedMark
BY DEF Init, TodoOK, LockedMark, NoTask

(* No close is made on a mark that expired while the job waited for the    *)
(* row, nor on one from before the entry.                                  *)
THEOREM ClosesOnFreshMarks == Spec => FillsFresh
<1>1. TypeOK /\ TodoOK /\ LockedMark /\ [Next]_vars => TypeOK' /\ TodoOK' /\ LockedMark'
  BY NextTypes, NextLockedMark
<1>2. Init => TypeOK /\ TodoOK /\ LockedMark
  BY InitTypes, InitLockedMark
<1>3. TypeOK /\ LockedMark /\ [Next]_vars =>
        [\A p \in Positions :
          position[p].status = "OPEN" /\ position'[p].status = "CLOSED" /\ task' # task =>
              p = Trade /\ Fresh(Mark) /\ Mark =< position[p].age]_vars
  BY FreshStep
<1> QED
  BY <1>1, <1>2, <1>3, PTL DEF Spec, FillsFresh
=============================================================================
