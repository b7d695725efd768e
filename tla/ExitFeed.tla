------------------------------- MODULE ExitFeed -------------------------------
(***************************************************************************)
(* Live exit protection and the entry gate that depends on it.  A worker   *)
(* receives marks of the exchange in a stream thread; its one-second job   *)
(* lists the open positions, takes the marks collected since its last run, *)
(* judges each position on them and reports a heartbeat through the        *)
(* database.  An entry is admitted only while that heartbeat is good.      *)
(*                                                                         *)
(* Times are ages: a record carries how long ago it was made, and all ages *)
(* grow together.  An age past every limit stands for "never" as well.     *)
(* Marks of a symbol are told apart by their ages, so a set of ages is the *)
(* queue of them, the oldest first.  Prices are left out: a mark either    *)
(* asks for an action on a position or does not.                           *)
(***************************************************************************)
EXTENDS Integers, FiniteSets, FiniteSetsExt

CONSTANTS
    Coins,        \* symbols that have positions
    Positions,    \* rows of both paper books
    CoinOf,       \* CoinOf[p]: symbol of position p
    MaxAge,       \* MAX_PRICE_AGE_SECONDS, EXIT_PROTECTION_MAX_AGE_SECONDS: 5
    MaxDuration,  \* a run of the job that takes longer is degraded: 2
    BufferLength  \* pending marks kept for a symbol: 10

ASSUME FeedAssumption ==
    /\ MaxAge \in Nat /\ MaxDuration \in Nat /\ BufferLength \in Nat \ {0}
    /\ CoinOf \in [Positions -> Coins]

VARIABLES
    feed,      \* the stream: connected, error, age of the last valid frame
    latest,    \* latest[c]: age of the newest mark of c (_latest)
    pending,   \* pending[c]: ages of the marks not taken yet (_pending)
    task,      \* the run of paper_trade_fast_exit in progress
    heart,     \* the row of fast_exit_heartbeats: age of the last run, if good
    position,  \* position[p]: the row's status and the age of the entry
    judged,    \* history: age of the mark position p was last judged on
    lastFrame, \* history: age of the last valid frame any process accepted
    calm       \* environment: from now on nothing fails or is late

vars == <<feed, latest, pending, task, heart, position, judged, lastFrame, calm>>

-----------------------------------------------------------------------------
Never == 2 * MaxAge + MaxDuration + 1
Ages  == 0 .. Never
Stale == MaxAge + 1
Marks == 0 .. Stale
Fresh(age) == age =< MaxAge

Feed == [connected : BOOLEAN, error : BOOLEAN, age : Marks]
NoFeed == [connected |-> FALSE, error |-> FALSE, age |-> Stale]

Position == [status : {"NONE", "OPEN", "CLOSED"}, age : Ages]

\* pc: idle, started (stream health read), listed, judging, locking (a mark of
\* the current position asks for an action), saving (state not stored yet).
\* report: age of the finished run's record if it was good, or else stale; the
\* other fields of the record (_state) are shown to users and decide nothing.
\* ran: a calm worker has completed its run of this instant.
Task == [pc : {"idle", "started", "listed", "judging", "locking", "saving"},
         stream : BOOLEAN, errors : BOOLEAN, elapsed : 0 .. MaxDuration + 1,
         todo : SUBSET Positions, marks : [Positions -> SUBSET Marks],
         processed : SUBSET Positions, report : Marks,
         ran : BOOLEAN]
NoTask == [pc |-> "idle", stream |-> FALSE, errors |-> FALSE, elapsed |-> 0,
           todo |-> {}, marks |-> [p \in Positions |-> {}], processed |-> {}, report |-> Stale,
           ran |-> FALSE]

TypeOK ==
    /\ feed \in Feed
    /\ latest \in [Coins -> Marks]
    /\ pending \in [Coins -> SUBSET Marks]
    /\ \A c \in Coins : Cardinality(pending[c]) =< BufferLength
    /\ task \in Task
    /\ heart \in Marks
    /\ position \in [Positions -> Position]
    /\ judged \in [Positions -> Ages]
    /\ lastFrame \in Ages
    /\ calm \in BOOLEAN

Init ==
    /\ feed = NoFeed
    /\ latest = [c \in Coins |-> Stale] /\ pending = [c \in Coins |-> {}]
    /\ task = NoTask /\ heart = Stale
    /\ position = [p \in Positions |-> [status |-> "NONE", age |-> 0]]
    /\ judged = [p \in Positions |-> Never] /\ lastFrame = Never
    /\ calm = FALSE

-----------------------------------------------------------------------------
(* The stream                                                              *)

Connect ==
    /\ ~feed.connected
    /\ feed' = [feed EXCEPT !.connected = TRUE]
    /\ UNCHANGED <<latest, pending, task, heart, position, judged, lastFrame, calm>>

\* A closed socket, or no frame for five seconds.
Drop ==
    /\ feed.connected /\ ~calm
    /\ feed' = [feed EXCEPT !.connected = FALSE, !.error = TRUE]
    /\ UNCHANGED <<latest, pending, task, heart, position, judged, lastFrame, calm>>

\* Marks that are stale, or not newer than the one before, are refused.
Accepts(c, age) == Fresh(age) /\ age < latest[c]

\* Mutant: an unbounded queue.
Collected(marks, age) == marks \cup {age}

\* A full queue loses its oldest mark.
Buffered(marks, age) ==
    {age} \cup IF Cardinality(marks) < BufferLength THEN marks ELSE marks \ {Max(marks)}

\* Mutant: the error of the last disconnect stays.
ReceivedAfterError == [feed EXCEPT !.age = 0]

Received == [feed EXCEPT !.error = FALSE, !.age = 0]

\* A frame with marks of age "age" for the coins of S, and with valid marks of
\* coins nobody holds if others is TRUE.
Frame(S, age, others) ==
    LET accepted == {c \in S : Accepts(c, age)} IN
    /\ feed.connected
    /\ calm => S = Coins /\ age = 0 /\ others
    /\ latest' = [c \in Coins |-> IF c \in accepted THEN age ELSE latest[c]]
    /\ pending' = [c \in Coins |-> IF c \in accepted THEN Buffered(pending[c], age)
                                   ELSE pending[c]]
    /\ IF accepted # {} \/ others
       THEN feed' = Received /\ lastFrame' = 0
       ELSE UNCHANGED <<feed, lastFrame>>
    /\ UNCHANGED <<task, heart, position, judged, calm>>

\* Mutant: the handshake alone makes the stream usable.
ReadyConnected == feed.connected /\ ~feed.error

StreamReady == feed.connected /\ Fresh(feed.age) /\ ~feed.error

-----------------------------------------------------------------------------
(* The one-second job                                                      *)

\* A stream that is not ready is an error of the run from the start.
StartTask ==
    /\ task.pc = "idle" /\ ~task.ran
    /\ task' = [NoTask EXCEPT !.pc = "started", !.stream = StreamReady,
                              !.errors = ~StreamReady]
    /\ UNCHANGED <<feed, latest, pending, heart, position, judged, lastFrame, calm>>

ListTrades ==
    /\ task.pc = "started"
    /\ task' = [task EXCEPT !.pc = "listed",
                            !.todo = {p \in Positions : position[p].status = "OPEN"}]
    /\ UNCHANGED <<feed, latest, pending, heart, position, judged, lastFrame, calm>>

\* The marks collected for a symbol, or else its newest one, if fresh.
Taken(c) == {age \in IF pending[c] # {} THEN pending[c] ELSE {latest[c]} : Fresh(age)}

\* Whatever was collected for the symbols of no listed position is dropped.
Take ==
    /\ task.pc = "listed"
    /\ task' = [task EXCEPT !.pc = "judging",
                  !.marks = [p \in Positions |->
                                IF p \in task.todo THEN Taken(CoinOf[p]) ELSE {}]]
    /\ pending' = [c \in Coins |-> {}]
    /\ UNCHANGED <<feed, latest, heart, position, judged, lastFrame, calm>>

Trade == CHOOSE p \in task.todo : TRUE
Mark  == Max(task.marks[Trade])

NextMark(t) == [t EXCEPT !.pc = "judging", !.marks[Trade] = @ \ {Mark}]
NextTrade(t) == [t EXCEPT !.pc = "judging", !.marks[Trade] = {}, !.todo = @ \ {Trade}]

\* A mark that has become stale, or was made before the entry, is passed over.
Usable == Fresh(Mark) /\ Mark =< position[Trade].age

Judge ==
    /\ task.pc = "judging" /\ task.todo # {} /\ task.marks[Trade] # {}
    /\ \/ /\ ~Usable
          /\ task' = NextMark(task)
          /\ UNCHANGED judged
       \/ /\ Usable
          /\ judged' = [judged EXCEPT ![Trade] = Mark]
          /\ LET counted == [task EXCEPT !.processed = @ \cup {Trade}] IN
             \/ task' = NextMark(counted)
             \/ task' = [counted EXCEPT !.pc = "locking"]
    /\ UNCHANGED <<feed, latest, pending, heart, position, lastFrame, calm>>

\* Mutant: the age of the mark is not checked again once the lock is held.
StillOpen == position[Trade].status = "OPEN"

Actionable == position[Trade].status = "OPEN" /\ Fresh(Mark)

\* The mark is acted on under the row's lock: a close ends the position; a moved
\* stop, a checkpoint or the first target of two leaves it to its next mark.
Act ==
    /\ task.pc = "locking" /\ Actionable
    /\ \/ /\ position' = [position EXCEPT ![Trade].status = "CLOSED"]
          /\ task' = NextTrade(task)
       \/ /\ task' = NextMark(task)
          /\ UNCHANGED position
    /\ UNCHANGED <<feed, latest, pending, heart, judged, lastFrame, calm>>

\* The row was closed by somebody else, or the mark expired on the way.
NoAct ==
    /\ task.pc = "locking" /\ ~Actionable
    /\ task' = [NextMark(task) EXCEPT !.errors = @ \/ position[Trade].status = "OPEN"]
    /\ UNCHANGED <<feed, latest, pending, heart, position, judged, lastFrame, calm>>

\* Mutant: a position without a usable mark is not reported as missing.
Unmarked == FALSE

Missing == Trade \notin task.processed

FinishTrade ==
    /\ task.pc = "judging" /\ task.todo # {} /\ task.marks[Trade] = {}
    /\ task' = [NextTrade(task) EXCEPT !.errors = @ \/ Missing]
    /\ UNCHANGED <<feed, latest, pending, heart, position, judged, lastFrame, calm>>

\* Another process holds the row's lock (NOWAIT), or the database fails.
TradeFails ==
    /\ task.pc \in {"judging", "locking"} /\ task.todo # {} /\ ~calm
    /\ task' = [NextTrade(task) EXCEPT !.errors = TRUE]
    /\ UNCHANGED <<feed, latest, pending, heart, position, judged, lastFrame, calm>>

Healthy == task.stream /\ ~task.errors /\ task.elapsed =< MaxDuration

\* record_exit_protection_run, up to the copy of the record that is stored.
Record ==
    /\ task.pc = "judging" /\ task.todo = {}
    /\ task' = [NoTask EXCEPT !.pc = "saving", !.report = IF Healthy THEN 0 ELSE Stale]
    /\ UNCHANGED <<feed, latest, pending, heart, position, judged, lastFrame, calm>>

TaskFails ==
    /\ task.pc \in {"started", "listed", "judging"} /\ ~calm
    /\ task' = [NoTask EXCEPT !.pc = "saving"]
    /\ UNCHANGED <<feed, latest, pending, heart, position, judged, lastFrame, calm>>

Save ==
    /\ task.pc = "saving"
    /\ \/ heart' = task.report
       \/ ~calm /\ UNCHANGED heart
    /\ task' = [NoTask EXCEPT !.ran = calm]
    /\ UNCHANGED <<feed, latest, pending, position, judged, lastFrame, calm>>

WorkerCrash ==
    /\ ~calm
    /\ feed' = NoFeed /\ latest' = [c \in Coins |-> Stale]
    /\ pending' = [c \in Coins |-> {}] /\ task' = NoTask
    /\ UNCHANGED <<heart, position, judged, lastFrame, calm>>

-----------------------------------------------------------------------------
(* The rest of the system                                                  *)

\* exit_protection_snapshot(...)["ready"], as an entry reads it.
GateOpen == Fresh(heart)

\* An entry may be committed any time after its look at the gate.
Enter(p) ==
    /\ position[p].status = "NONE"
    /\ position' = [position EXCEPT ![p] = [status |-> "OPEN", age |-> 0]]
    /\ UNCHANGED <<feed, latest, pending, task, heart, judged, lastFrame, calm>>

\* The reconciler or a user closes a position.
CloseElsewhere(p) ==
    /\ position[p].status = "OPEN"
    /\ position' = [position EXCEPT ![p].status = "CLOSED"]
    /\ UNCHANGED <<feed, latest, pending, task, heart, judged, lastFrame, calm>>

Calm ==
    /\ ~calm /\ calm' = TRUE
    /\ UNCHANGED <<feed, latest, pending, task, heart, position, judged, lastFrame>>

Older(age) == IF age < Never THEN age + 1 ELSE Never
OlderMark(age) == IF Fresh(age) THEN age + 1 ELSE Stale

\* When it is calm, every second brings a frame and a completed run.
Tick ==
    /\ calm => lastFrame = 0 /\ task.ran
    /\ feed' = [feed EXCEPT !.age = OlderMark(@)]
    /\ latest' = [c \in Coins |-> OlderMark(latest[c])]
    /\ pending' = [c \in Coins |-> {OlderMark(age) : age \in pending[c]}]
    /\ task' = [task EXCEPT
                  !.elapsed = IF task.pc = "idle" \/ @ > MaxDuration THEN @ ELSE @ + 1,
                  !.marks = [p \in Positions |-> {OlderMark(age) : age \in @[p]}],
                  !.report = OlderMark(@), !.ran = FALSE]
    /\ heart' = OlderMark(heart)
    /\ position' = [p \in Positions |->
          [position[p] EXCEPT !.age = IF position[p].status = "NONE" THEN @ ELSE Older(@)]]
    /\ judged' = [p \in Positions |-> Older(judged[p])]
    /\ lastFrame' = Older(lastFrame)
    /\ UNCHANGED calm

TaskStep ==
    \/ StartTask \/ ListTrades \/ Take \/ Judge \/ Act \/ NoAct
    \/ FinishTrade \/ Record \/ Save

Next ==
    \/ Connect \/ Drop
    \/ \E S \in SUBSET Coins, age \in 0 .. MaxAge, others \in BOOLEAN : Frame(S, age, others)
    \/ TaskStep \/ TradeFails \/ TaskFails \/ WorkerCrash
    \/ \E p \in Positions : Enter(p) \/ CloseElsewhere(p)
    \/ Calm \/ Tick

Spec == Init /\ [][Next]_vars

\* The worker's threads run, a calm exchange answers, and time passes.
Fairness ==
    /\ WF_vars(Connect) /\ WF_vars(Frame(Coins, 0, TRUE))
    /\ WF_vars(TaskStep) /\ WF_vars(Tick)

FairSpec == Spec /\ Fairness

-----------------------------------------------------------------------------
(* An open gate means that some worker received a valid frame not long     *)
(* ago, whatever crashed, was dropped or could not be stored since:        *)
(* exit_protection_snapshot vouches for the stream through two ages, that  *)
(* of the heartbeat and that of the frame when the run began.              *)
EntryProtected == GateOpen => lastFrame =< 2 * MaxAge + MaxDuration

(* An open gate means that every open position that the last good run      *)
(* must have listed was judged on a mark not long ago, unless an entry is  *)
(* that recent itself: one position without marks degrades the run for all.*)
PositionsWatched ==
    GateOpen => \A p \in Positions :
        position[p].status = "OPEN" /\ position[p].age > MaxAge + MaxDuration =>
            judged[p] =< 2 * MaxAge + MaxDuration

(* The job closes a position only on a mark that is still fresh under the  *)
(* lock and was made after the entry; docs/paper-exit-protection.md says   *)
(* that "quote age is checked again after the lock is acquired".           *)
FillsFresh ==
    [][\A p \in Positions :
          position[p].status = "OPEN" /\ position'[p].status = "CLOSED" /\ task' # task =>
              p = Trade /\ Fresh(Mark) /\ Mark =< position[p].age]_vars

(* Once nothing fails any more, entries are admitted again and again,      *)
(* whatever errors and stale records the failures left behind.             *)
Resumes == calm ~> GateOpen
=============================================================================
