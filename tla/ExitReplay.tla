------------------------------ MODULE ExitReplay ------------------------------
(***************************************************************************)
(* One open paper position, a market that ticks, and the two jobs that     *)
(* watch it: the one-second job, which judges live marks, and the          *)
(* reconciler, which replays completed candles after a durable checkpoint  *)
(* and falls back to a live mark when it has no new candle.  The subject   *)
(* is which moment of the market each job judges against which stop.       *)
(*                                                                         *)
(* Tick k is the mark at time k; candle c covers the ticks of [c*L, (c+1)*L).*)
(* The row lock is taken: a job's decision and its commit are one step,    *)
(* except where the reconciler commits and locks again.                    *)
(***************************************************************************)
EXTENDS ExitRules, FiniteSetsExt, Sequences

CONSTANTS
    Positions,    \* initial positions: level records of ExitRules
    Prices,       \* Prices[side][official]: the marks the market may show
    CandleLength, \* ticks in a candle of the exit monitor's timeframe
    MaxAge,       \* MAX_PRICE_AGE_SECONDS, in ticks
    OpenedAt,     \* the tick at which the position was opened
    Horizon,      \* bound: the last tick of the market
    LiveFallback  \* the reconciler may use a live mark between candles

\* A position begins before target 1, at its initial stop.
ASSUME LevelAssumption ==
    /\ Positions \subseteq Levels
    /\ \A p \in Positions : Ordered(p) /\ ~ p.t1 /\ p.stop = p.initial
    /\ Prices \in [{"LONG", "SHORT"} -> [BOOLEAN -> SUBSET Int]]
ASSUME TimeAssumption ==
    /\ CandleLength \in Nat \ {0}
    /\ MaxAge \in Nat
    /\ OpenedAt \in Nat /\ Horizon \in Nat /\ OpenedAt =< Horizon
ASSUME FlagAssumption == LiveFallback \in BOOLEAN

VARIABLES
    price,      \* price[k]: the mark at tick k, for every tick so far
    stored,     \* number of completed candles in the database
    pos,        \* the position's levels (stop and t1 change)
    status,     \* "OPEN", or the trigger that closed it
    exitAt,     \* evidence time of the exit
    checkpoint, \* last_exit_evaluated_at
    rec,        \* the reconciler: step, candles left, pass checkpoint, evidence
    stopSince,  \* history: market time at which the active stop was set
    seen,       \* the newest mark the one-second job has taken
    fastChanges, \* history: ticks whose mark made that job change the row
    passStop,   \* history: it was the reconciler that set the active stop
    lost        \* history: closes of candles whose second look got no lock

vars == <<price, stored, pos, status, exitAt, checkpoint, rec,
          stopSince, seen, fastChanges, passStop, lost>>

now == Len(price) - 1          \* price[1] is tick 0
Mark(k) == price[k + 1]
NoTime == -1

-----------------------------------------------------------------------------
(* Evidence                                                                *)

Start(c) == c * CandleLength
End(c) == (c + 1) * CandleLength
Ticks(c) == Start(c) .. End(c) - 1

Candle(c) ==
    LET marks == {Mark(k) : k \in Ticks(c)}
    IN  [high |-> Max(marks), low |-> Min(marks), close |-> Mark(End(c) - 1),
         end |-> End(c), live |-> FALSE]

PointAt(p, k, isLive) ==
    [high |-> p, low |-> p, close |-> p, end |-> k, live |-> isLive]

LiveMark(k) == PointAt(Mark(k), k, TRUE)

\* Mutant: every candle is judged in full.
NeverPredates(c) == FALSE

\* _predates_live_protection
Predates(c) == Start(c) < checkpoint

\* The evidence the replay really judges: an overlapping candle counts only
\* with its known close (_overlap_close_evidence).
Evidence(c) == IF Predates(c) THEN PointAt(Mark(End(c) - 1), End(c), TRUE)
                              ELSE Candle(c)

\* Mutant: the candle that is still open is replayed too.
CandlesAfter == {c \in 0 .. stored : End(c) > checkpoint}

\* get_final_candles_after: completed candles that close after checkpoint.
NewCandles == {c \in 0 .. stored - 1 : End(c) > checkpoint}

-----------------------------------------------------------------------------
NoEvidence == PointAt(0, 0, FALSE)
Idle == [pc |-> "idle", queue |-> {}, last |-> NoTime, evidence |-> NoEvidence]

Init ==
    /\ pos \in Positions
    /\ price \in [1 .. OpenedAt + 1 -> Prices[pos.side][pos.official]]
    /\ Mark(OpenedAt) = pos.entry
    /\ stored = 0
    /\ status = "OPEN"
    /\ exitAt = NoTime
    /\ checkpoint = OpenedAt
    /\ rec = Idle
    /\ stopSince = OpenedAt
    /\ seen = OpenedAt
    /\ fastChanges = {}
    /\ passStop = FALSE
    /\ lost = {}

\* The market shows its next mark.
Tick ==
    /\ now < Horizon
    /\ \E p \in Prices[pos.side][pos.official] : price' = Append(price, p)
    /\ UNCHANGED <<stored, pos, status, exitAt, checkpoint, rec, stopSince,
                   seen, fastChanges, passStop, lost>>

\* The collector stores the next candle once it is closed, in order.
StoreCandle ==
    /\ End(stored) =< now
    /\ stored' = stored + 1
    /\ UNCHANGED <<price, pos, status, exitAt, checkpoint, rec, stopSince,
                   seen, fastChanges, passStop, lost>>

-----------------------------------------------------------------------------
(* What the repositories write                                             *)

\* close_trade; the exit is dated by its evidence, not by processing time.
CloseTrade(decision, at) ==
    /\ status' = decision.reason
    /\ exitAt' = at
    /\ UNCHANGED <<pos, checkpoint, stopSince>>

\* Mutant: the protection stop of target 1 replaces a tighter stop.
ProtectionReplaces == IF pos.official THEN pos.stop ELSE ProtectionStop(pos)

StopAfterTarget1 == IF pos.official THEN pos.stop
                    ELSE Best(pos.side, pos.stop, ProtectionStop(pos))

\* apply_target1: official rows keep their stop, Strategy Paper rows protect
\* half of the move but never loosen.  evaluated is the new checkpoint, or
\* NoTime to leave it alone; at is the market time of the evidence.
ApplyTarget1(at, evaluated) ==
    LET stop == StopAfterTarget1
    IN  /\ pos' = [pos EXCEPT !.t1 = TRUE, !.stop = stop]
        /\ stopSince' = IF stop = pos.stop THEN stopSince ELSE at
        /\ checkpoint' = IF evaluated = NoTime THEN checkpoint ELSE evaluated
        /\ UNCHANGED <<status, exitAt>>

\* move_stop_loss: only a strictly better stop is written.
MoveStop(decision, at, evaluated) ==
    /\ Better(pos.side, decision.price, pos.stop)
    /\ pos' = [pos EXCEPT !.stop = decision.price]
    /\ stopSince' = at
    /\ checkpoint' = IF evaluated = NoTime THEN checkpoint ELSE evaluated
    /\ UNCHANGED <<status, exitAt>>

\* The row after a decision on evidence ev that is not HOLD.
Apply(decision, ev, evaluated) ==
    CASE decision.action = "CLOSE"         -> CloseTrade(decision, ev.end)
      [] decision.action = "PARTIAL_CLOSE" -> ApplyTarget1(ev.end, evaluated)
      [] decision.action = "MOVE_STOP"     -> MoveStop(decision, ev.end, evaluated)

-----------------------------------------------------------------------------
(* The one-second job                                                      *)

RowFree == rec.pc # "holding"

\* One actionable tick: fresh, not before entry, never older than a tick
\* taken before (out-of-order frames are dropped), judged on the re-read row.
\* Its time becomes the checkpoint when it changes protection.  The same tick
\* may be judged again: for target 2 right after target 1, and as the latest
\* mark when no newer one has arrived.
FastExit ==
    /\ status = "OPEN"
    /\ RowFree
    /\ \E k \in seen .. now :
          /\ now - k =< MaxAge
          /\ LET decision == Decide(pos, LiveMark(k))
             IN  /\ decision.action # "HOLD"
                 /\ Apply(decision, LiveMark(k), k)
          /\ seen' = k
          /\ fastChanges' = fastChanges \cup {k}
          /\ passStop' = (passStop /\ pos'.stop = pos.stop)
    /\ UNCHANGED <<price, stored, rec, lost>>

-----------------------------------------------------------------------------
(* The reconciler                                                          *)

PassSetsStop == passStop' = (passStop \/ pos'.stop # pos.stop)

\* Candles are fetched before the row is locked.
Fetch ==
    /\ rec.pc = "idle"
    /\ status = "OPEN"
    /\ NewCandles # {}
    /\ rec' = [Idle EXCEPT !.pc = "fetched", !.queue = NewCandles]
    /\ UNCHANGED <<price, stored, pos, status, exitAt, checkpoint, stopSince,
                   seen, fastChanges, passStop, lost>>

\* lock_open_trade finds nothing: the position was closed meanwhile.
FindClosed ==
    /\ rec.pc \in {"fetched", "recheck"}
    /\ status # "OPEN"
    /\ rec' = Idle
    /\ UNCHANGED <<price, stored, pos, status, exitAt, checkpoint, stopSince,
                   seen, fastChanges, passStop, lost>>

SecondLook == rec.pc = "recheck" /\ ~ rec.evidence.live

\* The row lock is held by the one-second job: NOWAIT fails, the pass ends.
LockConflict ==
    /\ rec.pc \in {"fetched", "recheck"}
    /\ status = "OPEN"
    /\ rec' = Idle
    /\ lost' = lost \cup {k \in {rec.evidence.end} : SecondLook}
    /\ UNCHANGED <<price, stored, pos, status, exitAt, checkpoint, stopSince,
                   seen, fastChanges, passStop>>

\* Mutant: only live marks are judged again.
RecheckLiveOnly(ev) == ev.live

NeedsTarget2Recheck(ev) == ev.live \/ TargetHit(pos, ev, pos.target2)

\* Judge the next candle of the pass; HOLD keeps the row lock, a commit
\* releases it.  An overlapping candle leaves no checkpoint behind.
ReplayCandle ==
    /\ rec.pc \in {"fetched", "holding"}
    /\ status = "OPEN"
    /\ rec.queue # {}
    /\ LET c == Min(rec.queue)
           rest == rec.queue \ {c}
           ev == Evidence(c)
           decision == Decide(pos, ev)
           evaluated == IF ev.live THEN NoTime ELSE End(c)
       IN  IF Predates(c) /\ End(c) =< checkpoint
           THEN /\ rec' = [rec EXCEPT !.pc = "holding", !.queue = rest]
                /\ UNCHANGED <<pos, status, exitAt, checkpoint, stopSince>>
           ELSE IF decision.action = "HOLD"
           THEN /\ rec' = [rec EXCEPT !.pc = "holding", !.queue = rest,
                                      !.last = evaluated]
                /\ UNCHANGED <<pos, status, exitAt, checkpoint, stopSince>>
           ELSE /\ Apply(decision, ev, evaluated)
                /\ rec' = IF decision.action = "CLOSE" THEN Idle
                          ELSE IF /\ decision.action = "PARTIAL_CLOSE"
                             /\ NeedsTarget2Recheck(ev)
                          THEN [rec EXCEPT !.pc = "recheck", !.queue = rest,
                                           !.last = evaluated, !.evidence = ev]
                          ELSE [rec EXCEPT !.pc = "fetched", !.queue = rest,
                                           !.last = evaluated]
    /\ PassSetsStop
    /\ UNCHANGED <<price, stored, seen, fastChanges, lost>>

\* _after_target1_evidence: a candle is judged again by its favourable
\* extreme only, which it reached after target 1; a single mark as it is.
AfterTarget1(ev) ==
    IF ev.live THEN ev ELSE PointAt(Favourable(pos.side, ev), ev.end, FALSE)

RecheckTarget2 ==
    /\ rec.pc = "recheck"
    /\ status = "OPEN"
    /\ LET ev == AfterTarget1(rec.evidence)
           decision == Decide(pos, ev)
           onward == [rec EXCEPT !.pc = "fetched", !.evidence = NoEvidence]
       IN  IF decision.action \in {"CLOSE", "MOVE_STOP"}
           THEN /\ Apply(decision, ev, rec.last)
                /\ rec' = IF decision.action = "CLOSE" THEN Idle ELSE onward
           ELSE /\ rec' = onward
                /\ UNCHANGED <<pos, status, exitAt, checkpoint, stopSince>>
    /\ PassSetsStop
    /\ UNCHANGED <<price, stored, seen, fastChanges, lost>>

\* mark_exit_evaluated at the end of the pass; the checkpoint only advances.
FinishPass ==
    /\ rec.pc \in {"fetched", "holding"}
    /\ status = "OPEN"
    /\ rec.queue = {}
    /\ checkpoint' = IF rec.last > checkpoint THEN rec.last ELSE checkpoint
    /\ rec' = Idle
    /\ UNCHANGED <<price, stored, pos, status, exitAt, stopSince, seen,
                   fastChanges, passStop, lost>>

\* No new candle: a current mark is judged, and after the deadline it closes
\* the position (_deadline_catchup_candle).  The checkpoint does not move;
\* after target 1 the same mark is judged again.
JudgeLiveMark ==
    /\ LiveFallback
    /\ rec.pc = "idle"
    /\ status = "OPEN"
    /\ NewCandles = {}
    /\ LET decision == Decide(pos, LiveMark(now))
       IN  /\ decision.action # "HOLD"
           /\ Apply(decision, LiveMark(now), NoTime)
           /\ rec' = IF decision.action = "PARTIAL_CLOSE"
                     THEN [Idle EXCEPT !.pc = "recheck",
                                       !.evidence = LiveMark(now)]
                     ELSE Idle
    /\ PassSetsStop
    /\ UNCHANGED <<price, stored, seen, fastChanges, lost>>

Reconcile == \/ Fetch
             \/ FindClosed
             \/ ReplayCandle
             \/ RecheckTarget2
             \/ FinishPass
             \/ JudgeLiveMark

Next == \/ Tick
        \/ StoreCandle
        \/ FastExit
        \/ Reconcile
        \/ LockConflict

Spec == Init /\ [][Next]_vars

(* The scheduler keeps calling the reconciler and marks keep arriving.  Its *)
(* lock attempts may fail, but the one-second job holds the row briefly, so *)
(* not all of them do.  That job and the candle collector owe nothing.      *)
FairSpec == Spec /\ WF_vars(Tick) /\ WF_vars(Reconcile) /\ SF_vars(ReplayCandle)

-----------------------------------------------------------------------------
(* Properties                                                              *)

TypeOK ==
    /\ price \in Seq(Int) /\ Len(price) > OpenedAt
    /\ stored \in Nat /\ stored * CandleLength =< now
    /\ pos \in Levels
    /\ status \in {"OPEN", "STOP", "TARGET1", "TARGET2", "TIME_EXIT"}
    /\ checkpoint \in 0 .. now
    /\ exitAt \in {NoTime} \cup (0 .. now)
    /\ rec \in [pc: {"idle", "fetched", "holding", "recheck"},
               queue: SUBSET (0 .. stored - 1),
               last: {NoTime} \cup (0 .. now),
               evidence: EvidenceType]
    /\ rec.evidence.end =< now
    /\ stopSince \in 0 .. now
    /\ seen \in 0 .. now
    /\ fastChanges \subseteq 0 .. now
    /\ passStop \in BOOLEAN
    /\ lost \subseteq 0 .. now

Breached(k) == AtLeast(pos.side, pos.stop, Mark(k))

\* The comment of _predates_live_protection: a stop that a live mark moved is
\* not applied to an earlier high or low.  Whoever closes at the stop, the
\* market was at or beyond it after it came into force, give or take the age
\* of a quote that may still be judged.  Two cases are not covered: a stop that
\* the reconciler moved where it falls back on live marks, and its second look
\* after target 1, which judges old evidence against the re-read row.
StopNotRetroactive ==
    [][/\ status = "OPEN" /\ status' = "STOP"
       /\ rec.pc = "recheck" => UNCHANGED rec
       /\ ~ (LiveFallback /\ passStop)
       => \E k \in 0 .. now : k >= stopSince - MaxAge /\ Breached(k)]_vars

\* Moments that cut a candle in two: the entry, and every live mark with
\* which the one-second job changed the row and moved the checkpoint.
Cuts == {OpenedAt} \cup fastChanges

Uncut(c) == \A m \in Cuts : m =< Start(c)

\* What the checkpoint claims, as far as the replay itself moved it: of the
\* candles after the last change by the one-second job none it has passed
\* touched the stop of an official row, its levels locked, that is still open.
ReplayComplete ==
    pos.official /\ pos.locked /\ status = "OPEN" =>
        \A c \in 0 .. stored - 1 :
            End(c) =< checkpoint /\ Uncut(c)
            => \A k \in Ticks(c) : ~ Breached(k)

\* The protective stop of a position is never loosened, by either job, in
\* any order of their decisions.
StopNeverLoosened == [][AtLeast(pos.side, pos'.stop, pos.stop)]_vars

\* Reconciling a candle that reached both targets closes both legs: once its
\* pass is over the position is not left open at a target 2 it passed, unless
\* the one-second job held the row when the second look asked for it.  Then
\* target 1 is committed with the checkpoint, and no pass returns to the candle
\* (backend/docs/paper-exit-protection.md:50 knows of no such case).
LegLostOnlyToLock ==
    status = "OPEN" /\ pos.t1 /\ rec.pc = "idle" =>
        \A c \in 0 .. stored - 1 :
            End(c) =< checkpoint /\ Uncut(c) /\ End(c) \notin lost
            => ~ TargetHit(pos, Candle(c), pos.target2)

\* TRADING_INVARIANTS.md:79: the deadline does not depend on a new candle; a
\* position past it is closed as long as marks arrive and the reconciler runs.
DeadlineCloses == (status = "OPEN" /\ now >= pos.deadline) ~> (status # "OPEN")

=============================================================================
