------------------------------ MODULE ExitRules ------------------------------
(***************************************************************************)
(* evaluate_paper_trade_exit as a pure operator: one position, one piece   *)
(* of price evidence, one decision.  Prices are integers and a position is *)
(* LONG or SHORT.  Evidence is a completed candle or one live mark (a      *)
(* candle whose high, low and close agree).                                *)
(*                                                                         *)
(* A position carries                                                      *)
(*   side, entry, initial, stop, target1, target2                          *)
(*   t1         TRUE once target1_hit_at is set                            *)
(*   staged     its exit_policy is one of the staged policies              *)
(*   official   a PaperTrade row; FALSE: a row of a Strategy Paper book    *)
(*   locked     _lock_exit_levels: an official row with entry evidence     *)
(*   profile    "BASELINE" or "COST_SAFE" (exit_management_profile)        *)
(*   activation trailing_activation_r, 0 for rows that predate it          *)
(*   deadline   opened_at + max_hold_hours                                 *)
(* and evidence carries high, low, close, end (close_time) and live.       *)
(***************************************************************************)
EXTENDS Integers

Levels ==
    [side: {"LONG", "SHORT"}, entry: Int, initial: Int, stop: Int,
     target1: Int, target2: Int, t1: BOOLEAN, staged: BOOLEAN,
     official: BOOLEAN, locked: BOOLEAN, profile: {"BASELINE", "COST_SAFE"},
     activation: Nat, deadline: Int]

EvidenceType == [high: Int, low: Int, close: Int, end: Nat, live: BOOLEAN]

\* Price a is at least as favourable to the side as price b.
AtLeast(side, a, b) == IF side = "LONG" THEN a >= b ELSE a =< b

Better(side, a, b) == AtLeast(side, a, b) /\ a # b

Best(side, a, b) == IF AtLeast(side, a, b) THEN a ELSE b

Worst(side, a, b) == IF AtLeast(side, a, b) THEN b ELSE a

\* The extreme of the evidence in favour of, and against, the side.
Favourable(side, ev) == IF side = "LONG" THEN ev.high ELSE ev.low

Adverse(side, ev) == IF side = "LONG" THEN ev.low ELSE ev.high

\* Price moves measured in the direction of the side.
Gain(pos, price) ==
    IF pos.side = "LONG" THEN price - pos.entry ELSE pos.entry - price

Toward(pos, price, move) ==
    IF pos.side = "LONG" THEN price + move ELSE price - move

\* Stop, entry, target 1 and target 2 lie in this order; risk_engine and
\* approved_adaptive_entry_levels refuse others.
Ordered(pos) ==
    /\ Gain(pos, pos.initial) < 0
    /\ 0 < Gain(pos, pos.target1)
    /\ Gain(pos, pos.target1) < Gain(pos, pos.target2)

Risk(pos) == IF pos.entry >= pos.initial
             THEN pos.entry - pos.initial ELSE pos.initial - pos.entry

\* The stop after target 1: half of the way from entry to target 1.
ProtectionStop(pos) == Toward(pos, pos.entry, Gain(pos, pos.target1) \div 2)

\* Mutant: touching the stop is not enough.
StopPassed(pos, ev) ==
    AtLeast(pos.side, pos.stop, Adverse(pos.side, ev))
    /\ Adverse(pos.side, ev) # pos.stop

StopHit(pos, ev) == AtLeast(pos.side, pos.stop, Adverse(pos.side, ev))

TargetHit(pos, ev, target) ==
    AtLeast(pos.side, Favourable(pos.side, ev), target)

\* _maximum_hold_reached, on the time of the evidence.
DeadlineDue(pos, ev) == ev.end >= pos.deadline

\* A live mark that gapped through the stop fills at the mark itself.
StopTrigger(pos, ev) ==
    IF ev.live THEN Worst(pos.side, pos.stop, Adverse(pos.side, ev))
    ELSE pos.stop

\* 75% of the way from target 1 to target 2, cleared of its denominator.
TrailTriggerHit(pos, ev) ==
    AtLeast(pos.side, 4 * Favourable(pos.side, ev),
                      pos.target1 + 3 * pos.target2)

\* The trailing stop the evidence's close asks for, if the profile trails.
TrailsAt(pos, ev) ==
    LET favourable == Gain(pos, ev.close)
        armed == favourable >= Risk(pos) * pos.activation
    IN  IF pos.profile = "COST_SAFE"
        THEN pos.activation > 0 /\ Risk(pos) > 0 /\ armed
        ELSE pos.activation = 0 \/ armed

TrailingStop(pos, ev) ==
    LET favourable == Gain(pos, ev.close)
    IN  IF pos.profile = "COST_SAFE"
        THEN Toward(pos, pos.entry, favourable \div 2)
        ELSE Toward(pos, pos.initial, IF favourable > 0 THEN favourable ELSE 0)

Hold                   == [action |-> "HOLD", reason |-> "NONE", price |-> 0]
CloseAt(reason, price) == [action |-> "CLOSE", reason |-> reason, price |-> price]
MoveStopTo(price)      == [action |-> "MOVE_STOP", reason |-> "TRAIL", price |-> price]
Partial(price)         == [action |-> "PARTIAL_CLOSE", reason |-> "TARGET1", price |-> price]

\* Positions under a policy without stages: stop first, then target 1 closes.
DecideUnstaged(pos, ev) ==
    CASE StopHit(pos, ev)                -> CloseAt("STOP", StopTrigger(pos, ev))
      [] ~ StopHit(pos, ev)
         /\ TargetHit(pos, ev, pos.target1) -> CloseAt("TARGET1", pos.target1)
      [] OTHER                           -> Hold

\* What a row whose levels may still move does when no level was touched.
Protect(pos, ev) ==
    IF pos.t1 /\ TrailTriggerHit(pos, ev)
              /\ ~ AtLeast(pos.side, pos.stop, pos.target1)
    THEN MoveStopTo(pos.target1)
    ELSE IF TrailsAt(pos, ev) /\ Better(pos.side, TrailingStop(pos, ev), pos.stop)
    THEN MoveStopTo(TrailingStop(pos, ev))
    ELSE Hold

\* Deadline, then stop, then target 1, then target 2, then protection.
DecideStaged(pos, ev) ==
    LET target == IF pos.t1 THEN pos.target2 ELSE pos.target1
    IN  IF DeadlineDue(pos, ev) THEN CloseAt("TIME_EXIT", ev.close)
        ELSE IF StopHit(pos, ev) THEN CloseAt("STOP", StopTrigger(pos, ev))
        ELSE IF TargetHit(pos, ev, target)
        THEN IF pos.t1 THEN CloseAt("TARGET2", pos.target2)
                       ELSE Partial(pos.target1)
        ELSE IF pos.locked THEN Hold
        ELSE Protect(pos, ev)

Decide(pos, ev) ==
    IF pos.staged THEN DecideStaged(pos, ev) ELSE DecideUnstaged(pos, ev)
=============================================================================
