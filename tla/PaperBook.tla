------------------------------ MODULE PaperBook ------------------------------
(***************************************************************************)
(* The official paper book of QuantPulseAI: candidate plans, the executor  *)
(* that turns one plan into one position under the account lock, the       *)
(* manual "unified" entry point, and the two exit monitors (the one-second *)
(* job and the candle reconciler) that close positions under a row lock    *)
(* while posting to the wallet ledger.                                     *)
(*                                                                         *)
(* A step is one database transaction, or the part of a transaction up to  *)
(* a point where another session may run.  Which price an exit saw and     *)
(* whether an entry gate refused are nondeterministic here: ExitRules and  *)
(* ExitReplay model the prices, ExitFeed the gates on protection.          *)
(***************************************************************************)
EXTENDS Integers, FiniteSets, FiniteSetsExt

CONSTANTS
    Coins,            \* normalized symbols
    Plans,            \* trade_plans rows that may ever be written
    PlanCoin,         \* PlanCoin[p] is the symbol of plan p
    Executors,        \* concurrent runs of the candidate executor
    Monitors,         \* concurrent exit monitors, over every process
    Reconcilers,      \* the monitors that are candle reconcilers
    MaxTrades,        \* bound: paper_trades rows that are ever inserted
    Units,            \* the notional of a position, in equal units
    Target1Units,     \* the units closed at target 1 (target1_fraction)
    Ceiling,          \* account-wide margin ceiling, in margin x units
    EntryMargins,     \* margins per unit an executor's sizing can request
    UnifiedMargins,   \* margins per unit of the unified endpoint
    UnifiedMaxOpen,   \* profile.risk.maximum_open_positions
    NetMarks,         \* net return of one unit at an exit fill, after fees
    FundingCosts,     \* funding charged when a position is closed
    AccountLocks,     \* TRUE on PostgreSQL and SQL Server, FALSE on SQLite
    RowLocks,         \* TRUE where FOR UPDATE NOWAIT is emitted: PostgreSQL
    None              \* no coin, no plan, no holder

ASSUME PlanCoinAssumption == PlanCoin \in [Plans -> Coins]
ASSUME BoundAssumption == MaxTrades \in Nat
ASSUME UnitsAssumption ==
    /\ Units \in Nat
    /\ Target1Units \in Nat
    /\ Target1Units =< Units
ASSUME MarginAssumption ==
    /\ Ceiling \in Nat
    /\ EntryMargins \subseteq Nat
    /\ UnifiedMargins \subseteq Nat
    /\ UnifiedMaxOpen \in Nat
ASSUME ReturnAssumption == NetMarks \subseteq Int /\ FundingCosts \subseteq Int
ASSUME LockAssumption == AccountLocks \in BOOLEAN /\ RowLocks \in BOOLEAN
ASSUME MonitorAssumption == Reconcilers \subseteq Monitors
ASSUME NoneAssumption ==
    /\ None \notin Coins
    /\ None \notin Plans
    /\ None \notin Executors
    /\ None \notin Monitors

VARIABLES
    plan,      \* plan[p]: lifecycle of the trade plan row
    trade,     \* trade[t]: the paper_trades row
    ledger,    \* ledger[t]: the wallet events of trade t, by event key
    account,   \* holder of the account execution lock
    executor,  \* executor[e]: local state of one executor run
    rowLock,   \* rowLock[t]: monitor whose transaction owns row t
    monitor    \* monitor[w]: local state of one exit monitor

vars == <<plan, trade, ledger, account, executor, rowLock, monitor>>

-----------------------------------------------------------------------------
(* Rows and local records                                                  *)

TradeIds == 1 .. MaxTrades

PlanStates == {"NONE", "OPEN", "EXECUTED", "STALE_AFTER_CLOSE", "INVALIDATED"}

Row == [status: {"NONE", "OPEN", "CLOSED"},
        coin: Coins \cup {None},
        plan: Plans \cup {None},
        policy: {"STAGED", "UNIFIED_PROFILE"},
        margin: Nat,
        target1: BOOLEAN,      \* target1_hit_at is not null
        target1Mark: Int,      \* net return per unit of the target 1 leg
        partial: Int,          \* partial_realized_pnl_inr
        realized: Int]         \* realized_pnl_inr

NoRow == [status |-> "NONE", coin |-> None, plan |-> None,
          policy |-> "STAGED", margin |-> 0, target1 |-> FALSE,
          target1Mark |-> 0, partial |-> 0, realized |-> 0]

EventKinds == {"ENTRY", "TARGET1", "CLOSE"}
Event == [posted: BOOLEAN, delta: Int]
NoEvents == [k \in EventKinds |-> [posted |-> FALSE, delta |-> 0]]

ExecutorState == [pc: {"idle", "ready", "reserved", "admitted"},
                  candidates: SUBSET Plans,
                  coin: Coins \cup {None},
                  plan: Plans \cup {None},
                  margin: Nat,
                  intact: BOOLEAN]

IdleExecutor == [pc |-> "idle", candidates |-> {}, coin |-> None,
                 plan |-> None, margin |-> 0, intact |-> FALSE]

MonitorState == [pc: {"idle", "listed", "locked", "closing"},
                 trade: 0 .. MaxTrades,
                 view: Row,
                 realized: Int,
                 queued: SUBSET Plans]

IdleMonitor == [pc |-> "idle", trade |-> 0, view |-> NoRow,
                realized |-> 0, queued |-> {}]

TypeOK ==
    /\ plan \in [Plans -> PlanStates]
    /\ trade \in [TradeIds -> Row]
    /\ ledger \in [TradeIds -> [EventKinds -> Event]]
    /\ account \in Executors \cup {None}
    /\ executor \in [Executors -> ExecutorState]
    /\ rowLock \in [TradeIds -> Monitors \cup {None}]
    /\ monitor \in [Monitors -> MonitorState]

Init ==
    /\ plan = [p \in Plans |-> "NONE"]
    /\ trade = [t \in TradeIds |-> NoRow]
    /\ ledger = [t \in TradeIds |-> NoEvents]
    /\ account = None
    /\ executor = [e \in Executors |-> IdleExecutor]
    /\ rowLock = [t \in TradeIds |-> None]
    /\ monitor = [w \in Monitors |-> IdleMonitor]

-----------------------------------------------------------------------------
(* Queries                                                                 *)

OpenTrades == {t \in TradeIds : trade[t].status = "OPEN"}

HasOpenTrade(c) == \E t \in OpenTrades : trade[t].coin = c

\* Mutant: only open positions count as executions of a plan.
HasOpenTradeForPlan(p) == \E t \in OpenTrades : trade[t].plan = p

HasTradeForPlan(p) == \E t \in TradeIds : trade[t].plan = p

\* Mutant: the index covers only rows that came from a plan.
PlannedIndexConflict(c) ==
    \E t \in OpenTrades : trade[t].coin = c /\ trade[t].plan # None

\* The filtered unique index on paper_trades(symbol) WHERE status = 'OPEN'.
IndexConflict(c) == \E t \in OpenTrades : trade[t].coin = c

\* The margin of an open position shrinks with its remaining fraction.
CommittedMargin(row) ==
    IF row.status # "OPEN" THEN 0
    ELSE row.margin * (IF row.target1 THEN Units - Target1Units ELSE Units)

Committed == SumFunction([t \in TradeIds |-> CommittedMargin(trade[t])])

\* append_event: an event key is written once, a repeat changes nothing.
AppendEvent(events, kind, amount) ==
    IF events[kind].posted
    THEN events
    ELSE [events EXCEPT ![kind] = [posted |-> TRUE, delta |-> amount]]

\* Net result of the whole position when its last leg fills at mark x.
RealizedAt(row, x) ==
    IF row.target1
    THEN Target1Units * row.target1Mark + (Units - Target1Units) * x
    ELSE Units * x

\* Mutant: the close posts the whole result on top of the target 1 leg.
WholeResult(row, realized) == realized

\* What close_trade posts: the result less the part target 1 has posted.
CloseDelta(row, realized) == realized - row.partial

-----------------------------------------------------------------------------
(* Candidate plans                                                         *)

\* A READY signal is persisted as an OPEN plan, whatever the book holds.
SavePlan(p) ==
    /\ plan[p] = "NONE"
    /\ plan' = [plan EXCEPT ![p] = "OPEN"]
    /\ UNCHANGED <<trade, ledger, account, executor, rowLock, monitor>>

\* A newer signal, the confidence gate or the memory job ends a queued plan.
RetirePlan(p) ==
    /\ plan[p] = "OPEN"
    /\ plan' = [plan EXCEPT ![p] = "INVALIDATED"]
    /\ UNCHANGED <<trade, ledger, account, executor, rowLock, monitor>>

-----------------------------------------------------------------------------
(* The candidate executor                                                  *)

\* Candidate records are built once, before any lock is taken.
BuildCandidates(e) ==
    /\ executor[e].pc = "idle"
    /\ \E S \in SUBSET {p \in Plans : plan[p] = "OPEN"
                                      /\ ~ HasOpenTrade(PlanCoin[p])} :
          /\ S # {}
          /\ executor' = [executor EXCEPT
                ![e] = [IdleExecutor EXCEPT !.pc = "ready", !.candidates = S]]
    /\ UNCHANGED <<plan, trade, ledger, account, rowLock, monitor>>

\* acquire_account_execution_lock, then the reservation is captured.
Reserve(e) ==
    /\ executor[e].pc = "ready"
    /\ AccountLocks => account = None
    /\ account' = IF AccountLocks THEN e ELSE account
    /\ \E p \in executor[e].candidates :
          executor' = [executor EXCEPT ![e] = [@ EXCEPT !.pc = "reserved",
                                                        !.coin = PlanCoin[p],
                                                        !.intact = TRUE]]
    /\ UNCHANGED <<plan, trade, ledger, rowLock, monitor>>

\* Every check between the lock and the insert, and the fitted margin.
Admit(e) ==
    /\ executor[e].pc = "reserved"
    /\ ~ HasOpenTrade(executor[e].coin)
    /\ \E p \in executor[e].candidates, m \in EntryMargins :
          /\ PlanCoin[p] = executor[e].coin
          /\ ~ HasTradeForPlan(p)
          /\ Committed + m * Units =< Ceiling
          /\ executor' = [executor EXCEPT ![e] = [@ EXCEPT !.pc = "admitted",
                                                           !.plan = p,
                                                           !.margin = m]]
    /\ UNCHANGED <<plan, trade, ledger, account, rowLock, monitor>>

\* Mutant: the end of the transaction forgets the account lock.
KeepAccount(e) == UNCHANGED account

\* Commit and rollback free the account lock of the session.
ReleaseAccount(e) == account' = IF account = e THEN None ELSE account

\* The run goes on to its next coin.
NextCoin(e) ==
    LET rest == {p \in executor[e].candidates :
                    PlanCoin[p] # executor[e].coin}
    IN  /\ executor' = [executor EXCEPT
              ![e] = [IdleExecutor EXCEPT
                         !.pc = IF rest = {} THEN "idle" ELSE "ready",
                         !.candidates = rest]]
        /\ ReleaseAccount(e)

\* Any refusal after the lock: a gate, a stale mark, an exhausted budget, a
\* lost reservation or the index; the session rolls back.
Skip(e) ==
    /\ executor[e].pc \in {"reserved", "admitted"}
    /\ NextCoin(e)
    /\ UNCHANGED <<plan, trade, ledger, rowLock, monitor>>

\* A rollback inside the boundary ends the transaction and its lock; the
\* executor runs on and only notices at _entry_reservation_intact.
LoseReservation(e) ==
    /\ executor[e].pc \in {"reserved", "admitted"}
    /\ executor[e].intact
    /\ executor' = [executor EXCEPT ![e].intact = FALSE]
    /\ ReleaseAccount(e)
    /\ UNCHANGED <<plan, trade, ledger, rowLock, monitor>>

\* Mutant: the row is inserted without a known exit policy.
OpenRowWithoutPolicy(c, p, policy, m) ==
    [NoRow EXCEPT !.status = "OPEN", !.coin = c, !.plan = p,
                  !.policy = "NONE", !.margin = m]

OpenRow(c, p, policy, m) ==
    [status |-> "OPEN", coin |-> c, plan |-> p, policy |-> policy,
     margin |-> m, target1 |-> FALSE, target1Mark |-> 0, partial |-> 0,
     realized |-> 0]

\* Insert a row for coin c with its ENTRY event, in the next free slot.
InsertTrade(c, p, policy, m) ==
    \E t \in TradeIds :
        /\ trade[t].status = "NONE"
        /\ \A s \in TradeIds : s < t => trade[s].status # "NONE"
        /\ trade' = [trade EXCEPT ![t] = OpenRow(c, p, policy, m)]
        /\ ledger' = [ledger EXCEPT ![t] = AppendEvent(@, "ENTRY", 0)]

\* Mutant: the reservation is not looked at again before the insert.
ReservationAssumed(e) == TRUE

\* _entry_reservation_intact
ReservationIntact(e) == executor[e].intact

\* The plan's own status is not read again before the insert.
Fill(e) ==
    /\ executor[e].pc = "admitted"
    /\ ReservationIntact(e)
    /\ ~ IndexConflict(executor[e].coin)
    /\ InsertTrade(executor[e].coin, executor[e].plan, "STAGED",
                   executor[e].margin)
    /\ NextCoin(e)
    /\ UNCHANGED <<plan, rowLock, monitor>>

\* POST /paper-trade of the unified profile: one transaction, its own gates.
OpenUnified(c) ==
    /\ AccountLocks => account = None
    /\ ~ HasOpenTrade(c)
    /\ Cardinality(OpenTrades) < UnifiedMaxOpen
    /\ \E m \in UnifiedMargins : InsertTrade(c, None, "UNIFIED_PROFILE", m)
    /\ UNCHANGED <<plan, account, executor, rowLock, monitor>>

-----------------------------------------------------------------------------
(* The exit monitors                                                       *)

\* The reconciler lists the open rows first; a row may close afterwards.
ListForPolicy(w, t) ==
    /\ monitor[w].pc = "idle"
    /\ trade[t].status = "OPEN"
    /\ trade[t].policy = "UNIFIED_PROFILE"
    /\ monitor' = [monitor EXCEPT ![w] =
          [IdleMonitor EXCEPT !.pc = "listed", !.trade = t]]
    /\ UNCHANGED <<plan, trade, ledger, account, executor, rowLock>>

\* ensure_staged_exit_policy rewrites the levels of a listed row before it is
\* locked, and without asking whether it is still open.
EnsurePolicy(w) ==
    /\ monitor[w].pc = "listed"
    /\ rowLock[monitor[w].trade] = None
    /\ trade' = [trade EXCEPT ![monitor[w].trade].policy = "STAGED"]
    /\ monitor' = [monitor EXCEPT ![w] = IdleMonitor]
    /\ UNCHANGED <<plan, ledger, account, executor, rowLock>>

\* Mutant: the row is re-read by its id alone.
ExistingRow(t) == trade[t].status # "NONE"

LockableRow(t) == trade[t].status = "OPEN"

\* lock_open_trade: re-read one OPEN row.  Where the dialect emits no
\* FOR UPDATE the row is only read, and a written row still blocks.
LockRow(w, t) ==
    /\ monitor[w].pc = "idle"
    /\ LockableRow(t)
    /\ rowLock[t] = None
    /\ rowLock' = IF RowLocks THEN [rowLock EXCEPT ![t] = w] ELSE rowLock
    /\ monitor' = [monitor EXCEPT ![w] =
          [IdleMonitor EXCEPT !.pc = "locked", !.trade = t,
                              !.view = trade[t]]]
    /\ UNCHANGED <<plan, trade, ledger, account, executor>>

\* The transaction of w ends: its row lock, if any, is released.
Finish(w) ==
    /\ monitor' = [monitor EXCEPT ![w] = IdleMonitor]
    /\ rowLock' = [t \in TradeIds |->
                      IF rowLock[t] = w THEN None ELSE rowLock[t]]

\* HOLD, a mark that expired during the lock, an error or a crash.
Release(w) ==
    /\ monitor[w].pc # "idle"
    /\ Finish(w)
    /\ UNCHANGED <<plan, trade, ledger, account, executor>>

WriteAllowed(w) == rowLock[monitor[w].trade] \in {w, None}

\* Mutant: a row that has hit target 1 is not remembered.
Target1Again(row) == row.policy = "STAGED"

\* Only a staged policy has a target 1 leg, and has it once.
Target1Due(row) == row.policy = "STAGED" /\ ~ row.target1

\* apply_target1 from the decision taken on the re-read row.
TakeTarget1(w) ==
    LET t == monitor[w].trade
        view == monitor[w].view
    IN  /\ monitor[w].pc = "locked"
        /\ WriteAllowed(w)
        /\ Target1Due(view)
        /\ \E x \in NetMarks :
              LET partial == Target1Units * x
              IN  /\ trade' = [trade EXCEPT ![t] = [@ EXCEPT !.target1 = TRUE,
                                                          !.target1Mark = x,
                                                          !.partial = partial]]
                  /\ ledger' = [ledger EXCEPT
                        ![t] = AppendEvent(@, "TARGET1", partial)]
        /\ Finish(w)
        /\ UNCHANGED <<plan, account, executor>>

\* close_trade up to its query of the coin's OPEN plans: the row is written
\* in the transaction, so from here on it is locked on every database.
BeginClose(w) ==
    LET t == monitor[w].trade
        view == monitor[w].view
    IN  /\ monitor[w].pc = "locked"
        /\ WriteAllowed(w)
        /\ \E x \in NetMarks, f \in FundingCosts :
              monitor' = [monitor EXCEPT ![w] = [@ EXCEPT
                  !.pc = "closing",
                  !.realized = RealizedAt(view, x) - f,
                  !.queued = {p \in Plans : /\ plan[p] = "OPEN"
                                            /\ PlanCoin[p] = view.coin}]]
        /\ rowLock' = [rowLock EXCEPT ![t] = w]
        /\ UNCHANGED <<plan, trade, ledger, account, executor>>

\* The commit of close_trade: row, ledger delta and queued plans together.
CommitClose(w) ==
    LET t == monitor[w].trade
        view == monitor[w].view
        realized == monitor[w].realized
    IN  /\ monitor[w].pc = "closing"
        /\ trade' = [trade EXCEPT ![t] = [@ EXCEPT !.status = "CLOSED",
                                                !.realized = realized]]
        /\ ledger' = [ledger EXCEPT
              ![t] = AppendEvent(@, "CLOSE", CloseDelta(view, realized))]
        /\ plan' = [p \in Plans |->
              IF p \notin monitor[w].queued THEN plan[p]
              ELSE IF p = view.plan THEN "EXECUTED"
              ELSE "STALE_AFTER_CLOSE"]
        /\ Finish(w)
        /\ UNCHANGED <<account, executor>>

-----------------------------------------------------------------------------
ExecutorStep(e) ==
    \/ BuildCandidates(e)
    \/ Reserve(e)
    \/ Admit(e)
    \/ Fill(e)
    \/ Skip(e)
    \/ LoseReservation(e)

MonitorStep(w) ==
    \/ \E t \in TradeIds : LockRow(w, t)
    \/ Release(w)
    \/ TakeTarget1(w)
    \/ BeginClose(w)
    \/ CommitClose(w)

Next ==
    \/ \E p \in Plans : SavePlan(p) \/ RetirePlan(p)
    \/ \E e \in Executors : ExecutorStep(e)
    \/ \E c \in Coins : OpenUnified(c)
    \/ \E w \in Reconcilers : \/ \E t \in TradeIds : ListForPolicy(w, t)
                              \/ EnsurePolicy(w)
    \/ \E w \in Monitors : MonitorStep(w)

Spec == Init /\ [][Next]_vars

(* Every run of the executor is a thread that returns from each call, and a *)
(* dead session loses its lock: an executor inside the boundary moves on.   *)
FairSpec == Spec /\ \A e \in Executors : WF_vars(Admit(e) \/ Fill(e) \/ Skip(e))

-----------------------------------------------------------------------------
(* Properties                                                              *)

\* QP-TI-001: at most one open position per symbol.  has_open_trade decides
\* under the account lock; the filtered unique index decides when two
\* sessions passed that check (a dialect without the lock, a lost lock).
OneOpenPerCoin ==
    \A s, t \in OpenTrades : trade[s].coin = trade[t].coin => s = t

\* A plan is executed at most once in its life, although candidate lists are
\* built before the lock and survive the close of an earlier position.
PlanExecutedOnce ==
    \A s, t \in TradeIds :
        trade[s].plan # None /\ trade[s].plan = trade[t].plan => s = t

\* The margin still committed to open positions never exceeds the account
\* ceiling, with several executors, lost reservations and exits under way.
WithinCeiling == Committed =< Ceiling

\* What the wallet ledger has posted for a trade.
LedgerTotal(t) == ledger[t]["TARGET1"].delta + ledger[t]["CLOSE"].delta

\* What the trade row says has been realized (_realized_pnl_from_trades).
BookRealized(t) ==
    CASE trade[t].status = "CLOSED" -> trade[t].realized
      [] trade[t].status = "OPEN"   -> trade[t].partial
      [] OTHER                      -> 0

\* The ledger and the trade rows tell the same realized result at every
\* commit, whichever of the concurrent monitors closed which leg.
LedgerMatchesBook == \A t \in TradeIds : LedgerTotal(t) = BookRealized(t)

\* The book implements the abstract position accounts: a trade's stage, what
\* its ledger events sum to and what its row reports move as promised there.
Stage(row) ==
    CASE row.status = "NONE"   -> "flat"
      [] row.status = "CLOSED" -> "closed"
      [] OTHER                 -> IF row.target1 THEN "partial" ELSE "open"

Accounts == INSTANCE PositionAccounts WITH
    Positions <- TradeIds,
    stage     <- [t \in TradeIds |-> Stage(trade[t])],
    banked    <- [t \in TradeIds |-> LedgerTotal(t)],
    reported  <- [t \in TradeIds |-> BookRealized(t)]

ImplementsAccounts == Accounts!Spec

\* A closed position is history: no later transaction of a monitor that read
\* it while it was open changes its result or its ledger events.
ClosedIsFinal ==
    [][\A t \in TradeIds : trade[t].status = "CLOSED" =>
          /\ trade'[t] = [trade[t] EXCEPT !.policy = trade'[t].policy]
          /\ ledger'[t] = ledger[t]]_vars

\* An executor that holds the account lock gives it back.
AccountLockFreed == \A e \in Executors : account = e ~> account # e

\* QP-TI-001: a stale pre-close signal is not executed after the lock is
\* released, that is, no position is opened from a plan closed as stale.
StalePlanNotExecuted ==
    [][\A t \in TradeIds :
          /\ trade[t].status = "NONE"
          /\ trade'[t].status = "OPEN"
          /\ trade'[t].plan # None
          => plan[trade'[t].plan] # "STALE_AFTER_CLOSE"]_vars

=============================================================================
