--------------------------- MODULE PaperBookProofs ---------------------------
(***************************************************************************)
(* Theorems about PaperBook, for every number of coins, plans, executors,  *)
(* monitors and rows and for every return and margin.                      *)
(***************************************************************************)
EXTENDS PaperBook, TLAPS

-----------------------------------------------------------------------------
(* Type correctness                                                        *)

LEMMA RowTypes ==
    /\ NoRow \in Row
    /\ NoEvents \in [EventKinds -> Event]
    /\ IdleExecutor \in ExecutorState
    /\ IdleMonitor \in MonitorState
BY BoundAssumption
   DEF NoRow, Row, NoEvents, EventKinds, Event, IdleExecutor, ExecutorState,
       IdleMonitor, MonitorState

\* The updates a paper_trades row receives keep its type.
LEMMA PolicyUpdate ==
    ASSUME NEW row \in Row
    PROVE  [row EXCEPT !.policy = "STAGED"] \in Row
BY DEF Row

LEMMA RowUpdates ==
    ASSUME NEW row \in Row, NEW x \in Int, NEW y \in Int
    PROVE  /\ [row EXCEPT !.target1 = TRUE, !.target1Mark = x, !.partial = y]
                  \in Row
           /\ [row EXCEPT !.status = "CLOSED", !.realized = x] \in Row
BY DEF Row

\* append_event keeps the shape of a trade's events.
LEMMA AppendEventType ==
    ASSUME NEW events \in [EventKinds -> Event],
           NEW kind \in EventKinds, NEW amount \in Int
    PROVE  AppendEvent(events, kind, amount) \in [EventKinds -> Event]
BY DEF AppendEvent, Event

\* The result of closing a row is an integer for every fill.
LEMMA RealizedType ==
    ASSUME NEW row \in Row, NEW x \in Int
    PROVE  RealizedAt(row, x) \in Int
<1>1. Units \in Int /\ Target1Units \in Int /\ Units - Target1Units \in Int
    BY UnitsAssumption
<1>2. row.target1Mark \in Int
    BY DEF Row
<1>3. Target1Units * row.target1Mark \in Int /\ Units * x \in Int
      /\ (Units - Target1Units) * x \in Int
    BY <1>1, <1>2
<1> QED
    BY <1>3 DEF RealizedAt

LEMMA InsertTradeType ==
    ASSUME TypeOK, NEW c \in Coins \cup {None}, NEW p \in Plans \cup {None},
           NEW policy \in {"STAGED", "UNIFIED_PROFILE"}, NEW m \in Nat,
           InsertTrade(c, p, policy, m)
    PROVE  /\ trade' \in [TradeIds -> Row]
           /\ ledger' \in [TradeIds -> [EventKinds -> Event]]
<1>1. PICK t \in TradeIds :
        /\ trade' = [trade EXCEPT ![t] = OpenRow(c, p, policy, m)]
        /\ ledger' = [ledger EXCEPT ![t] = AppendEvent(@, "ENTRY", 0)]
    BY DEF InsertTrade
<1>2. OpenRow(c, p, policy, m) \in Row
    BY DEF OpenRow, Row
<1>3. AppendEvent(ledger[t], "ENTRY", 0) \in [EventKinds -> Event]
    BY AppendEventType DEF TypeOK, EventKinds
<1> QED
    BY <1>1, <1>2, <1>3 DEF TypeOK

LEMMA NextCoinType ==
    ASSUME TypeOK, NEW e \in Executors, NextCoin(e)
    PROVE  /\ executor' \in [Executors -> ExecutorState]
           /\ account' \in Executors \cup {None}
<1>1. [IdleExecutor EXCEPT
         !.pc = IF {p \in executor[e].candidates :
                      PlanCoin[p] # executor[e].coin} = {}
                THEN "idle" ELSE "ready",
         !.candidates = {p \in executor[e].candidates :
                            PlanCoin[p] # executor[e].coin}] \in ExecutorState
    BY DEF IdleExecutor, ExecutorState, TypeOK
<1> QED
    BY <1>1 DEF NextCoin, ReleaseAccount, TypeOK

LEMMA FinishType ==
    ASSUME TypeOK, NEW w \in Monitors, Finish(w)
    PROVE  /\ monitor' \in [Monitors -> MonitorState]
           /\ rowLock' \in [TradeIds -> Monitors \cup {None}]
BY RowTypes DEF Finish, TypeOK

\* Every reachable state of the book has the types its tables and local
\* records declare; the later theorems rest on it.
THEOREM TypeCorrect == Spec => []TypeOK
<1>1. Init => TypeOK
    BY RowTypes DEF Init, TypeOK, PlanStates
<1>2. TypeOK /\ [Next]_vars => TypeOK'
  <2> SUFFICES ASSUME TypeOK, Next PROVE TypeOK'
      BY DEF TypeOK, vars
  <2>1. ASSUME NEW p \in Plans, SavePlan(p) \/ RetirePlan(p) PROVE TypeOK'
      BY <2>1 DEF SavePlan, RetirePlan, TypeOK, PlanStates
  <2>2. ASSUME NEW e \in Executors, BuildCandidates(e) PROVE TypeOK'
    <3>1. PICK S \in SUBSET Plans :
            executor' = [executor EXCEPT
                ![e] = [IdleExecutor EXCEPT !.pc = "ready", !.candidates = S]]
        BY <2>2 DEF BuildCandidates
    <3>2. [IdleExecutor EXCEPT !.pc = "ready", !.candidates = S]
              \in ExecutorState
        BY DEF IdleExecutor, ExecutorState
    <3> QED
        BY <2>2, <3>1, <3>2 DEF BuildCandidates, TypeOK
  <2>3. ASSUME NEW e \in Executors, Reserve(e) PROVE TypeOK'
    <3>1. executor[e] \in ExecutorState /\ executor[e].candidates \subseteq Plans
        BY DEF TypeOK, ExecutorState
    <3>2. PICK p \in executor[e].candidates :
            executor' = [executor EXCEPT ![e] = [@ EXCEPT !.pc = "reserved",
                                                          !.coin = PlanCoin[p],
                                                          !.intact = TRUE]]
        BY <2>3 DEF Reserve
    <3>3. PlanCoin[p] \in Coins
        BY <3>1, PlanCoinAssumption
    <3>4. executor' \in [Executors -> ExecutorState]
        BY <3>1, <3>2, <3>3 DEF TypeOK, ExecutorState
    <3> QED
        BY <2>3, <3>4 DEF Reserve, TypeOK
  <2>4. ASSUME NEW e \in Executors, Admit(e) PROVE TypeOK'
    <3>1. executor[e] \in ExecutorState /\ executor[e].candidates \subseteq Plans
        BY DEF TypeOK, ExecutorState
    <3>2. PICK p \in executor[e].candidates, m \in EntryMargins :
            executor' = [executor EXCEPT ![e] = [@ EXCEPT !.pc = "admitted",
                                                          !.plan = p,
                                                          !.margin = m]]
        BY <2>4 DEF Admit
    <3>3. p \in Plans /\ m \in Nat
        BY <3>1, MarginAssumption
    <3>4. executor' \in [Executors -> ExecutorState]
        BY <3>1, <3>2, <3>3 DEF TypeOK, ExecutorState
    <3> QED
        BY <2>4, <3>4 DEF Admit, TypeOK
  <2>5. ASSUME NEW e \in Executors, Fill(e) PROVE TypeOK'
    <3>1. executor[e].coin \in Coins \cup {None}
          /\ executor[e].plan \in Plans \cup {None}
          /\ executor[e].margin \in Nat
        BY DEF TypeOK, ExecutorState
    <3>2. /\ trade' \in [TradeIds -> Row]
          /\ ledger' \in [TradeIds -> [EventKinds -> Event]]
        BY <2>5, <3>1, InsertTradeType DEF Fill, ReservationIntact
    <3>3. /\ executor' \in [Executors -> ExecutorState]
          /\ account' \in Executors \cup {None}
        BY <2>5, NextCoinType DEF Fill, ReservationIntact
    <3> QED
        BY <2>5, <3>2, <3>3 DEF Fill, ReservationIntact, TypeOK
  <2>6. ASSUME NEW e \in Executors, Skip(e) PROVE TypeOK'
      BY <2>6, NextCoinType DEF Skip, TypeOK
  <2>7. ASSUME NEW e \in Executors, LoseReservation(e) PROVE TypeOK'
      BY <2>7 DEF LoseReservation, ReleaseAccount, TypeOK, ExecutorState
  <2>8. ASSUME NEW c \in Coins, OpenUnified(c) PROVE TypeOK'
    <3>1. PICK m \in UnifiedMargins :
            InsertTrade(c, None, "UNIFIED_PROFILE", m)
        BY <2>8 DEF OpenUnified
    <3>2. /\ trade' \in [TradeIds -> Row]
          /\ ledger' \in [TradeIds -> [EventKinds -> Event]]
      <4>1. m \in Nat /\ None \in Plans \cup {None}
            /\ "UNIFIED_PROFILE" \in {"STAGED", "UNIFIED_PROFILE"}
          BY MarginAssumption
      <4> QED
          BY <3>1, <4>1, InsertTradeType
    <3> QED
        BY <2>8, <3>2 DEF OpenUnified, TypeOK
  <2>9. ASSUME NEW w \in Monitors, NEW t \in TradeIds, ListForPolicy(w, t)
        PROVE TypeOK'
    <3>1. [IdleMonitor EXCEPT !.pc = "listed", !.trade = t] \in MonitorState
      <4>1. t \in 0 .. MaxTrades
          BY BoundAssumption DEF TradeIds
      <4> QED
          BY <4>1, RowTypes DEF MonitorState
    <3> QED
        BY <2>9, <3>1 DEF ListForPolicy, TypeOK
  <2>10. ASSUME NEW w \in Monitors, EnsurePolicy(w) PROVE TypeOK'
    <3> DEFINE t == monitor[w].trade
    <3>1. t \in TradeIds => [trade[t] EXCEPT !.policy = "STAGED"] \in Row
        BY PolicyUpdate DEF TypeOK
    <3>2. trade' = [trade EXCEPT ![t] = [@ EXCEPT !.policy = "STAGED"]]
        BY <2>10 DEF EnsurePolicy
    <3>3. trade' \in [TradeIds -> Row]
        BY <3>1, <3>2 DEF TypeOK
    <3> QED
        BY <2>10, <3>3, RowTypes DEF EnsurePolicy, TypeOK
  <2>11. ASSUME NEW w \in Monitors, NEW t \in TradeIds, LockRow(w, t)
         PROVE TypeOK'
    <3>1. [IdleMonitor EXCEPT !.pc = "locked", !.trade = t, !.view = trade[t]]
              \in MonitorState
      <4>1. t \in 0 .. MaxTrades
          BY BoundAssumption DEF TradeIds
      <4>2. trade[t] \in Row
          BY DEF TypeOK
      <4> QED
          BY <4>1, <4>2, RowTypes DEF MonitorState
    <3> QED
        BY <2>11, <3>1 DEF LockRow, LockableRow, TypeOK
  <2>12. ASSUME NEW w \in Monitors, Release(w) PROVE TypeOK'
      BY <2>12, FinishType DEF Release, TypeOK
  <2>13. ASSUME NEW w \in Monitors, TakeTarget1(w) PROVE TypeOK'
    <3> DEFINE t == monitor[w].trade
    <3>1. PICK x \in NetMarks :
            /\ trade' = [trade EXCEPT
                  ![t] = [@ EXCEPT !.target1 = TRUE,
                                   !.target1Mark = x,
                                   !.partial = Target1Units * x]]
            /\ ledger' = [ledger EXCEPT
                  ![t] = AppendEvent(@, "TARGET1", Target1Units * x)]
        BY <2>13 DEF TakeTarget1
    <3>2. x \in Int /\ Target1Units * x \in Int
        BY ReturnAssumption, UnitsAssumption
    <3>3. trade' \in [TradeIds -> Row]
      <4>1. t \in TradeIds => [trade[t] EXCEPT !.target1 = TRUE,
                                               !.target1Mark = x,
                                               !.partial = Target1Units * x]
                                \in Row
          BY <3>2, RowUpdates DEF TypeOK
      <4> QED
          BY <3>1, <4>1 DEF TypeOK
    <3>4. t \in TradeIds =>
            AppendEvent(ledger[t], "TARGET1", Target1Units * x)
                \in [EventKinds -> Event]
        BY <3>2, AppendEventType DEF TypeOK, EventKinds
    <3>5. ledger' \in [TradeIds -> [EventKinds -> Event]]
        BY <3>1, <3>4 DEF TypeOK
    <3> QED
        BY <2>13, <3>3, <3>5, FinishType DEF TakeTarget1, TypeOK
  <2>14. ASSUME NEW w \in Monitors, BeginClose(w) PROVE TypeOK'
    <3>1. monitor[w].view \in Row
        BY DEF TypeOK, MonitorState
    <3> DEFINE queued == {p \in Plans : /\ plan[p] = "OPEN"
                                        /\ PlanCoin[p] = monitor[w].view.coin}
    <3>2. PICK x \in NetMarks, f \in FundingCosts :
            monitor' = [monitor EXCEPT ![w] = [@ EXCEPT
                !.pc = "closing",
                !.realized = RealizedAt(monitor[w].view, x) - f,
                !.queued = queued]]
        BY <2>14 DEF BeginClose
    <3>3. RealizedAt(monitor[w].view, x) - f \in Int
        BY <3>1, RealizedType, ReturnAssumption
    <3>4. queued \in SUBSET Plans
        OBVIOUS
    <3> HIDE DEF queued
    <3>5. monitor' \in [Monitors -> MonitorState]
        BY <3>2, <3>3, <3>4 DEF TypeOK, MonitorState
    <3>6. rowLock' \in [TradeIds -> Monitors \cup {None}]
        BY <2>14 DEF BeginClose, TypeOK
    <3> QED
        BY <2>14, <3>5, <3>6 DEF BeginClose, TypeOK
  <2>15. ASSUME NEW w \in Monitors, CommitClose(w) PROVE TypeOK'
    <3> DEFINE t == monitor[w].trade
    <3>1. monitor[w].realized \in Int /\ monitor[w].view.partial \in Int
        BY DEF TypeOK, MonitorState, Row
    <3>2. trade' \in [TradeIds -> Row]
      <4>1. t \in TradeIds => [trade[t] EXCEPT
                                   !.status = "CLOSED",
                                   !.realized = monitor[w].realized] \in Row
          BY <3>1, RowUpdates DEF TypeOK
      <4> QED
          BY <2>15, <4>1 DEF CommitClose, CloseDelta, TypeOK
    <3>3. t \in TradeIds =>
            AppendEvent(ledger[t], "CLOSE",
                        monitor[w].realized - monitor[w].view.partial)
                \in [EventKinds -> Event]
      <4>1. PICK delta \in Int :
              delta = monitor[w].realized - monitor[w].view.partial
          BY <3>1
      <4> QED
          BY <4>1, AppendEventType DEF TypeOK, EventKinds
    <3>4. ledger' \in [TradeIds -> [EventKinds -> Event]]
        BY <2>15, <3>3 DEF CommitClose, CloseDelta, TypeOK
    <3>5. plan' \in [Plans -> PlanStates]
        BY <2>15 DEF CommitClose, CloseDelta, TypeOK, PlanStates
    <3> QED
        BY <2>15, <3>2, <3>4, <3>5, FinishType DEF CommitClose, CloseDelta, TypeOK
  <2> QED
      BY <2>1, <2>2, <2>3, <2>4, <2>5, <2>6, <2>7, <2>8, <2>9, <2>10, <2>11,
         <2>12, <2>13, <2>14, <2>15, MonitorAssumption
      DEF Next, ExecutorStep, MonitorStep
<1> QED
    BY <1>1, <1>2, PTL DEF Spec

-----------------------------------------------------------------------------
(* One open position per coin                                              *)

\* A new row for a coin that no open row has keeps the open coins distinct.
LEMMA InsertKeepsOneOpen ==
    ASSUME OneOpenPerCoin, NEW c, NEW p, NEW policy, NEW m,
           trade \in [TradeIds -> Row],
           ~ \E t \in OpenTrades : trade[t].coin = c,
           InsertTrade(c, p, policy, m)
    PROVE  OneOpenPerCoin'
BY DEF InsertTrade, OpenRow, OneOpenPerCoin, OpenTrades

\* QP-TI-001 for any number of executors and entry points, with or without
\* the account lock: the filtered unique index decides, and no exit monitor
\* ever opens a row again.
THEOREM OneOpenPosition == Spec => []OneOpenPerCoin
<1>1. Init => OneOpenPerCoin
    BY DEF Init, OneOpenPerCoin, OpenTrades, NoRow
<1>2. OneOpenPerCoin /\ TypeOK /\ [Next]_vars => OneOpenPerCoin'
  <2> SUFFICES ASSUME OneOpenPerCoin, TypeOK, Next PROVE OneOpenPerCoin'
      BY DEF OneOpenPerCoin, OpenTrades, vars
  <2> USE DEF TypeOK
  <2>1. CASE UNCHANGED trade
      BY <2>1 DEF OneOpenPerCoin, OpenTrades
  <2>2. ASSUME NEW e \in Executors, Fill(e) PROVE OneOpenPerCoin'
      BY <2>2, InsertKeepsOneOpen DEF Fill, ReservationIntact, IndexConflict
  <2>3. ASSUME NEW c \in Coins, OpenUnified(c) PROVE OneOpenPerCoin'
      BY <2>3, InsertKeepsOneOpen DEF OpenUnified, HasOpenTrade
  <2>4. ASSUME NEW w \in Monitors, EnsurePolicy(w) PROVE OneOpenPerCoin'
      BY <2>4 DEF EnsurePolicy, OneOpenPerCoin, OpenTrades, Row
  <2>5. ASSUME NEW w \in Monitors, TakeTarget1(w) PROVE OneOpenPerCoin'
      BY <2>5 DEF TakeTarget1, OneOpenPerCoin, OpenTrades, Row
  <2>6. ASSUME NEW w \in Monitors, CommitClose(w) PROVE OneOpenPerCoin'
      BY <2>6 DEF CommitClose, CloseDelta, OneOpenPerCoin, OpenTrades, Row
  <2> QED
      BY <2>1, <2>2, <2>3, <2>4, <2>5, <2>6, MonitorAssumption
      DEF Next, ExecutorStep, MonitorStep, SavePlan, RetirePlan,
          BuildCandidates, Reserve, Admit, Skip, LoseReservation,
          ListForPolicy, LockRow, Release, BeginClose
<1> QED
    BY <1>1, <1>2, TypeCorrect, PTL DEF Spec

-----------------------------------------------------------------------------
(* The wallet ledger                                                       *)

\* Where FOR UPDATE is emitted, a monitor between its re-read and its commit
\* owns the row, and what it read is still what the row says.
ViewCurrent ==
    \A w \in Monitors : monitor[w].pc \in {"locked", "closing"} =>
        /\ monitor[w].trade \in TradeIds
        /\ rowLock[monitor[w].trade] = w
        /\ trade[monitor[w].trade].status = "OPEN"
        /\ monitor[w].view = trade[monitor[w].trade]

\* Which events a row may have, and what they sum to, by the row's status.
EventsFit(row, events) ==
    /\ row.status = "NONE" => events = NoEvents
    /\ row.status = "OPEN" =>
          /\ events["CLOSE"] = [posted |-> FALSE, delta |-> 0]
          /\ events["TARGET1"].posted => row.target1
          /\ events["TARGET1"].delta = row.partial
    /\ row.status = "CLOSED" =>
          events["TARGET1"].delta + events["CLOSE"].delta = row.realized

LedgerInv == ViewCurrent /\ \A t \in TradeIds : EventsFit(trade[t], ledger[t])

\* A new row takes a slot whose row had no events, so nobody's view of an
\* open row changes.
LEMMA InsertKeepsLedger ==
    ASSUME TypeOK, LedgerInv, NEW c, NEW p, NEW policy, NEW m,
           InsertTrade(c, p, policy, m), UNCHANGED <<rowLock, monitor>>
    PROVE  LedgerInv'
<1>1. PICK t \in TradeIds :
        /\ trade[t].status = "NONE"
        /\ trade' = [trade EXCEPT ![t] = OpenRow(c, p, policy, m)]
        /\ ledger' = [ledger EXCEPT ![t] = AppendEvent(@, "ENTRY", 0)]
    BY DEF InsertTrade
<1>2. ViewCurrent'
    BY <1>1 DEF LedgerInv, ViewCurrent, TypeOK
<1>3. EventsFit(trade'[t], ledger'[t])
  <2>1. ledger[t] = NoEvents
      BY <1>1 DEF LedgerInv, EventsFit
  <2>2. ledger'[t] = AppendEvent(NoEvents, "ENTRY", 0)
      BY <1>1, <2>1 DEF TypeOK
  <2>3. /\ ledger'[t]["TARGET1"] = [posted |-> FALSE, delta |-> 0]
        /\ ledger'[t]["CLOSE"] = [posted |-> FALSE, delta |-> 0]
      BY <2>2 DEF AppendEvent, NoEvents, EventKinds
  <2>4. trade'[t] = OpenRow(c, p, policy, m)
      BY <1>1 DEF TypeOK
  <2> QED
      BY <2>3, <2>4 DEF EventsFit, OpenRow
<1> QED
    BY <1>1, <1>2, <1>3 DEF LedgerInv, TypeOK

\* Ending w's transaction leaves every other monitor's row locked.
LEMMA FinishKeepsView ==
    ASSUME TypeOK, ViewCurrent, NEW w \in Monitors, Finish(w),
           \A v \in Monitors \ {w} : monitor[v].pc \in {"locked", "closing"} =>
               trade'[monitor[v].trade] = trade[monitor[v].trade]
    PROVE  ViewCurrent'
BY DEF ViewCurrent, Finish, TypeOK, IdleMonitor

LEMMA LedgerInvInductive ==
    ASSUME RowLocks = TRUE, TypeOK, LedgerInv, [Next]_vars
    PROVE  LedgerInv'
<1> USE DEF LedgerInv
<1>1. CASE UNCHANGED <<trade, ledger, rowLock, monitor>>
    BY <1>1 DEF ViewCurrent, EventsFit
<1>2. ASSUME NEW e \in Executors, Fill(e) PROVE LedgerInv'
    BY <1>2, InsertKeepsLedger DEF Fill, ReservationIntact
<1>3. ASSUME NEW c \in Coins, OpenUnified(c) PROVE LedgerInv'
    BY <1>3, InsertKeepsLedger DEF OpenUnified
<1>4. ASSUME NEW w \in Monitors, NEW t \in TradeIds, ListForPolicy(w, t)
      PROVE LedgerInv'
    BY <1>4 DEF ListForPolicy, ViewCurrent, EventsFit, TypeOK, IdleMonitor
<1>5. ASSUME NEW w \in Monitors, EnsurePolicy(w) PROVE LedgerInv'
  <2>1. rowLock[monitor[w].trade] = None
        /\ monitor' = [monitor EXCEPT ![w] = IdleMonitor]
        /\ trade' = [trade EXCEPT
              ![monitor[w].trade] = [@ EXCEPT !.policy = "STAGED"]]
      BY <1>5 DEF EnsurePolicy
  <2>2. ViewCurrent'
      BY <1>5, <2>1, NoneAssumption
      DEF EnsurePolicy, ViewCurrent, TypeOK, IdleMonitor
  <2>3. \A t \in TradeIds : /\ trade'[t].status = trade[t].status
                            /\ trade'[t].target1 = trade[t].target1
                            /\ trade'[t].partial = trade[t].partial
                            /\ trade'[t].realized = trade[t].realized
      BY <2>1 DEF TypeOK, Row
  <2>4. UNCHANGED ledger
      BY <1>5 DEF EnsurePolicy
  <2> QED
      BY <2>2, <2>3, <2>4 DEF EventsFit
<1>6. ASSUME NEW w \in Monitors, NEW t \in TradeIds, LockRow(w, t)
      PROVE LedgerInv'
    BY <1>6, NoneAssumption
    DEF LockRow, LockableRow, ViewCurrent, EventsFit, TypeOK, IdleMonitor
<1>7. ASSUME NEW w \in Monitors, Release(w) PROVE LedgerInv'
    BY <1>7, FinishKeepsView DEF Release, EventsFit
<1>8. ASSUME NEW w \in Monitors, TakeTarget1(w) PROVE LedgerInv'
  <2> DEFINE t == monitor[w].trade
  <2>1. /\ t \in TradeIds
        /\ trade[t].status = "OPEN"
        /\ ~ trade[t].target1
        /\ \A v \in Monitors \ {w} :
              monitor[v].pc \in {"locked", "closing"} => monitor[v].trade # t
      BY <1>8 DEF TakeTarget1, Target1Due, ViewCurrent
  <2>2. PICK x \in NetMarks :
          /\ trade' = [trade EXCEPT
                ![t] = [@ EXCEPT !.target1 = TRUE,
                                 !.target1Mark = x,
                                 !.partial = Target1Units * x]]
          /\ ledger' = [ledger EXCEPT
                ![t] = AppendEvent(@, "TARGET1", Target1Units * x)]
      BY <1>8 DEF TakeTarget1
  <2>3. ViewCurrent'
      BY <1>8, <2>1, <2>2, FinishKeepsView DEF TakeTarget1, TypeOK
  <2>4. EventsFit(trade'[t], ledger'[t])
      BY <2>1, <2>2
      DEF EventsFit, AppendEvent, TypeOK, Row, EventKinds, Event
  <2> QED
      BY <2>1, <2>2, <2>3, <2>4 DEF TypeOK
<1>9. ASSUME NEW w \in Monitors, BeginClose(w) PROVE LedgerInv'
    BY <1>9 DEF BeginClose, ViewCurrent, EventsFit, TypeOK, MonitorState
<1>10. ASSUME NEW w \in Monitors, CommitClose(w) PROVE LedgerInv'
  <2> DEFINE t == monitor[w].trade
             realized == monitor[w].realized
  <2>1. /\ t \in TradeIds
        /\ trade[t].status = "OPEN"
        /\ monitor[w].view = trade[t]
        /\ \A v \in Monitors \ {w} :
              monitor[v].pc \in {"locked", "closing"} => monitor[v].trade # t
      BY <1>10 DEF CommitClose, CloseDelta, ViewCurrent
  <2>2. /\ trade' = [trade EXCEPT ![t] = [@ EXCEPT !.status = "CLOSED",
                                                   !.realized = realized]]
        /\ ledger' = [ledger EXCEPT
              ![t] = AppendEvent(@, "CLOSE", realized - trade[t].partial)]
      BY <1>10, <2>1 DEF CommitClose, CloseDelta
  <2>3. ViewCurrent'
      BY <1>10, <2>1, <2>2, FinishKeepsView DEF CommitClose, CloseDelta, TypeOK
  <2>4. realized \in Int /\ trade[t].partial \in Int
      BY <2>1 DEF TypeOK, MonitorState, Row
  <2>5. EventsFit(trade'[t], ledger'[t])
      BY <2>1, <2>2, <2>4
      DEF EventsFit, AppendEvent, TypeOK, Row, EventKinds, Event
  <2> QED
      BY <2>1, <2>2, <2>3, <2>5 DEF TypeOK
<1> QED
    BY <1>1, <1>2, <1>3, <1>4, <1>5, <1>6, <1>7, <1>8, <1>9, <1>10,
       MonitorAssumption
    DEF vars, Next, ExecutorStep, MonitorStep, SavePlan, RetirePlan,
        BuildCandidates, Reserve, Admit, Skip, LoseReservation

LEMMA LedgerInvAlways == ASSUME RowLocks = TRUE PROVE Spec => []LedgerInv
<1>1. Init => LedgerInv
    BY DEF Init, LedgerInv, ViewCurrent, EventsFit, IdleMonitor, NoRow
<1>2. TypeOK /\ LedgerInv /\ [Next]_vars => LedgerInv'
    BY LedgerInvInductive
<1> QED
    BY <1>1, <1>2, TypeCorrect, PTL DEF Spec

\* On PostgreSQL, where the row lock is real, the wallet ledger and the trade
\* rows agree on the realized result in every state, for any number of exit
\* monitors and whatever the fills and the funding were.
THEOREM LedgerAgrees == ASSUME RowLocks = TRUE PROVE Spec => []LedgerMatchesBook
<1>1. TypeOK /\ LedgerInv => LedgerMatchesBook
    BY DEF LedgerInv, LedgerMatchesBook, LedgerTotal, BookRealized, EventsFit,
           NoEvents, EventKinds, TypeOK, Row
<1> QED
    BY <1>1, LedgerInvAlways, TypeCorrect, PTL

\* No monitor that read a position while it was open changes the result or
\* the ledger events of the position after another one has closed it.
THEOREM ClosedStaysClosed == ASSUME RowLocks = TRUE PROVE Spec => ClosedIsFinal
<1> DEFINE Final(t) == trade[t].status = "CLOSED" =>
              /\ trade'[t] = [trade[t] EXCEPT !.policy = trade'[t].policy]
              /\ ledger'[t] = ledger[t]
<1>1. TypeOK /\ LedgerInv /\ [Next]_vars => \A t \in TradeIds : Final(t)
  <2> SUFFICES ASSUME TypeOK, LedgerInv, [Next]_vars, NEW t \in TradeIds,
                      trade[t].status = "CLOSED"
               PROVE  /\ trade'[t] = [trade[t] EXCEPT !.policy = trade'[t].policy]
                      /\ ledger'[t] = ledger[t]
      OBVIOUS
  <2>1. trade'[t] = trade[t] =>
            trade'[t] = [trade[t] EXCEPT !.policy = trade'[t].policy]
      BY DEF TypeOK, Row
  <2>2. CASE UNCHANGED <<trade, ledger>>
      BY <2>1, <2>2
  <2>3. ASSUME NEW c, NEW p, NEW policy, NEW m, InsertTrade(c, p, policy, m)
        PROVE  trade'[t] = trade[t] /\ ledger'[t] = ledger[t]
      BY <2>3 DEF InsertTrade, TypeOK
  <2>4. ASSUME NEW w \in Monitors, EnsurePolicy(w)
        PROVE  /\ trade'[t] = [trade[t] EXCEPT !.policy = trade'[t].policy]
               /\ ledger'[t] = ledger[t]
    <3>1. CASE monitor[w].trade = t
        BY <2>4, <3>1 DEF EnsurePolicy, TypeOK, Row
    <3>2. CASE monitor[w].trade # t
        BY <2>1, <2>4, <3>2 DEF EnsurePolicy, TypeOK
    <3> QED
        BY <3>1, <3>2
  <2>5. ASSUME NEW w \in Monitors, TakeTarget1(w) \/ CommitClose(w)
        PROVE  trade'[t] = trade[t] /\ ledger'[t] = ledger[t]
    <3>1. monitor[w].trade # t
        BY <2>5 DEF TakeTarget1, CommitClose, LedgerInv, ViewCurrent
    <3> QED
        BY <2>5, <3>1 DEF TakeTarget1, CommitClose, TypeOK
  <2> QED
      BY <2>1, <2>2, <2>3, <2>4, <2>5, MonitorAssumption
      DEF vars, Next, ExecutorStep, MonitorStep, SavePlan, RetirePlan,
          BuildCandidates, Reserve, Admit, Fill, Skip, LoseReservation,
          OpenUnified, ListForPolicy, LockRow, Release, BeginClose
<1> QED
    BY <1>1, LedgerInvAlways, TypeCorrect, PTL DEF Spec, ClosedIsFinal

-----------------------------------------------------------------------------
(* Refinement of the abstract accounts                                     *)

LEMMA AccountsInit == Init => Accounts!Init
BY DEF Init, Accounts!Init, Stage, LedgerTotal, BookRealized, NoRow, NoEvents,
       EventKinds

\* A step that leaves every stage and every event alone is a stutter there.
LEMMA AccountsStutter ==
    ASSUME \A t \in TradeIds : /\ Stage(trade'[t]) = Stage(trade[t])
                               /\ LedgerTotal(t)' = LedgerTotal(t)
                               /\ BookRealized(t)' = BookRealized(t)
    PROVE  UNCHANGED Accounts!vars
BY DEF Accounts!vars

\* A step that moves the stage of one trade, and whose book still matches
\* its ledger afterwards, posts one amount to that trade.
LEMMA AccountsPost ==
    ASSUME LedgerMatchesBook, LedgerMatchesBook', NEW t \in TradeIds,
           \A s \in TradeIds \ {t} :
               trade'[s] = trade[s] /\ ledger'[s] = ledger[s]
    PROVE  Accounts!Post(t)
BY DEF Accounts!Post, LedgerMatchesBook, LedgerTotal, BookRealized

LEMMA AccountsStep ==
    ASSUME RowLocks = TRUE, TypeOK, LedgerInv,
           LedgerMatchesBook, LedgerMatchesBook', [Next]_vars
    PROVE  [Accounts!Next]_(Accounts!vars)
<1>1. CASE UNCHANGED <<trade, ledger>>
    BY <1>1, AccountsStutter DEF LedgerTotal, BookRealized
<1>2. ASSUME NEW c, NEW p, NEW policy, NEW m, InsertTrade(c, p, policy, m)
      PROVE  Accounts!Next
  <2>1. PICK t \in TradeIds :
          /\ trade[t].status = "NONE"
          /\ trade' = [trade EXCEPT ![t] = OpenRow(c, p, policy, m)]
          /\ ledger' = [ledger EXCEPT ![t] = AppendEvent(@, "ENTRY", 0)]
      BY <1>2 DEF InsertTrade
  <2>2. \A s \in TradeIds \ {t} :
            trade'[s] = trade[s] /\ ledger'[s] = ledger[s]
      BY <2>1 DEF TypeOK
  <2>3. trade'[t] = OpenRow(c, p, policy, m)
      BY <2>1 DEF TypeOK
  <2>4. /\ Stage(trade[t]) = "flat"
        /\ Stage(trade'[t]) = "open"
        /\ BookRealized(t) = 0
        /\ BookRealized(t)' = 0
      BY <2>1, <2>3 DEF Stage, BookRealized, OpenRow
  <2>5. LedgerTotal(t)' = LedgerTotal(t)
      BY <2>4 DEF LedgerMatchesBook
  <2>6. Accounts!Open(t)
      BY <2>2, <2>4, <2>5 DEF Accounts!Open, LedgerTotal, BookRealized
  <2> QED
      BY <2>6 DEF Accounts!Next
<1>3. ASSUME NEW w \in Monitors, EnsurePolicy(w) PROVE UNCHANGED Accounts!vars
  <2>1. \A t \in TradeIds : /\ trade'[t].status = trade[t].status
                            /\ trade'[t].target1 = trade[t].target1
                            /\ trade'[t].partial = trade[t].partial
                            /\ trade'[t].realized = trade[t].realized
      BY <1>3 DEF EnsurePolicy, TypeOK, Row
  <2> QED
      BY <1>3, <2>1, AccountsStutter
      DEF EnsurePolicy, Stage, LedgerTotal, BookRealized
<1>4. ASSUME NEW w \in Monitors, TakeTarget1(w) PROVE Accounts!Next
  <2> DEFINE t == monitor[w].trade
  <2>1. t \in TradeIds /\ trade[t].status = "OPEN" /\ ~ trade[t].target1
      BY <1>4 DEF TakeTarget1, Target1Due, LedgerInv, ViewCurrent
  <2>2. PICK x \in NetMarks :
          /\ trade' = [trade EXCEPT
                ![t] = [@ EXCEPT !.target1 = TRUE,
                                 !.target1Mark = x,
                                 !.partial = Target1Units * x]]
          /\ ledger' = [ledger EXCEPT
                ![t] = AppendEvent(@, "TARGET1", Target1Units * x)]
      BY <1>4 DEF TakeTarget1
  <2>3. \A s \in TradeIds \ {t} :
            trade'[s] = trade[s] /\ ledger'[s] = ledger[s]
      BY <2>2 DEF TypeOK
  <2>4. trade'[t].status = "OPEN" /\ trade'[t].target1
      BY <2>1, <2>2 DEF TypeOK, Row
  <2>5. Stage(trade[t]) = "open" /\ Stage(trade'[t]) = "partial"
      BY <2>1, <2>4 DEF Stage
  <2>6. Accounts!BankTarget1(t)
      BY <2>1, <2>3, <2>5, AccountsPost DEF Accounts!BankTarget1
  <2> QED
      BY <2>1, <2>6 DEF Accounts!Next
<1>5. ASSUME NEW w \in Monitors, CommitClose(w) PROVE Accounts!Next
  <2> DEFINE t == monitor[w].trade
  <2>1. t \in TradeIds /\ trade[t].status = "OPEN"
      BY <1>5 DEF CommitClose, CloseDelta, LedgerInv, ViewCurrent
  <2>2. /\ trade' = [trade EXCEPT
              ![t] = [@ EXCEPT !.status = "CLOSED",
                               !.realized = monitor[w].realized]]
        /\ ledger' = [ledger EXCEPT
              ![t] = AppendEvent(@, "CLOSE", monitor[w].realized
                                             - monitor[w].view.partial)]
      BY <1>5 DEF CommitClose, CloseDelta
  <2>3. \A s \in TradeIds \ {t} :
            trade'[s] = trade[s] /\ ledger'[s] = ledger[s]
      BY <2>2 DEF TypeOK
  <2>4. trade'[t].status = "CLOSED"
      BY <2>1, <2>2 DEF TypeOK, Row
  <2>5. Stage(trade[t]) \in {"open", "partial"} /\ Stage(trade'[t]) = "closed"
      BY <2>1, <2>4 DEF Stage
  <2>6. Accounts!Settle(t)
      BY <2>1, <2>3, <2>5, AccountsPost DEF Accounts!Settle
  <2> QED
      BY <2>1, <2>6 DEF Accounts!Next
<1> QED
    BY <1>1, <1>2, <1>3, <1>4, <1>5, MonitorAssumption
    DEF vars, Next, ExecutorStep, MonitorStep, SavePlan, RetirePlan,
        BuildCandidates, Reserve, Admit, Fill, Skip, LoseReservation,
        OpenUnified, ListForPolicy, LockRow, Release, BeginClose

\* The book with its locks, queues, monitors and idempotent event keys
\* implements the abstract position accounts: each leg is banked once and
\* ledger and report move together.
THEOREM BookImplementsAccounts ==
    ASSUME RowLocks = TRUE PROVE Spec => ImplementsAccounts
<1>1. Init => Accounts!Init
    BY AccountsInit
<1>2. TypeOK /\ LedgerInv /\ LedgerMatchesBook /\ LedgerMatchesBook'
      /\ [Next]_vars => [Accounts!Next]_(Accounts!vars)
    BY AccountsStep
<1> QED
    BY <1>1, <1>2, LedgerInvAlways, LedgerAgrees, TypeCorrect, PTL
    DEF Spec, ImplementsAccounts, Accounts!Spec

-----------------------------------------------------------------------------
(* Plans                                                                   *)

\* What an executor inside an intact boundary may rely on: it holds the lock,
\* and the plan it admitted still has no trade.
Reserved ==
    \A e \in Executors :
        executor[e].pc \in {"reserved", "admitted"} /\ executor[e].intact =>
            /\ account = e
            /\ executor[e].pc = "admitted" => ~ HasTradeForPlan(executor[e].plan)

LEMMA ReservedAlways ==
    ASSUME AccountLocks = TRUE PROVE Spec => [](Reserved /\ PlanExecutedOnce)
<1> DEFINE Inv == Reserved /\ PlanExecutedOnce
<1>1. Init => Inv
    BY DEF Init, Reserved, PlanExecutedOnce, IdleExecutor, NoRow
<1>2. TypeOK /\ Inv /\ [Next]_vars => Inv'
  <2> SUFFICES ASSUME TypeOK, Inv, [Next]_vars PROVE Inv'
      OBVIOUS
  <2>1. ASSUME UNCHANGED <<account, executor>>,
               \A t \in TradeIds : trade'[t].plan = trade[t].plan
        PROVE  Inv'
      BY <2>1 DEF Reserved, PlanExecutedOnce, HasTradeForPlan
  <2>2. ASSUME NEW e \in Executors, BuildCandidates(e) PROVE Inv'
      BY <2>2 DEF BuildCandidates, Reserved, PlanExecutedOnce,
                  HasTradeForPlan, IdleExecutor, TypeOK
  <2>3. ASSUME NEW e \in Executors, Reserve(e) PROVE Inv'
      BY <2>3, NoneAssumption
      DEF Reserve, Reserved, PlanExecutedOnce, HasTradeForPlan, TypeOK,
          ExecutorState
  <2>4. ASSUME NEW e \in Executors, Admit(e) PROVE Inv'
      BY <2>4 DEF Admit, Reserved, PlanExecutedOnce, HasTradeForPlan, TypeOK,
                  ExecutorState
  <2>5. ASSUME NEW e \in Executors, Fill(e) PROVE Inv'
    <3>1. \A f \in Executors \ {e} :
             ~ (executor[f].pc \in {"reserved", "admitted"} /\ executor[f].intact)
        BY <2>5 DEF Fill, ReservationIntact, Reserved
    <3>2. Reserved'
        BY <2>5, <3>1 DEF Fill, ReservationIntact, NextCoin, ReleaseAccount, Reserved, TypeOK, IdleExecutor
    <3>3. ~ HasTradeForPlan(executor[e].plan)
        BY <2>5 DEF Fill, ReservationIntact, Reserved
    <3>4. PlanExecutedOnce'
        BY <2>5, <3>3
        DEF Fill, ReservationIntact, InsertTrade, OpenRow, PlanExecutedOnce, HasTradeForPlan, TypeOK
    <3> QED
        BY <3>2, <3>4
  <2>6. ASSUME NEW e \in Executors, Skip(e) PROVE Inv'
      BY <2>6 DEF Skip, NextCoin, ReleaseAccount, Reserved, PlanExecutedOnce, HasTradeForPlan,
                  TypeOK, IdleExecutor
  <2>7. ASSUME NEW e \in Executors, LoseReservation(e) PROVE Inv'
      BY <2>7 DEF LoseReservation, ReleaseAccount, Reserved, PlanExecutedOnce,
                  HasTradeForPlan, TypeOK, ExecutorState
  <2>8. ASSUME NEW c \in Coins, OpenUnified(c) PROVE Inv'
    <3>1. PICK t \in TradeIds, m \in UnifiedMargins :
            trade' = [trade EXCEPT
                ![t] = OpenRow(c, None, "UNIFIED_PROFILE", m)]
        BY <2>8 DEF OpenUnified, InsertTrade
    <3>2. account = None
        BY <2>8 DEF OpenUnified
    <3> QED
        BY <2>8, <3>1, <3>2, NoneAssumption
        DEF OpenUnified, OpenRow, Reserved, PlanExecutedOnce,
            HasTradeForPlan, TypeOK
  <2>9. ASSUME NEW w \in Monitors,
               EnsurePolicy(w) \/ TakeTarget1(w) \/ CommitClose(w)
        PROVE  Inv'
    <3>1. \A t \in TradeIds : trade'[t].plan = trade[t].plan
      <4>1. CASE EnsurePolicy(w)
          BY <4>1 DEF EnsurePolicy, TypeOK, Row
      <4>2. CASE TakeTarget1(w)
        <5>1. PICK x \in NetMarks :
                trade' = [trade EXCEPT
                    ![monitor[w].trade] = [@ EXCEPT
                        !.target1 = TRUE,
                        !.target1Mark = x,
                        !.partial = Target1Units * x]]
            BY <4>2 DEF TakeTarget1
        <5> QED
            BY <5>1 DEF TypeOK, Row
      <4>3. CASE CommitClose(w)
          BY <4>3 DEF CommitClose, CloseDelta, TypeOK, Row
      <4> QED
          BY <2>9, <4>1, <4>2, <4>3
    <3>2. UNCHANGED <<account, executor>>
        BY <2>9 DEF EnsurePolicy, TakeTarget1, CommitClose
    <3> QED
        BY <2>1, <3>1, <3>2
  <2> HIDE DEF Inv
  <2> QED
      BY <2>1, <2>2, <2>3, <2>4, <2>5, <2>6, <2>7, <2>8, <2>9,
         MonitorAssumption
      DEF vars, Next, ExecutorStep, MonitorStep, SavePlan, RetirePlan,
          ListForPolicy, LockRow, Release, BeginClose
<1> QED
    BY <1>1, <1>2, TypeCorrect, PTL DEF Spec

\* With the account lock a plan is executed at most once, although candidate
\* lists are read before the lock and reservations may be lost under it.
THEOREM PlanOnce == ASSUME AccountLocks = TRUE PROVE Spec => []PlanExecutedOnce
BY ReservedAlways, PTL
=============================================================================
