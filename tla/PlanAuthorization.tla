-------------------------- MODULE PlanAuthorization --------------------------
(***************************************************************************)
(* The life of the trade plans of one strategy on one coin: scans save,    *)
(* refresh, replace and withdraw them, risk runs authorise them, the       *)
(* memory job and the close of a position end them, the candidate executor *)
(* opens a position from one.                                              *)
(*                                                                         *)
(* No lock is held between a read of a plan and the commit of a write to   *)
(* it.  A session that ends a plan loads the thesis, changes both, and     *)
(* commits later what differs from what it loaded; the last commit stands. *)
(* Every scan evaluates the strategy anew: the row of that decision, its   *)
(* snapshot, is what plans and authorisations are compared by.             *)
(***************************************************************************)
EXTENDS Integers, Sequences

CONSTANTS
    Terms,         \* what a plan proposes: side, levels and confidence
    Approvable,    \* those the risk engine approves
    Weak,          \* those under the confidence gate of the scan job
    NoTerms,
    Scanners,      \* the scan job and calls of the persist-ready endpoint
    RiskRuns,      \* risk runs that may overlap (max_instances)
    Refresh,       \* ages under which a decision is reused (10 minutes)
    Stale,         \* oldest age at which a decision still counts (15 minutes)
    MaxPlans,      \* bound: plans ever saved
    MaxScans,      \* bound: scans ever made
    MaxFailures    \* bound: runs that fail

ASSUME PlanAssumption ==
    /\ Approvable \subseteq Terms /\ Weak \subseteq Terms /\ NoTerms \notin Terms
    /\ Refresh \in Nat \ {0} /\ Stale \in Nat /\ Refresh =< Stale
    /\ MaxPlans \in Nat /\ MaxScans \in Nat /\ MaxFailures \in Nat

VARIABLES
    plan,        \* rows of trade_plans
    thesis,      \* lifecycle_state of the thesis of each plan
    ended,       \* history: sessions that have ended each plan, up to three
    decision,    \* the newest risk decision of each plan
    eligible,    \* eligible[n]: snapshot n says ELIGIBLE
    scan,        \* sessions of the scanners
    risk,        \* sessions of the risk runs
    memory,      \* session of the memory job
    executor,    \* session of the candidate executor
    closing,     \* session that closes the position
    position,    \* what became of each plan's position, and its evidence
    failures

vars == <<plan, thesis, ended, decision, eligible, scan, risk, memory, executor,
          closing, position, failures>>

-----------------------------------------------------------------------------
Plans == 1 .. MaxPlans
NoPlan == 0
Results == {"WIN", "LOSS"}
Ages == 0 .. Stale + 1

Outcomes == {"NONE", "INVALIDATED", "STALE_AFTER_CLOSE"} \cup Results
States == {"NONE", "ACTIVE", "COMPLETED", "INVALIDATED"}

Plan == [status : {"NONE", "OPEN", "CLOSED"}, terms : Terms \cup {NoTerms},
         snapshot : 0 .. MaxScans, result : Outcomes]
NoRow == [status |-> "NONE", terms |-> NoTerms, snapshot |-> 0, result |-> "NONE"]

Decision == [kind : {"NONE", "APPROVE", "REJECT"}, snapshot : 0 .. MaxScans, age : Ages]
NoDecision == [kind |-> "NONE", snapshot |-> 0, age |-> 0]

\* What is read of a decision by those who act on it: of its age, whether it
\* still counts.
Seen == [kind : {"NONE", "APPROVE", "REJECT"}, snapshot : 0 .. MaxScans, fresh : BOOLEAN]
NothingSeen == [kind |-> "NONE", snapshot |-> 0, fresh |-> FALSE]
SeenOf(d) == [kind |-> d.kind, snapshot |-> d.snapshot, fresh |-> d.age =< Stale]

\* The end of a plan in the hands of a session: what its rows were loaded as,
\* the thesis "NONE" until it is.
Ending == [plan : {NoPlan} \cup Plans, stored : Outcomes, held : States]
NoEnding == [plan |-> NoPlan, stored |-> "NONE", held |-> "NONE"]

Scan == [pc : {"idle", "weak", "found", "replaced"}, weak : SUBSET Plans, fresh : BOOLEAN,
         offer : Terms \cup {NoTerms}, snapshot : 0 .. MaxScans, found : {NoPlan} \cup Plans,
         ending : Ending]
IdleScan == [pc |-> "idle", weak |-> {}, fresh |-> FALSE, offer |-> NoTerms, snapshot |-> 0,
             found |-> NoPlan, ending |-> NoEnding]

Memory == [todo : SUBSET Plans, fresh : BOOLEAN, ending : Ending]
IdleMemory == [todo |-> {}, fresh |-> FALSE, ending |-> NoEnding]

\* seen: the lineage in the rows the session loaded; latest: the decisions.
RiskRun == [todo : SUBSET Plans, fresh : BOOLEAN,
            seen : [Plans -> 0 .. MaxScans], latest : [Plans -> Decision]]
IdleRisk == [todo |-> {}, fresh |-> FALSE, seen |-> [p \in Plans |-> 0],
             latest |-> [p \in Plans |-> NoDecision]]

Candidate == [plan : {NoPlan} \cup Plans, evidence : Seen]
NoCandidate == [plan |-> NoPlan, evidence |-> NothingSeen]

Closing == [pc : {"idle", "own", "queued", "loaded"}, plan : {NoPlan} \cup Plans,
            queued : SUBSET Plans, held : [Plans -> States]]
NotClosing == [pc |-> "idle", plan |-> NoPlan, queued |-> {}, held |-> [p \in Plans |-> "NONE"]]

Position == [status : {"NONE", "OPEN", "CLOSED"}, evidence : Seen]
NoPosition == [status |-> "NONE", evidence |-> NothingSeen]

TypeOK ==
    /\ plan \in [Plans -> Plan]
    /\ thesis \in [Plans -> States]
    /\ ended \in [Plans -> 0 .. 3]
    /\ decision \in [Plans -> Decision]
    /\ eligible \in Seq(BOOLEAN) /\ Len(eligible) =< MaxScans
    /\ scan \in [Scanners -> Scan]
    /\ risk \in [RiskRuns -> RiskRun]
    /\ memory \in Memory
    /\ executor \in Candidate
    /\ closing \in Closing
    /\ position \in [Plans -> Position]
    /\ failures \in 0 .. MaxFailures

Init ==
    /\ plan = [p \in Plans |-> NoRow]
    /\ thesis = [p \in Plans |-> "NONE"]
    /\ ended = [p \in Plans |-> 0]
    /\ decision = [p \in Plans |-> NoDecision]
    /\ eligible = <<>>
    /\ scan = [s \in Scanners |-> IdleScan]
    /\ risk = [r \in RiskRuns |-> IdleRisk]
    /\ memory = IdleMemory
    /\ executor = NoCandidate
    /\ closing = NotClosing
    /\ position = [p \in Plans |-> NoPosition]
    /\ failures = 0

OpenPlans == {p \in Plans : plan[p].status = "OPEN"}

\* Mutant: the result itself is written to the thesis.
ResultAsState(result) == result

\* What the end of a plan makes of its thesis.
Lifecycle(result) == IF result = "WIN" THEN "COMPLETED" ELSE "INVALIDATED"

\* A session writes a column only if it has changed what it loaded there.
Written(row, loaded, new) == IF new = loaded THEN row ELSE new

OnceMore(n) == IF n < 3 THEN n + 1 ELSE n

\* The thesis is loaded for an end that has been decided.
Loaded(ending) == [ending EXCEPT !.held = thesis[ending.plan]]

\* A row that was found open, or one that an earlier commit of the session had
\* expired and that is read again, whatever it has become.
Row(p, reread) ==
    [NoEnding EXCEPT !.plan = p, !.stored = IF reread THEN plan[p].result ELSE "NONE"]

\* The commit of close_trade and invalidate_trade, of the plan and its thesis.
Commit(ending, result) ==
    LET p == ending.plan IN
    /\ plan' = [plan EXCEPT ![p].status = "CLOSED",
                            ![p].result = Written(@, ending.stored, result)]
    /\ thesis' = [thesis EXCEPT ![p] = Written(@, ending.held, Lifecycle(result))]
    /\ ended' = [ended EXCEPT ![p] = OnceMore(@)]

-----------------------------------------------------------------------------
(* Scans                                                                   *)

OtherThanScan == <<decision, risk, memory, executor, closing, position, failures>>

WeakPlans == {p \in OpenPlans : plan[p].terms \in Weak}

\* The job first lists the open plans below the confidence gate; with none it
\* starts where the endpoint does.
ListWeak(s) ==
    /\ scan[s].pc = "idle" /\ WeakPlans # {}
    /\ scan' = [scan EXCEPT ![s] = [IdleScan EXCEPT !.pc = "weak", !.weak = WeakPlans]]
    /\ UNCHANGED <<plan, thesis, ended, eligible>> /\ UNCHANGED OtherThanScan

InvalidateWeak(s) ==
    /\ scan[s].pc = "weak" /\ scan[s].ending = NoEnding
    /\ \E p \in scan[s].weak :
          scan' = [scan EXCEPT ![s].weak = @ \ {p},
                       ![s].ending = Loaded(Row(p, scan[s].fresh))]
    /\ UNCHANGED <<plan, thesis, ended, eligible>> /\ UNCHANGED OtherThanScan

\* get_open_trade: the newest open plan, of either side.
Newest == IF OpenPlans = {} THEN NoPlan
          ELSE CHOOSE p \in OpenPlans : \A q \in OpenPlans : q =< p

\* A READY signal with a valid plan makes an offer; a decision is ELIGIBLE
\* only if there is one.  The snapshot is committed before the plan is read.
\* The endpoint starts here.  A call of it that asks for the other side passes
\* the plan over: nothing refers to its snapshot, and it is left out.
Evaluate(s) ==
    /\ scan[s].pc = "idle" /\ Len(eligible) < MaxScans
    /\ \E offer \in Terms \cup {NoTerms}, verdict \in BOOLEAN :
          /\ verdict => offer # NoTerms
          /\ eligible' = Append(eligible, verdict)
          /\ scan' = [scan EXCEPT ![s] = [IdleScan EXCEPT !.pc = "found", !.offer = offer,
                         !.snapshot = Len(eligible) + 1, !.found = Newest]]
    /\ UNCHANGED <<plan, thesis, ended>> /\ UNCHANGED OtherThanScan

Found(s) == scan[s].pc = "found"
Settle(s) == scan' = [scan EXCEPT ![s] = IdleScan]

NothingToDo(s) ==
    /\ Found(s) /\ scan[s].offer = NoTerms /\ scan[s].found = NoPlan
    /\ Settle(s)
    /\ UNCHANGED <<plan, thesis, ended, eligible>> /\ UNCHANGED OtherThanScan

\* _invalidate_strategy_open_plan if the signal is no longer READY, or a changed
\* offer that replaces the plan: the row was found open, its thesis is loaded.
EndFound(s) ==
    LET p == scan[s].found IN
    /\ Found(s) /\ p # NoPlan /\ scan[s].ending = NoEnding
    /\ scan[s].offer = NoTerms \/ plan[p].terms # scan[s].offer
    /\ scan' = [scan EXCEPT ![s].ending = Loaded(Row(p, FALSE))]
    /\ UNCHANGED <<plan, thesis, ended, eligible>> /\ UNCHANGED OtherThanScan

\* Each end is a commit of its own; the list is worked off before a scan, and
\* a replaced plan ends before the new one is saved.
CommitEnd(s) ==
    /\ scan[s].ending # NoEnding
    /\ Commit(scan[s].ending, "INVALIDATED")
    /\ scan' = [scan EXCEPT ![s] =
                   IF scan[s].offer # NoTerms
                   THEN [@ EXCEPT !.ending = NoEnding, !.pc = "replaced"]
                   ELSE IF scan[s].weak # {}
                   THEN [@ EXCEPT !.ending = NoEnding, !.fresh = TRUE]
                   ELSE IdleScan]
    /\ UNCHANGED eligible /\ UNCHANGED OtherThanScan

\* refresh_strategy_lineage: the plan is unchanged, its lineage moves on.
RefreshLineage(s) ==
    /\ Found(s) /\ scan[s].offer # NoTerms /\ scan[s].found # NoPlan
    /\ plan[scan[s].found].terms = scan[s].offer
    /\ plan' = [plan EXCEPT ![scan[s].found].snapshot = scan[s].snapshot]
    /\ Settle(s)
    /\ UNCHANGED <<thesis, ended, eligible>> /\ UNCHANGED OtherThanScan

Saved(s) == [status |-> "OPEN", terms |-> scan[s].offer,
             snapshot |-> scan[s].snapshot, result |-> "NONE"]

\* save_ready_trade_plan, with its thesis.
Save(s) ==
    /\ \/ scan[s].pc = "replaced"
       \/ Found(s) /\ scan[s].offer # NoTerms /\ scan[s].found = NoPlan
    /\ \E p \in Plans :
          /\ plan[p].status = "NONE" /\ \A q \in 1 .. p - 1 : plan[q].status # "NONE"
          /\ plan' = [plan EXCEPT ![p] = Saved(s)]
          /\ thesis' = [thesis EXCEPT ![p] = "ACTIVE"]
    /\ Settle(s)
    /\ UNCHANGED <<ended, eligible>> /\ UNCHANGED OtherThanScan

\* A scan is lost between two commits.
ScanFails(s) ==
    /\ scan[s].pc # "idle"
    /\ failures < MaxFailures /\ failures' = failures + 1
    /\ Settle(s)
    /\ UNCHANGED <<plan, thesis, ended, eligible, decision, risk, memory, executor, closing,
                   position>>

-----------------------------------------------------------------------------
(* Risk runs                                                               *)

OtherThanRisk == <<plan, thesis, ended, eligible, scan, memory, executor, closing, position>>

\* The open plans and their newest decisions are read at the start.
StartRisk(r) ==
    /\ risk[r].todo = {} /\ OpenPlans # {}
    /\ risk' = [risk EXCEPT ![r] =
                  [todo |-> OpenPlans, fresh |-> FALSE,
                   seen |-> [p \in Plans |-> IF p \in OpenPlans THEN plan[p].snapshot ELSE 0],
                   latest |-> [p \in Plans |-> IF p \in OpenPlans THEN decision[p]
                                               ELSE NoDecision]]]
    /\ UNCHANGED <<decision, failures>> /\ UNCHANGED OtherThanRisk

\* The first commit expires the loaded rows, the batch of decisions stays.
Lineage(r, p) == IF risk[r].fresh THEN plan[p].snapshot ELSE risk[r].seen[p]

Verdict(p) == IF plan[p].terms \in Approvable THEN "APPROVE" ELSE "REJECT"

\* Mutant: what was decided once is reused whatever its age.
ReusableAtAnyAge(r, p) ==
    risk[r].latest[p].kind = Verdict(p) /\ risk[r].latest[p].snapshot = Lineage(r, p)

Reusable(r, p) ==
    /\ risk[r].latest[p].kind = Verdict(p)
    /\ risk[r].latest[p].snapshot = Lineage(r, p)
    /\ risk[r].latest[p].age < Refresh

\* A run is done with a plan; with the last one its session is closed.
Rest(r, p, expires) ==
    IF risk[r].todo = {p} THEN IdleRisk
    ELSE [risk[r] EXCEPT !.todo = @ \ {p}, !.fresh = @ \/ expires]

DoneWith(r, p, expires) == risk' = [risk EXCEPT ![r] = Rest(r, p, expires)]

Reuse(r, p) ==
    /\ p \in risk[r].todo /\ Reusable(r, p)
    /\ DoneWith(r, p, FALSE)
    /\ UNCHANGED <<decision, failures>> /\ UNCHANGED OtherThanRisk

\* A decision and its link in the thesis are committed plan by plan.
Decide(r, p) ==
    /\ p \in risk[r].todo /\ ~Reusable(r, p)
    /\ decision' = [decision EXCEPT ![p] =
                      [kind |-> Verdict(p), snapshot |-> Lineage(r, p), age |-> 0]]
    /\ DoneWith(r, p, TRUE)
    /\ UNCHANGED failures /\ UNCHANGED OtherThanRisk

\* An error costs one plan its decision; the rollback expires the rows too.
DecisionFails(r, p) ==
    /\ p \in risk[r].todo
    /\ failures < MaxFailures /\ failures' = failures + 1
    /\ DoneWith(r, p, TRUE)
    /\ UNCHANGED decision /\ UNCHANGED OtherThanRisk

RiskStep(r) == StartRisk(r) \/ \E p \in Plans : Reuse(r, p) \/ Decide(r, p)

-----------------------------------------------------------------------------
(* The memory job                                                          *)

OtherThanMemory == <<decision, eligible, scan, risk, executor, closing, position, failures>>

\* The open plans are listed.
ListOpen ==
    /\ memory = IdleMemory /\ OpenPlans # {}
    /\ memory' = [IdleMemory EXCEPT !.todo = OpenPlans]
    /\ UNCHANGED <<plan, thesis, ended>> /\ UNCHANGED OtherThanMemory

\* A row is taken up, read again if it has expired, and the price is fetched.
TakeUp(p) ==
    /\ p \in memory.todo /\ memory.ending = NoEnding
    /\ memory' = [memory EXCEPT !.todo = @ \ {p}, !.ending = Row(p, memory.fresh)]
    /\ UNCHANGED <<plan, thesis, ended>> /\ UNCHANGED OtherThanMemory

InHand == memory.ending.plan # NoPlan
Judged == memory.ending.held # "NONE"

Onward(expires) ==
    memory' = IF memory.todo = {} THEN IdleMemory
              ELSE [memory EXCEPT !.ending = NoEnding, !.fresh = @ \/ expires]

\* There is no price, or one between the levels.
LeaveOpen ==
    /\ InHand /\ ~Judged /\ Onward(FALSE)
    /\ UNCHANGED <<plan, thesis, ended>> /\ UNCHANGED OtherThanMemory

\* A price past a level decides the result, and the thesis is loaded.
Judge ==
    /\ InHand /\ ~Judged
    /\ memory' = [memory EXCEPT !.ending = Loaded(@)]
    /\ UNCHANGED <<plan, thesis, ended>> /\ UNCHANGED OtherThanMemory

Remember ==
    /\ InHand /\ Judged
    /\ \E result \in Results : Commit(memory.ending, result)
    /\ Onward(TRUE)
    /\ UNCHANGED OtherThanMemory

MemoryStep == \/ ListOpen \/ LeaveOpen \/ Judge \/ Remember
              \/ \E p \in Plans : TakeUp(p)

-----------------------------------------------------------------------------
(* Positions                                                               *)

HasOpenPosition == \E p \in Plans : position[p].status = "OPEN"

\* Mutant: the lineage of the decision is not compared with the plan's.
AuthorizedOnce(p) ==
    /\ decision[p].kind = "APPROVE" /\ decision[p].age =< Stale
    /\ plan[p].snapshot \in DOMAIN eligible /\ eligible[plan[p].snapshot]

Authorized(p) ==
    /\ decision[p].kind = "APPROVE" /\ decision[p].age =< Stale
    /\ decision[p].snapshot = plan[p].snapshot
    /\ plan[p].snapshot \in DOMAIN eligible /\ eligible[plan[p].snapshot]

\* A candidate is what was read of its plan and decision before the lock.
ListCandidate(p) ==
    /\ executor.plan = NoPlan /\ p \in OpenPlans /\ Authorized(p) /\ ~HasOpenPosition
    /\ executor' = [plan |-> p, evidence |-> SeenOf(decision[p])]
    /\ UNCHANGED <<plan, thesis, ended, decision, eligible, scan, risk, memory, closing,
                   position, failures>>

\* Under the account lock: the coin and the plan are asked for again.
Execute ==
    LET p == executor.plan IN
    /\ p # NoPlan /\ ~HasOpenPosition /\ position[p].status = "NONE"
    /\ position' = [position EXCEPT ![p] = [status |-> "OPEN", evidence |-> executor.evidence]]
    /\ executor' = NoCandidate
    /\ UNCHANGED <<plan, thesis, ended, decision, eligible, scan, risk, memory, closing, failures>>

GiveUp ==
    /\ executor.plan # NoPlan /\ executor' = NoCandidate
    /\ UNCHANGED <<plan, thesis, ended, decision, eligible, scan, risk, memory, closing,
                   position, failures>>

OtherThanClosing == <<decision, eligible, scan, risk, memory, executor, failures>>

\* close_trade of the position loads its thesis,
BeginClose ==
    /\ closing.plan = NoPlan
    /\ \E p \in Plans :
          /\ position[p].status = "OPEN"
          /\ closing' = [NotClosing EXCEPT !.pc = "own", !.plan = p, !.held[p] = thesis[p]]
    /\ UNCHANGED <<plan, thesis, ended, position>> /\ UNCHANGED OtherThanClosing

\* then finds every open plan of the coin,
FindQueued ==
    /\ closing.pc = "own"
    /\ closing' = [closing EXCEPT !.pc = "queued", !.queued = OpenPlans]
    /\ UNCHANGED <<plan, thesis, ended, position>> /\ UNCHANGED OtherThanClosing

\* Mutant: the plan of the position itself stays open.
OthersQueued == closing.queued \ {closing.plan}

Queued == closing.queued

\* then the theses of the others.
LoadTheses ==
    /\ closing.pc = "queued"
    /\ closing' = [closing EXCEPT !.pc = "loaded",
                      !.held = [p \in Plans |-> IF p \in Queued \ {closing.plan}
                                               THEN thesis[p] ELSE closing.held[p]]]
    /\ UNCHANGED <<plan, thesis, ended, position>> /\ UNCHANGED OtherThanClosing

\* What the close makes of the thesis of its position and of those it queued.
ClosedThesis(p, result) ==
    IF p = closing.plan THEN Written(thesis[p], closing.held[p], Lifecycle(result))
    ELSE IF p \in Queued THEN Written(thesis[p], closing.held[p], "INVALIDATED")
    ELSE thesis[p]

\* Its commit: the position, and what has changed of the plans and theses.
CommitClose ==
    LET own == closing.plan IN
    /\ closing.pc = "loaded"
    /\ \E result \in Results :
          /\ plan' = [p \in Plans |->
                        IF p \notin Queued THEN plan[p]
                        ELSE [plan[p] EXCEPT !.status = "CLOSED",
                                !.result = IF p = own THEN result ELSE "STALE_AFTER_CLOSE"]]
          /\ thesis' = [p \in Plans |-> ClosedThesis(p, result)]
    /\ ended' = [p \in Plans |-> IF p \in Queued THEN OnceMore(ended[p]) ELSE ended[p]]
    /\ position' = [position EXCEPT ![own].status = "CLOSED"]
    /\ closing' = NotClosing
    /\ UNCHANGED OtherThanClosing

-----------------------------------------------------------------------------
Older(d) == [d EXCEPT !.age = IF @ > Stale THEN @ ELSE @ + 1]

\* Time passes for every decision, those that risk runs hold included.
Tick ==
    /\ decision' = [p \in Plans |-> Older(decision[p])]
    /\ risk' = [r \in RiskRuns |->
                  [risk[r] EXCEPT !.latest = [p \in Plans |-> Older(risk[r].latest[p])]]]
    /\ UNCHANGED <<plan, thesis, ended, eligible, scan, memory, executor, closing, position,
                   failures>>

ScanStep(s) == \/ ListWeak(s) \/ InvalidateWeak(s) \/ Evaluate(s) \/ NothingToDo(s)
               \/ EndFound(s) \/ CommitEnd(s) \/ RefreshLineage(s) \/ Save(s)

PositionStep == (\E p \in Plans : ListCandidate(p)) \/ Execute \/ GiveUp
                \/ BeginClose \/ FindQueued \/ LoadTheses \/ CommitClose

Next ==
    \/ \E s \in Scanners : ScanStep(s) \/ ScanFails(s)
    \/ \E r \in RiskRuns : RiskStep(r) \/ \E p \in Plans : DecisionFails(r, p)
    \/ MemoryStep
    \/ PositionStep
    \/ Tick

Spec == Init /\ [][Next]_vars

\* The scheduler starts risk runs again and again, and a run goes on.
FairSpec == Spec /\ \A r \in RiskRuns : WF_vars(RiskStep(r))

-----------------------------------------------------------------------------
(* A plan and its thesis tell one story, though no session reads the two   *)
(* with the commit it makes: the thesis lives exactly as long as the plan  *)
(* is open, and ends as the plan did, unless the position opened from the  *)
(* plan has had its own outcome.  Two sessions that end one plan cannot    *)
(* part them, in whatever order they load and commit; three can, where one *)
(* of them loads what the second wrote and the third overwrites.           *)
ThesisFollowsPlan ==
    \A p \in Plans :
        /\ plan[p].status = "OPEN" <=> thesis[p] = "ACTIVE"
        /\ plan[p].status = "CLOSED" /\ position[p].status # "CLOSED" /\ ended[p] =< 2 =>
              thesis[p] = Lifecycle(plan[p].result)

(* A position rests on the approval of its own plan, fresh when it was     *)
(* listed, whose lineage the strategy found eligible: neither runs that    *)
(* overlap nor scans that move the lineage on mix evidence.                *)
EvidenceHolds ==
    \A p \in Plans : position[p].status # "NONE" =>
        LET seen == position[p].evidence IN
        /\ seen.kind = "APPROVE" /\ plan[p].terms \in Approvable
        /\ seen.fresh
        /\ seen.snapshot \in DOMAIN eligible /\ eligible[seen.snapshot]

(* A stale decision, or one of an older lineage, does not shut an open     *)
(* plan out for good: it ends, or it is approved again for the lineage it  *)
(* has (risk_job.py: the refresh window must expire before freshness does).*)
CurrentlyApproved(p) ==
    /\ decision[p].kind = "APPROVE" /\ decision[p].age =< Stale
    /\ decision[p].snapshot = plan[p].snapshot

Reauthorized ==
    \A p \in Plans :
        (plan[p].status = "OPEN" /\ plan[p].terms \in Approvable) ~>
            (plan[p].status = "CLOSED" \/ CurrentlyApproved(p))
=============================================================================
