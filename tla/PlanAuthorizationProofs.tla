----------------------- MODULE PlanAuthorizationProofs -----------------------
(***************************************************************************)
(* Plans and their theses tell one story, and positions rest on approvals  *)
(* of their own plans (PlanAuthorization), for every number of scanners,   *)
(* risk runs, plans and scans.                                             *)
(*                                                                         *)
(* No lock protects a plan between a read and a write, so the argument     *)
(* cannot be that nobody else writes.  For the evidence it is that what    *)
(* was read and cannot change is enough: a row keeps its terms once it is  *)
(* saved, the result of a scan is never rewritten.  For the theses it is   *)
(* what a session may still have loaded when it commits: a row nobody had  *)
(* ended, which it then writes, or, of a plan ended once, the very values  *)
(* the row still has, so that what it leaves out changes nothing.          *)
(***************************************************************************)
EXTENDS PlanAuthorization, TLAPS, WellFoundedInduction

\* A row that was never saved proposes nothing.
Blank == \A p \in Plans : plan[p].status = "NONE" => plan[p].terms = NoTerms

Approved(p) == plan[p].terms \in Approvable

Decided == \A p \in Plans : decision[p].kind = "APPROVE" => Approved(p)

\* What shows that a position may be opened from the plan.
Evidence(seen, p) ==
    /\ seen.kind = "APPROVE" /\ Approved(p) /\ seen.fresh
    /\ seen.snapshot \in DOMAIN eligible /\ eligible[seen.snapshot]

CandidateHolds == executor.plan # NoPlan => Evidence(executor.evidence, executor.plan)

PositionsHold == \A p \in Plans : position[p].status # "NONE" => Evidence(position[p].evidence, p)

EvidenceInv == Decided /\ CandidateHolds /\ PositionsHold

-----------------------------------------------------------------------------
(* What a plan and its thesis say of each other *)
PlanStory(p) ==
    /\ plan[p].status = "CLOSED" <=> ended[p] # 0
    /\ plan[p].status = "OPEN" <=> thesis[p] = "ACTIVE"
    /\ plan[p].status = "NONE" <=> thesis[p] = "NONE"
    /\ plan[p].result # "NONE" => plan[p].status = "CLOSED"
    /\ plan[p].status = "CLOSED" /\ position[p].status # "CLOSED" /\ ended[p] =< 2 =>
          thesis[p] = Lifecycle(plan[p].result)

Known(p) == plan[p].status # "NONE"

\* What a session may hold of the result and the thesis of a plan.
Consistent(p, stored, held) ==
    /\ Known(p)
    /\ ended[p] = 0 => stored = "NONE" /\ held \in {"NONE", "ACTIVE"}
    /\ ended[p] = 1 /\ stored # "NONE" => stored = plan[p].result
    /\ ended[p] = 1 /\ position[p].status # "CLOSED" /\ held \notin {"NONE", "ACTIVE"} =>
          held = thesis[p]

EndingHolds(e) == e.plan \in Plans /\ Consistent(e.plan, e.stored, e.held)

ScanStory(s) ==
    /\ \A p \in scan[s].weak : Known(p)
    /\ scan[s].found # NoPlan => Known(scan[s].found)
    /\ scan[s].ending # NoEnding => EndingHolds(scan[s].ending) /\ scan[s].ending.held # "NONE"

MemoryStory ==
    /\ \A p \in memory.todo : Known(p)
    /\ memory.ending.plan # NoPlan => EndingHolds(memory.ending)
    /\ memory.ending.plan = NoPlan => memory.ending.held = "NONE"

\* The position being closed is open.  Its own plan is in hand, once the open
\* plans have been found, if it is still open.
CloseStory ==
    LET own == closing.plan
        held == closing.held IN
    closing.pc # "idle" =>
        /\ own # NoPlan /\ position[own].status = "OPEN"
        /\ held[own] # "NONE" /\ Consistent(own, "NONE", held[own])
        /\ \A p \in closing.queued : Known(p)
        /\ closing.pc # "own" /\ plan[own].status = "OPEN" => own \in closing.queued
        /\ closing.pc = "loaded" =>
              \A p \in closing.queued : held[p] # "NONE" /\ Consistent(p, "NONE", held[p])

Stories == /\ \A p \in Plans : PlanStory(p)
           /\ \A s \in Scanners : ScanStory(s)
           /\ MemoryStory /\ CloseStory

PInv == TypeOK /\ Blank /\ EvidenceInv /\ Stories

-----------------------------------------------------------------------------
(* What is picked exists                                                   *)

\* A set of natural numbers that is not empty has a least element.
LEMMA LeastExists ==
    ASSUME NEW S \in SUBSET Nat, S # {}
    PROVE  \E x \in S : \A y \in S : x =< y
<1>1. PICK x \in S : \A y \in S : <<y, x>> \notin OpToRel(<, Nat)
  BY NatLessThanWellFounded, WFMin
<1>2. \A y \in S : ~(y < x)
  BY <1>1 DEF OpToRel
<1> QED
  BY <1>2

LEMMA NewestIsOpen ==
    Newest # NoPlan => Newest \in OpenPlans
<1> SUFFICES ASSUME OpenPlans # {}
             PROVE  Newest \in OpenPlans
  BY DEF Newest
<1> DEFINE Below == {MaxPlans - p : p \in OpenPlans}
<1>1. OpenPlans \subseteq Plans /\ MaxPlans \in Nat
  BY PlanAssumption DEF OpenPlans
<1>2. Below \in SUBSET Nat /\ Below # {}
  <2>1. \A p \in Plans : MaxPlans - p \in Nat
    BY <1>1 DEF Plans
  <2> QED
    BY <1>1, <2>1
<1>3. PICK least \in Below : \A d \in Below : least =< d
  BY <1>2, LeastExists
<1>4. PICK p \in OpenPlans : least = MaxPlans - p
  BY <1>3
<1>5. \A q \in OpenPlans : q =< p
  <2>1. SUFFICES ASSUME NEW q \in OpenPlans PROVE q =< p
    OBVIOUS
  <2>2. least =< MaxPlans - q
    BY <1>3
  <2> QED
    BY <1>1, <1>4, <2>2 DEF Plans
<1> QED
  BY <1>5 DEF Newest

-----------------------------------------------------------------------------
(* The initial states                                                      *)

LEMMA EmptyRecordsTyped ==
    /\ NoRow \in Plan /\ NoDecision \in Decision /\ NoPosition \in Position
    /\ NoEnding \in Ending /\ IdleScan \in Scan /\ IdleMemory \in Memory
    /\ IdleRisk \in RiskRun /\ NotClosing \in Closing
    /\ NoCandidate \in Candidate /\ NoCandidate.plan = NoPlan
<1>1. NoRow \in Plan
  BY PlanAssumption DEF NoRow, Plan, Outcomes
<1>2. NoDecision \in Decision
  BY PlanAssumption DEF NoDecision, Decision, Ages
<1>3. NothingSeen \in Seen
  BY PlanAssumption DEF NothingSeen, Seen
<1>4. NoPosition \in Position /\ NoCandidate \in Candidate /\ NoCandidate.plan = NoPlan
  BY <1>3 DEF NoPosition, Position, NoCandidate, Candidate
<1>5. NoEnding \in Ending
  BY DEF NoEnding, Ending, Outcomes, States
<1>6. IdleScan \in Scan /\ IdleMemory \in Memory
  BY <1>5, PlanAssumption DEF IdleScan, Scan, IdleMemory, Memory
<1>7. IdleRisk \in RiskRun
  BY <1>2, PlanAssumption DEF IdleRisk, RiskRun
<1>8. NotClosing \in Closing
  BY DEF NotClosing, Closing, States
<1> QED
  BY <1>1, <1>2, <1>4, <1>5, <1>6, <1>7, <1>8

LEMMA InitPInv == Init => PInv
<1> SUFFICES ASSUME Init PROVE PInv
  OBVIOUS
<1> USE DEF Init
<1>1. eligible \in Seq(BOOLEAN) /\ Len(eligible) =< MaxScans /\ failures \in 0 .. MaxFailures
  BY PlanAssumption
<1>2. TypeOK
  BY <1>1, EmptyRecordsTyped DEF TypeOK, States
<1>3. Blank /\ EvidenceInv
  BY DEF Blank, EvidenceInv, Decided, CandidateHolds, PositionsHold, NoRow, NoDecision,
         NoPosition, NoCandidate
<1>4. \A p \in Plans : PlanStory(p)
  BY DEF PlanStory, NoRow
<1>5. \A s \in Scanners : ScanStory(s)
  BY DEF ScanStory, IdleScan
<1>6. MemoryStory /\ CloseStory
  BY DEF MemoryStory, CloseStory, IdleMemory, NoEnding, NotClosing
<1> QED
  BY <1>2, <1>3, <1>4, <1>5, <1>6 DEF PInv, Stories

-----------------------------------------------------------------------------
(* Steps that keep the evidence                                            *)

\* Approved plans stay approved, and verdicts of scans are kept.
Monotone ==
    /\ \A p \in Plans : Approved(p) => Approved(p)'
    /\ \A n \in DOMAIN eligible : n \in DOMAIN eligible' /\ eligible'[n] = eligible[n]

LEMMA SameTerms ==
    ASSUME \A p \in Plans : plan'[p].terms = plan[p].terms, UNCHANGED eligible
    PROVE  Monotone
BY DEF Monotone, Approved

\* Evidence, once there, stays.
LEMMA EvidenceStays ==
    ASSUME Monotone, NEW p \in Plans, NEW seen, Evidence(seen, p)
    PROVE  Evidence(seen, p)'
BY DEF Monotone, Evidence

LEMMA CandidateStays ==
    ASSUME TypeOK, CandidateHolds, Monotone, UNCHANGED executor
    PROVE  CandidateHolds'
<1> SUFFICES ASSUME executor.plan # NoPlan
             PROVE  Evidence(executor.evidence, executor.plan)'
  BY DEF CandidateHolds
<1>1. executor.plan \in Plans
  BY DEF TypeOK, Candidate
<1>2. Evidence(executor.evidence, executor.plan)
  BY DEF CandidateHolds
<1> QED
  BY <1>1, <1>2 DEF Monotone, Evidence

LEMMA PositionsStay ==
    ASSUME PositionsHold, Monotone, UNCHANGED position
    PROVE  PositionsHold'
BY DEF PositionsHold, Monotone, Evidence

LEMMA DecidedStays ==
    ASSUME Decided, Monotone, UNCHANGED decision
    PROVE  Decided'
BY DEF Decided, Monotone

\* Only the plans, their theses and the sessions that write them change.
LEMMA EvidenceUntouched ==
    ASSUME PInv, Monotone, UNCHANGED <<decision, executor, position>>
    PROVE  EvidenceInv'
BY CandidateStays, PositionsStay, DecidedStays DEF PInv, EvidenceInv

-----------------------------------------------------------------------------
(* Steps that keep what sessions hold                                      *)

\* A plan nobody has saved is in no session's hands; of the others, one is
\* ended, or its thesis changes with the close of its position alone.
Moves(p) ==
    /\ position[p].status = "CLOSED" => position'[p].status = "CLOSED"
    /\ Known(p) =>
          /\ Known(p)'
          /\ \/ ended'[p] = OnceMore(ended[p])
             \/ /\ ended'[p] = ended[p] /\ plan'[p].result = plan[p].result
                /\ thesis'[p] = thesis[p] \/ position'[p].status = "CLOSED"

LEMMA ConsistentKept ==
    ASSUME TypeOK, NEW p \in Plans, Moves(p), NEW stored, NEW held, Consistent(p, stored, held)
    PROVE  Consistent(p, stored, held)'
<1>1. ended[p] \in 0 .. 3
  BY DEF TypeOK
<1>2. Known(p) /\ Known(p)'
  BY DEF Consistent, Moves
<1>3. CASE ended'[p] = OnceMore(ended[p])
  <2>1. ended'[p] # 0 /\ (ended'[p] = 1 => ended[p] = 0)
    BY <1>1, <1>3 DEF OnceMore
  <2> QED
    BY <1>2, <2>1 DEF Consistent
<1>4. CASE /\ ended'[p] = ended[p] /\ plan'[p].result = plan[p].result
           /\ thesis'[p] = thesis[p] \/ position'[p].status = "CLOSED"
  BY <1>2, <1>4 DEF Consistent, Moves
<1> QED
  BY <1>2, <1>3, <1>4 DEF Moves

LEMMA EndingKept ==
    ASSUME TypeOK, \A p \in Plans : Moves(p), NEW e, EndingHolds(e)
    PROVE  EndingHolds(e)'
BY ConsistentKept DEF EndingHolds

LEMMA ScanKept ==
    ASSUME PInv, \A p \in Plans : Moves(p), NEW s \in Scanners, scan'[s] = scan[s]
    PROVE  ScanStory(s)'
<1>1. TypeOK /\ ScanStory(s) /\ scan[s].weak \subseteq Plans /\ scan[s].found \in {NoPlan} \cup Plans
  BY DEF PInv, Stories, TypeOK, Scan
<1>2. /\ \A p \in scan'[s].weak : Known(p)'
      /\ scan'[s].found # NoPlan => Known(scan[s].found)'
  BY <1>1 DEF ScanStory, Moves, Known
<1>3. PICK e : e = scan[s].ending
  OBVIOUS
<1>4. e # NoEnding => EndingHolds(e) /\ EndingHolds(e)'
  BY <1>1, <1>3, EndingKept DEF ScanStory
<1>5. scan'[s].ending # NoEnding => EndingHolds(scan[s].ending)' /\ scan'[s].ending.held # "NONE"
  BY <1>1, <1>3, <1>4 DEF EndingHolds, Consistent, Known, ScanStory
<1> QED
  BY <1>2, <1>5 DEF ScanStory, Known, EndingHolds, Consistent

LEMMA MemoryKept ==
    ASSUME PInv, \A p \in Plans : Moves(p), UNCHANGED memory
    PROVE  MemoryStory'
<1>1. TypeOK /\ MemoryStory /\ memory.todo \subseteq Plans
  BY DEF PInv, Stories, TypeOK, Memory
<1>2. \A p \in memory'.todo : Known(p)'
  BY <1>1 DEF MemoryStory, Moves
<1>3. PICK e : e = memory.ending
  OBVIOUS
<1>4. e.plan # NoPlan => EndingHolds(e)'
  BY <1>1, <1>3, EndingKept DEF MemoryStory
<1> QED
  BY <1>1, <1>2, <1>3, <1>4 DEF MemoryStory, Known, EndingHolds, Consistent

\* No plan is opened again.
LEMMA CloseKept ==
    ASSUME PInv, \A p \in Plans : Moves(p), UNCHANGED closing,
           \A p \in Plans : position[p].status = "OPEN" => position'[p].status = "OPEN",
           \A p \in Plans : Known(p) /\ plan'[p].status = "OPEN" => plan[p].status = "OPEN"
    PROVE  CloseStory'
<1> DEFINE own == closing.plan
           held == closing.held
<1> SUFFICES ASSUME closing.pc # "idle"
             PROVE  CloseStory'
  BY DEF CloseStory
<1>1. /\ own \in Plans /\ closing.queued \subseteq Plans /\ TypeOK
      /\ CloseStory
  BY DEF PInv, Stories, TypeOK, Closing, CloseStory
<1>2. \A p \in Plans : Consistent(p, "NONE", held[p]) => Consistent(p, "NONE", held[p])'
  <2>1. SUFFICES ASSUME NEW p \in Plans, Consistent(p, "NONE", held[p])
                 PROVE  Consistent(p, "NONE", held[p])'
    OBVIOUS
  <2>2. PICK h : h = held[p]
    OBVIOUS
  <2>3. Consistent(p, "NONE", h)'
    BY <1>1, <2>1, <2>2, ConsistentKept
  <2> QED
    BY <2>2, <2>3 DEF Consistent, Known
<1>3. position'[own].status = "OPEN" /\ held[own] # "NONE" /\ Consistent(own, "NONE", held[own])'
  BY <1>1, <1>2 DEF CloseStory
<1>4. \A p \in closing.queued : Known(p)'
  BY <1>1 DEF CloseStory, Moves
<1>5. closing.pc # "own" /\ plan'[own].status = "OPEN" => own \in closing.queued
  BY <1>1 DEF CloseStory, Consistent
<1>6. closing.pc = "loaded" =>
         \A p \in closing.queued : held[p] # "NONE" /\ Consistent(p, "NONE", held[p])'
  BY <1>1, <1>2 DEF CloseStory
<1> QED
  BY <1>1, <1>3, <1>4, <1>5, <1>6 DEF CloseStory, Known, Consistent

\* A position has not been closed, nor one that was closed opened.
Standing ==
    \A p \in Plans :
        \/ position'[p].status = position[p].status
        \/ position[p].status = "NONE" /\ position'[p].status = "OPEN"

\* The plans are not written, and no position is closed.
LEMMA Quiet ==
    ASSUME PInv, UNCHANGED <<plan, thesis, ended>>, Standing
    PROVE  /\ Blank' /\ (\A p \in Plans : PlanStory(p)')
           /\ (\A p \in Plans : Moves(p))
           /\ (UNCHANGED memory => MemoryStory')
           /\ (UNCHANGED closing => CloseStory')
<1>1. \A p \in Plans : Moves(p)
  BY DEF Standing, Moves, Known
<1>2. \A p \in Plans : PlanStory(p)'
  BY DEF Standing, PInv, Stories, PlanStory
<1>3. Blank'
  BY DEF PInv, Blank
<1>4. UNCHANGED closing => CloseStory'
  <2>1. /\ \A p \in Plans : position[p].status = "OPEN" => position'[p].status = "OPEN"
        /\ \A p \in Plans : plan'[p].status = "OPEN" => plan[p].status = "OPEN"
    BY DEF Standing
  <2> QED
    BY <1>1, <2>1, CloseKept
<1> QED
  BY <1>1, <1>2, <1>3, <1>4, MemoryKept

\* A step of other sessions.
LEMMA QuietStories ==
    ASSUME PInv, UNCHANGED <<plan, thesis, ended, scan, memory, closing, position>>
    PROVE  Blank' /\ Stories'
<1>1. Standing
  BY DEF Standing
<1>2. /\ Blank' /\ \A p \in Plans : PlanStory(p)' /\ Moves(p)
      /\ MemoryStory' /\ CloseStory'
  BY <1>1, Quiet
<1>3. \A s \in Scanners : ScanStory(s)'
  BY <1>2, ScanKept
<1> QED
  BY <1>2, <1>3 DEF Stories

-----------------------------------------------------------------------------
(* Ends of plans: the load and the commit                                  *)

\* A row in hand, and its thesis, are as the plan is.
LEMMA RowHolds ==
    ASSUME PInv, NEW p \in Plans, Known(p), NEW reread \in BOOLEAN
    PROVE  Row(p, reread) \in Ending /\ Row(p, reread).plan = p
           /\ Row(p, reread).held = "NONE" /\ EndingHolds(Row(p, reread))
<1>1. plan[p].result \in Outcomes /\ ended[p] \in 0 .. 3 /\ PlanStory(p)
  BY DEF PInv, Stories, TypeOK, Plan
<1> DEFINE stored == IF reread THEN plan[p].result ELSE "NONE"
<1>2. Row(p, reread) = [plan |-> p, stored |-> stored, held |-> "NONE"]
  <2> HIDE DEF stored
  <2>1. Row(p, reread) = [NoEnding EXCEPT !.plan = p, !.stored = stored]
    BY DEF Row, stored
  <2> QED
    BY <2>1 DEF NoEnding
<1>3. Row(p, reread) \in Ending
  BY <1>1, <1>2 DEF Ending, Outcomes, States
<1>4. Consistent(p, stored, "NONE")
  BY <1>1 DEF Consistent, PlanStory
<1> QED
  BY <1>2, <1>3, <1>4 DEF EndingHolds

LEMMA LoadedHolds ==
    ASSUME PInv, NEW e \in Ending, EndingHolds(e)
    PROVE  Loaded(e) \in Ending /\ Loaded(e).plan = e.plan
           /\ Loaded(e).held # "NONE" /\ EndingHolds(Loaded(e))
<1>1. /\ e.plan \in Plans /\ thesis[e.plan] \in States /\ ended[e.plan] \in 0 .. 3
      /\ PlanStory(e.plan) /\ plan[e.plan].status \in {"NONE", "OPEN", "CLOSED"}
  BY DEF PInv, Stories, TypeOK, EndingHolds, Plan
<1>2. Loaded(e) = [plan |-> e.plan, stored |-> e.stored, held |-> thesis[e.plan]]
  BY DEF Loaded, Ending
<1>3. Loaded(e) \in Ending
  BY <1>1, <1>2 DEF Ending
<1>4. thesis[e.plan] # "NONE" /\ Consistent(e.plan, e.stored, thesis[e.plan])
  BY <1>1 DEF EndingHolds, Consistent, Known, PlanStory
<1> QED
  BY <1>1, <1>2, <1>3, <1>4 DEF EndingHolds

\* Whatever the session loaded, of a plan ended for the first or the second
\* time the commit leaves its own result in the row and what follows from it
\* in the thesis.
LEMMA CommitEffect ==
    ASSUME PInv, NEW e, EndingHolds(e), e.held # "NONE",
           NEW result \in {"INVALIDATED"} \cup Results, Commit(e, result),
           UNCHANGED <<eligible, position>>
    PROVE  /\ plan' \in [Plans -> Plan] /\ thesis' \in [Plans -> States]
           /\ ended' \in [Plans -> 0 .. 3]
           /\ Monotone /\ Blank'
           /\ \A p \in Plans : PlanStory(p)'
           /\ \A p \in Plans : Moves(p)
           /\ \A p \in Plans : plan'[p].status = "OPEN" => plan[p].status = "OPEN"
<1> DEFINE p == e.plan
<1>1. p \in Plans /\ Consistent(p, e.stored, e.held) /\ PlanStory(p) /\ ended[p] \in 0 .. 3
  BY DEF EndingHolds, PInv, Stories, TypeOK
<1>2. plan \in [Plans -> Plan] /\ thesis \in [Plans -> States] /\ ended \in [Plans -> 0 .. 3]
  BY DEF PInv, TypeOK
<1>3. result # "NONE" /\ result \in Outcomes
      /\ Lifecycle(result) \in {"COMPLETED", "INVALIDATED"}
  BY DEF Lifecycle, Outcomes, Results
<1>4. \A q \in Plans :
         /\ plan'[q].terms = plan[q].terms /\ plan'[q].snapshot = plan[q].snapshot
         /\ plan'[q].status = IF q = p THEN "CLOSED" ELSE plan[q].status
         /\ plan'[q].result = IF q = p THEN Written(plan[q].result, e.stored, result)
                              ELSE plan[q].result
         /\ thesis'[q] = IF q = p THEN Written(thesis[q], e.held, Lifecycle(result))
                         ELSE thesis[q]
         /\ ended'[q] = IF q = p THEN OnceMore(ended[q]) ELSE ended[q]
  BY <1>1, <1>2 DEF Commit, Plan
<1>5. plan' \in [Plans -> Plan]
  <2>1. Written(plan[p].result, e.stored, result) \in Outcomes
    BY <1>1, <1>2, <1>3 DEF Written, Plan
  <2> HIDE DEF p
  <2>2. [plan[p] EXCEPT !.status = "CLOSED",
           !.result = Written(plan[p].result, e.stored, result)] \in Plan
    BY <1>1, <1>2, <2>1 DEF Plan
  <2>3. plan' = [plan EXCEPT ![p] = [plan[p] EXCEPT !.status = "CLOSED",
                                       !.result = Written(plan[p].result, e.stored, result)]]
    BY <1>2 DEF Commit, p
  <2> QED
    BY <1>2, <2>2, <2>3
<1>6. thesis' \in [Plans -> States]
  <2>1. Written(thesis[p], e.held, Lifecycle(result)) \in States
    BY <1>1, <1>2, <1>3 DEF Written, States
  <2> QED
    BY <1>2, <2>1 DEF Commit
<1>7. ended' \in [Plans -> 0 .. 3]
  <2>1. OnceMore(ended[p]) \in 0 .. 3
    BY <1>1 DEF OnceMore
  <2> QED
    BY <1>2, <2>1 DEF Commit
<1>8. Monotone
  BY <1>4, SameTerms
<1>9. Blank'
  BY <1>4 DEF PInv, Blank
<1>10. PlanStory(p)'
  <2>1. /\ plan'[p].status = "CLOSED" /\ ended'[p] # 0
        /\ ended'[p] =< 2 => ended[p] \in {0, 1}
    BY <1>1, <1>4 DEF OnceMore
  <2>2. thesis'[p] \in {"COMPLETED", "INVALIDATED"}
    <3>1. CASE e.held = Lifecycle(result)
      BY <1>1, <1>2, <1>3, <1>4, <3>1 DEF Consistent, Known, PlanStory, States, Written, Plan
    <3>2. CASE e.held # Lifecycle(result)
      BY <1>1, <1>3, <1>4, <3>2 DEF Written
    <3> QED
      BY <3>1, <3>2
  <2>3. ended[p] \in {0, 1} => plan'[p].result = result
    BY <1>1, <1>3, <1>4 DEF Consistent, Written
  <2>4. ended[p] \in {0, 1} /\ position[p].status # "CLOSED" => thesis'[p] = Lifecycle(result)
    BY <1>1, <1>3, <1>4 DEF Consistent, Written
  <2> QED
    BY <1>1, <2>1, <2>2, <2>3, <2>4 DEF PlanStory
<1>11. \A q \in Plans : PlanStory(q)'
  <2>1. SUFFICES ASSUME NEW q \in Plans, q # p PROVE PlanStory(q)'
    BY <1>10
  <2> QED
    BY <2>1, <1>4 DEF PInv, Stories, PlanStory
<1>12. \A q \in Plans : Moves(q)
  BY <1>4 DEF Moves, Known
<1>13. \A q \in Plans : plan'[q].status = "OPEN" => plan[q].status = "OPEN"
  BY <1>4
<1> QED
  BY <1>5, <1>6, <1>7, <1>8, <1>9, <1>11, <1>12, <1>13

-----------------------------------------------------------------------------
(* Scans                                                                   *)

LEMMA ScanFields ==
    ASSUME PInv, NEW s \in Scanners
    PROVE  /\ scan[s] \in Scan /\ ScanStory(s)
           /\ scan[s].found \in {NoPlan} \cup Plans /\ scan[s].weak \subseteq Plans
           /\ scan[s].offer \in Terms \cup {NoTerms} /\ scan[s].snapshot \in 0 .. MaxScans
           /\ scan[s].fresh \in BOOLEAN /\ scan[s].ending \in Ending
BY DEF PInv, Stories, TypeOK, Scan

\* One session moves on, to what it may hold.
LEMMA OneScan ==
    ASSUME PInv, \A p \in Plans : Moves(p), NEW s \in Scanners, NEW new \in Scan,
           scan' = [scan EXCEPT ![s] = new],
           \A p \in new.weak : Known(p)', new.found # NoPlan => Known(new.found)',
           new.ending # NoEnding => EndingHolds(new.ending)' /\ new.ending.held # "NONE"
    PROVE  scan' \in [Scanners -> Scan] /\ \A t \in Scanners : ScanStory(t)'
<1>1. scan' \in [Scanners -> Scan] /\ scan'[s] = new
      /\ \A t \in Scanners : t # s => scan'[t] = scan[t]
  BY DEF PInv, TypeOK
<1>2. ScanStory(s)'
  BY <1>1 DEF ScanStory, Known, EndingHolds, Consistent
<1>3. \A t \in Scanners : t # s => ScanStory(t)'
  BY <1>1, ScanKept
<1> QED
  BY <1>1, <1>2, <1>3

\* A session that ends, or that begins with nothing in hand.
LEMMA IdleStory ==
    ASSUME PInv, \A p \in Plans : Moves(p), NEW s \in Scanners,
           scan' = [scan EXCEPT ![s] = IdleScan]
    PROVE  scan' \in [Scanners -> Scan] /\ \A t \in Scanners : ScanStory(t)'
<1>1. IdleScan \in Scan /\ IdleScan.weak = {} /\ IdleScan.found = NoPlan
      /\ IdleScan.ending = NoEnding
  BY EmptyRecordsTyped DEF IdleScan
<1> QED
  BY <1>1, OneScan

\* The steps of a scan that write no plan.
LEMMA QuietScan ==
    ASSUME PInv, UNCHANGED <<plan, thesis, ended>>, UNCHANGED OtherThanScan,
           Monotone, eligible' \in Seq(BOOLEAN), Len(eligible') =< MaxScans,
           scan' \in [Scanners -> Scan], \A t \in Scanners : ScanStory(t)'
    PROVE  PInv'
<1>1. UNCHANGED <<decision, risk, memory, executor, closing, position, failures>>
  BY DEF OtherThanScan
<1>2. Standing
  BY <1>1 DEF Standing
<1>3. TypeOK'
  BY <1>1 DEF PInv, TypeOK
<1>4. EvidenceInv'
  BY <1>1, EvidenceUntouched
<1>5. Blank' /\ (\A p \in Plans : PlanStory(p)') /\ MemoryStory' /\ CloseStory'
  BY <1>1, <1>2, Quiet
<1> QED
  BY <1>3, <1>4, <1>5 DEF PInv, Stories

\* The same, and no strategy is evaluated.
LEMMA QuietScanHand ==
    ASSUME PInv, UNCHANGED <<plan, thesis, ended, eligible>>, UNCHANGED OtherThanScan,
           NEW s \in Scanners, NEW new \in Scan, scan' = [scan EXCEPT ![s] = new],
           \A p \in new.weak : Known(p), new.found # NoPlan => new.found \in Plans /\ Known(new.found),
           new.ending # NoEnding => EndingHolds(new.ending) /\ new.ending.held # "NONE"
    PROVE  PInv'
<1>1. Standing
  BY DEF Standing, OtherThanScan
<1>2. \A p \in Plans : Moves(p)
  BY <1>1, Quiet
<1>3. TypeOK
  BY DEF PInv
<1>4. new.ending # NoEnding => EndingHolds(new.ending)'
  BY <1>2, <1>3, EndingKept
<1>5. (\A p \in new.weak : Known(p)') /\ (new.found # NoPlan => Known(new.found)')
  BY DEF Known
<1>6. scan' \in [Scanners -> Scan] /\ \A t \in Scanners : ScanStory(t)'
  BY <1>2, <1>4, <1>5, OneScan
<1>7. Monotone /\ eligible' \in Seq(BOOLEAN) /\ Len(eligible') =< MaxScans
  BY SameTerms DEF PInv, TypeOK
<1> QED
  BY <1>6, <1>7, QuietScan

LEMMA ListWeakPInv ==
    ASSUME PInv, NEW s \in Scanners, ListWeak(s)
    PROVE  PInv'
<1>1. PICK new : new = [IdleScan EXCEPT !.pc = "weak", !.weak = WeakPlans]
  OBVIOUS
<1>2. WeakPlans \subseteq Plans /\ \A p \in WeakPlans : Known(p)
  BY DEF WeakPlans, OpenPlans, Known
<1>3. new \in Scan /\ new.weak = WeakPlans /\ new.found = NoPlan /\ new.ending = NoEnding
  BY <1>1, <1>2, EmptyRecordsTyped DEF IdleScan, Scan
<1>4. scan' = [scan EXCEPT ![s] = new]
  BY <1>1 DEF ListWeak
<1> QED
  BY <1>2, <1>3, <1>4, QuietScanHand DEF ListWeak

LEMMA InvalidateWeakPInv ==
    ASSUME PInv, NEW s \in Scanners, InvalidateWeak(s)
    PROVE  PInv'
<1>1. PICK p \in scan[s].weak :
         scan' = [scan EXCEPT ![s].weak = @ \ {p}, ![s].ending = Loaded(Row(p, scan[s].fresh))]
  BY DEF InvalidateWeak
<1>2. p \in Plans /\ Known(p)
  BY <1>1, ScanFields DEF ScanStory
<1>3. PICK e : e = Row(p, scan[s].fresh)
  OBVIOUS
<1>4. e \in Ending /\ EndingHolds(e)
  BY <1>2, <1>3, RowHolds, ScanFields
<1>5. PICK l : l = Loaded(e)
  OBVIOUS
<1>6. l \in Ending /\ EndingHolds(l) /\ l.held # "NONE"
  BY <1>4, <1>5, LoadedHolds
<1>7. PICK new : new = [scan[s] EXCEPT !.weak = @ \ {p}, !.ending = l]
  OBVIOUS
<1>8. /\ new \in Scan /\ new.weak \subseteq scan[s].weak
      /\ new.found = scan[s].found /\ new.ending = l
  BY <1>6, <1>7, ScanFields DEF Scan
<1>9. scan' = [scan EXCEPT ![s] = new]
  BY <1>1, <1>3, <1>5, <1>7
<1>10. /\ \A q \in new.weak : Known(q)
       /\ new.found # NoPlan => new.found \in Plans /\ Known(new.found)
  BY <1>8, ScanFields DEF ScanStory
<1>11. UNCHANGED <<plan, thesis, ended, eligible>> /\ UNCHANGED OtherThanScan
  BY DEF InvalidateWeak
<1> QED
  BY <1>6, <1>8, <1>9, <1>10, <1>11, QuietScanHand

LEMMA EvaluatePInv ==
    ASSUME PInv, NEW s \in Scanners, Evaluate(s)
    PROVE  PInv'
<1>1. PICK offer \in Terms \cup {NoTerms}, verdict \in BOOLEAN :
         /\ eligible' = Append(eligible, verdict)
         /\ scan' = [scan EXCEPT ![s] = [IdleScan EXCEPT !.pc = "found", !.offer = offer,
                        !.snapshot = Len(eligible) + 1, !.found = Newest]]
  BY DEF Evaluate
<1>2. eligible \in Seq(BOOLEAN) /\ Len(eligible) < MaxScans
  BY DEF Evaluate, PInv, TypeOK
<1>3. UNCHANGED <<plan, thesis, ended>> /\ UNCHANGED OtherThanScan
  BY DEF Evaluate
<1>4. Newest \in {NoPlan} \cup Plans /\ (Newest # NoPlan => Known(Newest))
  BY NewestIsOpen DEF OpenPlans, Known
<1>5. /\ eligible' \in Seq(BOOLEAN) /\ Len(eligible') = Len(eligible) + 1
      /\ \A n \in DOMAIN eligible : n \in DOMAIN eligible' /\ eligible'[n] = eligible[n]
  BY <1>1, <1>2
<1>6. Len(eligible') =< MaxScans
  BY <1>2, <1>5, PlanAssumption
<1>7. Monotone
  BY <1>3, <1>5 DEF Monotone, Approved
<1>8. PICK new : new = [IdleScan EXCEPT !.pc = "found", !.offer = offer,
                          !.snapshot = Len(eligible) + 1, !.found = Newest]
  OBVIOUS
<1>9. new \in Scan /\ new.weak = {} /\ new.found = Newest /\ new.ending = NoEnding
  <2>1. Len(eligible) + 1 \in 0 .. MaxScans
    BY <1>2, PlanAssumption
  <2> QED
    BY <2>1, <1>4, <1>8, EmptyRecordsTyped DEF IdleScan, Scan
<1>10. \A p \in Plans : Moves(p)
  <2>1. Standing
    BY <1>3 DEF Standing, OtherThanScan
  <2> QED
    BY <1>3, <2>1, Quiet
<1>11. new.found # NoPlan => Known(new.found)'
  BY <1>3, <1>4, <1>9 DEF Known
<1>12. scan' \in [Scanners -> Scan] /\ \A t \in Scanners : ScanStory(t)'
  BY <1>1, <1>8, <1>9, <1>10, <1>11, OneScan
<1> QED
  BY <1>3, <1>5, <1>6, <1>7, <1>12, QuietScan

LEMMA NothingToDoPInv ==
    ASSUME PInv, NEW s \in Scanners, NothingToDo(s)
    PROVE  PInv'
<1>1. IdleScan \in Scan /\ IdleScan.weak = {} /\ IdleScan.found = NoPlan
      /\ IdleScan.ending = NoEnding
  BY EmptyRecordsTyped DEF IdleScan
<1>2. scan' = [scan EXCEPT ![s] = IdleScan] /\ UNCHANGED OtherThanScan
      /\ UNCHANGED <<plan, thesis, ended, eligible>>
  BY DEF NothingToDo, Settle
<1> QED
  BY <1>1, <1>2, QuietScanHand

LEMMA ScanFailsPInv ==
    ASSUME PInv, NEW s \in Scanners, ScanFails(s)
    PROVE  PInv'
<1>1. scan' = [scan EXCEPT ![s] = IdleScan] /\ failures' \in 0 .. MaxFailures
  BY PlanAssumption DEF ScanFails, Settle, PInv, TypeOK
<1>2. UNCHANGED <<plan, thesis, ended, eligible, decision, risk, memory, executor, closing,
                  position>>
  BY DEF ScanFails
<1>3. Standing
  BY <1>2 DEF Standing
<1>4. Blank' /\ (\A p \in Plans : PlanStory(p)') /\ (\A p \in Plans : Moves(p))
      /\ MemoryStory' /\ CloseStory'
  BY <1>2, <1>3, Quiet
<1>5. scan' \in [Scanners -> Scan] /\ \A t \in Scanners : ScanStory(t)'
  BY <1>1, <1>4, IdleStory
<1>6. TypeOK'
  BY <1>1, <1>2, <1>5 DEF PInv, TypeOK
<1>7. EvidenceInv'
  BY <1>2, SameTerms, EvidenceUntouched
<1> QED
  BY <1>4, <1>5, <1>6, <1>7 DEF PInv, Stories

LEMMA EndFoundPInv ==
    ASSUME PInv, NEW s \in Scanners, EndFound(s)
    PROVE  PInv'
<1> DEFINE p == scan[s].found
<1>1. p \in Plans /\ Known(p)
  BY ScanFields DEF EndFound, ScanStory
<1>2. PICK e : e = Row(p, FALSE)
  OBVIOUS
<1>3. e \in Ending /\ EndingHolds(e)
  BY <1>1, <1>2, RowHolds
<1>4. PICK l : l = Loaded(e)
  OBVIOUS
<1>5. l \in Ending /\ EndingHolds(l) /\ l.held # "NONE"
  BY <1>3, <1>4, LoadedHolds
<1>6. PICK new : new = [scan[s] EXCEPT !.ending = l]
  OBVIOUS
<1>7. new \in Scan /\ new.weak = scan[s].weak /\ new.found = p /\ new.ending = l
  BY <1>5, <1>6, ScanFields DEF Scan
<1>8. scan' = [scan EXCEPT ![s] = new]
  BY <1>2, <1>4, <1>6 DEF EndFound
<1>9. \A q \in new.weak : Known(q)
  BY <1>7, ScanFields DEF ScanStory
<1>10. UNCHANGED <<plan, thesis, ended, eligible>> /\ UNCHANGED OtherThanScan
  BY DEF EndFound
<1> QED
  BY <1>1, <1>5, <1>7, <1>8, <1>9, <1>10, QuietScanHand

LEMMA CommitEndPInv ==
    ASSUME PInv, NEW s \in Scanners, CommitEnd(s)
    PROVE  PInv'
<1>1. PICK e : e = scan[s].ending
  OBVIOUS
<1>2. EndingHolds(e) /\ e.held # "NONE" /\ Commit(e, "INVALIDATED")
  BY <1>1, ScanFields DEF CommitEnd, ScanStory
<1>3. UNCHANGED <<eligible, decision, risk, memory, executor, closing, position, failures>>
  BY DEF CommitEnd, OtherThanScan
<1>4. /\ plan' \in [Plans -> Plan] /\ thesis' \in [Plans -> States]
      /\ ended' \in [Plans -> 0 .. 3]
      /\ Monotone /\ Blank'
      /\ \A p \in Plans : PlanStory(p)'
      /\ \A p \in Plans : Moves(p)
      /\ \A p \in Plans : plan'[p].status = "OPEN" => plan[p].status = "OPEN"
  BY <1>2, <1>3, CommitEffect
<1>5. PICK new : new = IF scan[s].offer # NoTerms
                       THEN [scan[s] EXCEPT !.ending = NoEnding, !.pc = "replaced"]
                       ELSE IF scan[s].weak # {}
                       THEN [scan[s] EXCEPT !.ending = NoEnding, !.fresh = TRUE]
                       ELSE IdleScan
  OBVIOUS
<1>6. /\ new \in Scan /\ new.ending = NoEnding
      /\ new.weak \subseteq scan[s].weak /\ new.found \in {NoPlan, scan[s].found}
  BY <1>5, ScanFields, EmptyRecordsTyped DEF Scan, IdleScan
<1>7. scan' = [scan EXCEPT ![s] = new]
  BY <1>5 DEF CommitEnd
<1>8. (\A p \in new.weak : Known(p)') /\ (new.found # NoPlan => Known(new.found)')
  <2>1. /\ \A p \in scan[s].weak : p \in Plans /\ Known(p)
        /\ scan[s].found # NoPlan => scan[s].found \in Plans /\ Known(scan[s].found)
    BY ScanFields DEF ScanStory
  <2>2. \A p \in Plans : Known(p) => Known(p)'
    BY <1>4 DEF Moves
  <2> QED
    BY <2>1, <2>2, <1>6 DEF Known
<1>9. scan' \in [Scanners -> Scan] /\ \A t \in Scanners : ScanStory(t)'
  BY <1>4, <1>6, <1>7, <1>8, OneScan
<1>10. TypeOK'
  BY <1>3, <1>4, <1>9 DEF PInv, TypeOK
<1>11. EvidenceInv'
  BY <1>3, <1>4, EvidenceUntouched
<1>12. MemoryStory'
  BY <1>3, <1>4, MemoryKept
<1>13. CloseStory'
  BY <1>3, <1>4, CloseKept
<1> QED
  BY <1>4, <1>9, <1>10, <1>11, <1>12, <1>13 DEF PInv, Stories

LEMMA RefreshLineagePInv ==
    ASSUME PInv, NEW s \in Scanners, RefreshLineage(s)
    PROVE  PInv'
<1>1. scan[s].found \in Plans /\ scan[s].snapshot \in 0 .. MaxScans
  BY ScanFields DEF RefreshLineage
<1>2. UNCHANGED <<thesis, ended, eligible, decision, risk, memory, executor, closing, position,
                  failures>>
  BY DEF RefreshLineage, OtherThanScan
<1>3. plan \in [Plans -> Plan] /\ plan' = [plan EXCEPT ![scan[s].found].snapshot = scan[s].snapshot]
  BY DEF RefreshLineage, PInv, TypeOK
<1>4. /\ plan' \in [Plans -> Plan]
      /\ \A q \in Plans : /\ plan'[q].terms = plan[q].terms /\ plan'[q].status = plan[q].status
                          /\ plan'[q].result = plan[q].result
  BY <1>1, <1>3 DEF Plan
<1>5. \A q \in Plans : Moves(q)
  BY <1>2, <1>4 DEF Moves, Known
<1>6. scan' \in [Scanners -> Scan] /\ \A t \in Scanners : ScanStory(t)'
  BY <1>5, IdleStory DEF RefreshLineage, Settle
<1>7. TypeOK'
  BY <1>2, <1>4, <1>6 DEF PInv, TypeOK
<1>8. EvidenceInv'
  BY <1>2, <1>4, SameTerms, EvidenceUntouched
<1>9. Blank'
  BY <1>4 DEF PInv, Blank
<1>10. \A q \in Plans : PlanStory(q)'
  BY <1>2, <1>4 DEF PInv, Stories, PlanStory
<1>11. MemoryStory' /\ CloseStory'
  BY <1>2, <1>4, <1>5, MemoryKept, CloseKept
<1> QED
  BY <1>6, <1>7, <1>8, <1>9, <1>10, <1>11 DEF PInv, Stories

LEMMA SavePInv ==
    ASSUME PInv, NEW s \in Scanners, Save(s)
    PROVE  PInv'
<1>1. PICK p \in Plans : /\ plan[p].status = "NONE"
                         /\ plan' = [plan EXCEPT ![p] = Saved(s)]
                         /\ thesis' = [thesis EXCEPT ![p] = "ACTIVE"]
  BY DEF Save
<1>2. UNCHANGED <<ended, eligible, decision, risk, memory, executor, closing, position, failures>>
  BY DEF Save, OtherThanScan
<1>3. Saved(s) \in Plan /\ Saved(s).status = "OPEN" /\ Saved(s).result = "NONE"
  BY ScanFields DEF Saved, Plan, Outcomes
<1>4. plan \in [Plans -> Plan] /\ thesis \in [Plans -> States]
  BY DEF PInv, TypeOK
<1>5. plan' \in [Plans -> Plan] /\ thesis' \in [Plans -> States]
  BY <1>1, <1>3, <1>4 DEF States
<1>6. \A q \in Plans : /\ plan'[q] = IF q = p THEN Saved(s) ELSE plan[q]
                       /\ thesis'[q] = IF q = p THEN "ACTIVE" ELSE thesis[q]
  BY <1>1, <1>4
<1>7. ~Approved(p) /\ PlanStory(p)
  BY <1>1, PlanAssumption DEF PInv, Blank, Approved, Stories
<1>8. \A q \in Plans : Moves(q)
  <2>1. SUFFICES ASSUME NEW q \in Plans PROVE Moves(q)
    OBVIOUS
  <2>2. CASE q = p
    BY <2>2, <1>1, <1>2 DEF Moves, Known
  <2>3. CASE q # p
    BY <2>3, <1>2, <1>6 DEF Moves, Known
  <2> QED
    BY <2>2, <2>3
<1>9. scan' \in [Scanners -> Scan] /\ \A t \in Scanners : ScanStory(t)'
  BY <1>8, IdleStory DEF Save, Settle
<1>10. TypeOK'
  BY <1>2, <1>5, <1>9 DEF PInv, TypeOK
<1>11. Monotone
  BY <1>2, <1>6, <1>7 DEF Monotone, Approved
<1>12. EvidenceInv'
  BY <1>2, <1>11, EvidenceUntouched
<1>13. Blank'
  BY <1>3, <1>6 DEF PInv, Blank
<1>14. \A q \in Plans : PlanStory(q)'
  <2>1. SUFFICES ASSUME NEW q \in Plans PROVE PlanStory(q)'
    OBVIOUS
  <2>2. CASE q = p
    BY <2>2, <1>1, <1>2, <1>3, <1>6, <1>7 DEF PlanStory
  <2>3. CASE q # p
    BY <2>3, <1>2, <1>6 DEF PInv, Stories, PlanStory
  <2> QED
    BY <2>2, <2>3
<1>15. MemoryStory'
  BY <1>2, <1>8, MemoryKept
<1>16. CloseStory'
  <2>1. \A q \in Plans : Known(q) /\ plan'[q].status = "OPEN" => plan[q].status = "OPEN"
    BY <1>1, <1>6 DEF Known
  <2>2. \A q \in Plans : position[q].status = "OPEN" => position'[q].status = "OPEN"
    BY <1>2
  <2> QED
    BY <1>2, <1>8, <2>1, <2>2, CloseKept
<1> QED
  BY <1>9, <1>10, <1>12, <1>13, <1>14, <1>15, <1>16 DEF PInv, Stories

LEMMA ScanPInv ==
    ASSUME PInv, NEW s \in Scanners, ScanStep(s) \/ ScanFails(s)
    PROVE  PInv'
BY ListWeakPInv, InvalidateWeakPInv, EvaluatePInv, NothingToDoPInv, EndFoundPInv,
   CommitEndPInv, RefreshLineagePInv, SavePInv, ScanFailsPInv DEF ScanStep

-----------------------------------------------------------------------------
(* Risk runs                                                               *)

\* Sessions of risk runs and the decisions change, and nothing else.
LEMMA RiskKeeps ==
    ASSUME PInv, UNCHANGED OtherThanRisk,
           decision' \in [Plans -> Decision], risk' \in [RiskRuns -> RiskRun],
           failures' \in 0 .. MaxFailures, Decided'
    PROVE  PInv'
<1>1. UNCHANGED <<plan, thesis, ended, eligible, scan, memory, executor, closing, position>>
  BY DEF OtherThanRisk
<1>2. TypeOK'
  BY <1>1 DEF PInv, TypeOK
<1>3. EvidenceInv'
  BY <1>1, SameTerms, CandidateStays, PositionsStay DEF PInv, EvidenceInv
<1>4. Blank' /\ Stories'
  BY <1>1, QuietStories
<1> QED
  BY <1>2, <1>3, <1>4 DEF PInv

LEMMA RiskFields ==
    ASSUME PInv, NEW r \in RiskRuns
    PROVE  /\ risk[r] \in RiskRun
           /\ risk[r].todo \subseteq Plans /\ risk[r].fresh \in BOOLEAN
           /\ risk[r].seen \in [Plans -> 0 .. MaxScans]
           /\ risk[r].latest \in [Plans -> Decision]
BY DEF PInv, TypeOK, RiskRun

LEMMA DoneTyped ==
    ASSUME PInv, NEW r \in RiskRuns, NEW p \in Plans, NEW expires \in BOOLEAN,
           DoneWith(r, p, expires)
    PROVE  risk' \in [RiskRuns -> RiskRun]
<1>1. [risk[r] EXCEPT !.todo = @ \ {p}, !.fresh = @ \/ expires] \in RiskRun
  <2>1. risk[r].todo \ {p} \subseteq Plans
    BY RiskFields
  <2>2. (risk[r].fresh \/ expires) \in BOOLEAN
    OBVIOUS
  <2> QED
    BY <2>1, <2>2, RiskFields DEF RiskRun
<1>2. Rest(r, p, expires) \in RiskRun
  BY <1>1, EmptyRecordsTyped DEF Rest
<1>3. risk' = [risk EXCEPT ![r] = Rest(r, p, expires)]
  BY DEF DoneWith
<1> QED
  BY <1>2, <1>3 DEF PInv, TypeOK

LEMMA StartRiskPInv ==
    ASSUME PInv, NEW r \in RiskRuns, StartRisk(r)
    PROVE  PInv'
<1> DEFINE rows == [p \in Plans |-> IF p \in OpenPlans THEN plan[p].snapshot ELSE 0]
           known == [p \in Plans |-> IF p \in OpenPlans THEN decision[p] ELSE NoDecision]
<1>1. rows \in [Plans -> 0 .. MaxScans]
  <2>1. \A p \in Plans : plan[p].snapshot \in 0 .. MaxScans /\ 0 \in 0 .. MaxScans
    BY PlanAssumption DEF PInv, TypeOK, Plan
  <2> QED
    BY <2>1
<1>2. known \in [Plans -> Decision]
  BY EmptyRecordsTyped DEF PInv, TypeOK
<1>3. [todo |-> OpenPlans, fresh |-> FALSE, seen |-> rows, latest |-> known] \in RiskRun
  <2>1. OpenPlans \subseteq Plans
    BY DEF OpenPlans
  <2> HIDE DEF rows, known
  <2> QED
    BY <1>1, <1>2, <2>1 DEF RiskRun
<1>4. risk' \in [RiskRuns -> RiskRun]
  BY <1>3 DEF StartRisk, PInv, TypeOK
<1>5. UNCHANGED <<decision, failures>> /\ UNCHANGED OtherThanRisk
  BY DEF StartRisk
<1>6. Decided'
  BY <1>5 DEF PInv, EvidenceInv, Decided, OtherThanRisk, Approved
<1> QED
  BY <1>4, <1>5, <1>6, RiskKeeps DEF PInv, TypeOK

LEMMA ReusePInv ==
    ASSUME PInv, NEW r \in RiskRuns, NEW p \in Plans, Reuse(r, p)
    PROVE  PInv'
<1>1. risk' \in [RiskRuns -> RiskRun]
  BY DoneTyped DEF Reuse
<1>2. UNCHANGED <<decision, failures>> /\ UNCHANGED OtherThanRisk
  BY DEF Reuse
<1>3. Decided'
  BY <1>2 DEF PInv, EvidenceInv, Decided, OtherThanRisk, Approved
<1> QED
  BY <1>1, <1>2, <1>3, RiskKeeps DEF PInv, TypeOK

LEMMA DecidePInv ==
    ASSUME PInv, NEW r \in RiskRuns, NEW p \in Plans, Decide(r, p)
    PROVE  PInv'
<1> DEFINE new == [kind |-> Verdict(p), snapshot |-> Lineage(r, p), age |-> 0]
<1>1. risk' \in [RiskRuns -> RiskRun]
  BY DoneTyped DEF Decide
<1>2. UNCHANGED failures /\ UNCHANGED OtherThanRisk /\ decision' = [decision EXCEPT ![p] = new]
  BY DEF Decide
<1>3. Lineage(r, p) \in 0 .. MaxScans
  BY RiskFields DEF Lineage, PInv, TypeOK, Plan
<1>4. Verdict(p) \in {"APPROVE", "REJECT"} /\ (Verdict(p) = "APPROVE" => Approved(p))
  BY DEF Verdict, Approved
<1>5. new \in Decision
  BY <1>3, <1>4, PlanAssumption DEF Decision, Ages
<1>6. decision' \in [Plans -> Decision]
  BY <1>2, <1>5 DEF PInv, TypeOK
<1>7. Decided'
  <2>1. \A q \in Plans : Approved(q)' <=> Approved(q)
    BY <1>2 DEF OtherThanRisk, Approved
  <2>2. \A q \in Plans : decision'[q].kind = IF q = p THEN Verdict(p) ELSE decision[q].kind
    BY <1>2 DEF PInv, TypeOK
  <2> QED
    BY <2>1, <2>2, <1>4 DEF PInv, EvidenceInv, Decided
<1> QED
  BY <1>1, <1>2, <1>6, <1>7, RiskKeeps DEF PInv, TypeOK

LEMMA DecisionFailsPInv ==
    ASSUME PInv, NEW r \in RiskRuns, NEW p \in Plans, DecisionFails(r, p)
    PROVE  PInv'
<1>1. risk' \in [RiskRuns -> RiskRun]
  BY DoneTyped DEF DecisionFails
<1>2. failures' \in 0 .. MaxFailures
  BY PlanAssumption DEF DecisionFails, PInv, TypeOK
<1>3. UNCHANGED decision /\ UNCHANGED OtherThanRisk
  BY DEF DecisionFails
<1>4. Decided'
  BY <1>3 DEF PInv, EvidenceInv, Decided, OtherThanRisk, Approved
<1> QED
  BY <1>1, <1>2, <1>3, <1>4, RiskKeeps DEF PInv, TypeOK

-----------------------------------------------------------------------------
(* The memory job                                                          *)

LEMMA MemoryFields ==
    ASSUME PInv
    PROVE  /\ memory \in Memory /\ MemoryStory
           /\ memory.todo \subseteq Plans /\ memory.fresh \in BOOLEAN /\ memory.ending \in Ending
BY DEF PInv, Stories, TypeOK, Memory

\* The steps of the job that write no plan.
LEMMA QuietMemory ==
    ASSUME PInv, UNCHANGED <<plan, thesis, ended>>, UNCHANGED OtherThanMemory,
           NEW new \in Memory, memory' = new,
           \A p \in new.todo : Known(p),
           new.ending.plan # NoPlan => EndingHolds(new.ending),
           new.ending.plan = NoPlan => new.ending.held = "NONE"
    PROVE  PInv'
<1>1. UNCHANGED <<decision, eligible, scan, risk, executor, closing, position, failures>>
  BY DEF OtherThanMemory
<1>2. Standing
  BY <1>1 DEF Standing
<1>3. Blank' /\ (\A p \in Plans : PlanStory(p)') /\ (\A p \in Plans : Moves(p)) /\ CloseStory'
  BY <1>1, <1>2, Quiet
<1>4. \A s \in Scanners : ScanStory(s)'
  BY <1>1, <1>3, ScanKept
<1>5. PICK e : e = new.ending
  OBVIOUS
<1>6. e.plan # NoPlan => EndingHolds(e)'
  BY <1>3, <1>5, EndingKept DEF PInv
<1>7. MemoryStory'
  BY <1>5, <1>6 DEF MemoryStory, Known, EndingHolds, Consistent
<1>8. TypeOK'
  BY <1>1 DEF PInv, TypeOK
<1>9. EvidenceInv'
  BY <1>1, SameTerms, EvidenceUntouched
<1> QED
  BY <1>3, <1>4, <1>7, <1>8, <1>9 DEF PInv, Stories

LEMMA ListOpenPInv ==
    ASSUME PInv, ListOpen
    PROVE  PInv'
<1>1. OpenPlans \subseteq Plans /\ \A q \in OpenPlans : Known(q)
  BY DEF OpenPlans, Known
<1>2. PICK new : new = [IdleMemory EXCEPT !.todo = OpenPlans]
  OBVIOUS
<1>3. /\ new \in Memory /\ new.todo = OpenPlans
      /\ new.ending.plan = NoPlan /\ new.ending.held = "NONE"
  BY <1>1, <1>2, EmptyRecordsTyped DEF Memory, IdleMemory, NoEnding
<1> QED
  BY <1>1, <1>2, <1>3, QuietMemory DEF ListOpen

LEMMA TakeUpPInv ==
    ASSUME PInv, NEW p \in Plans, TakeUp(p)
    PROVE  PInv'
<1>1. Known(p) /\ memory.fresh \in BOOLEAN
  BY MemoryFields DEF TakeUp, MemoryStory
<1>2. PICK e : e = Row(p, memory.fresh)
  OBVIOUS
<1>3. e \in Ending /\ e.plan = p /\ EndingHolds(e)
  BY <1>1, <1>2, RowHolds
<1>4. PICK new : new = [memory EXCEPT !.todo = @ \ {p}, !.ending = e]
  OBVIOUS
<1>5. /\ new \in Memory /\ new.todo \subseteq memory.todo
      /\ new.ending = e /\ e.plan # NoPlan
  <2>1. p # NoPlan
    BY DEF Plans, NoPlan
  <2>2. memory.todo \ {p} \subseteq Plans
    BY MemoryFields
  <2>3. new = [todo |-> memory.todo \ {p}, fresh |-> memory.fresh, ending |-> e]
    BY <1>4, MemoryFields DEF Memory
  <2> QED
    BY <1>3, <2>1, <2>2, <2>3, MemoryFields DEF Memory
<1>6. memory' = new
  BY <1>2, <1>4 DEF TakeUp
<1>7. \A q \in new.todo : Known(q)
  BY <1>5, MemoryFields DEF MemoryStory
<1> QED
  BY <1>3, <1>5, <1>6, <1>7, QuietMemory DEF TakeUp

\* What remains of the job once it has done with a plan.
Remaining(expires) ==
    IF memory.todo = {} THEN IdleMemory
    ELSE [memory EXCEPT !.ending = NoEnding, !.fresh = @ \/ expires]

LEMMA RemainingHolds ==
    ASSUME PInv, NEW expires \in BOOLEAN
    PROVE  /\ Remaining(expires) \in Memory /\ Remaining(expires).todo \subseteq memory.todo
           /\ Remaining(expires).ending = NoEnding
<1>1. (memory.fresh \/ expires) \in BOOLEAN
  OBVIOUS
<1> QED
  BY <1>1, MemoryFields, EmptyRecordsTyped DEF Remaining, Memory, IdleMemory

LEMMA LeaveOpenPInv ==
    ASSUME PInv, LeaveOpen
    PROVE  PInv'
<1>1. PICK new : new = Remaining(FALSE)
  OBVIOUS
<1>2. new \in Memory /\ new.todo \subseteq memory.todo /\ new.ending = NoEnding
  BY <1>1, RemainingHolds
<1>3. memory' = new
  BY <1>1 DEF LeaveOpen, Onward, Remaining
<1>4. /\ \A q \in new.todo : Known(q)
      /\ new.ending.plan = NoPlan /\ new.ending.held = "NONE"
  BY <1>2, MemoryFields DEF MemoryStory, NoEnding
<1> QED
  BY <1>2, <1>3, <1>4, QuietMemory DEF LeaveOpen

LEMMA JudgePInv ==
    ASSUME PInv, Judge
    PROVE  PInv'
<1>1. PICK e : e = memory.ending
  OBVIOUS
<1>2. e \in Ending /\ EndingHolds(e) /\ e.plan # NoPlan
  BY <1>1, MemoryFields DEF MemoryStory, Judge, InHand
<1>3. PICK l : l = Loaded(e)
  OBVIOUS
<1>4. l \in Ending /\ EndingHolds(l) /\ l.plan = e.plan
  BY <1>2, <1>3, LoadedHolds
<1>5. PICK new : new = [memory EXCEPT !.ending = l]
  OBVIOUS
<1>6. new \in Memory /\ new.todo = memory.todo /\ new.ending = l
  BY <1>4, <1>5, MemoryFields DEF Memory
<1>7. memory' = new
  BY <1>1, <1>3, <1>5 DEF Judge
<1>8. \A q \in new.todo : Known(q)
  BY <1>6, MemoryFields DEF MemoryStory
<1> QED
  BY <1>2, <1>4, <1>6, <1>7, <1>8, QuietMemory DEF Judge

LEMMA RememberPInv ==
    ASSUME PInv, Remember
    PROVE  PInv'
<1>1. UNCHANGED <<decision, eligible, scan, risk, executor, closing, position, failures>>
  BY DEF Remember, OtherThanMemory
<1>2. PICK e : e = memory.ending
  OBVIOUS
<1>3. PICK result \in Results : Commit(e, result)
  BY <1>2 DEF Remember
<1>4. EndingHolds(e) /\ e.held # "NONE"
  BY <1>2, MemoryFields DEF MemoryStory, Remember, InHand, Judged
<1>5. /\ plan' \in [Plans -> Plan] /\ thesis' \in [Plans -> States]
      /\ ended' \in [Plans -> 0 .. 3]
      /\ Monotone /\ Blank'
      /\ \A p \in Plans : PlanStory(p)'
      /\ \A p \in Plans : Moves(p)
      /\ \A p \in Plans : plan'[p].status = "OPEN" => plan[p].status = "OPEN"
  BY <1>1, <1>3, <1>4, CommitEffect
<1>6. PICK new : new = Remaining(TRUE)
  OBVIOUS
<1>7. new \in Memory /\ new.todo \subseteq memory.todo /\ new.ending = NoEnding
  BY <1>6, RemainingHolds
<1>8. memory' = new
  BY <1>6 DEF Remember, Onward, Remaining
<1>9. MemoryStory'
  <2>1. \A q \in memory.todo : q \in Plans /\ Known(q)
    BY MemoryFields DEF MemoryStory
  <2>2. \A q \in new.todo : Known(q)'
    BY <2>1, <1>5, <1>7 DEF Moves
  <2> QED
    BY <2>2, <1>7, <1>8 DEF MemoryStory, Known, NoEnding
<1>10. TypeOK'
  BY <1>1, <1>5, <1>7, <1>8 DEF PInv, TypeOK
<1>11. EvidenceInv'
  BY <1>1, <1>5, EvidenceUntouched
<1>12. \A s \in Scanners : ScanStory(s)'
  BY <1>1, <1>5, ScanKept
<1>13. CloseStory'
  BY <1>1, <1>5, CloseKept
<1> QED
  BY <1>5, <1>9, <1>10, <1>11, <1>12, <1>13 DEF PInv, Stories

LEMMA MemoryPInv ==
    ASSUME PInv, MemoryStep
    PROVE  PInv'
BY ListOpenPInv, TakeUpPInv, LeaveOpenPInv, JudgePInv, RememberPInv DEF MemoryStep

-----------------------------------------------------------------------------
(* Time                                                                    *)

LEMMA OlderTyped ==
    ASSUME NEW d \in Decision
    PROVE  Older(d) \in Decision /\ Older(d).kind = d.kind
<1>1. d.age \in 0 .. Stale + 1 /\ Stale \in Nat
  BY PlanAssumption DEF Decision, Ages
<1>2. (IF d.age > Stale THEN d.age ELSE d.age + 1) \in Ages
  BY <1>1 DEF Ages
<1>3. Older(d) = [kind |-> d.kind, snapshot |-> d.snapshot,
                  age |-> IF d.age > Stale THEN d.age ELSE d.age + 1]
  BY DEF Older, Decision
<1> QED
  BY <1>2, <1>3 DEF Decision

LEMMA TickPInv ==
    ASSUME PInv, Tick
    PROVE  PInv'
<1>1. UNCHANGED <<plan, thesis, ended, eligible, scan, memory, executor, closing, position, failures>>
  BY DEF Tick
<1>2. decision' = [p \in Plans |-> Older(decision[p])]
  BY DEF Tick
<1>3. decision' \in [Plans -> Decision] /\ \A p \in Plans : decision'[p].kind = decision[p].kind
  BY <1>2, OlderTyped DEF PInv, TypeOK
<1>4. risk' \in [RiskRuns -> RiskRun]
  <2>1. SUFFICES ASSUME NEW r \in RiskRuns
                 PROVE  [risk[r] EXCEPT !.latest = [p \in Plans |-> Older(risk[r].latest[p])]]
                            \in RiskRun
    BY DEF Tick
  <2>2. [p \in Plans |-> Older(risk[r].latest[p])] \in [Plans -> Decision]
    BY RiskFields, OlderTyped
  <2> QED
    BY <2>2, RiskFields DEF RiskRun
<1>5. UNCHANGED OtherThanRisk /\ failures' \in 0 .. MaxFailures
  BY <1>1 DEF OtherThanRisk, PInv, TypeOK
<1>6. Decided'
  BY <1>1, <1>3 DEF PInv, EvidenceInv, Decided, Approved
<1> QED
  BY <1>3, <1>4, <1>5, <1>6, RiskKeeps

-----------------------------------------------------------------------------
(* Positions                                                               *)

LEMMA AuthorizedIsEvidence ==
    ASSUME PInv, NEW p \in Plans, Authorized(p)
    PROVE  Evidence(SeenOf(decision[p]), p) /\ SeenOf(decision[p]) \in Seen
<1>1. decision[p] \in Decision /\ decision[p].age =< Stale
  BY DEF PInv, TypeOK, Authorized
<1>2. SeenOf(decision[p]) \in Seen
  BY <1>1 DEF SeenOf, Seen, Decision
<1>3. Evidence(SeenOf(decision[p]), p)
  BY <1>1 DEF PInv, EvidenceInv, Decided, Authorized, Evidence, SeenOf
<1> QED
  BY <1>2, <1>3

LEMMA ExecutorPInv ==
    ASSUME PInv, UNCHANGED <<plan, thesis, ended, decision, eligible, scan, risk, memory, closing,
                             position, failures>>,
           executor' \in Candidate,
           executor'.plan # NoPlan => Evidence(executor'.evidence, executor'.plan)
    PROVE  PInv'
<1>1. TypeOK'
  BY DEF PInv, TypeOK
<1>2. Decided' /\ PositionsHold'
  BY SameTerms, PositionsStay, DecidedStays DEF PInv, EvidenceInv
<1>3. CandidateHolds'
  BY DEF CandidateHolds, Evidence, Approved
<1>4. Blank' /\ Stories'
  BY QuietStories
<1> QED
  BY <1>1, <1>2, <1>3, <1>4 DEF PInv, EvidenceInv

LEMMA ListCandidatePInv ==
    ASSUME PInv, NEW p \in Plans, ListCandidate(p)
    PROVE  PInv'
<1>1. PICK seen : seen = SeenOf(decision[p])
  OBVIOUS
<1>2. executor' = [plan |-> p, evidence |-> seen] /\ Evidence(seen, p) /\ seen \in Seen
  BY <1>1, AuthorizedIsEvidence DEF ListCandidate
<1>3. executor' \in Candidate
  BY <1>2 DEF Candidate
<1> QED
  BY <1>2, <1>3, ExecutorPInv DEF ListCandidate

LEMMA GiveUpPInv ==
    ASSUME PInv, GiveUp
    PROVE  PInv'
BY EmptyRecordsTyped, ExecutorPInv DEF GiveUp

LEMMA ExecutePInv ==
    ASSUME PInv, Execute
    PROVE  PInv'
<1> DEFINE p == executor.plan
           new == [status |-> "OPEN", evidence |-> executor.evidence]
<1>1. p \in Plans /\ executor \in Candidate /\ Evidence(executor.evidence, p)
  BY DEF Execute, PInv, EvidenceInv, TypeOK, Candidate, CandidateHolds
<1>2. /\ position' = [position EXCEPT ![p] = new] /\ executor' = NoCandidate
      /\ position[p].status = "NONE"
      /\ UNCHANGED <<plan, thesis, ended, decision, eligible, scan, risk, memory, closing, failures>>
  BY DEF Execute
<1>3. new \in Position
  BY <1>1 DEF Candidate, Position
<1>4. position' \in [Plans -> Position]
      /\ \A q \in Plans : position'[q] = IF q = p THEN new ELSE position[q]
  BY <1>1, <1>2, <1>3 DEF PInv, TypeOK
<1>5. TypeOK'
  BY <1>2, <1>4, EmptyRecordsTyped DEF PInv, TypeOK
<1>6. Decided'
  BY <1>2, SameTerms, DecidedStays DEF PInv, EvidenceInv
<1>7. CandidateHolds'
  BY <1>2, EmptyRecordsTyped DEF CandidateHolds
<1>8. PositionsHold'
  BY <1>1, <1>2, <1>4 DEF PInv, EvidenceInv, PositionsHold, Evidence, Approved
<1>9. Standing
  BY <1>2, <1>4 DEF Standing
<1>10. Blank' /\ (\A q \in Plans : PlanStory(q)') /\ (\A q \in Plans : Moves(q))
       /\ MemoryStory' /\ CloseStory'
  BY <1>2, <1>9, Quiet
<1>11. \A s \in Scanners : ScanStory(s)'
  BY <1>2, <1>10, ScanKept
<1> QED
  BY <1>5, <1>6, <1>7, <1>8, <1>10, <1>11 DEF PInv, EvidenceInv, Stories

-----------------------------------------------------------------------------
(* Closes of positions                                                     *)

LEMMA CloseFields ==
    ASSUME PInv
    PROVE  /\ closing \in Closing /\ CloseStory
           /\ closing.plan \in {NoPlan} \cup Plans /\ closing.queued \subseteq Plans
           /\ closing.held \in [Plans -> States]
BY DEF PInv, Stories, TypeOK, Closing

\* A thesis that is loaded is as the plan is.
LEMMA ThesisHolds ==
    ASSUME PInv, NEW p \in Plans, Known(p)
    PROVE  thesis[p] \in States /\ thesis[p] # "NONE" /\ Consistent(p, "NONE", thesis[p])
<1>1. /\ thesis[p] \in States /\ ended[p] \in 0 .. 3
      /\ PlanStory(p) /\ plan[p].status \in {"NONE", "OPEN", "CLOSED"}
  BY DEF PInv, Stories, TypeOK, Plan
<1> QED
  BY <1>1 DEF Consistent, Known, PlanStory

\* The steps of the close before its commit.
LEMMA QuietClose ==
    ASSUME PInv, UNCHANGED <<plan, thesis, ended, position>>, UNCHANGED OtherThanClosing,
           closing' \in Closing, CloseStory'
    PROVE  PInv'
<1>1. UNCHANGED <<decision, eligible, scan, risk, memory, executor, failures>>
  BY DEF OtherThanClosing
<1>2. Standing
  BY DEF Standing
<1>3. Blank' /\ (\A p \in Plans : PlanStory(p)') /\ (\A p \in Plans : Moves(p)) /\ MemoryStory'
  BY <1>1, <1>2, Quiet
<1>4. \A s \in Scanners : ScanStory(s)'
  BY <1>1, <1>3, ScanKept
<1>5. TypeOK'
  BY <1>1 DEF PInv, TypeOK
<1>6. EvidenceInv'
  BY <1>1, SameTerms, EvidenceUntouched
<1> QED
  BY <1>3, <1>4, <1>5, <1>6 DEF PInv, Stories

LEMMA BeginClosePInv ==
    ASSUME PInv, BeginClose
    PROVE  PInv'
<1>1. PICK p \in Plans :
         /\ position[p].status = "OPEN"
         /\ closing' = [NotClosing EXCEPT !.pc = "own", !.plan = p, !.held[p] = thesis[p]]
  BY DEF BeginClose
<1>2. UNCHANGED <<plan, thesis, ended, position>> /\ UNCHANGED OtherThanClosing
  BY DEF BeginClose
<1>3. Known(p)
  BY <1>1, PlanAssumption
  DEF PInv, EvidenceInv, PositionsHold, Evidence, Approved, Blank, Known
<1>4. thesis[p] \in States /\ thesis[p] # "NONE" /\ Consistent(p, "NONE", thesis[p])
  BY <1>3, ThesisHolds
<1>5. closing' \in Closing
  BY <1>1, <1>4, EmptyRecordsTyped DEF NotClosing, Closing
<1>6. /\ closing'.pc = "own" /\ closing'.plan = p /\ closing'.queued = {}
      /\ closing'.held[p] = thesis[p]
  BY <1>1 DEF NotClosing
<1>7. CloseStory'
  <2>1. p # NoPlan
    BY DEF Plans, NoPlan
  <2> QED
    BY <1>1, <1>2, <1>4, <1>6, <2>1 DEF CloseStory, Consistent, Known
<1> QED
  BY <1>2, <1>5, <1>7, QuietClose

LEMMA FindQueuedPInv ==
    ASSUME PInv, FindQueued
    PROVE  PInv'
<1>1. /\ closing' = [closing EXCEPT !.pc = "queued", !.queued = OpenPlans]
      /\ closing.pc = "own"
  BY DEF FindQueued
<1>2. UNCHANGED <<plan, thesis, ended, position>> /\ UNCHANGED OtherThanClosing
  BY DEF FindQueued
<1>3. OpenPlans \subseteq Plans /\ \A p \in OpenPlans : Known(p)
  BY DEF OpenPlans, Known
<1>4. closing' \in Closing
  BY <1>1, <1>3, CloseFields DEF Closing
<1>5. /\ closing'.pc = "queued" /\ closing'.plan = closing.plan
      /\ closing'.queued = OpenPlans /\ closing'.held = closing.held
  BY <1>1, CloseFields DEF Closing
<1>6. CloseStory'
  <2>1. /\ closing.plan # NoPlan /\ position[closing.plan].status = "OPEN"
        /\ closing.held[closing.plan] # "NONE"
        /\ Consistent(closing.plan, "NONE", closing.held[closing.plan])
    BY <1>1, CloseFields DEF CloseStory
  <2>2. plan[closing.plan].status = "OPEN" => closing.plan \in OpenPlans
    BY <2>1, CloseFields DEF OpenPlans
  <2> QED
    BY <1>2, <1>3, <1>5, <2>1, <2>2 DEF CloseStory, Consistent, Known
<1> QED
  BY <1>2, <1>4, <1>6, QuietClose

LEMMA LoadThesesPInv ==
    ASSUME PInv, LoadTheses
    PROVE  PInv'
<1> DEFINE own == closing.plan
           held == [p \in Plans |-> IF p \in Queued \ {own} THEN thesis[p] ELSE closing.held[p]]
<1>1. closing' = [closing EXCEPT !.pc = "loaded", !.held = held] /\ closing.pc = "queued"
  BY DEF LoadTheses
<1>2. UNCHANGED <<plan, thesis, ended, position>> /\ UNCHANGED OtherThanClosing
  BY DEF LoadTheses
<1>3. held \in [Plans -> States]
  BY CloseFields DEF PInv, TypeOK
<1>4. closing' \in Closing /\ closing'.pc = "loaded" /\ closing'.plan = own
      /\ closing'.queued = closing.queued /\ closing'.held = held
  <2> HIDE DEF held
  <2> QED
    BY <1>1, <1>3, CloseFields DEF Closing
<1>5. /\ own \in Plans /\ own # NoPlan /\ position[own].status = "OPEN"
      /\ closing.held[own] # "NONE" /\ Consistent(own, "NONE", closing.held[own])
      /\ \A p \in closing.queued : Known(p)
      /\ plan[own].status = "OPEN" => own \in closing.queued
  BY <1>1, CloseFields DEF CloseStory
<1>6. held[own] = closing.held[own]
  BY <1>5
<1>7. \A p \in closing.queued : held[p] # "NONE" /\ Consistent(p, "NONE", held[p])
  <2>1. SUFFICES ASSUME NEW p \in closing.queued
                 PROVE  held[p] # "NONE" /\ Consistent(p, "NONE", held[p])
    OBVIOUS
  <2>2. p \in Plans /\ Known(p)
    BY <1>5, CloseFields
  <2>3. CASE p = own
    BY <2>3, <1>5, <1>6
  <2>4. CASE p # own
    BY <2>2, <2>4, ThesisHolds DEF Queued
  <2> QED
    BY <2>3, <2>4
<1>8. CloseStory'
  <2> HIDE DEF held
  <2> QED
    BY <1>2, <1>4, <1>5, <1>6, <1>7 DEF CloseStory, Consistent, Known
<1> QED
  BY <1>2, <1>4, <1>8, QuietClose

LEMMA CommitClosePInv ==
    ASSUME PInv, CommitClose
    PROVE  PInv'
<1> DEFINE own == closing.plan
<1>1. PICK result \in Results :
         /\ plan' = [p \in Plans |->
                       IF p \notin Queued THEN plan[p]
                       ELSE [plan[p] EXCEPT !.status = "CLOSED",
                               !.result = IF p = own THEN result ELSE "STALE_AFTER_CLOSE"]]
         /\ thesis' = [p \in Plans |-> ClosedThesis(p, result)]
  BY DEF CommitClose
<1>2. /\ position' = [position EXCEPT ![own].status = "CLOSED"]
      /\ ended' = [p \in Plans |-> IF p \in Queued THEN OnceMore(ended[p]) ELSE ended[p]]
      /\ closing' = NotClosing
      /\ UNCHANGED <<decision, eligible, scan, risk, memory, executor, failures>>
  BY DEF CommitClose, OtherThanClosing
<1>3. /\ own \in Plans /\ position[own].status = "OPEN"
      /\ closing.held[own] # "NONE" /\ Consistent(own, "NONE", closing.held[own])
      /\ plan[own].status = "OPEN" => own \in Queued
      /\ \A p \in Queued : /\ p \in Plans /\ Known(p) /\ closing.held[p] # "NONE"
                           /\ Consistent(p, "NONE", closing.held[p])
  BY CloseFields DEF CommitClose, CloseStory, Queued
<1>4. /\ plan \in [Plans -> Plan] /\ position \in [Plans -> Position]
      /\ thesis \in [Plans -> States] /\ ended \in [Plans -> 0 .. 3]
  BY DEF PInv, TypeOK
<1>5. /\ Lifecycle(result) \in {"COMPLETED", "INVALIDATED"}
      /\ Lifecycle("STALE_AFTER_CLOSE") = "INVALIDATED" /\ result \in Outcomes
      /\ "STALE_AFTER_CLOSE" \in Outcomes
  BY DEF Lifecycle, Outcomes
<1>6. \A q \in Plans :
         /\ plan'[q].terms = plan[q].terms
         /\ plan'[q].status = IF q \in Queued THEN "CLOSED" ELSE plan[q].status
         /\ plan'[q].result = IF q \notin Queued THEN plan[q].result
                              ELSE IF q = own THEN result ELSE "STALE_AFTER_CLOSE"
         /\ ended'[q] = IF q \in Queued THEN OnceMore(ended[q]) ELSE ended[q]
         /\ thesis'[q] = ClosedThesis(q, result)
  BY <1>1, <1>2, <1>4 DEF Plan
<1>7. plan' \in [Plans -> Plan]
  <2>1. \A q \in Plans :
           [plan[q] EXCEPT !.status = "CLOSED",
              !.result = IF q = own THEN result ELSE "STALE_AFTER_CLOSE"] \in Plan
    BY <1>4, <1>5 DEF Plan
  <2> QED
    BY <1>1, <1>4, <2>1
<1>8. thesis' \in [Plans -> States]
  <2>1. \A q \in Plans : ClosedThesis(q, result) \in States
    BY <1>4, <1>5 DEF ClosedThesis, Written, States
  <2> QED
    BY <1>1, <2>1
<1>9. ended' \in [Plans -> 0 .. 3]
  <2>1. \A q \in Plans : OnceMore(ended[q]) \in 0 .. 3
    BY <1>4 DEF OnceMore
  <2> QED
    BY <1>2, <1>4, <2>1
<1>10. /\ position' \in [Plans -> Position]
       /\ \A q \in Plans :
             /\ position'[q].status = IF q = own THEN "CLOSED" ELSE position[q].status
             /\ position'[q].evidence = position[q].evidence
  BY <1>2, <1>3, <1>4 DEF Position
<1>11. TypeOK'
  BY <1>2, <1>7, <1>8, <1>9, <1>10, EmptyRecordsTyped DEF PInv, TypeOK
<1>12. Monotone
  BY <1>2, <1>6, SameTerms
<1>13. EvidenceInv'
  <2>1. Decided' /\ CandidateHolds'
    BY <1>2, <1>12, CandidateStays, DecidedStays DEF PInv, EvidenceInv
  <2>2. SUFFICES ASSUME NEW q \in Plans, position'[q].status # "NONE"
                 PROVE  Evidence(position[q].evidence, q)'
    BY <2>1 DEF EvidenceInv, PositionsHold, Evidence, Approved
  <2>3. Evidence(position[q].evidence, q)
    BY <2>2, <1>3, <1>10 DEF PInv, EvidenceInv, PositionsHold
  <2> QED
    BY <2>3, <1>10, <1>12 DEF Monotone, Evidence
<1>14. Blank'
  BY <1>6 DEF PInv, Blank
<1>15. \A q \in Plans : Moves(q)
  <2>1. SUFFICES ASSUME NEW q \in Plans PROVE Moves(q)
    OBVIOUS
  <2>2. CASE q \in Queued
    BY <2>2, <1>6, <1>10 DEF Moves, Known
  <2>3. CASE q \notin Queued /\ q = own
    BY <2>3, <1>6, <1>10 DEF Moves, Known
  <2>4. CASE q \notin Queued /\ q # own
    BY <2>4, <1>6, <1>10 DEF Moves, Known, ClosedThesis
  <2> QED
    BY <2>2, <2>3, <2>4
<1>16. \A q \in Plans : PlanStory(q)'
  <2>1. SUFFICES ASSUME NEW q \in Plans PROVE PlanStory(q)'
    OBVIOUS
  <2>2. /\ PlanStory(q) /\ ended[q] \in 0 .. 3 /\ thesis[q] \in States
        /\ plan[q].status \in {"NONE", "OPEN", "CLOSED"}
    BY <1>4 DEF PInv, Stories, Plan
  <2>3. CASE q \in Queued
    <3>1. /\ plan'[q].status = "CLOSED" /\ ended'[q] # 0
          /\ ended'[q] =< 2 => ended[q] \in {0, 1}
      BY <2>2, <2>3, <1>6 DEF OnceMore
    <3>2. PICK state \in {"COMPLETED", "INVALIDATED"} :
             /\ thesis'[q] = Written(thesis[q], closing.held[q], state)
             /\ q # own => state = Lifecycle(plan'[q].result)
      BY <2>3, <1>5, <1>6 DEF ClosedThesis
    <3>3. thesis'[q] \in {"COMPLETED", "INVALIDATED"}
      <4>1. CASE closing.held[q] = state
        BY <4>1, <2>2, <2>3, <3>2, <1>3
        DEF Consistent, Known, PlanStory, States, Written
      <4>2. CASE closing.held[q] # state
        BY <4>2, <3>2 DEF Written
      <4> QED
        BY <4>1, <4>2
    <3>4. ended[q] \in {0, 1} /\ position[q].status # "CLOSED" => thesis'[q] = state
      BY <2>3, <3>2, <1>3 DEF Consistent, Written
    <3>5. position'[q].status # "CLOSED" => q # own /\ position[q].status # "CLOSED"
      BY <1>10
    <3> QED
      BY <3>1, <3>2, <3>3, <3>4, <3>5 DEF PlanStory
  <2>4. CASE q \notin Queued /\ q = own
    <3>1. plan[q].status = "CLOSED"
      BY <2>2, <2>4, <1>3 DEF Consistent, Known
    <3>2. thesis'[q] \in {"COMPLETED", "INVALIDATED"}
      BY <2>2, <2>4, <3>1, <1>5, <1>6 DEF ClosedThesis, Written, PlanStory, States
    <3> QED
      BY <2>2, <2>4, <3>1, <3>2, <1>6, <1>10 DEF PlanStory
  <2>5. CASE q \notin Queued /\ q # own
    BY <2>2, <2>5, <1>6, <1>10 DEF PlanStory, ClosedThesis
  <2> QED
    BY <2>3, <2>4, <2>5
<1>17. MemoryStory' /\ \A s \in Scanners : ScanStory(s)'
  BY <1>2, <1>15, MemoryKept, ScanKept
<1>18. CloseStory'
  BY <1>2 DEF CloseStory, NotClosing
<1> QED
  BY <1>11, <1>13, <1>14, <1>16, <1>17, <1>18 DEF PInv, Stories

-----------------------------------------------------------------------------
LEMMA NextPInv == PInv /\ [Next]_vars => PInv'
<1> SUFFICES ASSUME PInv, [Next]_vars PROVE PInv'
  OBVIOUS
<1>1. CASE \E s \in Scanners : ScanStep(s) \/ ScanFails(s)
  BY <1>1, ScanPInv
<1>2. CASE \E r \in RiskRuns : RiskStep(r) \/ \E p \in Plans : DecisionFails(r, p)
  BY <1>2, StartRiskPInv, ReusePInv, DecidePInv, DecisionFailsPInv DEF RiskStep
<1>3. CASE MemoryStep
  BY <1>3, MemoryPInv
<1>4. CASE PositionStep
  BY <1>4, ListCandidatePInv, ExecutePInv, GiveUpPInv, BeginClosePInv, FindQueuedPInv,
     LoadThesesPInv, CommitClosePInv
  DEF PositionStep
<1>5. CASE Tick
  BY <1>5, TickPInv
<1>6. CASE UNCHANGED vars
  <2>1. UNCHANGED OtherThanRisk /\ UNCHANGED <<decision, risk, failures>>
    BY <1>6 DEF vars, OtherThanRisk
  <2>2. Decided'
    BY <1>6 DEF vars, PInv, EvidenceInv, Decided, Approved
  <2> QED
    BY <2>1, <2>2, RiskKeeps DEF PInv, TypeOK
<1> QED
  BY <1>1, <1>2, <1>3, <1>4, <1>5, <1>6 DEF Next

LEMMA Inductive == Spec => []PInv
BY InitPInv, NextPInv, PTL DEF Spec

(* Rows, sessions and decisions keep their types, for every number of      *)
(* scanners, risk runs, plans, scans and failures.                         *)
THEOREM PlansTypeCorrect == Spec => []TypeOK
<1>1. PInv => TypeOK
  BY DEF PInv
<1> QED
  BY <1>1, Inductive, PTL

(* A plan and its thesis tell one story, until a third session ends the    *)
(* plan (close_trade, invalidate_trade and the close of a position, with   *)
(* set_lifecycle_state), however many sessions there are and whatever each *)
(* of them had loaded of the plan and the thesis when it commits.          *)
THEOREM OneStory == Spec => []ThesisFollowsPlan
<1>1. PInv => ThesisFollowsPlan
  BY DEF PInv, Stories, PlanStory, ThesisFollowsPlan
<1> QED
  BY <1>1, Inductive, PTL

(* A position rests on a fresh approval of its own plan, for a lineage the *)
(* strategy found eligible (_paper_trade_blocked_reasons).                 *)
THEOREM EvidenceAlwaysHolds == Spec => []EvidenceHolds
<1>1. PInv => EvidenceHolds
  BY DEF PInv, EvidenceInv, PositionsHold, Evidence, Approved, EvidenceHolds
<1> QED
  BY <1>1, Inductive, PTL

=============================================================================
