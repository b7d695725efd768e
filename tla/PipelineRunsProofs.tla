--------------------------- MODULE PipelineRunsProofs ---------------------------
(***************************************************************************)
(* Type correctness and the safety of the run ledger (PipelineRuns), for   *)
(* every number of runs, every order of stages and every StaleAfter.       *)
(*                                                                         *)
(* The inductive invariant follows the position of a run: stages it has not*)
(* reached are untouched, stages it has passed have a result, and a result *)
(* that is not a failure is what the body of the stage really returned.    *)
(***************************************************************************)
EXTENDS PipelineRuns, TLAPS

N(r) == Len(Order(r))

\* A stage run r has not begun: beyond the current one, or never in its order.
Ahead(r, s) == \A i \in 1 .. N(r) : Order(r)[i] = s => i > at[r]
Behind(r, s) == \E i \in 1 .. N(r) : Order(r)[i] = s /\ i < at[r]

Working == {"stage", "run", "finish", "refinish"}
Before  == {"idle", "recover", "sweep", "open"}

PositionOK(r) ==
    /\ phase[r] \in Before => at[r] = 1
    /\ phase[r] \in Working => at[r] =< N(r)
    /\ phase[r] \in {"close", "done"} => at[r] = N(r) + 1

UntouchedOK(r) ==
    /\ \A s \in Stages : Ahead(r, s) => /\ res[r][s] = "none" /\ real[r][s] = "none"
                                        /\ job[r][s] # "COMPLETED"
    /\ phase[r] \in Before \cup {"stage", "run"} /\ at[r] =< N(r) =>
          /\ res[r][Current(r)] = "none" /\ real[r][Current(r)] = "none"
          /\ job[r][Current(r)] # "COMPLETED"

FinishOK(r) ==
    /\ phase[r] = "finish" => res[r][Current(r)] # "none"
    /\ phase[r] = "refinish" => res[r][Current(r)] = "failed"
    /\ phase[r] \in {"finish", "refinish"} =>
          Current(r) = Execute \/ real[r][Current(r)] # "none"

PassedOK(r) ==
    \A s \in Stages : Behind(r, s) =>
        /\ res[r][s] # "none"
        /\ s \in AlwaysRun \/ (~Deterministic(r) /\ s # Execute) => real[r][s] # "none"

ResultOK(r) ==
    /\ \A s \in Stages :
          /\ res[r][s] \in Kinds \ {"failed"} => real[r][s] = res[r][s]
          /\ job[r][s] = "COMPLETED" => real[r][s] \in {"ok", "other"}
          /\ res[r][s] = "blocked" => s \in Names(Order(r))
    /\ Deterministic(r) => \A s \in Stages : res[r][s] = "blocked" => Blocked(r)

ExecuteOK(r) ==
    real[r][Execute] # "none" =>
        real[r][Monitor] \in {"ok", "shadow"} /\ real[r][Risk] \in {"ok", "degraded"}

RowOK(r) ==
    row[r] = "COMPLETED" =>
        /\ phase[r] \in {"done", "aborted"}
        /\ \A s \in Names(Order(r)) : real[r][s] \in {"ok", "other"}
        /\ real[r][Monitor] = "ok" /\ real[r][Risk] = "ok"

RunOK(r) == /\ PositionOK(r) /\ UntouchedOK(r) /\ FinishOK(r) /\ PassedOK(r)
            /\ ResultOK(r) /\ ExecuteOK(r) /\ RowOK(r)

IInv == TypeOK /\ \A r \in Runs : RunOK(r)

-----------------------------------------------------------------------------
(* The orders of the two pipelines                                         *)

LEMMA OrderFacts ==
    ASSUME NEW r \in Runs
    PROVE  /\ N(r) \in Nat /\ N(r) >= 1
           /\ \A i \in 1 .. N(r) : Order(r)[i] \in Stages
           /\ \A i, j \in 1 .. N(r) : Order(r)[i] = Order(r)[j] => i = j
           /\ Names(Order(r)) = {Order(r)[i] : i \in 1 .. N(r)}
           /\ Names(Order(r)) \subseteq Stages
           /\ {Monitor, Risk, Execute} \subseteq Names(Order(r))
<1>1. Order(r) \in {StageOrder, CycleOrder}
  BY DEF Order
<1>2. Order(r) \in Seq(STRING) /\ Order(r) # <<>> /\ Distinct(Order(r))
  BY <1>1, StageAssumption
<1>3. DOMAIN Order(r) = 1 .. N(r) /\ N(r) \in Nat
  BY <1>2 DEF N
<1>4. N(r) >= 1
  BY <1>2, <1>3 DEF N
<1>5. Names(Order(r)) = {Order(r)[i] : i \in 1 .. N(r)}
  BY <1>3 DEF Names
<1>6. Names(Order(r)) \subseteq Stages
  BY <1>1 DEF Stages
<1>7. {Monitor, Risk, Execute} \subseteq Names(Order(r))
  BY <1>1, StageAssumption
<1> QED
  BY <1>2, <1>3, <1>4, <1>5, <1>6, <1>7 DEF Distinct

LEMMA CurrentFacts ==
    ASSUME TypeOK, NEW r \in Runs, at[r] =< N(r)
    PROVE  at[r] \in 1 .. N(r) /\ Current(r) \in Stages /\ Current(r) \in Names(Order(r))
<1>1. at[r] \in 1 .. N(r)
  BY OrderFacts DEF TypeOK, N
<1> QED
  BY <1>1, OrderFacts DEF Current

-----------------------------------------------------------------------------
(* Types                                                                   *)

LEMMA InitType == Init => TypeOK
<1> SUFFICES ASSUME Init PROVE TypeOK
  OBVIOUS
<1>1. \A r \in Runs : 1 =< Len(Order(r)) + 1
  <2> TAKE r \in Runs
  <2>1. Len(Order(r)) \in Nat
    BY OrderFacts DEF N
  <2> QED
    BY <2>1
<1>2. 0 \in 0 .. Oldest
  BY StaleAssumption DEF Oldest
<1> QED
  BY <1>1, <1>2 DEF Init, TypeOK, NothingFound

LEMMA SweptType ==
    ASSUME TypeOK, NEW q \in Runs \cup {Startup}, Swept(q)
    PROVE  /\ row' \in [Runs -> {"NONE", "RUNNING", "COMPLETED", "DEGRADED", "PARTIAL", "FAILED"}]
           /\ job' \in [Runs -> [Stages -> {"NONE", "RUNNING", "COMPLETED", "DEGRADED",
                                            "BLOCKED", "FAILED"}]]
  BY DEF TypeOK, Swept

LEMMA OpenedType ==
    ASSUME TypeOK, NEW r \in Runs, Opened(r)
    PROVE  /\ row' \in [Runs -> {"NONE", "RUNNING", "COMPLETED", "DEGRADED", "PARTIAL", "FAILED"}]
           /\ age' \in [Runs -> 0 .. Oldest]
<1>1. 0 \in 0 .. Oldest
  BY StaleAssumption DEF Oldest
<1> QED
  BY <1>1 DEF TypeOK, Opened

LEMMA AdvanceType ==
    ASSUME TypeOK, NEW r \in Runs, at[r] =< N(r), Advance(r), pipeline' = pipeline
    PROVE  /\ at' \in [Runs -> Nat \ {0}]
           /\ \A x \in Runs : at'[x] =< Len(Order(x)') + 1
           /\ rec' \in [Runs -> BOOLEAN]
           /\ phase' \in [Runs \cup {Startup} ->
                    {"idle", "recover", "sweep", "open", "stage", "run", "finish",
                     "refinish", "close", "done", "aborted", "lost"}]
<1>1. at' \in [Runs -> Nat \ {0}]
  BY DEF TypeOK, Advance
<1>2. \A x \in Runs : Order(x)' = Order(x)
  BY DEF Order, Deterministic
<1>3. \A x \in Runs : at'[x] =< Len(Order(x)) + 1
  <2> TAKE x \in Runs
  <2>1. CASE x = r
    <3>1. at'[r] = at[r] + 1
      BY DEF TypeOK, Advance
    <3> QED
      BY <2>1, <3>1, OrderFacts DEF N, TypeOK
  <2>2. CASE x # r
    BY <2>2 DEF TypeOK, Advance
  <2> QED
    BY <2>1, <2>2
<1> QED
  BY <1>1, <1>2, <1>3 DEF TypeOK, Advance

LEMMA FinishedType ==
    ASSUME TypeOK, NEW r \in Runs, at[r] =< N(r), Finished(r)
    PROVE  job' \in [Runs -> [Stages -> {"NONE", "RUNNING", "COMPLETED", "DEGRADED",
                                         "BLOCKED", "FAILED"}]]
<1>1. JobStatus(res[r][Current(r)]) \in {"COMPLETED", "DEGRADED", "BLOCKED", "FAILED"}
  BY DEF JobStatus
<1> QED
  BY <1>1 DEF TypeOK, Finished

LEMMA ClosedType ==
    ASSUME TypeOK, NEW r \in Runs, Closed(r)
    PROVE  row' \in [Runs -> {"NONE", "RUNNING", "COMPLETED", "DEGRADED", "PARTIAL", "FAILED"}]
<1>1. RunStatus(r) \in {"COMPLETED", "DEGRADED", "PARTIAL", "FAILED"}
  BY DEF RunStatus, CycleStatus
<1> QED
  BY <1>1 DEF TypeOK, Closed

\* Every step keeps the types, given where a working run is in its order.
LEMMA StepType ==
    ASSUME TypeOK, \A r \in Runs : PositionOK(r), [Next]_vars
    PROVE  TypeOK'
<1> USE DEF TypeOK
<1>0. CASE UNCHANGED vars
  BY <1>0 DEF vars, Order, Deterministic
<1>1. CASE Tick
  <2>1. \A a \in 0 .. Oldest : Older(a) \in 0 .. Oldest
    BY StaleAssumption DEF Older, Oldest
  <2>2. age' \in [Runs -> 0 .. Oldest]
    BY <1>1, <2>1 DEF Tick
  <2> QED
    BY <1>1, <2>2 DEF Tick, run, Order, Deterministic
<1>2. ASSUME NEW q \in Runs \cup {Startup}, Begin(q)
      PROVE  TypeOK'
  BY <1>2 DEF Begin, run, Order, Deterministic
<1>3. ASSUME NEW q \in Runs \cup {Startup}, ReadStale(q)
      PROVE  TypeOK'
  <2>1. StaleRuns \subseteq Runs /\ RunningJobs(StaleRuns) \subseteq Runs \X Stages
    BY DEF StaleRuns, RunningJobs
  <2>2. found' \in [Runs \cup {Startup} -> [runs : SUBSET Runs, jobs : SUBSET (Runs \X Stages)]]
    BY <1>3, <2>1 DEF ReadStale
  <2> QED
    BY <1>3, <2>2 DEF ReadStale, run, Order, Deterministic
<1>4. ASSUME NEW q \in Runs \cup {Startup}, CommitStale(q)
      PROVE  TypeOK'
  <2>1. Swept(q)
    BY <1>4 DEF CommitStale
  <2>2. found' \in [Runs \cup {Startup} -> [runs : SUBSET Runs, jobs : SUBSET (Runs \X Stages)]]
    BY <1>4 DEF CommitStale, NothingFound
  <2> QED
    BY <1>4, <2>1, <2>2, SweptType DEF CommitStale, After, run, Order, Deterministic
<1>5. ASSUME NEW q \in Runs \cup {Startup}, LedgerDown(q)
      PROVE  TypeOK'
  <2>1. /\ row' \in [Runs -> {"NONE", "RUNNING", "COMPLETED", "DEGRADED", "PARTIAL", "FAILED"}]
        /\ age' \in [Runs -> 0 .. Oldest]
        /\ job' \in [Runs -> [Stages -> {"NONE", "RUNNING", "COMPLETED", "DEGRADED",
                                         "BLOCKED", "FAILED"}]]
    <3>1. CASE UNCHANGED <<row, age, job>>
      BY <3>1
    <3>2. CASE Swept(q) /\ UNCHANGED age
      BY <3>2, SweptType
    <3>3. CASE Opened(q) /\ UNCHANGED job
      <4>1. CASE q \in Runs
        BY <3>3, <4>1, OpenedType
      <4>2. CASE q = Startup
        <5>1. row' = row
          BY <3>3, <4>2, RunsAssumption DEF Opened
        <5>2. age' = age
          BY <3>3, <4>2, RunsAssumption DEF Opened
        <5> QED
          BY <3>3, <5>1, <5>2
      <4> QED
        BY <4>1, <4>2
    <3> QED
      BY <1>5, <3>1, <3>2, <3>3 DEF LedgerDown
  <2>2. found' \in [Runs \cup {Startup} -> [runs : SUBSET Runs, jobs : SUBSET (Runs \X Stages)]]
    BY <1>5 DEF LedgerDown, NothingFound
  <2> QED
    BY <1>5, <2>1, <2>2 DEF LedgerDown, run, Order, Deterministic
<1>6. ASSUME NEW q \in Runs \cup {Startup}, Crash(q)
      PROVE  TypeOK'
  <2>1. found' \in [Runs \cup {Startup} -> [runs : SUBSET Runs, jobs : SUBSET (Runs \X Stages)]]
    BY <1>6 DEF Crash, NothingFound
  <2> QED
    BY <1>6, <2>1 DEF Crash, run, Order, Deterministic
<1>7. ASSUME NEW r \in Runs, RunStep(r) \/ Fault(r)
      PROVE  TypeOK'
  <2>1. phase[r] \in {"stage", "run", "finish", "refinish"} =>
            at[r] =< N(r) /\ Current(r) \in Stages
    BY CurrentFacts DEF PositionOK, Working
  <2>2. CASE OpenRow(r)
    BY <2>2, OpenedType DEF OpenRow, Order, Deterministic
  <2>3. CASE Skip(r)
    BY <2>1, <2>3, AdvanceType DEF Skip
  <2>4. CASE StartJob(r)
    BY <2>1, <2>4 DEF StartJob, Order, Deterministic
  <2>5. CASE RunStage(r)
    <3>1. PICK kind \in Outcomes[Current(r)] :
             /\ real' = [real EXCEPT ![r][Current(r)] = kind]
             /\ res' = [res EXCEPT ![r][Current(r)] = IF kind = "raised" THEN "failed" ELSE kind]
             /\ phase' = [phase EXCEPT ![r] = IF kind = "raised" THEN "refinish" ELSE "finish"]
      BY <2>5 DEF RunStage
    <3>2. kind \in Kinds \cup {"raised"}
      BY <2>1, <2>5, OutcomeAssumption DEF RunStage, Kinds
    <3>3. (IF kind = "raised" THEN "failed" ELSE kind) \in Kinds
      BY <3>2 DEF Kinds
    <3>4. res' \in [Runs -> [Stages -> Kinds \cup {"none", "blocked"}]]
      BY <3>1, <3>3
    <3>5. real' \in [Runs -> [Stages -> Kinds \cup {"none", "raised"}]]
      BY <3>1, <3>2
    <3> QED
      BY <2>5, <3>1, <3>4, <3>5 DEF RunStage, Order, Deterministic
  <2>6. CASE NotReady(r)
    BY <2>6 DEF NotReady, Order, Deterministic
  <2>7. CASE FinishJob(r)
    <3>1. job' \in [Runs -> [Stages -> {"NONE", "RUNNING", "COMPLETED", "DEGRADED",
                                        "BLOCKED", "FAILED"}]]
      BY <2>1, <2>7, FinishedType DEF FinishJob
    <3> QED
      BY <2>1, <2>7, <3>1, AdvanceType DEF FinishJob
  <2>8. CASE Close(r)
    BY <2>8, ClosedType DEF Close, run, Order, Deterministic
  <2>9. CASE StartJobFails(r)
    <3>1. job' \in [Runs -> [Stages -> {"NONE", "RUNNING", "COMPLETED", "DEGRADED",
                                        "BLOCKED", "FAILED"}]]
      <4>1. phase[r] = "stage" /\ (job' = job \/ job' = [job EXCEPT ![r][Current(r)] = "RUNNING"])
        BY <2>9 DEF StartJobFails
      <4>2. CASE job' = job
        BY <4>2
      <4>3. CASE job' = [job EXCEPT ![r][Current(r)] = "RUNNING"]
        BY <4>3, <4>1, <2>1
      <4> QED
        BY <4>1, <4>2, <4>3
    <3>2. phase'[r] \in {"aborted", "run"} /\ phase' = [phase EXCEPT ![r] = phase'[r]]
      BY <2>9 DEF StartJobFails
    <3>3. phase' \in [Runs \cup {Startup} ->
                    {"idle", "recover", "sweep", "open", "stage", "run", "finish",
                     "refinish", "close", "done", "aborted", "lost"}]
      BY <3>2
    <3> QED
      BY <2>9, <3>1, <3>3 DEF StartJobFails, run, Order, Deterministic
  <2>10. CASE FinishFails(r)
    <3>1. job' \in [Runs -> [Stages -> {"NONE", "RUNNING", "COMPLETED", "DEGRADED",
                                        "BLOCKED", "FAILED"}]]
      BY <2>1, <2>10, FinishedType DEF FinishFails
    <3>2. res' \in [Runs -> [Stages -> Kinds \cup {"none", "blocked"}]]
      <4>0. res' = res \/ res' = [res EXCEPT ![r][Current(r)] = "failed"]
        BY <2>10 DEF FinishFails
      <4>1. CASE res' = [res EXCEPT ![r][Current(r)] = "failed"]
        <5>1. "failed" \in Kinds \cup {"none", "blocked"}
          BY DEF Kinds
        <5> QED
          BY <4>1, <5>1
      <4>2. CASE res' = res
        BY <4>2
      <4> QED
        BY <4>0, <4>1, <4>2
    <3>3. phase' \in [Runs \cup {Startup} ->
                    {"idle", "recover", "sweep", "open", "stage", "run", "finish",
                     "refinish", "close", "done", "aborted", "lost"}]
      <4>1. \/ phase' = [phase EXCEPT ![r] = "refinish"]
            \/ phase' = [phase EXCEPT ![r] = "aborted"]
        BY <2>10 DEF FinishFails
      <4> QED
        BY <4>1
    <3> QED
      BY <2>10, <3>1, <3>2, <3>3 DEF FinishFails, Order, Deterministic
  <2>11. CASE CloseFails(r)
    BY <2>11, ClosedType DEF CloseFails, run, Order, Deterministic
  <2> QED
    BY <1>7, <2>2, <2>3, <2>4, <2>5, <2>6, <2>7, <2>8, <2>9, <2>10, <2>11 DEF RunStep, Fault
<1> QED
  BY <1>0, <1>1, <1>2, <1>3, <1>4, <1>5, <1>6, <1>7 DEF Next

-----------------------------------------------------------------------------
(* Safety                                                                  *)

\* What a step may do to a run whose stages it does not touch: its row and its
\* jobs are not completed, and its phase moves on, or ends early.
Untouched(r) ==
    /\ pipeline' = pipeline
    /\ at'[r] = at[r] /\ res'[r] = res[r] /\ real'[r] = real[r]
    /\ \A s \in Stages : job'[r][s] = "COMPLETED" => job[r][s] = "COMPLETED"
    /\ row'[r] = "COMPLETED" => row[r] = "COMPLETED"
    /\ \/ phase'[r] = phase[r]
       \/ phase[r] \in Before /\ phase'[r] \in Before \cup {"stage"}
       \/ phase[r] = "stage" /\ phase'[r] = "run"
       \/ phase[r] \notin {"done", "aborted"} /\ phase'[r] \in {"aborted", "lost"}

LEMMA FrameStep ==
    ASSUME TypeOK, NEW r \in Runs, RunOK(r), Untouched(r)
    PROVE  RunOK(r)'
<1> DEFINE i == at[r]
           o == Order(r)
<1>1. Order(r)' = o /\ N(r)' = N(r) /\ Deterministic(r)' = Deterministic(r)
  BY DEF Untouched, Order, Deterministic, N
<1>2. Current(r)' = Current(r)
  BY <1>1 DEF Untouched, Current
<1>3. at[r] \in Nat \ {0} /\ N(r) \in Nat /\ N(r) >= 1 /\ i =< N(r) + 1
  BY OrderFacts DEF TypeOK, N
<1>4. \A s \in Stages : /\ Ahead(r, s)' <=> Ahead(r, s)
                        /\ Behind(r, s)' <=> Behind(r, s)
  BY <1>1 DEF Ahead, Behind, Untouched
<1>5. Blocked(r)' <=> Blocked(r)
  BY <1>1 DEF Blocked, Untouched
<1>6. PositionOK(r)'
  BY <1>1, <1>3 DEF RunOK, PositionOK, Untouched, Before, Working
<1>7. at[r] =< N(r) => Current(r) \in Stages
  BY CurrentFacts
<1>8. UntouchedOK(r)'
  <2>1. \A s \in Stages : Ahead(r, s)' => /\ res'[r][s] = "none" /\ real'[r][s] = "none"
                                          /\ job'[r][s] # "COMPLETED"
    BY <1>4 DEF RunOK, UntouchedOK, Untouched
  <2>2. phase'[r] \in Before \cup {"stage", "run"} => phase[r] \in Before \cup {"stage", "run"}
    BY DEF Untouched, Before
  <2>3. ASSUME phase'[r] \in Before \cup {"stage", "run"}, at'[r] =< N(r)'
        PROVE  /\ res'[r][Current(r)] = "none" /\ real'[r][Current(r)] = "none"
               /\ job'[r][Current(r)] # "COMPLETED"
    BY <1>1, <1>7, <2>2, <2>3 DEF RunOK, UntouchedOK, Untouched
  <2> QED
    BY <2>1, <2>3, <1>2 DEF UntouchedOK
<1>9. FinishOK(r)'
  BY <1>2 DEF RunOK, FinishOK, Untouched, Before
<1>10. PassedOK(r)'
  BY <1>1, <1>4 DEF RunOK, PassedOK, Untouched
<1>11. ResultOK(r)'
  BY <1>1, <1>5 DEF RunOK, ResultOK, Untouched
<1>12. ExecuteOK(r)'
  BY DEF RunOK, ExecuteOK, Untouched
<1>13. RowOK(r)'
  BY <1>1 DEF RunOK, RowOK, Untouched, Before
<1> QED
  BY <1>6, <1>8, <1>9, <1>10, <1>11, <1>12, <1>13 DEF RunOK

\* Where the current stage lies, and where a run that advances gets.
LEMMA CurrentPosition ==
    ASSUME TypeOK, NEW r \in Runs, at[r] =< N(r)
    PROVE  ~Ahead(r, Current(r)) /\ ~Behind(r, Current(r))
<1>1. at[r] \in 1 .. N(r)
  BY CurrentFacts
<1> QED
  BY <1>1, OrderFacts DEF Ahead, Behind, Current

LEMMA AdvancePosition ==
    ASSUME TypeOK, NEW r \in Runs, at[r] =< N(r), pipeline' = pipeline, at'[r] = at[r] + 1
    PROVE  /\ \A s \in Stages : Ahead(r, s)' => Ahead(r, s) /\ s # Current(r)
           /\ \A s \in Stages : Behind(r, s)' => Behind(r, s) \/ s = Current(r)
           /\ at'[r] =< N(r) => /\ Current(r)' \in Stages
                                /\ Ahead(r, Current(r)') /\ Current(r)' # Current(r)
<1>1. at[r] \in 1 .. N(r) /\ N(r) \in Nat
  BY CurrentFacts, OrderFacts
<1>2. Order(r)' = Order(r) /\ N(r)' = N(r)
  BY DEF Order, Deterministic, N
<1>3. \A s \in Stages : Ahead(r, s)' => Ahead(r, s) /\ s # Current(r)
  BY <1>1, <1>2 DEF Ahead, Current
<1>4. \A s \in Stages : Behind(r, s)' => Behind(r, s) \/ s = Current(r)
  <2> SUFFICES ASSUME NEW s \in Stages, Behind(r, s)'
               PROVE  Behind(r, s) \/ s = Current(r)
    OBVIOUS
  <2>1. PICK i \in 1 .. N(r) : Order(r)[i] = s /\ i < at[r] + 1
    BY <1>2 DEF Behind
  <2> QED
    BY <1>1, <2>1 DEF Behind, Current
<1>5. ASSUME at'[r] =< N(r)
      PROVE  /\ Current(r)' \in Stages
             /\ Ahead(r, Current(r)') /\ Current(r)' # Current(r)
  <2>1. Current(r)' = Order(r)[at[r] + 1] /\ at[r] + 1 \in 1 .. N(r)
    BY <1>1, <1>2, <1>5 DEF Current
  <2>2. \A i \in 1 .. N(r) : Order(r)[i] = Order(r)[at[r] + 1] => i = at[r] + 1
    BY <2>1, OrderFacts
  <2> QED
    BY <1>1, <2>1, <2>2, OrderFacts DEF Ahead, Current
<1> QED
  BY <1>3, <1>4, <1>5

\* A run that leaves its current stage with a result.
LEMMA AdvanceStep ==
    ASSUME TypeOK, NEW r \in Runs, RunOK(r), phase[r] \in Working, Advance(r),
           UNCHANGED <<pipeline, real, row>>,
           \A s \in Stages \ {Current(r)} : res'[r][s] = res[r][s] /\ job'[r][s] = job[r][s],
           res'[r][Current(r)] # "none",
           Current(r) \in AlwaysRun \/ (~Deterministic(r) /\ Current(r) # Execute)
              => real[r][Current(r)] # "none",
           ResultOK(r)'
    PROVE  RunOK(r)'
<1>1. at[r] =< N(r) /\ at[r] \in Nat \ {0} /\ N(r) \in Nat
  BY OrderFacts DEF RunOK, PositionOK, TypeOK
<1>2. at'[r] = at[r] + 1
  BY DEF Advance, TypeOK
<1>3. phase'[r] = (IF at[r] = N(r) THEN "close" ELSE "stage")
  BY DEF Advance, TypeOK, N
<1>4. Order(r)' = Order(r) /\ N(r)' = N(r) /\ Deterministic(r)' = Deterministic(r)
  BY DEF Order, Deterministic, N
<1>5. PositionOK(r)'
  BY <1>1, <1>2, <1>3, <1>4 DEF PositionOK, Before, Working
<1>6. UntouchedOK(r)'
  <2>1. \A s \in Stages : Ahead(r, s)' => /\ res'[r][s] = "none" /\ real'[r][s] = "none"
                                          /\ job'[r][s] # "COMPLETED"
    BY <1>1, <1>2, AdvancePosition DEF RunOK, UntouchedOK
  <2>2. at'[r] =< N(r)' => /\ res'[r][Current(r)'] = "none" /\ real'[r][Current(r)'] = "none"
                           /\ job'[r][Current(r)'] # "COMPLETED"
    BY <1>1, <1>2, <1>4, AdvancePosition DEF RunOK, UntouchedOK
  <2> QED
    BY <2>1, <2>2 DEF UntouchedOK
<1>7. FinishOK(r)'
  BY <1>3 DEF FinishOK
<1>8. PassedOK(r)'
  BY <1>1, <1>2, <1>4, AdvancePosition DEF RunOK, PassedOK
<1>9. ExecuteOK(r)'
  BY DEF RunOK, ExecuteOK
<1>10. RowOK(r)'
  BY <1>4 DEF RunOK, RowOK, Working
<1> QED
  BY <1>5, <1>6, <1>7, <1>8, <1>9, <1>10 DEF RunOK

LEMMA SkipStep ==
    ASSUME TypeOK, NEW r \in Runs, RunOK(r), Skip(r)
    PROVE  RunOK(r)'
<1>1. at[r] =< N(r) /\ phase[r] = "stage"
  BY DEF RunOK, PositionOK, Skip, Working
<1>2. Current(r) \in Stages /\ Current(r) \in Names(Order(r))
  BY <1>1, CurrentFacts
<1>3. /\ res'[r][Current(r)] = "blocked"
      /\ \A s \in Stages \ {Current(r)} : res'[r][s] = res[r][s]
  BY <1>2 DEF Skip, TypeOK
<1>4. Order(r)' = Order(r) /\ Deterministic(r)' = Deterministic(r)
  BY DEF Skip, Order, Deterministic
<1>5. Blocked(r) /\ Current(r) \notin AlwaysRun /\ Deterministic(r)
  BY DEF Skip, Skipped, Blocked
<1>6. Blocked(r)'
  <2>1. PICK s \in Names(Order(r)) \ NonBlocking : res[r][s] \in {"failed", "blocked"}
    BY <1>5 DEF Blocked
  <2>2. s \in Stages
    BY <2>1, OrderFacts
  <2>3. res'[r][s] \in {"failed", "blocked"}
    BY <1>3, <2>1, <2>2
  <2> QED
    BY <1>4, <1>5, <2>1, <2>3 DEF Blocked
<1>7. ResultOK(r)'
  <2>1. \A s \in Stages : res'[r][s] \in Kinds \ {"failed"} => real'[r][s] = res'[r][s]
    BY <1>3 DEF RunOK, ResultOK, Skip, Kinds
  <2>2. \A s \in Stages : job'[r][s] = "COMPLETED" => real'[r][s] \in {"ok", "other"}
    BY DEF RunOK, ResultOK, Skip
  <2>3. \A s \in Stages : res'[r][s] = "blocked" => s \in Names(Order(r)')
    BY <1>2, <1>3, <1>4 DEF RunOK, ResultOK
  <2> QED
    BY <1>6, <2>1, <2>2, <2>3 DEF ResultOK
<1>8. Advance(r) /\ UNCHANGED <<pipeline, real, row>> /\ job' = job
  BY DEF Skip
<1> QED
  BY <1>1, <1>3, <1>5, <1>7, <1>8, AdvanceStep DEF Working

LEMMA FinishStep ==
    ASSUME TypeOK, NEW r \in Runs, RunOK(r), FinishJob(r)
    PROVE  RunOK(r)'
<1>1. at[r] =< N(r) /\ phase[r] \in {"finish", "refinish"}
  BY DEF RunOK, PositionOK, FinishJob, Working
<1>2. Current(r) \in Stages
  BY <1>1, CurrentFacts
<1>3. \/ job' = job
      \/ job' = [job EXCEPT ![r][Current(r)] = JobStatus(res[r][Current(r)])]
  BY DEF FinishJob, Finished
<1>4. \A s \in Stages \ {Current(r)} : job'[r][s] = job[r][s]
  BY <1>2, <1>3 DEF TypeOK
<1>5. res[r][Current(r)] \in (Kinds \cup {"blocked"})
  BY <1>1, <1>2 DEF RunOK, FinishOK, TypeOK
<1>6. JobStatus(res[r][Current(r)]) = "COMPLETED" => real[r][Current(r)] \in {"ok", "other"}
  <2> SUFFICES ASSUME JobStatus(res[r][Current(r)]) = "COMPLETED"
               PROVE  real[r][Current(r)] \in {"ok", "other"}
    OBVIOUS
  <2>1. res[r][Current(r)] \in {"ok", "other"}
    BY <1>5 DEF JobStatus, Kinds
  <2> QED
    BY <1>2, <2>1 DEF RunOK, ResultOK, Kinds
<1>7. ResultOK(r)'
  <2>1. \A s \in Stages : job'[r][s] = "COMPLETED" => real'[r][s] \in {"ok", "other"}
    BY <1>2, <1>3, <1>4, <1>6 DEF RunOK, ResultOK, FinishJob, TypeOK
  <2>2. Order(r)' = Order(r) /\ (Deterministic(r)' <=> Deterministic(r))
    BY DEF FinishJob, Order, Deterministic
  <2>3. res' = res /\ real' = real /\ (Blocked(r)' <=> Blocked(r))
    BY <2>2 DEF FinishJob, Blocked
  <2> QED
    BY <2>1, <2>2, <2>3 DEF RunOK, ResultOK
<1>8. Current(r) \in AlwaysRun \/ (~Deterministic(r) /\ Current(r) # Execute)
        => real[r][Current(r)] # "none"
  BY <1>1, StageAssumption DEF RunOK, FinishOK
<1>9. Advance(r) /\ UNCHANGED <<pipeline, real, row>> /\ res' = res
  BY DEF FinishJob
<1> QED
  BY <1>1, <1>4, <1>5, <1>7, <1>8, <1>9, AdvanceStep DEF Working, Kinds

\* A run that changes the result of its current stage and stays there.
LEMMA StayStep ==
    ASSUME TypeOK, NEW r \in Runs, RunOK(r), phase[r] \in Working,
           UNCHANGED <<pipeline, at, row>>,
           \A s \in Stages \ {Current(r)} : /\ res'[r][s] = res[r][s]
                                            /\ real'[r][s] = real[r][s]
                                            /\ job'[r][s] = job[r][s],
           phase'[r] \in {"finish", "refinish", "aborted"},
           FinishOK(r)', ResultOK(r)', ExecuteOK(r)'
    PROVE  RunOK(r)'
<1>1. at[r] =< N(r) /\ at[r] \in Nat \ {0} /\ N(r) \in Nat
  BY OrderFacts DEF RunOK, PositionOK, TypeOK
<1>2. Order(r)' = Order(r) /\ N(r)' = N(r) /\ Deterministic(r)' = Deterministic(r)
  BY DEF Order, Deterministic, N
<1>3. PositionOK(r)'
  BY <1>1, <1>2 DEF PositionOK, Before, Working
<1>4. \A s \in Stages : /\ Ahead(r, s)' => Ahead(r, s) /\ s # Current(r)
                        /\ Behind(r, s)' => Behind(r, s) /\ s # Current(r)
  BY <1>1, <1>2, CurrentPosition DEF Ahead, Behind
<1>5. UntouchedOK(r)'
  <2>1. \A s \in Stages : Ahead(r, s)' => /\ res'[r][s] = "none" /\ real'[r][s] = "none"
                                          /\ job'[r][s] # "COMPLETED"
    BY <1>4 DEF RunOK, UntouchedOK
  <2> QED
    BY <2>1 DEF UntouchedOK, Before
<1>6. PassedOK(r)'
  BY <1>2, <1>4 DEF RunOK, PassedOK
<1>7. RowOK(r)'
  BY DEF RunOK, RowOK, Working
<1> QED
  BY <1>3, <1>5, <1>6, <1>7 DEF RunOK

LEMMA RunStageStep ==
    ASSUME TypeOK, NEW r \in Runs, RunOK(r), RunStage(r)
    PROVE  RunOK(r)'
<1>1. at[r] =< N(r) /\ phase[r] = "run"
  BY DEF RunOK, PositionOK, RunStage, Working
<1>2. Current(r) \in Stages
  BY <1>1, CurrentFacts
<1>3. PICK kind \in Outcomes[Current(r)] :
          /\ real' = [real EXCEPT ![r][Current(r)] = kind]
          /\ res' = [res EXCEPT ![r][Current(r)] = IF kind = "raised" THEN "failed" ELSE kind]
          /\ phase' = [phase EXCEPT ![r] = IF kind = "raised" THEN "refinish" ELSE "finish"]
  BY DEF RunStage
<1>4. kind \in Kinds \cup {"raised"}
  BY <1>2, OutcomeAssumption DEF Kinds
<1>5. /\ \A s \in Stages \ {Current(r)} : res'[r][s] = res[r][s] /\ real'[r][s] = real[r][s]
      /\ real'[r][Current(r)] = kind
      /\ res'[r][Current(r)] = (IF kind = "raised" THEN "failed" ELSE kind)
      /\ phase'[r] = (IF kind = "raised" THEN "refinish" ELSE "finish")
  BY <1>2, <1>3 DEF TypeOK
<1>6. UNCHANGED <<pipeline, at, row, job>> /\ Current(r)' = Current(r)
  BY DEF RunStage, Current, Order, Deterministic
<1>7. res[r][Current(r)] = "none" /\ real[r][Current(r)] = "none"
      /\ job[r][Current(r)] # "COMPLETED"
  BY <1>1 DEF RunOK, UntouchedOK
<1>8. FinishOK(r)'
  <2>1. real'[r][Current(r)] # "none" /\ res'[r][Current(r)] # "none"
    BY <1>4, <1>5 DEF Kinds
  <2>2. phase'[r] = "refinish" => res'[r][Current(r)] = "failed"
    BY <1>5
  <2> QED
    BY <1>6, <2>1, <2>2 DEF FinishOK
<1>9. ResultOK(r)'
  <2>1. Order(r)' = Order(r) /\ (Deterministic(r)' <=> Deterministic(r))
    BY <1>6 DEF Order, Deterministic
  <2>2. \A s \in Stages : res'[r][s] \in Kinds \ {"failed"} => real'[r][s] = res'[r][s]
    BY <1>4, <1>5 DEF RunOK, ResultOK
  <2>3. \A s \in Stages : job'[r][s] = "COMPLETED" => real'[r][s] \in {"ok", "other"}
    BY <1>5, <1>6, <1>7 DEF RunOK, ResultOK
  <2>4. \A s \in Stages : res'[r][s] = "blocked" => res[r][s] = "blocked"
    BY <1>4, <1>5 DEF Kinds
  <2>5. Blocked(r) => Blocked(r)'
    <3>1. ASSUME NEW s \in Names(Order(r)) \ NonBlocking, res[r][s] \in {"failed", "blocked"}
          PROVE  res'[r][s] \in {"failed", "blocked"}
      <4>1. s \in Stages /\ s # Current(r)
        BY <1>7, <3>1, OrderFacts
      <4> QED
        BY <1>5, <3>1, <4>1
    <3> QED
      BY <2>1, <3>1 DEF Blocked
  <2> QED
    BY <2>1, <2>2, <2>3, <2>4, <2>5 DEF RunOK, ResultOK
<1>10. ExecuteOK(r)'
  <2> SUFFICES ASSUME real'[r][Execute] # "none"
               PROVE  /\ real'[r][Monitor] \in {"ok", "shadow"}
                      /\ real'[r][Risk] \in {"ok", "degraded"}
    BY DEF ExecuteOK
  <2>1. Monitor \in Stages /\ Risk \in Stages /\ Execute \in Stages
        /\ Monitor # Execute /\ Risk # Execute
    BY OrderFacts DEF Monitor, Risk, Execute
  <2>2. CASE Current(r) = Execute
    <3>1. ExecutionReady(r)
      BY <2>2 DEF RunStage
    <3>2. real[r][Monitor] = res[r][Monitor] /\ real[r][Risk] = res[r][Risk]
      BY <2>1, <3>1 DEF ExecutionReady, RunOK, ResultOK, Kinds
    <3> QED
      BY <1>5, <2>1, <2>2, <3>1, <3>2 DEF ExecutionReady
  <2>3. CASE Current(r) # Execute
    <3>1. real[r][Execute] # "none"
      BY <1>5, <2>1, <2>3
    <3>2. real[r][Monitor] \in {"ok", "shadow"} /\ real[r][Risk] \in {"ok", "degraded"}
      BY <3>1 DEF RunOK, ExecuteOK
    <3>3. Current(r) # Monitor /\ Current(r) # Risk
      BY <1>7, <3>2
    <3> QED
      BY <1>5, <2>1, <3>2, <3>3
  <2> QED
    BY <2>2, <2>3
<1>11. phase'[r] \in {"finish", "refinish", "aborted"}
  BY <1>5
<1> QED
  BY <1>1, <1>5, <1>6, <1>8, <1>9, <1>10, <1>11, StayStep DEF Working

LEMMA NotReadyStep ==
    ASSUME TypeOK, NEW r \in Runs, RunOK(r), NotReady(r)
    PROVE  RunOK(r)'
<1>1. at[r] =< N(r) /\ phase[r] = "run" /\ Current(r) = Execute
  BY DEF RunOK, PositionOK, NotReady, Working
<1>2. Execute \in Stages /\ Execute \in Names(Order(r)) /\ Execute \notin NonBlocking
  BY OrderFacts, StageAssumption
<1>3. /\ res'[r][Execute] = "blocked" /\ phase'[r] = "finish"
      /\ \A s \in Stages \ {Execute} : res'[r][s] = res[r][s]
      /\ UNCHANGED <<pipeline, at, row, job, real>>
  BY <1>2 DEF NotReady, TypeOK
<1>4. Order(r)' = Order(r) /\ (Deterministic(r)' <=> Deterministic(r))
      /\ Current(r)' = Current(r)
  BY <1>3 DEF Order, Deterministic, Current
<1>5. FinishOK(r)'
  BY <1>1, <1>3, <1>4 DEF FinishOK
<1>6. ResultOK(r)'
  <2>1. Deterministic(r) => Blocked(r)'
    BY <1>2, <1>3, <1>4 DEF Blocked
  <2> QED
    BY <1>2, <1>3, <1>4, <2>1 DEF RunOK, ResultOK, Kinds
<1>7. ExecuteOK(r)'
  BY <1>3 DEF RunOK, ExecuteOK
<1> QED
  BY <1>1, <1>3, <1>5, <1>6, <1>7, StayStep DEF Working

LEMMA FinishFailsStep ==
    ASSUME TypeOK, NEW r \in Runs, RunOK(r), FinishFails(r)
    PROVE  RunOK(r)'
<1>1. at[r] =< N(r) /\ phase[r] \in {"finish", "refinish"}
  BY DEF RunOK, PositionOK, FinishFails, Working
<1>2. Current(r) \in Stages /\ Current(r) \in Names(Order(r))
  BY <1>1, CurrentFacts
<1>3. \/ job' = job
      \/ job' = [job EXCEPT ![r][Current(r)] = JobStatus(res[r][Current(r)])]
  BY DEF FinishFails, Finished
<1>4. \A s \in Stages \ {Current(r)} : job'[r][s] = job[r][s]
  BY <1>2, <1>3 DEF TypeOK
<1>5. \/ /\ phase'[r] = "refinish" /\ res'[r][Current(r)] = "failed"
      \/ phase'[r] = "aborted" /\ res' = res
  BY <1>2 DEF FinishFails, TypeOK
<1>6. /\ \A s \in Stages \ {Current(r)} : res'[r][s] = res[r][s]
      /\ res'[r][Current(r)] \in {"failed", res[r][Current(r)]}
  BY <1>2 DEF FinishFails, TypeOK
<1>7. UNCHANGED <<pipeline, at, row, real>>
  BY DEF FinishFails
<1>8. Order(r)' = Order(r) /\ (Deterministic(r)' <=> Deterministic(r))
      /\ Current(r)' = Current(r)
  BY <1>7 DEF Order, Deterministic, Current
<1>9. FinishOK(r)'
  BY <1>1, <1>5, <1>7, <1>8 DEF RunOK, FinishOK
<1>10. ResultOK(r)'
  <2>1. res[r][Current(r)] \in Kinds \cup {"blocked"}
    BY <1>1, <1>2 DEF RunOK, FinishOK, TypeOK
  <2>2. JobStatus(res[r][Current(r)]) = "COMPLETED" => real[r][Current(r)] \in {"ok", "other"}
    <3> SUFFICES ASSUME JobStatus(res[r][Current(r)]) = "COMPLETED"
                 PROVE  real[r][Current(r)] \in {"ok", "other"}
      OBVIOUS
    <3>1. res[r][Current(r)] \in {"ok", "other"}
      BY <2>1 DEF JobStatus, Kinds
    <3> QED
      BY <1>2, <3>1 DEF RunOK, ResultOK, Kinds
  <2>3. \A s \in Stages : job'[r][s] = "COMPLETED" => real'[r][s] \in {"ok", "other"}
    BY <1>2, <1>3, <1>4, <1>7, <2>2 DEF RunOK, ResultOK, TypeOK
  <2>4. \A s \in Stages : res'[r][s] \in Kinds \ {"failed"} => real'[r][s] = res'[r][s]
    BY <1>6, <1>7 DEF RunOK, ResultOK
  <2>5. \A s \in Stages : res'[r][s] = "blocked" => res[r][s] = "blocked"
    BY <1>6
  <2>6. Blocked(r) => Blocked(r)'
    <3>1. ASSUME NEW s \in Names(Order(r)) \ NonBlocking, res[r][s] \in {"failed", "blocked"}
          PROVE  res'[r][s] \in {"failed", "blocked"}
      <4>1. s \in Stages
        BY OrderFacts
      <4> QED
        BY <1>6, <3>1, <4>1
    <3> QED
      BY <1>8, <3>1 DEF Blocked
  <2> QED
    BY <1>8, <2>3, <2>4, <2>5, <2>6 DEF RunOK, ResultOK
<1>11. ExecuteOK(r)'
  BY <1>7 DEF RunOK, ExecuteOK
<1>12. phase'[r] \in {"finish", "refinish", "aborted"}
  BY <1>5
<1> QED
  BY <1>1, <1>4, <1>6, <1>7, <1>9, <1>10, <1>11, <1>12, StayStep DEF Working

\* The end of a run: COMPLETED is written when every stage returned well.
LEMMA CloseStep ==
    ASSUME TypeOK, NEW r \in Runs, RunOK(r), phase[r] = "close",
           Closed(r) \/ row' = row, phase'[r] \in {"done", "aborted"},
           UNCHANGED <<job, run>>
    PROVE  RunOK(r)'
<1>1. Order(r)' = Order(r) /\ N(r)' = N(r) /\ (Deterministic(r)' <=> Deterministic(r))
      /\ Current(r)' = Current(r)
  BY DEF run, Order, Deterministic, N, Current
<1>2. at[r] = N(r) + 1 /\ N(r) \in Nat
  BY OrderFacts DEF RunOK, PositionOK
<1>3. \A s \in Names(Order(r)) : s \in Stages /\ res[r][s] # "none"
  <2> SUFFICES ASSUME NEW i \in 1 .. N(r)
               PROVE  Order(r)[i] \in Stages /\ res[r][Order(r)[i]] # "none"
    BY OrderFacts
  <2>1. Order(r)[i] \in Stages /\ Behind(r, Order(r)[i])
    BY <1>2, OrderFacts DEF Behind
  <2> QED
    BY <2>1 DEF RunOK, PassedOK
<1>4. PositionOK(r)'
  BY <1>1, <1>2 DEF PositionOK, Before, Working, run
<1>5. UntouchedOK(r)'
  BY <1>1 DEF RunOK, UntouchedOK, Ahead, run, Before
<1>6. FinishOK(r)'
  BY DEF FinishOK
<1>7. PassedOK(r)'
  BY <1>1 DEF RunOK, PassedOK, Behind, run
<1>8. ResultOK(r)'
  BY <1>1 DEF RunOK, ResultOK, Blocked, run
<1>9. ExecuteOK(r)'
  BY DEF RunOK, ExecuteOK, run
<1>10. RowOK(r)'
  <2>1. row[r] # "COMPLETED"
    BY DEF RunOK, RowOK
  <2> SUFFICES ASSUME Closed(r), RunStatus(r) = "COMPLETED"
               PROVE  /\ \A s \in Names(Order(r)) : real[r][s] \in {"ok", "other"}
                      /\ real[r][Monitor] = "ok" /\ real[r][Risk] = "ok"
    BY <1>1, <2>1 DEF RowOK, Closed, run, TypeOK
  <2>2. \A s \in Names(Order(r)) : res[r][s] \notin {"failed", "blocked"}
    <3>1. CASE Deterministic(r)
      <4>1. ~Blocked(r) /\ ~Degraded(r)
        BY <3>1 DEF RunStatus
      <4> QED
        BY <1>3, <3>1, <4>1 DEF Blocked, Degraded, RunOK, ResultOK
    <3>2. CASE ~Deterministic(r)
      <4>1. CycleStatus(r) = "COMPLETED" /\ Order(r) = CycleOrder
        BY <3>2 DEF RunStatus, Order
      <4>2. {s \in Names(CycleOrder) : res[r][s] \in {"failed", "blocked"}} = {}
        BY <4>1 DEF CycleStatus
      <4> QED
        BY <4>1, <4>2
    <3> QED
      BY <3>1, <3>2
  <2>3. ~Degraded(r)
    <3>1. CASE Deterministic(r)
      BY <3>1 DEF RunStatus
    <3>2. CASE ~Deterministic(r)
      <4>1. CycleStatus(r) = "COMPLETED"
        BY <3>2 DEF RunStatus
      <4> QED
        BY <4>1 DEF CycleStatus
    <3> QED
      BY <3>1, <3>2
  <2>4. \A s \in Names(Order(r)) : res[r][s] \in {"ok", "other"}
    BY <1>3, <2>2, <2>3 DEF Degraded, TypeOK, Kinds
  <2>5. \A s \in Names(Order(r)) : real[r][s] \in {"ok", "other"}
    BY <1>3, <2>4 DEF RunOK, ResultOK, Kinds
  <2>6. real[r][Monitor] \in {"ok", "shadow"} /\ real[r][Risk] \in {"ok", "degraded"}
    BY <2>5, OrderFacts DEF RunOK, ExecuteOK
  <2> QED
    BY <2>5, <2>6, OrderFacts
<1> QED
  BY <1>4, <1>5, <1>6, <1>7, <1>8, <1>9, <1>10 DEF RunOK

LEMMA InitSafety == Init => \A r \in Runs : RunOK(r)
<1> SUFFICES ASSUME Init, NEW r \in Runs PROVE RunOK(r)
  OBVIOUS
<1>1. TypeOK
  BY InitType
<1>2. at[r] = 1 /\ phase[r] = "idle" /\ N(r) \in Nat /\ N(r) >= 1
  BY OrderFacts DEF Init
<1>3. \A s \in Stages : res[r][s] = "none" /\ real[r][s] = "none" /\ job[r][s] = "NONE"
  BY DEF Init
<1>4. Current(r) \in Stages /\ Execute \in Stages
  BY <1>1, <1>2, CurrentFacts, OrderFacts
<1>5. \A s \in Stages : ~Behind(r, s)
  BY <1>2, OrderFacts DEF Behind
<1>6. row[r] = "NONE"
  BY DEF Init
<1>7. PositionOK(r)
  BY <1>2 DEF PositionOK, Before, Working
<1>8. UntouchedOK(r)
  BY <1>3, <1>4 DEF UntouchedOK
<1>9. FinishOK(r) /\ PassedOK(r)
  BY <1>2, <1>5 DEF FinishOK, PassedOK
<1>10. ResultOK(r)
  BY <1>3 DEF ResultOK, Kinds
<1>11. ExecuteOK(r) /\ RowOK(r)
  BY <1>3, <1>4, <1>6 DEF ExecuteOK, RowOK
<1> QED
  BY <1>7, <1>8, <1>9, <1>10, <1>11 DEF RunOK

\* The steps of one actor leave the stages of the others alone.
LEMMA SweptUntouched ==
    ASSUME TypeOK, NEW q \in Runs \cup {Startup}, Swept(q), NEW r \in Runs
    PROVE  /\ \A s \in Stages : job'[r][s] = "COMPLETED" => job[r][s] = "COMPLETED"
           /\ row'[r] = "COMPLETED" => row[r] = "COMPLETED"
  BY DEF Swept

LEMMA RecoveryStep ==
    ASSUME TypeOK, NEW r \in Runs, RunOK(r), NEW q \in Runs \cup {Startup},
           Begin(q) \/ ReadStale(q) \/ CommitStale(q) \/ LedgerDown(q) \/ Crash(q)
    PROVE  Untouched(r)
<1>1. UNCHANGED run
  BY DEF Begin, ReadStale, CommitStale, LedgerDown, Crash
<1>2. /\ \A s \in Stages : job'[r][s] = "COMPLETED" => job[r][s] = "COMPLETED"
      /\ row'[r] = "COMPLETED" => row[r] = "COMPLETED"
  <2>1. CASE Begin(q) \/ ReadStale(q) \/ Crash(q)
    BY <2>1 DEF Begin, ReadStale, Crash
  <2>2. CASE CommitStale(q)
    BY <2>2, SweptUntouched DEF CommitStale
  <2>3. CASE LedgerDown(q)
    <3>1. CASE UNCHANGED <<row, age, job>>
      BY <3>1
    <3>2. CASE Swept(q)
      BY <3>2, SweptUntouched
    <3>3. CASE Opened(q) /\ UNCHANGED job
      BY <3>3 DEF Opened, TypeOK
    <3> QED
      BY <2>3, <3>1, <3>2, <3>3 DEF LedgerDown
  <2> QED
    BY <2>1, <2>2, <2>3
<1>3. \/ phase'[r] = phase[r]
      \/ phase[r] \in Before /\ phase'[r] \in Before \cup {"stage"}
      \/ phase[r] \notin {"done", "aborted"} /\ phase'[r] \in {"aborted", "lost"}
  <2>1. CASE q = r
    <3>1. r # Startup
      BY RunsAssumption
    <3>2. CASE Begin(q) \/ ReadStale(q)
      BY <2>1, <3>2 DEF Begin, ReadStale, TypeOK, Before
    <3>3. CASE CommitStale(q)
      BY <2>1, <3>1, <3>3 DEF CommitStale, After, TypeOK, Before
    <3>4. CASE LedgerDown(q)
      BY <2>1, <3>1, <3>4 DEF LedgerDown, TypeOK, Before
    <3>5. CASE Crash(q)
      BY <2>1, <3>1, <3>5 DEF Crash, TypeOK
    <3> QED
      BY <3>2, <3>3, <3>4, <3>5
  <2>2. CASE q # r
    BY <2>2 DEF Begin, ReadStale, CommitStale, LedgerDown, Crash, TypeOK
  <2> QED
    BY <2>1, <2>2
<1> QED
  BY <1>1, <1>2, <1>3 DEF Untouched, run

LEMMA OtherRun ==
    ASSUME TypeOK, \A x \in Runs : PositionOK(x), NEW r \in Runs,
           NEW x \in Runs \ {r}, RunStep(x) \/ Fault(x)
    PROVE  Untouched(r)
<1>1. phase[x] \in Working => at[x] =< N(x)
  BY DEF PositionOK
<1>2. pipeline' = pipeline
  BY DEF RunStep, Fault, OpenRow, Skip, StartJob, RunStage, NotReady, FinishJob, Close,
         StartJobFails, FinishFails, CloseFails, run
<1>3. at'[r] = at[r]
  BY DEF RunStep, Fault, OpenRow, Skip, StartJob, RunStage, NotReady, FinishJob, Close,
         StartJobFails, FinishFails, CloseFails, run, Advance, TypeOK
<1>4. phase'[r] = phase[r]
  BY DEF RunStep, Fault, OpenRow, Skip, StartJob, RunStage, NotReady, FinishJob, Close,
         StartJobFails, FinishFails, CloseFails, run, Advance, TypeOK
<1>5. res'[r] = res[r]
  BY DEF RunStep, Fault, OpenRow, Skip, StartJob, RunStage, NotReady, FinishJob, Close,
         StartJobFails, FinishFails, CloseFails, run, TypeOK
<1>6. real'[r] = real[r]
  BY DEF RunStep, Fault, OpenRow, Skip, StartJob, RunStage, NotReady, FinishJob, Close,
         StartJobFails, FinishFails, CloseFails, run, TypeOK
<1>7. job'[r] = job[r]
  BY DEF RunStep, Fault, OpenRow, Skip, StartJob, RunStage, NotReady, FinishJob, Close,
         StartJobFails, FinishFails, CloseFails, run, Finished, TypeOK
<1>8. row'[r] = row[r]
  BY DEF RunStep, Fault, OpenRow, Skip, StartJob, RunStage, NotReady, FinishJob, Close,
         StartJobFails, FinishFails, CloseFails, run, Opened, Closed, TypeOK
<1> QED
  BY <1>2, <1>3, <1>4, <1>5, <1>6, <1>7, <1>8 DEF Untouched

LEMMA OwnStep ==
    ASSUME TypeOK, NEW r \in Runs, RunOK(r), RunStep(r) \/ Fault(r)
    PROVE  RunOK(r)'
<1>1. phase[r] = "stage" => Current(r) \in Stages
  BY CurrentFacts DEF RunOK, PositionOK, Working
<1>2. CASE OpenRow(r)
  <2>1. Untouched(r)
    BY <1>2 DEF OpenRow, Opened, Untouched, TypeOK, Before
  <2> QED
    BY <2>1, FrameStep
<1>3. CASE StartJob(r)
  <2>1. \A s \in Stages : job'[r][s] = "COMPLETED" => job[r][s] = "COMPLETED"
    BY <1>1, <1>3 DEF StartJob, TypeOK
  <2>2. Untouched(r)
    BY <1>3, <2>1 DEF StartJob, Untouched, TypeOK
  <2> QED
    BY <2>2, FrameStep
<1>4. CASE StartJobFails(r)
  <2>1. job' = job \/ job' = [job EXCEPT ![r][Current(r)] = "RUNNING"]
    BY <1>4 DEF StartJobFails
  <2>2. \A s \in Stages : job'[r][s] = "COMPLETED" => job[r][s] = "COMPLETED"
    BY <1>1, <1>4, <2>1 DEF StartJobFails, TypeOK
  <2>3. phase[r] = "stage" /\ phase'[r] \in {"aborted", "run"}
    BY <1>4 DEF StartJobFails, TypeOK
  <2>4. Untouched(r)
    BY <1>4, <2>2, <2>3 DEF StartJobFails, Untouched, run
  <2> QED
    BY <2>4, FrameStep
<1>5. CASE Close(r)
  <2>1. (Closed(r) \/ row' = row) /\ phase[r] = "close" /\ phase'[r] = "done"
        /\ UNCHANGED <<job, run>>
    BY <1>5 DEF Close, TypeOK
  <2> QED
    BY <2>1, CloseStep
<1>6. CASE CloseFails(r)
  <2>1. (Closed(r) \/ row' = row) /\ phase[r] = "close" /\ phase'[r] = "aborted"
        /\ UNCHANGED <<job, run>>
    BY <1>6 DEF CloseFails, TypeOK
  <2> QED
    BY <2>1, CloseStep
<1> QED
  BY <1>2, <1>3, <1>4, <1>5, <1>6, SkipStep, RunStageStep, NotReadyStep, FinishStep,
     FinishFailsStep DEF RunStep, Fault

LEMMA StepSafety ==
    ASSUME IInv, [Next]_vars
    PROVE  IInv'
<1> USE DEF IInv
<1>1. \A r \in Runs : PositionOK(r)
  BY DEF RunOK
<1>2. TypeOK'
  BY <1>1, StepType
<1>3. ASSUME NEW r \in Runs
      PROVE  RunOK(r)'
  <2>1. CASE UNCHANGED vars \/ Tick
    <3>1. Untouched(r)
      BY <2>1 DEF vars, Tick, run, Untouched
    <3> QED
      BY <3>1, FrameStep
  <2>2. ASSUME NEW q \in Runs \cup {Startup},
               Begin(q) \/ ReadStale(q) \/ CommitStale(q) \/ LedgerDown(q) \/ Crash(q)
        PROVE  RunOK(r)'
    BY <2>2, RecoveryStep, FrameStep
  <2>3. ASSUME NEW x \in Runs, RunStep(x) \/ Fault(x)
        PROVE  RunOK(r)'
    <3>1. CASE x = r
      BY <2>3, <3>1, OwnStep
    <3>2. CASE x # r
      <4>1. Untouched(r)
        BY <1>1, <2>3, <3>2, OtherRun
      <4> QED
        BY <4>1, FrameStep
    <3> QED
      BY <3>1, <3>2
  <2> QED
    BY <2>1, <2>2, <2>3 DEF Next
<1> QED
  BY <1>2, <1>3

LEMMA Invariance == Spec => []IInv
<1>1. Init => IInv
  BY InitType, InitSafety DEF IInv
<1> QED
  BY <1>1, StepSafety, PTL DEF Spec

\* The rows, phases and results of every run keep their types, and a run is
\* never beyond the end of its order (PipelineRun, JobRun, results).
THEOREM LedgerTypeCorrect == Spec => []TypeOK
<1>1. IInv => TypeOK
  BY DEF IInv
<1> QED
  BY <1>1, Invariance, PTL

\* No run executes entries unless its own monitor and risk stages really
\* succeeded, whatever the ledger refused (_execution_ready).
THEOREM NoUnsafeExecution == Spec => []ExecuteAfterSafety
<1>1. IInv => ExecuteAfterSafety
  BY DEF IInv, RunOK, ExecuteOK, ExecuteAfterSafety
<1> QED
  BY <1>1, Invariance, PTL

\* Every run that reaches its end has attempted its safety stages
\* (ALWAYS_RUN_SAFETY_STAGES).
THEOREM SafetyAttempted == Spec => []SafetyStagesRun
<1>1. IInv => SafetyStagesRun
  <2> SUFFICES ASSUME IInv, NEW r \in Runs, phase[r] \in {"close", "done"}, NEW i \in 1 .. N(r),
                      \/ Order(r)[i] \in AlwaysRun
                      \/ ~Deterministic(r) /\ Order(r)[i] # Execute
               PROVE  real[r][Order(r)[i]] # "none"
    BY OrderFacts DEF SafetyStagesRun
  <2>1. Behind(r, Order(r)[i]) /\ Order(r)[i] \in Stages
    BY OrderFacts DEF Behind, IInv, RunOK, PositionOK
  <2> QED
    BY <2>1 DEF IInv, RunOK, PassedOK
<1> QED
  BY <1>1, Invariance, PTL

\* A stage recorded COMPLETED returned well, and a run reported ready ran all of
\* its stages well: no recovery, refused commit or lost process makes the ledger
\* better than the run (finish_job, finish_pipeline, readiness).
THEOREM LedgerTrue == Spec => []LedgerNotOptimistic
<1>1. IInv => LedgerNotOptimistic
  BY DEF IInv, RunOK, ResultOK, RowOK, LedgerNotOptimistic, Ready
<1> QED
  BY <1>1, Invariance, PTL
=============================================================================
