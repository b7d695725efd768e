----------------------------- MODULE PipelineRuns -----------------------------
(***************************************************************************)
(* The two paper pipelines and their run ledger.  A deterministic run or a *)
(* pipeline-cycle run executes its stages in order and records a row for  *)
(* the run and one for each stage, in a database that may refuse a commit  *)
(* (with or without having taken it) at any write.  A process may be lost  *)
(* during its run; every run and every start of a process first fails the  *)
(* rows that have been RUNNING for too long, from what it read before.     *)
(*                                                                         *)
(* What a stage returns is one of a few kinds, the shapes _failed,         *)
(* _degraded and _execution_ready tell apart: "ok"; "shadow", a monitor    *)
(* degraded by the Strategy Paper books only; "degraded"; "other", a status*)
(* none of them knows; "failed"; and "raised", an exception.               *)
(***************************************************************************)
EXTENDS Naturals, Sequences

CONSTANTS
    Runs,           \* generations, one run each
    Startup,        \* the recovery at the start of a process
    StageOrder,     \* stages of the deterministic pipeline
    CycleOrder,     \* stages of pipeline_cycle
    AlwaysRun,      \* ALWAYS_RUN_SAFETY_STAGES
    NonBlocking,    \* NON_BLOCKING_STRATEGY_STAGES
    Required,       \* PIPELINE_REQUIRED_STAGES of the readiness endpoint
    Outcomes,       \* Outcomes[s]: kinds of result stage s can have
    StaleAfter      \* STALE_PIPELINE_AFTER_SECONDS

Names(order) == {order[i] : i \in DOMAIN order}
Stages == Names(StageOrder) \cup Names(CycleOrder)
Monitor == "paper_trade_monitor"
Risk    == "risk"
Execute == "paper_trade_execute"

Distinct(order) == \A i, j \in DOMAIN order : order[i] = order[j] => i = j

ASSUME RunsAssumption == Startup \notin Runs
ASSUME StageAssumption ==
    /\ StageOrder \in Seq(STRING) /\ CycleOrder \in Seq(STRING)
    /\ StageOrder # <<>> /\ CycleOrder # <<>>
    /\ Distinct(StageOrder) /\ Distinct(CycleOrder)
    /\ {Monitor, Risk, Execute} \subseteq Names(StageOrder) \cap Names(CycleOrder)
    /\ {Monitor, Risk, Execute} \cap NonBlocking = {}
    /\ Execute \notin AlwaysRun
ASSUME OutcomeAssumption ==
    \A s \in Stages : /\ Outcomes[s] # {}
                      /\ Outcomes[s] \subseteq {"ok", "shadow", "degraded", "other",
                                                "failed", "raised"}
ASSUME StaleAssumption == StaleAfter \in Nat

VARIABLES
    pipeline, \* pipeline[r]: the job that starts run r
    row,     \* row[r]: status of the PipelineRun row
    age,     \* age[r]: time since it was started
    job,     \* job[r][s]: status of the JobRun row of stage s
    phase,   \* phase[q]: where the run, or the recovery at startup, is
    at,      \* at[r]: position of the current stage
    ledger,  \* ledger[r]: the run has a ledger session and a row
    rec,     \* rec[r]: the current stage has a job_record
    res,     \* res[r][s]: results[s], as its kind
    real,    \* history: real[r][s] is what the body of stage s really did
    found    \* found[q]: stale runs and running jobs a recovery has read

vars == <<pipeline, row, age, job, phase, at, ledger, rec, res, real, found>>
run  == <<pipeline, at, ledger, rec, res, real>>

-----------------------------------------------------------------------------
Deterministic(r) == pipeline[r] = "deterministic_pipeline"
Order(r) == IF Deterministic(r) THEN StageOrder ELSE CycleOrder
Current(r) == Order(r)[at[r]]
Kinds == {"ok", "shadow", "degraded", "other", "failed"}
Oldest == StaleAfter + 1        \* ages beyond the threshold are alike
NothingFound == [runs |-> {}, jobs |-> {}]

TypeOK ==
    /\ pipeline \in [Runs -> {"deterministic_pipeline", "pipeline_cycle"}]
    /\ row \in [Runs -> {"NONE", "RUNNING", "COMPLETED", "DEGRADED", "PARTIAL", "FAILED"}]
    /\ age \in [Runs -> 0 .. Oldest]
    /\ job \in [Runs -> [Stages -> {"NONE", "RUNNING", "COMPLETED", "DEGRADED",
                                    "BLOCKED", "FAILED"}]]
    /\ phase \in [Runs \cup {Startup} ->
                    {"idle", "recover", "sweep", "open", "stage", "run", "finish",
                     "refinish", "close", "done", "aborted", "lost"}]
    /\ at \in [Runs -> Nat \ {0}] /\ \A r \in Runs : at[r] =< Len(Order(r)) + 1
    /\ ledger \in [Runs -> BOOLEAN]
    /\ rec \in [Runs -> BOOLEAN]
    /\ res \in [Runs -> [Stages -> Kinds \cup {"none", "blocked"}]]
    /\ real \in [Runs -> [Stages -> Kinds \cup {"none", "raised"}]]
    /\ found \in [Runs \cup {Startup} -> [runs : SUBSET Runs, jobs : SUBSET (Runs \X Stages)]]

Init ==
    /\ pipeline \in [Runs -> {"deterministic_pipeline", "pipeline_cycle"}]
    /\ row = [r \in Runs |-> "NONE"]
    /\ age = [r \in Runs |-> 0]
    /\ job = [r \in Runs |-> [s \in Stages |-> "NONE"]]
    /\ phase = [q \in Runs \cup {Startup} |-> "idle"]
    /\ at = [r \in Runs |-> 1]
    /\ ledger = [r \in Runs |-> FALSE]
    /\ rec = [r \in Runs |-> FALSE]
    /\ res = [r \in Runs |-> [s \in Stages |-> "none"]]
    /\ real = [r \in Runs |-> [s \in Stages |-> "none"]]
    /\ found = [q \in Runs \cup {Startup} |-> NothingFound]

\* Mutant: the ages are not held at the last one that matters.
OlderBeyond(a) == IF a =< Oldest THEN a + 1 ELSE a

Older(a) == IF a < Oldest THEN a + 1 ELSE a

\* Time passes for the rows that were started.
Tick ==
    /\ age' = [r \in Runs |-> IF row[r] = "NONE" THEN age[r] ELSE Older(age[r])]
    /\ UNCHANGED <<row, job, phase, run, found>>

-----------------------------------------------------------------------------
(* Recovery of abandoned rows, and the opening of a run's own row          *)

\* A run, or a process, starts; the startup recovery may come again.
Begin(q) ==
    /\ phase[q] = "idle"
    /\ phase' = [phase EXCEPT ![q] = "recover"]
    /\ UNCHANGED <<row, age, job, run, found>>

After(q) == IF q = Startup THEN "idle" ELSE "open"

\* Mutant: only runs that hold a running job are found.
StaleWithJob == {r \in Runs : /\ row[r] = "RUNNING" /\ age[r] > StaleAfter
                              /\ \E s \in Stages : job[r][s] = "RUNNING"}

StaleRuns == {r \in Runs : row[r] = "RUNNING" /\ age[r] > StaleAfter}
RunningJobs(R) == {x \in R \X Stages : job[x[1]][x[2]] = "RUNNING"}

\* recover_stale_running reads the stale runs and the jobs running in them.
ReadStale(q) ==
    /\ phase[q] = "recover"
    /\ found' = [found EXCEPT ![q] = [runs |-> StaleRuns, jobs |-> RunningJobs(StaleRuns)]]
    /\ phase' = [phase EXCEPT ![q] = "sweep"]
    /\ UNCHANGED <<row, age, job, run>>

\* Its commit fails them, whatever has become of them since.
Swept(q) ==
    /\ row' = [r \in Runs |-> IF r \in found[q].runs THEN "FAILED" ELSE row[r]]
    /\ job' = [r \in Runs |-> [s \in Stages |->
                    IF <<r, s>> \in found[q].jobs THEN "FAILED" ELSE job[r][s]]]

CommitStale(q) ==
    /\ phase[q] = "sweep"
    /\ Swept(q)
    /\ found' = [found EXCEPT ![q] = NothingFound]
    /\ phase' = [phase EXCEPT ![q] = After(q)]
    /\ UNCHANGED <<age, run>>

\* start_pipeline adds the RUNNING row of a new generation.
Opened(r) ==
    /\ row' = [row EXCEPT ![r] = "RUNNING"]
    /\ age' = [age EXCEPT ![r] = 0]

OpenRow(r) ==
    /\ phase[r] = "open"
    /\ Opened(r)
    /\ ledger' = [ledger EXCEPT ![r] = TRUE]
    /\ phase' = [phase EXCEPT ![r] = "stage"]
    /\ UNCHANGED <<pipeline, job, at, rec, res, real, found>>

\* Without its ledger a run goes on unrecorded; a startup recovery ends.  The
\* write that failed may still have been committed.
LedgerDown(q) ==
    /\ phase[q] \in {"recover", "sweep", "open"}
    /\ \/ UNCHANGED <<row, age, job>>
       \/ phase[q] = "sweep" /\ Swept(q) /\ UNCHANGED age
       \/ phase[q] = "open" /\ Opened(q) /\ UNCHANGED job
    /\ found' = [found EXCEPT ![q] = NothingFound]
    /\ phase' = [phase EXCEPT ![q] = IF q = Startup THEN "idle" ELSE "stage"]
    /\ UNCHANGED run

-----------------------------------------------------------------------------
(* Stages                                                                  *)

\* blocked: a blocking stage of the deterministic run failed, or its
\* execution was not ready.
Blocked(r) == /\ Deterministic(r)
              /\ \E s \in Names(Order(r)) \ NonBlocking : res[r][s] \in {"failed", "blocked"}

\* Mutant: a blocked run skips its safety stages too.
SkippedWhenBlocked(r) == Blocked(r)

Skipped(r) == Blocked(r) /\ Current(r) \notin AlwaysRun

Advance(r) ==
    /\ at' = [at EXCEPT ![r] = @ + 1]
    /\ rec' = [rec EXCEPT ![r] = FALSE]
    /\ phase' = [phase EXCEPT ![r] = IF at[r] = Len(Order(r)) THEN "close" ELSE "stage"]

Skip(r) ==
    /\ phase[r] = "stage" /\ Skipped(r)
    /\ res' = [res EXCEPT ![r][Current(r)] = "blocked"]
    /\ Advance(r)
    /\ UNCHANGED <<pipeline, row, age, job, ledger, real, found>>

\* start_job, or no ledger to record in.
StartJob(r) ==
    /\ phase[r] = "stage" /\ ~Skipped(r)
    /\ job' = IF ledger[r] THEN [job EXCEPT ![r][Current(r)] = "RUNNING"] ELSE job
    /\ rec' = [rec EXCEPT ![r] = ledger[r]]
    /\ phase' = [phase EXCEPT ![r] = "run"]
    /\ UNCHANGED <<pipeline, row, age, at, ledger, res, real, found>>

\* A failed start_job ends a deterministic run; a pipeline-cycle run goes on
\* without the row.
StartJobFails(r) ==
    /\ phase[r] = "stage" /\ ~Skipped(r) /\ ledger[r]
    /\ \/ UNCHANGED job
       \/ job' = [job EXCEPT ![r][Current(r)] = "RUNNING"]
    /\ phase' = [phase EXCEPT ![r] = IF Deterministic(r) THEN "aborted" ELSE "run"]
    /\ UNCHANGED <<row, age, run, found>>

\* Mutant: any degraded monitor lets the execution go on.
ReadyIfDegraded(r) == /\ res[r][Monitor] \in {"ok", "shadow", "degraded"}
                      /\ res[r][Risk] \in {"ok", "degraded"}

\* _execution_ready: the monitor degraded by the Strategy Paper books alone,
\* and risk degraded for some symbols, are good enough.
ExecutionReady(r) == /\ res[r][Monitor] \in {"ok", "shadow"}
                     /\ res[r][Risk] \in {"ok", "degraded"}

RunStage(r) ==
    /\ phase[r] = "run"
    /\ Current(r) = Execute => ExecutionReady(r)
    /\ \E kind \in Outcomes[Current(r)] :
        /\ real' = [real EXCEPT ![r][Current(r)] = kind]
        /\ res' = [res EXCEPT ![r][Current(r)] = IF kind = "raised" THEN "failed" ELSE kind]
        /\ phase' = [phase EXCEPT ![r] = IF kind = "raised" THEN "refinish" ELSE "finish"]
    /\ UNCHANGED <<pipeline, row, age, job, at, ledger, rec, found>>

NotReady(r) ==
    /\ phase[r] = "run" /\ Current(r) = Execute /\ ~ExecutionReady(r)
    /\ res' = [res EXCEPT ![r][Execute] = "blocked"]
    /\ phase' = [phase EXCEPT ![r] = "finish"]
    /\ UNCHANGED <<pipeline, row, age, job, at, ledger, rec, real, found>>

JobStatus(kind) ==
    CASE kind = "failed"                 -> "FAILED"
      [] kind = "blocked"                -> "BLOCKED"
      [] kind \in {"shadow", "degraded"} -> "DEGRADED"
      [] OTHER                           -> "COMPLETED"

Finished(r) == job' = [job EXCEPT ![r][Current(r)] = JobStatus(res[r][Current(r)])]

FinishJob(r) ==
    /\ phase[r] \in {"finish", "refinish"}
    /\ IF rec[r] THEN Finished(r) ELSE UNCHANGED job
    /\ Advance(r)
    /\ UNCHANGED <<pipeline, row, age, ledger, res, real, found>>

\* The first failure is caught as a failure of the stage, whose status is
\* written again; a failure of that write ends the run.
FinishFails(r) ==
    /\ phase[r] \in {"finish", "refinish"} /\ rec[r]
    /\ Finished(r) \/ UNCHANGED job
    /\ IF phase[r] = "finish"
       THEN /\ res' = [res EXCEPT ![r][Current(r)] = "failed"]
            /\ phase' = [phase EXCEPT ![r] = "refinish"]
       ELSE /\ phase' = [phase EXCEPT ![r] = "aborted"]
            /\ UNCHANGED res
    /\ UNCHANGED <<pipeline, row, age, at, ledger, rec, real, found>>

-----------------------------------------------------------------------------
(* End of a run                                                            *)

Degraded(r) == \E s \in Names(Order(r)) :
                  \/ res[r][s] \in {"shadow", "degraded"}
                  \/ res[r][s] = "failed" /\ s \in NonBlocking

CycleStatus(r) ==
    LET failed == {s \in Names(CycleOrder) : res[r][s] \in {"failed", "blocked"}}
    IN  CASE failed = Names(CycleOrder) -> "FAILED"
          [] failed # {}                -> "PARTIAL"
          [] Degraded(r)                -> "DEGRADED"
          [] OTHER                      -> "COMPLETED"

\* Mutant: optional branches do not degrade the run.
StatusIfUnblocked(r) == IF Blocked(r) THEN "FAILED" ELSE "COMPLETED"

RunStatus(r) ==
    IF ~Deterministic(r) THEN CycleStatus(r)
    ELSE IF Blocked(r) THEN "FAILED" ELSE IF Degraded(r) THEN "DEGRADED" ELSE "COMPLETED"

Closed(r) == row' = [row EXCEPT ![r] = RunStatus(r)]

Close(r) ==
    /\ phase[r] = "close"
    /\ IF ledger[r] THEN Closed(r) ELSE UNCHANGED row
    /\ phase' = [phase EXCEPT ![r] = "done"]
    /\ UNCHANGED <<age, job, run, found>>

CloseFails(r) ==
    /\ phase[r] = "close" /\ ledger[r]
    /\ Closed(r) \/ UNCHANGED row
    /\ phase' = [phase EXCEPT ![r] = "aborted"]
    /\ UNCHANGED <<age, job, run, found>>

\* The process of a run, or one that is starting, is lost.
Crash(q) ==
    /\ phase[q] \notin {"idle", "done", "aborted", "lost"}
    /\ phase' = [phase EXCEPT ![q] = IF q = Startup THEN "idle" ELSE "lost"]
    /\ found' = [found EXCEPT ![q] = NothingFound]
    /\ UNCHANGED <<row, age, job, run>>

-----------------------------------------------------------------------------
RunStep(r) == \/ OpenRow(r) \/ Skip(r) \/ StartJob(r) \/ RunStage(r) \/ NotReady(r)
              \/ FinishJob(r) \/ Close(r)
Fault(r) == StartJobFails(r) \/ FinishFails(r) \/ CloseFails(r)

Next == \/ Tick
        \/ \E q \in Runs \cup {Startup} :
              Begin(q) \/ ReadStale(q) \/ CommitStale(q) \/ LedgerDown(q) \/ Crash(q)
        \/ \E r \in Runs : RunStep(r) \/ Fault(r)

Spec == Init /\ [][Next]_vars

\* Time passes, and recoveries come again: processes start, and every new run
\* begins with one.  The database does not refuse all of them.
Fairness ==
    /\ WF_age(Tick)
    /\ WF_vars(Begin(Startup))
    /\ SF_vars(ReadStale(Startup)) /\ SF_vars(CommitStale(Startup))

FairSpec == Spec /\ Fairness

-----------------------------------------------------------------------------
(* Properties                                                              *)

\* Entries are executed only in a run whose monitor really left no official
\* position unprotected and whose risk stage really authorised plans, whatever
\* became of the ledger (_execution_ready).
ExecuteAfterSafety ==
    \A r \in Runs : real[r][Execute] # "none" =>
        real[r][Monitor] \in {"ok", "shadow"} /\ real[r][Risk] \in {"ok", "degraded"}

\* A run that reaches its end has attempted its safety stages, also after a
\* blocking failure (ALWAYS_RUN_SAFETY_STAGES); pipeline_cycle attempts all of
\* its stages but the execution.
SafetyStagesRun ==
    \A r \in Runs : phase[r] \in {"close", "done"} =>
        \A s \in Names(Order(r)) :
            s \in AlwaysRun \/ (~Deterministic(r) /\ s # Execute) => real[r][s] # "none"

\* What the readiness endpoint reports ready for paper execution.
Ready(r) == row[r] = "COMPLETED" /\ \A s \in Required : job[r][s] = "COMPLETED"

\* The ledger is never better than the run: a stage recorded COMPLETED returned
\* without a failure or a degradation, and a run reported ready executed after
\* every stage did.
LedgerNotOptimistic ==
    \A r \in Runs :
        /\ \A s \in Stages : job[r][s] = "COMPLETED" => real[r][s] \in {"ok", "other"}
        /\ Ready(r) => /\ \A s \in Names(Order(r)) : real[r][s] \in {"ok", "other"}
                       /\ real[r][Monitor] = "ok" /\ real[r][Risk] = "ok"

\* Every run that is RUNNING in the ledger ends there: by itself, or because a
\* later recovery fails it when its process is lost or hangs.
RowResolved == \A r \in Runs : row[r] = "RUNNING" ~> row[r] # "RUNNING"
=============================================================================
