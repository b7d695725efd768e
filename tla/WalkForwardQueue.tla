--------------------------- MODULE WalkForwardQueue ---------------------------
(***************************************************************************)
(* The durable queue of walk-forward validations.  API sessions submit and *)
(* poll jobs, worker processes claim the oldest queued one, run it and     *)
(* write its result; a worker may be lost at any point.  The database is   *)
(* PostgreSQL (claims take FOR UPDATE SKIP LOCKED) and the process roles    *)
(* are "api" and "worker": nothing runs in the web process.                *)
(*                                                                         *)
(* A job's id is its parameters and the five-minute bucket it was submitted*)
(* in.  Rows carry the age of their latest timestamp instead of the        *)
(* timestamp.  API sessions read a row and write it back later, in one      *)
(* transaction but without a lock; what they write are the columns whose    *)
(* value differs from the one they read.                                   *)
(***************************************************************************)
EXTENDS Integers, FiniteSets

CONSTANTS
    Scopes,        \* canonical parameters of a validation
    Workers,       \* worker processes, one queue tick at a time each
    Clients,       \* API sessions
    Buckets,       \* bound: buckets in which jobs are submitted
    BucketLength,  \* 300 s
    QueuedStale,   \* QUEUED_STALE_AFTER_SECONDS, 120 s
    RunningStale,  \* RUNNING_STALE_AFTER_SECONDS, 1200 s
    Retention,     \* JOB_RETENTION_DAYS
    MaxAttempts,   \* bound: times one row is queued
    None           \* no job

Jobs == Scopes \X (0 .. Buckets - 1)

ASSUME BucketAssumption ==
    /\ Buckets \in Nat
    /\ BucketLength \in Nat \ {0}
    /\ MaxAttempts \in Nat
ASSUME StaleAssumption ==
    /\ QueuedStale \in Nat /\ RunningStale \in Nat /\ Retention \in Nat
    /\ QueuedStale < BucketLength
    /\ BucketLength =< RunningStale
    /\ RunningStale < Retention
ASSUME NoJobAssumption == None \notin Jobs
ASSUME ClientsAssumption == IsFiniteSet(Clients)

VARIABLES
    now,       \* time since the first bucket began, held at its end
    job,       \* job[j]: the row walk_forward_jobs[j]
    attempts,  \* history: attempts[j] is how often row j was queued
    session,   \* session[c]: what API session c has read and will write
    worker     \* worker[w]: the job worker w is busy with

vars == <<now, job, attempts, session, worker>>

-----------------------------------------------------------------------------
Ended == {"COMPLETED", "FAILED"}
Active == {"QUEUED", "RUNNING"}
MaxAge == Retention + 1        \* ages beyond every threshold are alike
Last == Buckets * BucketLength

Row == [status: {"NONE"} \cup Active \cup Ended, age: 0 .. MaxAge]
NoRow == [status |-> "NONE", age |-> 0]
Fresh(status) == [status |-> status, age |-> 0]

Session == [pc: {"idle", "submitting", "expiring"}, job: Jobs \cup {None},
            read: {"NONE"} \cup Active \cup Ended, age: 0 .. MaxAge]
NoSession == [pc |-> "idle", job |-> None, read |-> "NONE", age |-> 0]

Worker == [pc: {"idle", "claimed", "running"},
           job: Jobs \cup {None}, attempt: 0 .. MaxAttempts]
IdleWorker == [pc |-> "idle", job |-> None, attempt |-> 0]

TypeOK ==
    /\ now \in 0 .. Last
    /\ job \in [Jobs -> Row]
    /\ attempts \in [Jobs -> 0 .. MaxAttempts]
    /\ session \in [Clients -> Session]
    /\ worker \in [Workers -> Worker]

Init ==
    /\ now = 0
    /\ job = [j \in Jobs |-> NoRow]
    /\ attempts = [j \in Jobs |-> 0]
    /\ session = [c \in Clients |-> NoSession]
    /\ worker = [w \in Workers |-> IdleWorker]

Exists(j) == job[j].status # "NONE"

\* Mutant: only queued rows are given up.
StaleWhenQueued(row) == row.status = "QUEUED" /\ row.age > QueuedStale

\* _stale_job_reason: a row was abandoned in the queue, or by its worker.
Stale(row) == \/ row.status = "QUEUED" /\ row.age > QueuedStale
              \/ row.status = "RUNNING" /\ row.age > RunningStale

-----------------------------------------------------------------------------

Older(age) == IF age < MaxAge THEN age + 1 ELSE age

\* Time passes for rows and for sessions that have not written yet.
Tick ==
    /\ now' = IF now < Last THEN now + 1 ELSE now
    /\ job' = [j \in Jobs |-> IF Exists(j)
                              THEN [job[j] EXCEPT !.age = Older(@)] ELSE NoRow]
    /\ session' = [c \in Clients |-> IF session[c].pc = "idle" THEN NoSession
                                     ELSE [session[c] EXCEPT !.age = Older(@)]]
    /\ UNCHANGED <<attempts, worker>>

-----------------------------------------------------------------------------
(* API sessions                                                            *)

\* Sessions about to queue job j: with them the bound is respected.
Submitting(j) == {c \in Clients : session[c].pc = "submitting" /\ session[c].job = j}

\* create_walk_forward_job reads the row of its bucket.  A job that is alive
\* or has completed is returned as it is, and nothing will be written.
\* create_automatic_walk_forward_job comes here once its own checks agree.
Submit(c, j) ==
    /\ session[c].pc = "idle"
    /\ j[2] = now \div BucketLength
    /\ attempts[j] + Cardinality(Submitting(j)) < MaxAttempts
    /\ job[j].status \in {"NONE", "FAILED"} \/ Stale(job[j])
    /\ session' = [session EXCEPT ![c] =
          [pc |-> "submitting", job |-> j, read |-> job[j].status, age |-> 0]]
    /\ UNCHANGED <<now, job, attempts, worker>>

Requeue(c, j) ==
    /\ job' = [job EXCEPT ![j] = [status |-> "QUEUED", age |-> session[c].age]]
    /\ attempts' = [attempts EXCEPT ![j] = @ + 1]

\* Its commit.  An insert yields to a row that appeared meanwhile, and an
\* update of a row that is gone fails.  A row read as queued is not written a
\* status: it is younger again, or left to whoever took it.  Any other row is
\* queued again whatever it has become.
CommitSubmit(c) ==
    LET j == session[c].job
        read == session[c].read
    IN  /\ session[c].pc = "submitting"
        /\ session' = [session EXCEPT ![c] = NoSession]
        /\ \/ /\ (read = "NONE") = Exists(j)
              /\ UNCHANGED <<job, attempts>>
           \/ /\ read = "QUEUED" /\ Exists(j)
              /\ job' = [job EXCEPT ![j].age =
                            IF job[j].status = "QUEUED" THEN session[c].age ELSE @]
              /\ UNCHANGED attempts
           \/ /\ read # "QUEUED"
              /\ (read = "NONE") # Exists(j)
              /\ Requeue(c, j)
        /\ UNCHANGED <<now, worker>>

\* expire_stale_walk_forward_job, on every poll of a job, and the same step
\* of create_automatic_walk_forward_job, read a row and find it stale.
Expire(c, j) ==
    /\ session[c].pc = "idle"
    /\ Stale(job[j])
    /\ session' = [session EXCEPT ![c] =
          [pc |-> "expiring", job |-> j, read |-> job[j].status, age |-> 0]]
    /\ UNCHANGED <<now, job, attempts, worker>>

CommitExpire(c) ==
    LET j == session[c].job
    IN  /\ session[c].pc = "expiring"
        /\ session' = [session EXCEPT ![c] = NoSession]
        /\ job' = IF Exists(j)
                  THEN [job EXCEPT ![j] =
                          [status |-> "FAILED", age |-> session[c].age]]
                  ELSE job
        /\ UNCHANGED <<now, attempts, worker>>

-----------------------------------------------------------------------------
(* Workers                                                                 *)

\* Mutant: the claim does not write the row's status.
StillQueued == Fresh("QUEUED")

\* Mutant: the claim writes a status that no reader of the table knows.
StartedRow == Fresh("STARTED")

ClaimedRow == Fresh("RUNNING")

\* claim_next_walk_forward_job: the oldest queued row, stale or not.
Claim(w) ==
    /\ worker[w].pc = "idle"
    /\ \E j \in Jobs :
          /\ job[j].status = "QUEUED"
          /\ \A i \in Jobs : job[i].status = "QUEUED" => job[i].age =< job[j].age
          /\ job' = [job EXCEPT ![j] = ClaimedRow]
          /\ worker' = [worker EXCEPT ![w] =
                [pc |-> "claimed", job |-> j, attempt |-> attempts[j]]]
    /\ UNCHANGED <<now, attempts, session>>

\* _update_job writes a row whatever its status, and raises if it is gone.
Update(j, status) ==
    job' = IF Exists(j) THEN [job EXCEPT ![j] = Fresh(status)] ELSE job

\* _run_walk_forward_validation_job begins by marking the job running again.
MarkRunning(w) ==
    LET j == worker[w].job
    IN  /\ worker[w].pc = "claimed"
        /\ Update(j, "RUNNING")
        /\ worker' = [worker EXCEPT ![w] =
              IF Exists(j) THEN [@ EXCEPT !.pc = "running"] ELSE IdleWorker]
        /\ UNCHANGED <<now, attempts, session>>

\* The replay ends, with its report or with an exception.
Finish(w) ==
    /\ worker[w].pc = "running"
    /\ \E outcome \in Ended : Update(worker[w].job, outcome)
    /\ worker' = [worker EXCEPT ![w] = IdleWorker]
    /\ UNCHANGED <<now, attempts, session>>

\* The worker process is lost and another one takes its place.
Crash(w) ==
    /\ worker[w].pc # "idle"
    /\ worker' = [worker EXCEPT ![w] = IdleWorker]
    /\ UNCHANGED <<now, job, attempts, session>>

\* purge_expired_walk_forward_jobs, between two jobs of a worker.
Purge(w) ==
    LET expired == {j \in Jobs : job[j].status \in Ended /\ job[j].age > Retention}
    IN  /\ worker[w].pc = "idle"
        /\ expired # {}
        /\ job' = [j \in Jobs |-> IF j \in expired THEN NoRow ELSE job[j]]
        /\ UNCHANGED <<now, attempts, session, worker>>

-----------------------------------------------------------------------------
Poll == \E c \in Clients, j \in Jobs : Expire(c, j)

WorkerStep(w) == Claim(w) \/ MarkRunning(w) \/ Finish(w) \/ Crash(w) \/ Purge(w)

Next ==
    \/ Tick
    \/ \E c \in Clients : \/ \E j \in Jobs : Submit(c, j)
                          \/ CommitSubmit(c)
                          \/ CommitExpire(c)
    \/ Poll
    \/ \E w \in Workers : WorkerStep(w)

Spec == Init /\ [][Next]_vars

(* Time passes, the dashboard polls a job until it has ended, and an API    *)
(* session commits what it read.  Workers owe nothing: they may be gone.   *)
FairSpec ==
    /\ Spec
    /\ WF_vars(Tick)
    /\ WF_vars(Poll)
    /\ \A c \in Clients : WF_vars(CommitSubmit(c) \/ CommitExpire(c))

-----------------------------------------------------------------------------
(* Properties                                                              *)

Busy == {w \in Workers : worker[w].pc # "idle"}

\* claim_next_walk_forward_job: a queued replay is reserved for one worker.
\* No two workers are busy with the same queueing of a job, although rows
\* are requeued, expired by pollers and marked again by late workers.
OneWorkerPerAttempt ==
    \A v, w \in Busy :
        worker[v].job = worker[w].job /\ worker[v].attempt = worker[w].attempt
            => v = w

\* Clients poll a job until it has completed or failed: every job that is
\* queued or running ends some time, though workers may be lost at any point.
JobResolved ==
    \A j \in Jobs : job[j].status \in Active ~> job[j].status \notin Active

=============================================================================
