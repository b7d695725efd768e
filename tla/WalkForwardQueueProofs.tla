------------------------ MODULE WalkForwardQueueProofs ------------------------
(***************************************************************************)
(* Theorems about WalkForwardQueue, for every number of scopes, workers,   *)
(* sessions and buckets and for all thresholds.                            *)
(***************************************************************************)
EXTENDS WalkForwardQueue, FiniteSetTheorems, TLAPS

-----------------------------------------------------------------------------
(* Type correctness                                                        *)

\* Whoever is busy is busy with a job.
Named ==
    /\ \A c \in Clients : session[c].pc # "idle" => session[c].job \in Jobs
    /\ \A w \in Workers : worker[w].pc # "idle" => worker[w].job \in Jobs

\* Every session about to queue a job finds room under the bound.
Room == \A j \in Jobs : attempts[j] + Cardinality(Submitting(j)) =< MaxAttempts

TypeInv == TypeOK /\ Named /\ Room

LEMMA SubmittingFinite ==
    ASSUME NEW j
    PROVE  /\ IsFiniteSet(Submitting(j)) /\ Cardinality(Submitting(j)) \in Nat
           /\ IsFiniteSet(Submitting(j)') /\ Cardinality(Submitting(j)') \in Nat
<1>1. Submitting(j) \subseteq Clients /\ Submitting(j)' \subseteq Clients
    BY DEF Submitting
<1>2. IsFiniteSet(Submitting(j)) /\ IsFiniteSet(Submitting(j)')
    BY <1>1, ClientsAssumption, FS_Subset
<1> QED
    BY <1>2, FS_CardinalityType

LEMMA ElementTypes ==
    /\ NoRow \in Row /\ NoSession \in Session /\ IdleWorker \in Worker
    /\ \A status \in Active \cup Ended : Fresh(status) \in Row
    /\ \A age \in 0 .. MaxAge : Older(age) \in 0 .. MaxAge
    /\ MaxAge \in Nat
<1>1. MaxAge \in Nat
    BY StaleAssumption DEF MaxAge
<1> QED
    BY <1>1, BucketAssumption
    DEF NoRow, Row, NoSession, Session, IdleWorker, Worker, Fresh, Older, Active, Ended

LEMMA InitTypes == Init => TypeInv
<1> SUFFICES ASSUME Init PROVE TypeInv
    OBVIOUS
<1>1. Last \in Nat
    BY BucketAssumption DEF Last
<1>2. TypeOK
    BY <1>1, ElementTypes, BucketAssumption DEF Init, TypeOK
<1>3. Named
    BY DEF Init, Named, NoSession, IdleWorker
<1>4. \A j \in Jobs : Submitting(j) = {}
    BY DEF Init, Submitting, NoSession
<1>5. Room
    BY <1>4, FS_EmptySet, BucketAssumption DEF Init, Room
<1> QED
    BY <1>2, <1>3, <1>5 DEF TypeInv

LEMMA TickTypes == TypeInv /\ Tick => TypeInv'
<1> SUFFICES ASSUME TypeInv, Tick PROVE TypeInv'
    OBVIOUS
<1> USE DEF TypeInv
<1>1. now' \in 0 .. Last
    BY BucketAssumption DEF TypeOK, Tick, Last
<1>2. job' \in [Jobs -> Row]
    <2> SUFFICES ASSUME NEW j \in Jobs, Exists(j)
                 PROVE  [job[j] EXCEPT !.age = Older(@)] \in Row
        BY ElementTypes DEF Tick
    <2> QED
        BY ElementTypes DEF TypeOK, Row
<1>3. session' \in [Clients -> Session]
    <2> SUFFICES ASSUME NEW c \in Clients
                 PROVE  [session[c] EXCEPT !.age = Older(@)] \in Session
        BY ElementTypes DEF Tick
    <2> QED
        BY ElementTypes DEF TypeOK, Session
<1>4. \A c \in Clients : /\ session'[c].pc = session[c].pc
                         /\ session[c].pc # "idle" => session'[c].job = session[c].job
    BY DEF Tick, TypeOK, Session, NoSession
<1>5. Named'
    BY <1>4 DEF Named, Tick
<1>6. \A j \in Jobs : Submitting(j)' = Submitting(j)
    BY <1>4 DEF Submitting
<1>7. Room'
    BY <1>6 DEF Room, Tick
<1> QED
    BY <1>1, <1>2, <1>3, <1>5, <1>7 DEF TypeOK, Tick

LEMMA SubmitTypes ==
    ASSUME TypeInv, NEW c \in Clients, NEW j \in Jobs, Submit(c, j)
    PROVE  TypeInv'
<1> USE DEF TypeInv
<1> DEFINE reader == [pc |-> "submitting", job |-> j, read |-> job[j].status, age |-> 0]
<1>1. session' = [session EXCEPT ![c] = reader] /\ session[c].pc = "idle"
      /\ UNCHANGED <<now, job, attempts, worker>>
    BY DEF Submit
<1>2. reader \in Session
    BY ElementTypes DEF TypeOK, Row, Session
<1>3. TypeOK'
    BY <1>1, <1>2 DEF TypeOK
<1>4. Named'
    BY <1>1 DEF Named, TypeOK
<1>5. Submitting(j)' = Submitting(j) \cup {c}
    BY <1>1 DEF Submitting, TypeOK
<1>6. \A i \in Jobs \ {j} : Submitting(i)' = Submitting(i)
    BY <1>1 DEF Submitting, TypeOK
<1>7. Cardinality(Submitting(j)') =< Cardinality(Submitting(j)) + 1
    <2>1. IsFiniteSet(Submitting(j)) /\ Cardinality(Submitting(j)) \in Nat
        BY SubmittingFinite
    <2>2. Cardinality(Submitting(j) \cup {c}) =
              IF c \in Submitting(j) THEN Cardinality(Submitting(j))
                                     ELSE Cardinality(Submitting(j)) + 1
        BY <2>1, FS_AddElement
    <2> QED
        BY <1>5, <2>1, <2>2
<1>8. attempts[j] + Cardinality(Submitting(j)) < MaxAttempts
    BY DEF Submit
<1>9. attempts[j] + Cardinality(Submitting(j)') =< MaxAttempts
    BY <1>7, <1>8, SubmittingFinite, BucketAssumption DEF TypeOK
<1>10. Room'
    BY <1>1, <1>6, <1>9 DEF Room
<1> QED
    BY <1>3, <1>4, <1>10

\* A session that ends leaves room for others.
LEMMA SessionEnds ==
    ASSUME TypeInv, NEW c \in Clients,
           session' = [session EXCEPT ![c] = NoSession]
    PROVE  /\ session' \in [Clients -> Session]
           /\ \A d \in Clients : session'[d].pc # "idle" => session'[d].job \in Jobs
           /\ \A j \in Jobs : /\ Submitting(j)' = Submitting(j) \ {c}
                              /\ Cardinality(Submitting(j)') =<
                                     Cardinality(Submitting(j))
<1> USE DEF TypeInv
<1>1. session' \in [Clients -> Session]
    BY ElementTypes DEF TypeOK
<1>2. \A d \in Clients : session'[d].pc # "idle" => session'[d].job \in Jobs
    BY DEF Named, NoSession, TypeOK
<1>3. ASSUME NEW j \in Jobs
      PROVE  Submitting(j)' = Submitting(j) \ {c}
    BY DEF Submitting, NoSession, TypeOK
<1>4. ASSUME NEW j \in Jobs
      PROVE  Cardinality(Submitting(j)') =< Cardinality(Submitting(j))
    BY <1>3, SubmittingFinite, FS_RemoveElement
<1> QED
    BY <1>1, <1>2, <1>3, <1>4

LEMMA RoomStays ==
    ASSUME TypeInv, NEW c \in Clients,
           session' = [session EXCEPT ![c] = NoSession], UNCHANGED attempts
    PROVE  Room'
<1> SUFFICES ASSUME NEW j \in Jobs
             PROVE  attempts[j] + Cardinality(Submitting(j)') =< MaxAttempts
    BY DEF Room
<1>1. /\ Cardinality(Submitting(j)) \in Nat
      /\ Cardinality(Submitting(j)') \in Nat
    BY SubmittingFinite
<1>2. Cardinality(Submitting(j)') =< Cardinality(Submitting(j))
    BY SessionEnds
<1>3. attempts[j] \in Nat /\ MaxAttempts \in Nat
      /\ attempts[j] + Cardinality(Submitting(j)) =< MaxAttempts
    BY BucketAssumption DEF TypeInv, TypeOK, Room
<1> QED
    BY <1>1, <1>2, <1>3

LEMMA CommitSubmitTypes ==
    ASSUME TypeInv, NEW c \in Clients, CommitSubmit(c)
    PROVE  TypeInv'
<1> USE DEF TypeInv
<1>1. /\ session' = [session EXCEPT ![c] = NoSession]
      /\ session[c].pc = "submitting"
      /\ UNCHANGED <<now, worker>>
    BY DEF CommitSubmit
<1>j. PICK j \in Jobs : j = session[c].job
    BY <1>1 DEF Named
<1>2. session[c].age \in 0 .. MaxAge
    BY DEF TypeOK, Session
<1>3. Named'
    BY <1>1, SessionEnds DEF Named
<1>4. ASSUME UNCHANGED attempts, job' \in [Jobs -> Row]
      PROVE  TypeInv'
    <2>1. Room'
        BY <1>1, <1>4, RoomStays
    <2> QED
        BY <1>1, <1>3, <1>4, <2>1, SessionEnds DEF TypeOK
<1>5. CASE UNCHANGED <<job, attempts>>
    BY <1>4, <1>5 DEF TypeOK
<1>6. CASE /\ job' = [job EXCEPT ![j].age =
                          IF job[j].status = "QUEUED" THEN session[c].age ELSE @]
           /\ UNCHANGED attempts
    <2>1. [job[j] EXCEPT !.age =
              IF job[j].status = "QUEUED" THEN session[c].age ELSE @] \in Row
        BY <1>2 DEF TypeOK, Row
    <2>2. job' \in [Jobs -> Row]
        BY <1>6, <2>1 DEF TypeOK
    <2> QED
        BY <1>4, <1>6, <2>2
<1>7. CASE Requeue(c, j)
    <2>1. job' \in [Jobs -> Row]
        BY <1>2, <1>7 DEF Requeue, TypeOK, Row, Active
    <2>2. Cardinality(Submitting(j)') = Cardinality(Submitting(j)) - 1
        <3>1. c \in Submitting(j)
            BY <1>1, <1>j DEF Submitting
        <3>2. Submitting(j)' = Submitting(j) \ {c}
            BY <1>1, SessionEnds
        <3>3. IsFiniteSet(Submitting(j))
            BY SubmittingFinite
        <3> QED
            BY <3>1, <3>2, <3>3, FS_RemoveElement
    <2>3. attempts'[j] = attempts[j] + 1 /\ \A i \in Jobs \ {j} : attempts'[i] = attempts[i]
        BY <1>2, <1>7 DEF Requeue, TypeOK
    <2>4. ASSUME NEW i \in Jobs
          PROVE  attempts'[i] + Cardinality(Submitting(i)') =< MaxAttempts
        <3>1. attempts[i] \in Nat /\ attempts[i] + Cardinality(Submitting(i)) =< MaxAttempts
            BY DEF TypeOK, Room
        <3>2. /\ Cardinality(Submitting(i)) \in Nat
              /\ Cardinality(Submitting(i)') \in Nat
              /\ MaxAttempts \in Nat
            BY SubmittingFinite, BucketAssumption
        <3>3. Cardinality(Submitting(i)') =< Cardinality(Submitting(i))
            BY <1>1, SessionEnds
        <3>4. CASE i = j
            BY <2>2, <2>3, <3>1, <3>2, <3>4
        <3>5. CASE i # j
            BY <2>3, <3>1, <3>2, <3>3, <3>5
        <3> QED
            BY <3>4, <3>5
    <2>5. attempts' \in [Jobs -> 0 .. MaxAttempts]
        <3>1. ASSUME NEW i \in Jobs
              PROVE  attempts'[i] \in 0 .. MaxAttempts
            <4>1. attempts[i] \in Nat /\ attempts[j] \in Nat /\ MaxAttempts \in Nat
                BY BucketAssumption DEF TypeOK
            <4>2. attempts'[i] \in Nat
                BY <2>3, <4>1
            <4>3. /\ Cardinality(Submitting(i)') \in Nat
                  /\ attempts'[i] + Cardinality(Submitting(i)') =< MaxAttempts
                BY <2>4, SubmittingFinite
            <4> QED
                BY <4>1, <4>2, <4>3
        <3>2. attempts' = [i \in Jobs |-> attempts'[i]]
            BY <1>7 DEF Requeue, TypeOK
        <3> QED
            BY <3>1, <3>2
    <2> QED
        BY <1>1, <1>3, <2>1, <2>4, <2>5, SessionEnds DEF TypeOK, Room
<1> QED
    BY <1>j, <1>5, <1>6, <1>7 DEF CommitSubmit

LEMMA ExpireTypes ==
    ASSUME TypeInv, NEW c \in Clients, NEW j \in Jobs, Expire(c, j)
    PROVE  TypeInv'
<1> USE DEF TypeInv
<1> DEFINE reader == [pc |-> "expiring", job |-> j, read |-> job[j].status, age |-> 0]
<1>1. session' = [session EXCEPT ![c] = reader] /\ session[c].pc = "idle"
      /\ UNCHANGED <<now, job, attempts, worker>>
    BY DEF Expire
<1>2. reader \in Session
    BY ElementTypes DEF TypeOK, Row, Session
<1>3. TypeOK'
    BY <1>1, <1>2 DEF TypeOK
<1>4. Named'
    BY <1>1 DEF Named, TypeOK
<1>5. \A i \in Jobs : Submitting(i)' = Submitting(i)
    BY <1>1 DEF Submitting, TypeOK
<1>6. Room'
    BY <1>1, <1>5 DEF Room
<1> QED
    BY <1>3, <1>4, <1>6

LEMMA CommitExpireTypes ==
    ASSUME TypeInv, NEW c \in Clients, CommitExpire(c)
    PROVE  TypeInv'
<1> USE DEF TypeInv
<1>1. /\ session' = [session EXCEPT ![c] = NoSession]
      /\ session[c].pc = "expiring"
      /\ UNCHANGED <<now, attempts, worker>>
    BY DEF CommitExpire
<1>2. [status |-> "FAILED", age |-> session[c].age] \in Row
    BY DEF TypeOK, Session, Row, Ended
<1>3. job' \in [Jobs -> Row]
    BY <1>2 DEF CommitExpire, TypeOK
<1>4. Named'
    BY <1>1, SessionEnds DEF Named
<1>5. Room'
    BY <1>1, RoomStays
<1> QED
    BY <1>1, <1>3, <1>4, <1>5, SessionEnds DEF TypeOK

LEMMA WorkerTypes ==
    ASSUME TypeInv, NEW w \in Workers, WorkerStep(w)
    PROVE  TypeInv'
<1> USE DEF TypeInv
<1>1. UNCHANGED <<now, attempts, session>>
    BY DEF WorkerStep, Claim, MarkRunning, Finish, Crash, Purge
<1>2. Room'
    BY <1>1 DEF Room, Submitting
<1>3. job' \in [Jobs -> Row]
    <2>1. ASSUME NEW j, NEW status \in Active \cup Ended, Update(j, status)
          PROVE  job' \in [Jobs -> Row]
        BY <2>1, ElementTypes DEF Update, TypeOK
    <2>2. CASE Claim(w)
        BY <2>2, ElementTypes DEF Claim, ClaimedRow, Active, TypeOK
    <2>3. CASE MarkRunning(w)
        BY <2>1, <2>3 DEF MarkRunning, Active
    <2>4. CASE Finish(w)
        BY <2>1, <2>4 DEF Finish
    <2>5. CASE Crash(w)
        BY <2>5 DEF Crash, TypeOK
    <2>6. CASE Purge(w)
        BY <2>6, ElementTypes DEF Purge, TypeOK
    <2> QED
        BY <2>2, <2>3, <2>4, <2>5, <2>6 DEF WorkerStep
<1>4. /\ worker' \in [Workers -> Worker]
      /\ worker'[w].pc # "idle" => worker'[w].job \in Jobs
    <2>1. CASE Claim(w)
        <3>1. PICK j \in Jobs : worker' = [worker EXCEPT ![w] =
                  [pc |-> "claimed", job |-> j, attempt |-> attempts[j]]]
            BY <2>1 DEF Claim
        <3> QED
            BY <3>1 DEF TypeOK, Worker
    <2>2. CASE MarkRunning(w)
        BY <2>2, ElementTypes DEF MarkRunning, TypeOK, Worker, Named, IdleWorker
    <2>3. CASE Finish(w) \/ Crash(w)
        BY <2>3, ElementTypes DEF Finish, Crash, TypeOK, IdleWorker
    <2>4. CASE Purge(w)
        BY <2>4 DEF Purge, TypeOK, Named
    <2> QED
        BY <2>1, <2>2, <2>3, <2>4 DEF WorkerStep
<1>5. \A v \in Workers \ {w} : worker'[v] = worker[v]
    BY DEF WorkerStep, Claim, MarkRunning, Finish, Crash, Purge, TypeOK
<1>6. Named'
    BY <1>1, <1>4, <1>5 DEF Named
<1> QED
    BY <1>1, <1>2, <1>3, <1>4, <1>6 DEF TypeOK

LEMMA StepTypes == TypeInv /\ [Next]_vars => TypeInv'
<1> SUFFICES ASSUME TypeInv, [Next]_vars PROVE TypeInv'
    OBVIOUS
<1>1. CASE Tick
    BY <1>1, TickTypes
<1>2. ASSUME NEW c \in Clients, NEW j \in Jobs, Submit(c, j) PROVE TypeInv'
    BY <1>2, SubmitTypes
<1>3. ASSUME NEW c \in Clients, CommitSubmit(c) PROVE TypeInv'
    BY <1>3, CommitSubmitTypes
<1>4. ASSUME NEW c \in Clients, CommitExpire(c) PROVE TypeInv'
    BY <1>4, CommitExpireTypes
<1>5. CASE Poll
    BY <1>5, ExpireTypes DEF Poll
<1>6. ASSUME NEW w \in Workers, WorkerStep(w) PROVE TypeInv'
    BY <1>6, WorkerTypes
<1>7. CASE UNCHANGED vars
    BY <1>7 DEF vars, TypeInv, TypeOK, Named, Room, Submitting
<1> QED
    BY <1>1, <1>2, <1>3, <1>4, <1>5, <1>6, <1>7 DEF Next

\* Rows, sessions and workers keep their types: whatever the sessions read,
\* and however late they write it, a row's attempts stay within the bound.
THEOREM QueueTypeCorrect == Spec => []TypeOK
<1>1. TypeInv => TypeOK
    BY DEF TypeInv
<1> QED
    BY <1>1, InitTypes, StepTypes, PTL DEF Spec

-----------------------------------------------------------------------------
(* One worker                                                              *)

\* A worker is busy with a queueing of its job that took place, and a row
\* queued that often is no longer waiting for a worker.
Taken ==
    \A w \in Busy :
        /\ worker[w].attempt =< attempts[worker[w].job]
        /\ worker[w].attempt = attempts[worker[w].job] =>
              job[worker[w].job].status # "QUEUED"

QueueInv == TypeInv /\ Taken /\ OneWorkerPerAttempt

\* A step that gives nobody new work and queues no row keeps the invariant.
LEMMA NoNewWork ==
    ASSUME QueueInv, TypeInv',
           Busy' \subseteq Busy,
           \A w \in Busy' : /\ worker'[w].job = worker[w].job
                            /\ worker'[w].attempt = worker[w].attempt,
           UNCHANGED attempts,
           \A j \in Jobs : job'[j].status = "QUEUED" => job[j].status = "QUEUED"
    PROVE  QueueInv'
<1>1. \A w \in Busy : worker[w].job \in Jobs
    BY DEF QueueInv, TypeInv, Named, Busy
<1>2. Taken'
    BY <1>1 DEF QueueInv, Taken
<1>3. OneWorkerPerAttempt'
    BY DEF QueueInv, OneWorkerPerAttempt
<1> QED
    BY <1>2, <1>3 DEF QueueInv

\* An API session queues a row once more: who works on it works on an earlier
\* queueing from now on.
LEMMA CommitSubmitKeeps ==
    ASSUME QueueInv, TypeInv', NEW c \in Clients, CommitSubmit(c)
    PROVE  QueueInv'
<1>1. PICK j \in Jobs : j = session[c].job
    BY DEF QueueInv, TypeInv, Named, CommitSubmit
<1>2. UNCHANGED worker /\ Busy' = Busy
    BY DEF CommitSubmit, Busy
<1>3. CASE UNCHANGED attempts
    <2>1. \A i \in Jobs : job'[i].status = "QUEUED" => job[i].status = "QUEUED"
        <3>1. CASE UNCHANGED job
            BY <3>1
        <3>2. CASE job' = [job EXCEPT ![j].age =
                             IF job[j].status = "QUEUED" THEN session[c].age ELSE @]
            BY <3>2 DEF QueueInv, TypeInv, TypeOK, Row
        <3>3. CASE Requeue(c, j)
            BY <1>3, <3>3 DEF Requeue, QueueInv, TypeInv, TypeOK
        <3> QED
            BY <1>1, <3>1, <3>2, <3>3 DEF CommitSubmit
    <2> QED
        BY <1>2, <1>3, <2>1, NoNewWork
<1>4. CASE Requeue(c, j)
    <2>1. attempts'[j] = attempts[j] + 1
          /\ \A i \in Jobs \ {j} : attempts'[i] = attempts[i] /\ job'[i] = job[i]
        BY <1>4 DEF Requeue, QueueInv, TypeInv, TypeOK
    <2>2. ASSUME NEW w \in Busy
          PROVE  /\ worker[w].attempt =< attempts'[worker[w].job]
                 /\ worker[w].attempt = attempts'[worker[w].job] =>
                       job'[worker[w].job].status # "QUEUED"
        <3>1. worker[w].job \in Jobs /\ worker[w].attempt \in Int
            BY DEF QueueInv, TypeInv, TypeOK, Worker, Named, Busy
        <3>2. attempts[j] \in Int /\ worker[w].attempt =< attempts[worker[w].job]
            BY DEF QueueInv, TypeInv, TypeOK, Taken
        <3>3. CASE worker[w].job = j
            BY <2>1, <3>1, <3>2, <3>3
        <3>4. CASE worker[w].job # j
            BY <2>1, <3>1, <3>4 DEF QueueInv, Taken
        <3> QED
            BY <3>3, <3>4
    <2>3. Taken'
        BY <1>2, <2>2 DEF Taken
    <2>4. OneWorkerPerAttempt'
        BY <1>2 DEF QueueInv, OneWorkerPerAttempt
    <2> QED
        BY <2>3, <2>4 DEF QueueInv
<1> QED
    BY <1>1, <1>3, <1>4 DEF CommitSubmit

\* A worker claims a queued row, which nobody works on.
LEMMA ClaimKeeps ==
    ASSUME QueueInv, TypeInv', NEW w \in Workers, Claim(w)
    PROVE  QueueInv'
<1>1. PICK j \in Jobs :
          /\ job[j].status = "QUEUED"
          /\ job' = [job EXCEPT ![j] = ClaimedRow]
          /\ worker' = [worker EXCEPT ![w] =
                [pc |-> "claimed", job |-> j, attempt |-> attempts[j]]]
    BY DEF Claim
<1>2. UNCHANGED attempts /\ w \notin Busy
    BY DEF Claim, Busy
<1>3. /\ Busy' = Busy \cup {w}
      /\ \A v \in Busy : worker'[v] = worker[v]
      /\ worker'[w].job = j /\ worker'[w].attempt = attempts[j]
    <2>1. /\ worker'[w] = [pc |-> "claimed", job |-> j, attempt |-> attempts[j]]
          /\ \A v \in Workers \ {w} : worker'[v] = worker[v]
        BY <1>1 DEF QueueInv, TypeInv, TypeOK
    <2>2. Busy' = Busy \cup {w}
        BY <2>1 DEF Busy
    <2> QED
        BY <1>2, <2>1, <2>2 DEF Busy
<1>4. /\ job'[j].status = "RUNNING"
      /\ \A i \in Jobs \ {j} : job'[i] = job[i]
    BY <1>1 DEF ClaimedRow, Fresh, QueueInv, TypeInv, TypeOK
<1>5. \A v \in Busy : worker[v].job \in Jobs
    BY DEF QueueInv, TypeInv, Named, Busy
<1>6. attempts[j] \in Int
    BY DEF QueueInv, TypeInv, TypeOK
<1>7. Taken'
    BY <1>2, <1>3, <1>4, <1>5, <1>6 DEF QueueInv, Taken
<1>8. \A v \in Busy : ~ (worker[v].job = j /\ worker[v].attempt = attempts[j])
    BY <1>1 DEF QueueInv, Taken
<1>9. OneWorkerPerAttempt'
    <2> SUFFICES ASSUME NEW u \in Busy', NEW v \in Busy',
                        worker'[u].job = worker'[v].job,
                        worker'[u].attempt = worker'[v].attempt
                 PROVE  u = v
        BY DEF OneWorkerPerAttempt
    <2>1. CASE u \in Busy /\ v \in Busy
        BY <1>3, <2>1 DEF QueueInv, OneWorkerPerAttempt
    <2>2. CASE u = w \/ v = w
        BY <1>3, <1>8, <2>2
    <2> QED
        BY <1>3, <2>1, <2>2
<1> QED
    BY <1>7, <1>9 DEF QueueInv

\* Whatever else a worker does, the row it writes is not queued by it.
LEMMA OtherWorkKeeps ==
    ASSUME QueueInv, TypeInv', NEW w \in Workers,
           MarkRunning(w) \/ Finish(w) \/ Crash(w) \/ Purge(w)
    PROVE  QueueInv'
<1> USE DEF QueueInv, TypeInv
<1>1. UNCHANGED attempts
    BY DEF MarkRunning, Finish, Crash, Purge
<1>2. \A i \in Jobs : job'[i].status = "QUEUED" => job[i].status = "QUEUED"
    <2>1. ASSUME NEW j, NEW status \in {"RUNNING"} \cup Ended, Update(j, status)
          PROVE  \A i \in Jobs :
                    job'[i].status = "QUEUED" => job[i].status = "QUEUED"
        BY <2>1 DEF Update, Fresh, Ended, TypeOK
    <2>2. CASE MarkRunning(w)
        BY <2>1, <2>2 DEF MarkRunning
    <2>3. CASE Finish(w)
        BY <2>1, <2>3 DEF Finish
    <2>4. CASE Crash(w)
        BY <2>4 DEF Crash
    <2>5. CASE Purge(w)
        BY <2>5 DEF Purge, NoRow
    <2> QED
        BY <2>2, <2>3, <2>4, <2>5
<1>3. \A v \in Workers \ {w} : worker'[v] = worker[v]
    BY DEF MarkRunning, Finish, Crash, Purge, TypeOK
<1>4. worker'[w].pc # "idle" =>
          /\ worker[w].pc # "idle"
          /\ worker'[w].job = worker[w].job
          /\ worker'[w].attempt = worker[w].attempt
    <2>1. CASE MarkRunning(w)
        <3>1. CASE worker' = [worker EXCEPT ![w] = IdleWorker]
            BY <3>1 DEF TypeOK, IdleWorker
        <3>2. CASE worker' = [worker EXCEPT ![w] = [@ EXCEPT !.pc = "running"]]
            BY <2>1, <3>2 DEF MarkRunning, TypeOK, Worker
        <3> QED
            BY <2>1, <3>1, <3>2 DEF MarkRunning
    <2>2. CASE Finish(w) \/ Crash(w)
        BY <2>2 DEF Finish, Crash, TypeOK, IdleWorker
    <2>3. CASE Purge(w)
        BY <2>3 DEF Purge
    <2> QED
        BY <2>1, <2>2, <2>3
<1>5. /\ Busy' \subseteq Busy
      /\ \A v \in Busy' : /\ worker'[v].job = worker[v].job
                           /\ worker'[v].attempt = worker[v].attempt
    BY <1>3, <1>4 DEF Busy
<1> QED
    BY <1>1, <1>2, <1>5, NoNewWork

LEMMA QueueStep == QueueInv /\ [Next]_vars => QueueInv'
<1> SUFFICES ASSUME QueueInv, [Next]_vars PROVE QueueInv'
    OBVIOUS
<1>1. TypeInv'
    BY StepTypes DEF QueueInv
<1> DEFINE idle == /\ UNCHANGED <<attempts, worker>>
                   /\ \A j \in Jobs :
                         job'[j].status = "QUEUED" => job[j].status = "QUEUED"
<1>2. ASSUME idle PROVE QueueInv'
    <2>1. Busy' = Busy /\ UNCHANGED worker
        BY <1>2 DEF Busy
    <2> QED
        BY <1>1, <1>2, <2>1, NoNewWork
<1>3. CASE Tick
    <2>1. \A j \in Jobs : job'[j].status = "QUEUED" => job[j].status = "QUEUED"
        BY <1>3 DEF Tick, QueueInv, TypeInv, TypeOK, Row, NoRow
    <2> QED
        BY <1>2, <1>3, <2>1 DEF Tick
<1>4. ASSUME NEW c \in Clients, NEW j \in Jobs, Submit(c, j) \/ Expire(c, j)
      PROVE  QueueInv'
    BY <1>2, <1>4 DEF Submit, Expire
<1>5. ASSUME NEW c \in Clients, CommitSubmit(c) PROVE QueueInv'
    BY <1>1, <1>5, CommitSubmitKeeps
<1>6. ASSUME NEW c \in Clients, CommitExpire(c) PROVE QueueInv'
    <2>1. \A j \in Jobs : job'[j].status = "QUEUED" => job[j].status = "QUEUED"
        BY <1>6 DEF CommitExpire, QueueInv, TypeInv, TypeOK
    <2> QED
        BY <1>2, <1>6, <2>1 DEF CommitExpire
<1>7. ASSUME NEW w \in Workers, WorkerStep(w) PROVE QueueInv'
    BY <1>1, <1>7, ClaimKeeps, OtherWorkKeeps DEF WorkerStep
<1>8. CASE UNCHANGED vars
    BY <1>2, <1>8 DEF vars
<1> QED
    BY <1>3, <1>4, <1>5, <1>6, <1>7, <1>8 DEF Next, Poll

\* claim_next_walk_forward_job reserves each queueing of a job for one worker,
\* although sessions requeue and expire rows from what they read earlier, and
\* workers that are late mark their rows again.
THEOREM OneWorker == Spec => []OneWorkerPerAttempt
<1>1. Init => QueueInv
    <2> SUFFICES ASSUME Init PROVE QueueInv
        OBVIOUS
    <2>1. Busy = {}
        BY DEF Init, Busy, IdleWorker
    <2> QED
        BY <2>1, InitTypes DEF QueueInv, Taken, OneWorkerPerAttempt
<1>2. QueueInv => OneWorkerPerAttempt
    BY DEF QueueInv
<1> QED
    BY <1>1, <1>2, QueueStep, PTL DEF Spec

=============================================================================
