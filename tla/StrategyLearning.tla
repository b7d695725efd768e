--------------------------- MODULE StrategyLearning ---------------------------
(***************************************************************************)
(* The paper-only learning loop of one strategy.  Every five minutes a job *)
(* looks at the registered base version and at every active automatic      *)
(* candidate, evaluates those whose closed trades have reached a new       *)
(* milestone, promotes or fails candidates, and creates a new candidate    *)
(* after a failure.  A run is one transaction over all versions; trades    *)
(* close while it works.                                                   *)
(*                                                                         *)
(* Versions are numbered in the order of their creation, the base first.   *)
(* The metrics of a window are a score; AsGood holds the pairs of scores   *)
(* whose first is at least as good in profit factor, expectancy and        *)
(* drawdown.  Only trades with clean exit evidence are counted.            *)
(***************************************************************************)
EXTENDS Integers, Sequences

CONSTANTS
    Minimum, Step,   \* MINIMUM_CLOSED_TRADES (30), REEVALUATION_STEP (10)
    Scores, AsGood,  \* what can be measured of a window, and the comparison
    NoScore,         \* the score of trades of no verified policy, never compared
    Autoflush,       \* FALSE for SessionLocal; TRUE for a session of the tests
    MaxCandidates,   \* bound: candidates ever created
    MaxClosed,       \* bound: trades that ever close, over all versions
    MaxFailures      \* bound: runs that fail

ASSUME LearningAssumption ==
    /\ Minimum \in Nat \ {0} /\ Step \in Nat \ {0}
    /\ AsGood \subseteq Scores \X Scores /\ NoScore \in Scores
    /\ Autoflush \in BOOLEAN
    /\ MaxCandidates \in Nat /\ MaxClosed \in Nat /\ MaxFailures \in Nat

VARIABLES
    closed,    \* closed[v]: clean closed trades of version v
    config,    \* config[v]: row of strategy_version_configs, as committed
    rows,      \* rows[v]: evaluations of v, oldest first, as committed
    run,       \* the learning job: idle, or its place among the definitions
    draft,     \* config and rows as the running transaction has them
    failures, total   \* how often runs failed and trades closed, for the bounds

vars == <<closed, config, rows, run, draft, failures, total>>

-----------------------------------------------------------------------------
Base == 0
Candidates == 1 .. MaxCandidates
Versions == {Base} \cup Candidates

Active  == {"COLLECTING", "PAPER_CHAMPION"}
Retired == {"FAILED", "SUPERSEDED"}

\* official_paper_enabled is the champion's alone.
Config == {conf \in [status : {"NONE"} \cup Active \cup Retired, official : BOOLEAN] :
              conf.official = (conf.status = "PAPER_CHAMPION")}
NoConfig == [status |-> "NONE", official |-> FALSE]

Row == [milestone : Nat, score : Scores, verified : BOOLEAN,
        status : {"COLLECTING_COHORT", "PROMOTION_CANDIDATE", "CHANGES_REQUIRED"}]

Draft == [config : [Candidates -> Config], rows : [Versions -> Seq(Row)]]
Run == [active : BOOLEAN, todo : SUBSET Versions]
Idle == [active |-> FALSE, todo |-> {}]

TypeOK ==
    /\ closed \in [Versions -> Nat]
    /\ config \in [Candidates -> Config]
    /\ rows \in [Versions -> Seq(Row)]
    /\ run \in Run
    /\ draft \in Draft
    /\ failures \in 0 .. MaxFailures /\ total \in 0 .. MaxClosed

Init ==
    /\ closed = [v \in Versions |-> 0]
    /\ config = [c \in Candidates |-> NoConfig]
    /\ rows = [v \in Versions |-> <<>>]
    /\ run = Idle
    /\ draft = [config |-> config, rows |-> rows]
    /\ failures = 0 /\ total = 0

-----------------------------------------------------------------------------
With(conf, status) == {c \in Candidates : conf[c].status = status}

\* strategy_definitions: the base and the active candidates.
Definitions == {Base} \cup {c \in Candidates : config[c].status \in Active}

\* A trade closes.  Those that a retired version left open count for nothing.
CloseTrade(v) ==
    /\ v \in Definitions
    /\ total < MaxClosed /\ total' = total + 1
    /\ closed' = [closed EXCEPT ![v] = @ + 1]
    /\ UNCHANGED <<config, rows, run, draft, failures>>

\* The list of definitions is read once, at the start.
StartRun ==
    /\ ~run.active
    /\ run' = [active |-> TRUE, todo |-> Definitions]
    /\ draft' = [config |-> config, rows |-> rows]
    /\ UNCHANGED <<closed, config, rows, failures, total>>

\* Mutant: candidates are taken youngest first.
Youngest(todo) == CHOOSE v \in todo : \A w \in todo : w =< v

Oldest(todo) == CHOOSE v \in todo : \A w \in todo : v =< w

Current == Oldest(run.todo)

\* evaluation_milestone, 0 for None.
Milestone(count) ==
    IF count < Minimum THEN 0 ELSE Minimum + ((count - Minimum) \div Step) * Step

Evaluated(r, v, milestone) == \E i \in DOMAIN r[v] : r[v][i].milestone = milestone

Due(r, v) == Milestone(closed[v]) # 0 /\ ~Evaluated(r, v, Milestone(closed[v]))

Skip ==
    /\ run.active /\ run.todo # {} /\ ~Due(draft.rows, Current)
    /\ run' = [run EXCEPT !.todo = @ \ {Current}]
    /\ UNCHANGED <<closed, config, rows, draft, failures, total>>

\* What the window of closed trades shows: verified, a cohort of one policy;
\* ready, large enough; promotion, every gate of it passed.
Reports == {report \in [score : Scores, verified : BOOLEAN, ready : BOOLEAN, promotion : BOOLEAN] :
               /\ report.promotion => report.ready
               /\ report.ready => report.verified
               /\ ~report.verified => report.score = NoScore}

LastOf(v) == draft.rows[v][Len(draft.rows[v])]

\* Mutant: any earlier evaluation will do as a benchmark.
BeatsAny(score, benchmark) == draft.rows[benchmark] # <<>>

Beats(score, benchmark) ==
    /\ draft.rows[benchmark] # <<>>
    /\ LastOf(benchmark).verified
    /\ <<score, LastOf(benchmark).score>> \in AsGood

\* _beats_current_benchmark: the other champion if there is one, or the base.
BeatsBenchmark(v, score) ==
    LET others == With(draft.config, "PAPER_CHAMPION") \ {v} IN
    IF others # {} THEN \E c \in others : Beats(score, c) ELSE Beats(score, Base)

Accepted(v, report) ==
    report.promotion /\ (v = Base \/ BeatsBenchmark(v, report.score))

RowOf(v, report) ==
    [milestone |-> Milestone(closed[v]), score |-> report.score, verified |-> report.verified,
     status |-> IF ~report.ready THEN "COLLECTING_COHORT"
                ELSE IF Accepted(v, report) THEN "PROMOTION_CANDIDATE" ELSE "CHANGES_REQUIRED"]

\* Mutant: the champion that is replaced stays where it is.
PromoteBeside(conf, v) == [conf EXCEPT ![v] = [status |-> "PAPER_CHAMPION", official |-> TRUE]]

Promote(conf, v) ==
    [c \in Candidates |->
        IF c = v THEN [status |-> "PAPER_CHAMPION", official |-> TRUE]
        ELSE IF conf[c].status = "PAPER_CHAMPION" THEN [status |-> "SUPERSEDED", official |-> FALSE]
        ELSE conf[c]]

\* Mutants: a candidate that fails keeps its official entries; it stays as it is.
FailQuietly(conf, v) == [conf EXCEPT ![v].status = "FAILED"]
KeepFailing(conf, v) == conf

Fail(conf, v) == [conf EXCEPT ![v] = [status |-> "FAILED", official |-> FALSE]]

Reviewed(v, report) ==
    IF v = Base \/ ~report.ready THEN draft.config
    ELSE IF Accepted(v, report) THEN Promote(draft.config, v) ELSE Fail(draft.config, v)

\* The look for a collecting candidate is a query: it sees the change just made
\* to the configuration only if the session flushes before it asks.
HasCollecting(v, report) ==
    With(IF Autoflush THEN Reviewed(v, report) ELSE draft.config, "COLLECTING") # {}

NeedsCandidate(v, report) ==
    report.ready /\ ~Accepted(v, report) /\ ~HasCollecting(v, report)

Unused == With(draft.config, "NONE")
NewCandidate == CHOOSE c \in Unused : \A d \in Unused : c =< d

Created(conf, v, report) ==
    IF NeedsCandidate(v, report)
    THEN [conf EXCEPT ![NewCandidate] = [status |-> "COLLECTING", official |-> FALSE]]
    ELSE conf

Evaluate(report) ==
    LET v == Current IN
    /\ run.active /\ run.todo # {} /\ Due(draft.rows, v)
    /\ ~Evaluated(draft.rows, v, Milestone(closed[v]))    \* the unique constraint
    /\ NeedsCandidate(v, report) => Unused # {}
    /\ draft' = [config |-> Created(Reviewed(v, report), v, report),
                 rows |-> [draft.rows EXCEPT ![v] = Append(@, RowOf(v, report))]]
    /\ run' = [run EXCEPT !.todo = @ \ {v}]
    /\ UNCHANGED <<closed, config, rows, failures, total>>

Commit ==
    /\ run.active /\ run.todo = {}
    /\ config' = draft.config /\ rows' = draft.rows
    /\ run' = Idle
    /\ UNCHANGED <<closed, draft, failures, total>>

\* An error anywhere, or the loss of the process, takes back the whole run.
Abort ==
    /\ run.active /\ failures < MaxFailures
    /\ failures' = failures + 1
    /\ run' = Idle /\ draft' = [config |-> config, rows |-> rows]
    /\ UNCHANGED <<closed, config, rows, total>>

JobStep == StartRun \/ Skip \/ (\E report \in Reports : Evaluate(report)) \/ Commit

Next == (\E v \in Versions : CloseTrade(v)) \/ JobStep \/ Abort

Spec == Init /\ [][Next]_vars

-----------------------------------------------------------------------------
(* However often versions are evaluated, a strategy has one champion, whose*)
(* trades are official, and one candidate that collects evidence: the      *)
(* promotions and creations of different runs and of one run never add up. *)
OneActive ==
    \A c, d \in Candidates :
        config[c].status \in Active /\ config[c].status = config[d].status => c = d

(* A version with official entries has passed a review and has failed none *)
(* since: what configurations say and what evaluations say agree.          *)
OfficialEarned ==
    \A c \in Candidates : config[c].official =>
        \E i \in DOMAIN rows[c] :
            /\ rows[c][i].status = "PROMOTION_CANDIDATE"
            /\ \A j \in i .. Len(rows[c]) : rows[c][j].status # "CHANGES_REQUIRED"

(* A champion is superseded only by a version whose last evaluation is at  *)
(* least as good as its own last one, a verified one, even when one run    *)
(* evaluates both of them.                                                 *)
NoDowngrade ==
    [][\A c, d \in Candidates :
          /\ config[c].status = "PAPER_CHAMPION" /\ config'[c].status = "SUPERSEDED"
          /\ config'[d].status = "PAPER_CHAMPION"
          => LET old == rows'[c][Len(rows'[c])]
                 new == rows'[d][Len(rows'[d])] IN
             old.verified /\ <<new.score, old.score>> \in AsGood]_vars

(* Within a run, a version that was failed or superseded by an earlier     *)
(* evaluation is not brought back by a later one, its own included: the    *)
(* list of definitions was read before.                                    *)
RetiredStays ==
    [][\A c \in Candidates :
          run.active /\ run'.active /\ draft.config[c].status \in Retired =>
              draft'.config[c] = draft.config[c]]_vars

(* tests/test_strategy_learning.py says of a candidate that fails that one *)
(* is created in its place; it asks through a session that flushes.        *)
FailureReplaced ==
    [][\A c \in Candidates :
          config[c].status = "COLLECTING" /\ config'[c].status = "FAILED" =>
              \E d \in Candidates : config'[d].status = "COLLECTING"]_vars
=============================================================================
