------------------------ MODULE StrategyLearningProofs ------------------------
(***************************************************************************)
(* The learning loop (StrategyLearning) keeps one official champion that   *)
(* has earned it, for every number of versions, trades and failures, and   *)
(* whether or not the session flushes before it asks.                      *)
(*                                                                         *)
(* What makes it work is the order of the versions: candidates are created *)
(* in turn, at most one collects evidence, and it is younger than the      *)
(* champion.  So the versions of a run, oldest first, come to the champion *)
(* before its challenger, and nothing already decided is decided again.    *)
(***************************************************************************)
EXTENDS StrategyLearning, TLAPS, WellFoundedInduction

Status(conf, c) == conf[c].status

One(conf) ==
    \A c, d \in Candidates :
        Status(conf, c) \in Active /\ Status(conf, c) = Status(conf, d) => c = d

ChallengerYounger(conf) ==
    \A c, d \in Candidates :
        Status(conf, c) = "COLLECTING" /\ Status(conf, d) = "PAPER_CHAMPION" => d < c

CreatedInTurn(conf) ==
    \A c, d \in Candidates :
        Status(conf, c) # "NONE" /\ Status(conf, d) = "NONE" => c < d

Sound(conf) ==
    /\ conf \in [Candidates -> Config]
    /\ One(conf) /\ ChallengerYounger(conf) /\ CreatedInTurn(conf)

Earned(conf, r) ==
    \A c \in Candidates : conf[c].official =>
        \E i \in DOMAIN r[c] :
            /\ r[c][i].status = "PROMOTION_CANDIDATE"
            /\ \A j \in i .. Len(r[c]) : r[c][j].status # "CHANGES_REQUIRED"

\* What the run has still to look at is as it was when it began.
Untouched ==
    \A v \in run.todo : v # Base =>
        /\ v \in Candidates
        /\ draft.config[v] = config[v] /\ Status(config, v) \in Active

Succeeds(d, c) ==
    /\ draft.rows[c] # <<>> /\ draft.rows[d] # <<>>
    /\ LastOf(c).verified /\ <<LastOf(d).score, LastOf(c).score>> \in AsGood

\* A champion superseded in this run has its successor in place.
Succession ==
    \A c \in Candidates :
        Status(config, c) = "PAPER_CHAMPION" /\ Status(draft.config, c) = "SUPERSEDED" =>
            \E d \in Candidates :
                /\ Status(config, d) = "COLLECTING" /\ d \notin run.todo
                /\ Status(draft.config, d) = "PAPER_CHAMPION"
                /\ Succeeds(d, c)

LInv ==
    /\ TypeOK
    /\ Sound(config) /\ Sound(draft.config)
    /\ Earned(config, rows) /\ Earned(draft.config, draft.rows)
    /\ ~run.active => run.todo = {} /\ draft = [config |-> config, rows |-> rows]
    /\ Untouched /\ Succession

-----------------------------------------------------------------------------
(* Orders                                                                  *)

\* A set of natural numbers that is not empty has a least element.
LEMMA LeastExists ==
    ASSUME NEW S \in SUBSET Nat, S # {}
    PROVE  \E x \in S : \A y \in S : x =< y
<1>1. PICK x \in S : \A y \in S : <<y, x>> \notin OpToRel(<, Nat)
  BY NatLessThanWellFounded, WFMin
<1>2. \A y \in S : ~(y < x)
  BY <1>1 DEF OpToRel
<1> QED
  BY <1>2

LEMMA OldestIsThere ==
    ASSUME TypeOK, run.todo # {}
    PROVE  Current \in run.todo /\ Current \in Versions /\ \A v \in run.todo : Current =< v
<1>1. run.todo \in SUBSET Versions /\ Versions \subseteq Nat
  BY LearningAssumption DEF TypeOK, Run, Versions, Base, Candidates
<1>2. \E v \in run.todo : \A w \in run.todo : v =< w
  BY <1>1, LeastExists
<1> QED
  BY <1>1, <1>2 DEF Current, Oldest

LEMMA NewIsYoungest ==
    ASSUME Unused # {}, CreatedInTurn(draft.config)
    PROVE  /\ NewCandidate \in Candidates /\ Status(draft.config, NewCandidate) = "NONE"
           /\ \A c \in Candidates : Status(draft.config, c) # "NONE" => c < NewCandidate
           /\ \A c \in Candidates : Status(draft.config, c) = "NONE" => NewCandidate =< c
<1>1. Unused \in SUBSET Nat
  BY LearningAssumption DEF Unused, With, Candidates
<1>2. \E c \in Unused : \A d \in Unused : c =< d
  BY <1>1, LeastExists
<1>3. NewCandidate \in Unused /\ \A d \in Unused : NewCandidate =< d
  BY <1>2 DEF NewCandidate
<1> QED
  BY <1>3 DEF Unused, With, Status, CreatedInTurn

-----------------------------------------------------------------------------
(* Reviews                                                                 *)

LEMMA ConfigFields ==
    ASSUME NEW conf \in [Candidates -> Config], NEW c \in Candidates
    PROVE  /\ conf[c].official = (conf[c].status = "PAPER_CHAMPION")
           /\ conf[c].status \in {"NONE", "COLLECTING", "PAPER_CHAMPION", "FAILED", "SUPERSEDED"}
           /\ conf[c] = [status |-> conf[c].status, official |-> conf[c].official]
BY DEF Config, Active, Retired

\* What each outcome of a review does to the configurations.
LEMMA ReviewEffect ==
    ASSUME NEW v \in Versions, NEW report \in Reports,
           draft.config \in [Candidates -> Config]
    PROVE  \/ /\ v = Base \/ ~report.ready
              /\ Reviewed(v, report) = draft.config
           \/ /\ v \in Candidates /\ report.ready /\ Accepted(v, report)
              /\ Reviewed(v, report) = Promote(draft.config, v)
           \/ /\ v \in Candidates /\ report.ready /\ ~Accepted(v, report)
              /\ Reviewed(v, report) = Fail(draft.config, v)
BY DEF Reviewed, Versions, Base

LEMMA PromoteSound ==
    ASSUME NEW conf, Sound(conf), NEW v \in Candidates, Status(conf, v) \in Active
    PROVE  Sound(Promote(conf, v))
<1> DEFINE new == Promote(conf, v)
<1>1. new \in [Candidates -> Config]
  BY DEF Sound, Promote, Config, Active, Retired
<1>2. \A c \in Candidates :
         Status(new, c) = IF c = v THEN "PAPER_CHAMPION"
                          ELSE IF Status(conf, c) = "PAPER_CHAMPION" THEN "SUPERSEDED"
                          ELSE Status(conf, c)
  BY DEF Promote, Status
<1>3. One(new)
  BY <1>2 DEF Sound, One, Active
<1>4. ChallengerYounger(new)
  BY <1>2 DEF Sound, One, ChallengerYounger, Active
<1>5. CreatedInTurn(new)
  BY <1>2 DEF Sound, CreatedInTurn, Active
<1> QED
  BY <1>1, <1>3, <1>4, <1>5 DEF Sound

LEMMA FailSound ==
    ASSUME NEW conf, Sound(conf), NEW v \in Candidates, Status(conf, v) \in Active
    PROVE  Sound(Fail(conf, v))
<1> DEFINE new == Fail(conf, v)
<1>1. new \in [Candidates -> Config]
  BY DEF Sound, Fail, Config, Active, Retired
<1>2. \A c \in Candidates : Status(new, c) = IF c = v THEN "FAILED" ELSE Status(conf, c)
  BY DEF Fail, Status, Sound
<1>3. One(new) /\ ChallengerYounger(new)
  BY <1>2 DEF Sound, One, ChallengerYounger, Active
<1>4. CreatedInTurn(new)
  BY <1>2 DEF Sound, CreatedInTurn, Active
<1> QED
  BY <1>1, <1>3, <1>4 DEF Sound

\* A review retires nobody but the version itself, or the champion it replaces.
LEMMA ReviewSound ==
    ASSUME Sound(draft.config), NEW v \in Versions, NEW report \in Reports,
           v # Base => Status(draft.config, v) \in Active
    PROVE  LET new == Reviewed(v, report) IN
           /\ Sound(new)
           /\ \A c \in Candidates :
                 /\ Status(new, c) = "COLLECTING" => Status(draft.config, c) = "COLLECTING"
                 /\ Status(draft.config, c) = "NONE" <=> Status(new, c) = "NONE"
                 /\ Status(draft.config, c) \in Retired => new[c] = draft.config[c]
<1>1. CASE Reviewed(v, report) = draft.config
  BY <1>1
<1>2. CASE v \in Candidates /\ Reviewed(v, report) = Promote(draft.config, v)
  <2>0. v # Base
    BY <1>2, LearningAssumption DEF Candidates, Base
  <2>1. Sound(Promote(draft.config, v))
    BY <1>2, <2>0, PromoteSound
  <2>2. \A c \in Candidates :
          Promote(draft.config, v)[c] =
            IF c = v THEN [status |-> "PAPER_CHAMPION", official |-> TRUE]
            ELSE IF draft.config[c].status = "PAPER_CHAMPION"
                 THEN [status |-> "SUPERSEDED", official |-> FALSE] ELSE draft.config[c]
    BY DEF Promote
  <2> QED BY <1>2, <2>0, <2>1, <2>2 DEF Status, Active, Retired
<1>3. CASE v \in Candidates /\ Reviewed(v, report) = Fail(draft.config, v)
  <2>0. v # Base
    BY <1>3, LearningAssumption DEF Candidates, Base
  <2>1. Sound(Fail(draft.config, v))
    BY <1>3, <2>0, FailSound
  <2>2. \A c \in Candidates :
          Fail(draft.config, v)[c] =
            IF c = v THEN [status |-> "FAILED", official |-> FALSE] ELSE draft.config[c]
    BY DEF Fail, Sound
  <2> QED BY <1>3, <2>0, <2>1, <2>2 DEF Status, Active, Retired
<1> QED
  BY <1>1, <1>2, <1>3, ReviewEffect DEF Sound

\* A candidate is created only beside no other, and is the youngest of all.
LEMMA CreatedSound ==
    ASSUME Sound(draft.config), NEW v \in Versions, NEW report \in Reports,
           v # Base => Status(draft.config, v) \in Active,
           NeedsCandidate(v, report) => Unused # {}
    PROVE  LET new == Created(Reviewed(v, report), v, report) IN
           /\ Sound(new)
           /\ \A c \in Candidates :
                 /\ Status(draft.config, c) # "NONE" => new[c] = Reviewed(v, report)[c]
                 /\ Status(new, c) # "COLLECTING" => new[c] = Reviewed(v, report)[c]
                 /\ Status(draft.config, c) \in Retired => new[c] = draft.config[c]
<1> DEFINE mid == Reviewed(v, report)
           new == Created(mid, v, report)
<1>1. /\ Sound(mid)
      /\ \A c \in Candidates :
            /\ Status(mid, c) = "COLLECTING" => Status(draft.config, c) = "COLLECTING"
            /\ Status(draft.config, c) = "NONE" <=> Status(mid, c) = "NONE"
            /\ Status(draft.config, c) \in Retired => mid[c] = draft.config[c]
  BY ReviewSound
<1> HIDE DEF mid
<1>2. CASE ~NeedsCandidate(v, report)
  <2>1. new = mid
    BY <1>2 DEF Created
  <2> QED BY <1>1, <2>1 DEF mid
<1>3. CASE NeedsCandidate(v, report)
  <2>1. /\ NewCandidate \in Candidates /\ Status(draft.config, NewCandidate) = "NONE"
        /\ \A c \in Candidates : Status(draft.config, c) # "NONE" => c < NewCandidate
        /\ \A c \in Candidates : Status(draft.config, c) = "NONE" => NewCandidate =< c
    BY <1>3, NewIsYoungest DEF Sound
  <2>2. \A c \in Candidates : Status(mid, c) # "COLLECTING"
    <3>1. \/ \A c \in Candidates : Status(mid, c) # "COLLECTING"
          \/ \A c \in Candidates : Status(draft.config, c) # "COLLECTING"
      BY <1>3 DEF NeedsCandidate, HasCollecting, With, Status, mid
    <3> QED BY <1>1, <3>1
  <2>3. new = [mid EXCEPT ![NewCandidate] = [status |-> "COLLECTING", official |-> FALSE]]
    BY <1>3 DEF Created
  <2>4. mid \in [Candidates -> Config]
    BY <1>1 DEF Sound
  <2>5. new \in [Candidates -> Config]
    <3>1. [status |-> "COLLECTING", official |-> FALSE] \in Config
      BY DEF Config, Active
    <3> QED BY <2>3, <2>4, <3>1
  <2>6. \A c \in Candidates :
          new[c] = IF c = NewCandidate THEN [status |-> "COLLECTING", official |-> FALSE]
                   ELSE mid[c]
    BY <2>3, <2>4
  <2> HIDE DEF new
  <2>7. \A c \in Candidates :
          Status(new, c) = IF c = NewCandidate THEN "COLLECTING" ELSE Status(mid, c)
    BY <2>6 DEF Status
  <2>8. One(new)
    BY <1>1, <2>2, <2>7 DEF Sound, One, Active
  <2>9. ChallengerYounger(new)
    BY <1>1, <2>1, <2>2, <2>7 DEF ChallengerYounger
  <2>10. CreatedInTurn(new)
    <3>1. SUFFICES ASSUME NEW c \in Candidates, NEW d \in Candidates,
                          Status(new, c) # "NONE", Status(new, d) = "NONE"
                   PROVE  c < d
      BY DEF CreatedInTurn
    <3>2. d # NewCandidate /\ Status(mid, d) = "NONE" /\ Status(draft.config, d) = "NONE"
      BY <1>1, <2>7, <3>1
    <3>3. CASE c = NewCandidate
      BY <2>1, <3>2, <3>3, LearningAssumption DEF Candidates
    <3>4. CASE c # NewCandidate
      BY <1>1, <2>7, <3>1, <3>2, <3>4 DEF Sound, CreatedInTurn
    <3> QED BY <3>3, <3>4
  <2>11. \A c \in Candidates :
            /\ Status(draft.config, c) # "NONE" => new[c] = mid[c]
            /\ Status(new, c) # "COLLECTING" => new[c] = mid[c]
            /\ Status(draft.config, c) \in Retired => new[c] = draft.config[c]
    BY <1>1, <2>1, <2>6, <2>7 DEF Retired
  <2> QED BY <2>5, <2>8, <2>9, <2>10, <2>11 DEF Sound, mid, new
<1> QED
  BY <1>2, <1>3

-----------------------------------------------------------------------------
(* Evaluations                                                             *)

\* What one evaluation does, in the terms of the lemmas that follow.
LEMMA EvaluateEffect ==
    ASSUME LInv, NEW report \in Reports, Evaluate(report)
    PROVE  LET v == Current
               mid == Reviewed(v, report) IN
           /\ v \in Versions /\ v \in run.todo /\ \A w \in run.todo : v =< w
           /\ run'.todo = run.todo \ {v} /\ run' \in Run /\ run'.active
           /\ v # Base => /\ v \in Candidates /\ draft.config[v] = config[v]
                          /\ Status(draft.config, v) \in Active
           /\ Sound(draft'.config) /\ draft' \in Draft
           /\ \A c \in Candidates :
                 /\ Status(draft.config, c) # "NONE" => draft'.config[c] = mid[c]
                 /\ Status(draft'.config, c) # "COLLECTING" => draft'.config[c] = mid[c]
                 /\ Status(draft.config, c) \in Retired => draft'.config[c] = draft.config[c]
           /\ RowOf(v, report) \in Row
           /\ draft'.rows = [draft.rows EXCEPT ![v] = Append(@, RowOf(v, report))]
           /\ UNCHANGED <<closed, config, rows, failures, total>>
<1> DEFINE v == Current
           new == Created(Reviewed(v, report), v, report)
           grown == [draft.rows EXCEPT ![v] = Append(@, RowOf(v, report))]
<1>1. run.todo # {} /\ TypeOK
  BY DEF Evaluate, LInv
<1>2. v \in Versions /\ v \in run.todo /\ \A w \in run.todo : v =< w
  BY <1>1, OldestIsThere
<1>3. run' = [run EXCEPT !.todo = @ \ {v}] /\ run.active
  BY DEF Evaluate
<1>4. run'.todo = run.todo \ {v} /\ run' \in Run /\ run'.active
  BY <1>1, <1>3 DEF TypeOK, Run
<1>5. v # Base => /\ v \in Candidates /\ draft.config[v] = config[v]
                  /\ Status(draft.config, v) \in Active
  BY <1>2 DEF LInv, Untouched, Status
<1>6. draft' = [config |-> new, rows |-> grown]
  BY DEF Evaluate
<1>7. NeedsCandidate(v, report) => Unused # {}
  BY DEF Evaluate
<1>8. Sound(draft.config)
  BY DEF LInv
<1>9. /\ Sound(new)
      /\ \A c \in Candidates :
            /\ Status(draft.config, c) # "NONE" => new[c] = Reviewed(v, report)[c]
            /\ Status(new, c) # "COLLECTING" => new[c] = Reviewed(v, report)[c]
            /\ Status(draft.config, c) \in Retired => new[c] = draft.config[c]
  <2> HIDE DEF v
  <2> QED BY <1>2, <1>5, <1>7, <1>8, CreatedSound
<1>10. Milestone(closed[v]) \in Nat
  <2>1. closed[v] \in Nat
    BY <1>1, <1>2 DEF TypeOK
  <2> HIDE DEF v
  <2>2. CASE closed[v] < Minimum
    BY <2>1, <2>2 DEF Milestone
  <2>3. CASE closed[v] >= Minimum
    <3>1. closed[v] - Minimum \in Nat
      BY <2>1, <2>3, LearningAssumption
    <3>2. ((closed[v] - Minimum) \div Step) \in Nat
      BY <3>1, LearningAssumption
    <3>3. ((closed[v] - Minimum) \div Step) * Step \in Nat
      BY <3>2, LearningAssumption
    <3> QED BY <2>1, <2>3, <3>3, LearningAssumption DEF Milestone
  <2> QED BY <2>1, <2>2, <2>3, LearningAssumption
<1>11. RowOf(v, report) \in Row
  <2> HIDE DEF v
  <2>1. report.score \in Scores /\ report.verified \in BOOLEAN
    BY DEF Reports
  <2> QED BY <1>10, <2>1 DEF RowOf, Row
<1>12. grown \in [Versions -> Seq(Row)]
  <2> HIDE DEF v
  <2>1. draft.rows \in [Versions -> Seq(Row)]
    BY <1>1 DEF TypeOK, Draft
  <2>2. Append(draft.rows[v], RowOf(v, report)) \in Seq(Row)
    BY <1>2, <1>11, <2>1
  <2> QED BY <2>1, <2>2
<1>13. draft' \in Draft /\ draft'.config = new /\ draft'.rows = grown
  BY <1>6, <1>9, <1>12 DEF Draft, Sound
<1>14. UNCHANGED <<closed, config, rows, failures, total>>
  BY DEF Evaluate
<1> HIDE DEF new, grown
<1> QED
  BY <1>2, <1>4, <1>5, <1>9, <1>11, <1>13, <1>14 DEF v, grown

\* Official entries stay earned: who fails a review loses them, who passes
\* has the review to show.
LEMMA EarnedKept ==
    ASSUME LInv, NEW report \in Reports, Evaluate(report)
    PROVE  Earned(draft.config, draft.rows)'
<1> DEFINE v == Current
           mid == Reviewed(v, report)
           row == RowOf(v, report)
           Good(rs) == \E i \in DOMAIN rs :
                          /\ rs[i].status = "PROMOTION_CANDIDATE"
                          /\ \A j \in i .. Len(rs) : rs[j].status # "CHANGES_REQUIRED"
<1>1. /\ v \in Versions /\ v \in run.todo
      /\ v # Base => v \in Candidates /\ Status(draft.config, v) \in Active
      /\ Sound(draft'.config)
      /\ \A c \in Candidates :
            Status(draft'.config, c) # "COLLECTING" => draft'.config[c] = mid[c]
      /\ draft'.rows = [draft.rows EXCEPT ![v] = Append(@, row)]
  BY EvaluateEffect
<1>2. draft.rows \in [Versions -> Seq(Row)] /\ draft.config \in [Candidates -> Config]
  BY DEF LInv, TypeOK, Draft
<1>3. \A c \in Candidates : draft.config[c].official => Good(draft.rows[c])
  BY DEF LInv, Earned
<1>4. ASSUME NEW c \in Candidates, draft'.config[c].official
      PROVE  Good(draft'.rows[c])
  <2>1. mid[c].official
    <3> HIDE DEF mid
    <3>1. Status(draft'.config, c) = "PAPER_CHAMPION"
      BY <1>1, <1>4, ConfigFields DEF Sound, Status
    <3> QED BY <1>1, <1>4, <3>1
  <2>2. c \in Versions /\ c # Base
    BY LearningAssumption DEF Versions, Candidates, Base
  <2>3. CASE c # v
    <3>1. draft'.rows[c] = draft.rows[c]
      BY <1>1, <1>2, <2>2, <2>3
    <3>2. draft.config[c].official
      <4> HIDE DEF v
      <4>1. \/ mid = draft.config
            \/ mid = Promote(draft.config, v)
            \/ mid = Fail(draft.config, v)
        BY DEF Reviewed
      <4>2. CASE mid = Promote(draft.config, v)
        <5>1. mid[c] = IF draft.config[c].status = "PAPER_CHAMPION"
                       THEN [status |-> "SUPERSEDED", official |-> FALSE] ELSE draft.config[c]
          BY <2>3, <4>2 DEF Promote
        <5> QED BY <2>1, <5>1
      <4>3. CASE mid = Fail(draft.config, v)
        BY <1>2, <2>1, <2>3, <4>3 DEF Fail
      <4> QED BY <2>1, <4>1, <4>2, <4>3
    <3> QED BY <1>3, <3>1, <3>2
  <2>4. CASE c = v
    <3> DEFINE old == draft.rows[v]
    <3>1. draft'.rows[c] = Append(old, row) /\ old \in Seq(Row)
      BY <1>1, <1>2, <2>4
    <3>2. /\ Len(Append(old, row)) = Len(old) + 1 /\ Append(old, row)[Len(old) + 1] = row
          /\ \A i \in 1 .. Len(old) : Append(old, row)[i] = old[i]
          /\ Len(old) \in Nat /\ DOMAIN old = 1 .. Len(old)
          /\ DOMAIN Append(old, row) = 1 .. Len(old) + 1
      <4> HIDE DEF old, row
      <4> QED BY <3>1
    <3>3. CASE report.ready /\ Accepted(v, report)
      <4>1. row.status = "PROMOTION_CANDIDATE"
        BY <3>3 DEF RowOf
      <4> HIDE DEF old, row, v
      <4>2. Good(Append(old, row))
        <5> WITNESS Len(old) + 1 \in DOMAIN Append(old, row)
        <5> QED BY <3>2, <4>1
      <4> QED BY <3>1, <4>2
    <3>4. CASE report.ready /\ ~Accepted(v, report)
      <4>1. mid = Fail(draft.config, v)
        BY <2>2, <2>4, <3>4 DEF Reviewed
      <4>2. mid[c].official = FALSE
        <5> HIDE DEF v
        <5> QED BY <1>2, <2>4, <4>1 DEF Fail
      <4> QED BY <2>1, <4>2
    <3>5. CASE ~report.ready
      <4>1. mid = draft.config /\ row.status = "COLLECTING_COHORT"
        BY <3>5 DEF Reviewed, RowOf
      <4>2. Good(old)
        BY <1>3, <2>1, <2>4, <4>1
      <4> HIDE DEF old, row, v
      <4>3. PICK i \in DOMAIN old :
              /\ old[i].status = "PROMOTION_CANDIDATE"
              /\ \A j \in i .. Len(old) : old[j].status # "CHANGES_REQUIRED"
        BY <4>2
      <4>4. \A j \in i .. Len(old) + 1 : Append(old, row)[j].status # "CHANGES_REQUIRED"
        BY <3>2, <4>1, <4>3
      <4>5. i \in DOMAIN Append(old, row) /\ Append(old, row)[i] = old[i]
        BY <3>2
      <4>6. Good(Append(old, row))
        BY <3>2, <4>3, <4>4, <4>5
      <4> QED BY <3>1, <4>6
    <3> QED BY <3>3, <3>4, <3>5
  <2> QED BY <2>3, <2>4
<1> QED
  BY <1>4 DEF Earned

\* The versions still to come are as the run found them: the champion comes
\* before its challenger, and a new candidate was none of them.
LEMMA UntouchedKept ==
    ASSUME LInv, NEW report \in Reports, Evaluate(report)
    PROVE  Untouched'
<1> DEFINE v == Current
           mid == Reviewed(v, report)
<1>1. /\ v \in Versions /\ v \in run.todo /\ \A w \in run.todo : v =< w
      /\ run'.todo = run.todo \ {v}
      /\ v # Base => v \in Candidates /\ Status(draft.config, v) \in Active
      /\ \A c \in Candidates : Status(draft.config, c) # "NONE" => draft'.config[c] = mid[c]
      /\ config' = config
  BY EvaluateEffect
<1> HIDE DEF v
<1>2. ASSUME NEW w \in run'.todo, w # Base
      PROVE  w \in Candidates /\ draft'.config[w] = draft.config[w]
             /\ draft.config[w] = config[w] /\ Status(config, w) \in Active
  <2>1. w \in run.todo /\ w # v
    BY <1>1, <1>2
  <2>2. w \in Candidates /\ draft.config[w] = config[w] /\ Status(config, w) \in Active
    BY <1>2, <2>1 DEF LInv, Untouched
  <2>3. draft'.config[w] = mid[w]
    BY <1>1, <2>2 DEF Status, Active
  <2>4. \/ mid = draft.config
        \/ v # Base /\ mid = Promote(draft.config, v)
        \/ mid = Fail(draft.config, v)
    BY DEF Reviewed
  <2>5. CASE v # Base /\ mid = Promote(draft.config, v)
    <3>1. v =< w /\ v \in Candidates /\ Status(draft.config, v) \in Active
      BY <1>1, <2>1, <2>5
    <3>2. Status(draft.config, w) # "PAPER_CHAMPION"
      <4>1. SUFFICES ASSUME Status(draft.config, w) = "PAPER_CHAMPION"
                     PROVE  FALSE
        OBVIOUS
      <4>2. Status(draft.config, v) = "COLLECTING"
        BY <2>1, <2>2, <3>1, <4>1 DEF LInv, Sound, One, Active
      <4>3. w < v
        BY <2>2, <3>1, <4>1, <4>2 DEF LInv, Sound, ChallengerYounger
      <4> QED BY <2>2, <3>1, <4>3, LearningAssumption DEF Candidates
    <3>3. mid[w] = draft.config[w]
      BY <2>1, <2>2, <2>5, <3>2 DEF Promote, Status
    <3> QED BY <2>2, <2>3, <3>3
  <2>6. CASE mid = Fail(draft.config, v)
    <3>1. draft.config \in [Candidates -> Config]
      BY DEF LInv, Sound
    <3>2. mid[w] = draft.config[w]
      BY <2>1, <2>2, <2>6, <3>1 DEF Fail
    <3> QED BY <2>2, <2>3, <3>2
  <2> QED BY <2>2, <2>3, <2>4, <2>5, <2>6
<1> QED
  BY <1>1, <1>2 DEF Untouched, Status

\* A promotion names its successor, and later evaluations of the run leave it.
LEMMA SuccessionKept ==
    ASSUME LInv, NEW report \in Reports, Evaluate(report)
    PROVE  Succession'
<1> DEFINE v == Current
           mid == Reviewed(v, report)
           row == RowOf(v, report)
<1>1. /\ v \in Versions /\ v \in run.todo
      /\ run'.todo = run.todo \ {v}
      /\ v # Base => /\ v \in Candidates /\ draft.config[v] = config[v]
                     /\ Status(draft.config, v) \in Active
      /\ Sound(draft'.config)
      /\ \A c \in Candidates :
            /\ Status(draft.config, c) # "NONE" => draft'.config[c] = mid[c]
            /\ Status(draft'.config, c) # "COLLECTING" => draft'.config[c] = mid[c]
      /\ draft'.rows = [draft.rows EXCEPT ![v] = Append(@, row)]
      /\ config' = config
  BY EvaluateEffect
<1>2. /\ draft.rows \in [Versions -> Seq(Row)]
      /\ Sound(config) /\ Sound(draft.config) /\ Untouched /\ Succession
  BY DEF LInv, TypeOK, Draft
<1>3. SUFFICES ASSUME NEW c \in Candidates, Status(config, c) = "PAPER_CHAMPION",
                      Status(draft'.config, c) = "SUPERSEDED"
               PROVE  \E d \in Candidates :
                         /\ Status(config, d) = "COLLECTING" /\ d \notin run'.todo
                         /\ Status(draft'.config, d) = "PAPER_CHAMPION"
                         /\ Succeeds(d, c)'
  BY <1>1 DEF Succession, Succeeds, LastOf
<1>4. Candidates \subseteq Versions /\ Base \notin Candidates
  BY LearningAssumption DEF Versions, Candidates, Base
<1>5. mid = draft.config \/ (v # Base /\ mid = Promote(draft.config, v)
                             /\ report.ready /\ Accepted(v, report))
                         \/ (v # Base /\ mid = Fail(draft.config, v))
  BY DEF Reviewed
<1> HIDE DEF mid
<1>6. CASE Status(draft.config, c) = "SUPERSEDED"
  <2>1. PICK d \in Candidates :
          /\ Status(config, d) = "COLLECTING" /\ d \notin run.todo
          /\ Status(draft.config, d) = "PAPER_CHAMPION"
          /\ Succeeds(d, c)
    BY <1>2, <1>3, <1>6 DEF Succession
  <2>2. c \notin run.todo
    <3>1. SUFFICES ASSUME c \in run.todo
                   PROVE  FALSE
      OBVIOUS
    <3>2. draft.config[c] = config[c]
      BY <1>2, <1>4, <3>1 DEF Untouched
    <3> QED BY <1>3, <1>6, <3>2 DEF Status
  <2>3. c # v /\ d # v
    BY <1>1, <2>1, <2>2
  <2>4. v = Base
    <3>1. SUFFICES ASSUME v # Base
                   PROVE  FALSE
      OBVIOUS
    <3>2. v \in Candidates /\ Status(config, v) \in Active
      BY <1>1, <3>1 DEF Status
    <3> HIDE DEF v
    <3>3. CASE Status(config, v) = "COLLECTING"
      BY <1>2, <2>1, <2>3, <3>2, <3>3 DEF Sound, One, Active
    <3>4. CASE Status(config, v) = "PAPER_CHAMPION"
      BY <1>2, <1>3, <2>3, <3>2, <3>4 DEF Sound, One, Active
    <3> QED BY <3>2, <3>3, <3>4 DEF Active
  <2>5. Status(draft'.config, d) = "PAPER_CHAMPION"
    <3>1. draft'.config[d] = mid[d] /\ mid = draft.config
      BY <1>1, <1>5, <2>1, <2>4
    <3> QED BY <2>1, <3>1 DEF Status
  <2> HIDE DEF v, row
  <2>6. draft'.rows[c] = draft.rows[c] /\ draft'.rows[d] = draft.rows[d]
    BY <1>1, <1>2, <1>4, <2>3
  <2>7. Succeeds(d, c)'
    BY <2>1, <2>6 DEF Succeeds, LastOf
  <2> QED BY <1>1, <2>1, <2>5, <2>7
<1>7. CASE Status(draft.config, c) # "SUPERSEDED"
  <2>1. draft'.config[c] = mid[c]
    BY <1>1, <1>3
  <2>2. /\ v # Base /\ mid = Promote(draft.config, v) /\ Accepted(v, report)
        /\ c # v /\ Status(draft.config, c) = "PAPER_CHAMPION"
    <3>1. Status(mid, c) = "SUPERSEDED"
      BY <1>3, <2>1 DEF Status
    <3> HIDE DEF v
    <3>2. CASE mid = draft.config
      BY <1>7, <3>1, <3>2
    <3>3. CASE mid = Fail(draft.config, v)
      <4>1. mid[c] = IF c = v THEN [status |-> "FAILED", official |-> FALSE] ELSE draft.config[c]
        BY <1>2, <3>3 DEF Fail, Sound
      <4> QED BY <1>7, <3>1, <4>1 DEF Status
    <3>4. CASE mid = Promote(draft.config, v)
      <4>1. mid[c] = IF c = v THEN [status |-> "PAPER_CHAMPION", official |-> TRUE]
                     ELSE IF draft.config[c].status = "PAPER_CHAMPION"
                          THEN [status |-> "SUPERSEDED", official |-> FALSE]
                          ELSE draft.config[c]
        BY <3>4 DEF Promote
      <4>2. c # v /\ Status(draft.config, c) = "PAPER_CHAMPION"
        BY <1>7, <3>1, <4>1 DEF Status
      <4>3. mid # draft.config
        BY <1>7, <3>1
      <4>4. CASE mid = Fail(draft.config, v)
        <5>1. mid[c] = IF c = v THEN [status |-> "FAILED", official |-> FALSE] ELSE draft.config[c]
          BY <1>2, <4>4 DEF Fail, Sound
        <5> QED BY <1>7, <3>1, <5>1 DEF Status
      <4> QED BY <1>5, <3>4, <4>2, <4>3, <4>4
    <3> QED BY <1>5, <3>2, <3>3, <3>4
  <2>3. v \in Candidates /\ Status(draft.config, v) = "COLLECTING" /\ draft.config[v] = config[v]
    <3>1. v \in Candidates /\ draft.config[v] = config[v] /\ Status(draft.config, v) \in Active
      BY <1>1, <2>2
    <3> HIDE DEF v
    <3> QED BY <1>2, <2>2, <3>1 DEF Sound, One, Active
  <2>4. Beats(report.score, c)
    <3> HIDE DEF v
    <3> DEFINE others == With(draft.config, "PAPER_CHAMPION") \ {v}
    <3>1. c \in others
      BY <2>2 DEF With, Status
    <3>2. \A e \in others : e = c
      BY <1>2, <2>2 DEF With, Status, Sound, One, Active
    <3>3. \E e \in others : Beats(report.score, e)
      BY <2>2, <3>1 DEF Accepted, BeatsBenchmark
    <3> QED BY <3>2, <3>3
  <2>5. row.score = report.score
    BY DEF RowOf
  <2> HIDE DEF v, row
  <2>6. /\ draft'.rows[c] = draft.rows[c]
        /\ draft'.rows[v] = Append(draft.rows[v], row) /\ draft.rows[v] \in Seq(Row)
    BY <1>1, <1>2, <1>4, <2>2, <2>3
  <2>7. draft'.rows[v] # <<>> /\ draft'.rows[v][Len(draft'.rows[v])] = row
    BY <2>6
  <2>8. PICK d \in Candidates : d = v
    BY <2>3
  <2>9. Succeeds(d, c)'
    <3>1. /\ draft'.rows[c] # <<>> /\ draft'.rows[v] # <<>>
          /\ draft'.rows[c][Len(draft'.rows[c])].verified
          /\ <<draft'.rows[v][Len(draft'.rows[v])].score,
               draft'.rows[c][Len(draft'.rows[c])].score>> \in AsGood
      BY <2>4, <2>5, <2>6, <2>7 DEF Beats, LastOf
    <3> QED BY <2>8, <3>1 DEF Succeeds, LastOf
  <2>10. Status(draft'.config, v) = "PAPER_CHAMPION"
    <3>1. draft'.config[v] = mid[v]
      BY <1>1, <2>3
    <3> QED BY <2>2, <2>3, <3>1 DEF Promote, Status
  <2>11. v \notin run'.todo /\ Status(config, v) = "COLLECTING"
    BY <1>1, <2>3 DEF Status
  <2> QED BY <2>8, <2>9, <2>10, <2>11
<1> QED
  BY <1>6, <1>7

-----------------------------------------------------------------------------
(* The invariant                                                           *)

LEMMA InitInv ==
    ASSUME Init
    PROVE  LInv
<1>1. TypeOK
  <2>1. NoConfig \in Config
    BY DEF NoConfig, Config
  <2>2. Idle \in Run
    BY DEF Idle, Run
  <2>3. draft \in Draft
    BY <2>1 DEF Init, Draft
  <2> QED BY <2>1, <2>2, <2>3, LearningAssumption DEF Init, TypeOK
<1>2. \A c \in Candidates : Status(config, c) = "NONE" /\ config[c].official = FALSE
  BY DEF Init, NoConfig, Status
<1>3. Sound(config)
  BY <1>1, <1>2 DEF TypeOK, Sound, One, ChallengerYounger, CreatedInTurn, Active
<1>4. Earned(config, rows)
  BY <1>2 DEF Earned
<1>5. draft = [config |-> config, rows |-> rows] /\ ~run.active /\ run.todo = {}
  BY DEF Init, Idle
<1>6. draft.config = config /\ draft.rows = rows
  BY <1>5
<1>7. Untouched /\ Succession
  BY <1>2, <1>5 DEF Untouched, Succession
<1> QED
  BY <1>1, <1>3, <1>4, <1>5, <1>6, <1>7 DEF LInv

\* Steps that touch neither configurations nor evaluations: what is left to do
\* may only shrink.
LEMMA QuietStep ==
    ASSUME LInv, UNCHANGED <<config, rows, draft>>,
           run'.todo \subseteq run.todo, TypeOK',
           ~run'.active => ~run.active
    PROVE  LInv'
<1>1. Sound(config)' /\ Sound(draft.config)'
  BY DEF LInv, Sound, One, ChallengerYounger, CreatedInTurn, Status
<1>2. Earned(config, rows)' /\ Earned(draft.config, draft.rows)'
  BY DEF LInv, Earned
<1>3. Untouched'
  BY DEF LInv, Untouched, Status
<1>4. Succession'
  <2>1. \A c, d \in Candidates : Succeeds(d, c) => Succeeds(d, c)'
    BY DEF Succeeds, LastOf
  <2> QED BY <2>1 DEF LInv, Succession, Status
<1>5. (~run.active => run.todo = {} /\ draft = [config |-> config, rows |-> rows])'
  BY DEF LInv
<1> QED
  BY <1>1, <1>2, <1>3, <1>4, <1>5 DEF LInv

LEMMA SettledStep ==
    ASSUME TypeOK', Sound(config)', Earned(config, rows)',
           draft'.config = config', draft'.rows = rows',
           \A v \in run'.todo : v # Base => v \in Candidates /\ Status(config', v) \in Active,
           ~run'.active => run'.todo = {} /\ draft' = [config |-> config', rows |-> rows']
    PROVE  LInv'
BY DEF LInv, Sound, One, ChallengerYounger, CreatedInTurn, Status, Earned, Untouched, Succession

LEMMA EvaluateInv ==
    ASSUME LInv, NEW report \in Reports, Evaluate(report)
    PROVE  LInv'
<1>1. /\ run' \in Run /\ run'.active /\ Sound(draft'.config) /\ draft' \in Draft
      /\ UNCHANGED <<closed, config, rows, failures, total>>
  BY EvaluateEffect
<1>2. TypeOK'
  BY <1>1 DEF LInv, TypeOK
<1>3. Sound(config)' /\ Sound(draft.config)'
  BY <1>1 DEF LInv, Sound, One, ChallengerYounger, CreatedInTurn, Status
<1>4. Earned(config, rows)'
  BY <1>1 DEF LInv, Earned
<1>5. Earned(draft.config, draft.rows)' /\ Untouched' /\ Succession'
  BY EarnedKept, UntouchedKept, SuccessionKept
<1> QED
  BY <1>1, <1>2, <1>3, <1>4, <1>5 DEF LInv

LEMMA StepInv ==
    ASSUME LInv, [Next]_vars
    PROVE  LInv'
<1>0. TypeOK
  BY DEF LInv
<1>1. CASE UNCHANGED vars
  <2>1. TypeOK'
    BY <1>0, <1>1 DEF vars, TypeOK
  <2> QED BY <1>1, <2>1, QuietStep DEF vars
<1>2. ASSUME NEW v \in Versions, CloseTrade(v)
      PROVE  LInv'
  <2>1. closed' \in [Versions -> Nat] /\ total' \in 0 .. MaxClosed
    BY <1>0, <1>2, LearningAssumption DEF CloseTrade, TypeOK
  <2>2. TypeOK'
    BY <1>0, <1>2, <2>1 DEF CloseTrade, TypeOK
  <2> QED BY <1>2, <2>2, QuietStep DEF CloseTrade
<1>3. CASE StartRun
  <2>1. run' \in Run /\ run'.active /\ run'.todo = Definitions
    BY <1>3 DEF StartRun, Definitions, Versions, Run
  <2>2. draft' \in Draft /\ draft'.config = config' /\ draft'.rows = rows'
    BY <1>0, <1>3 DEF StartRun, TypeOK, Draft
  <2>3. TypeOK'
    BY <1>0, <1>3, <2>1, <2>2 DEF StartRun, TypeOK
  <2>4. Sound(config)' /\ Earned(config, rows)'
    BY <1>3 DEF StartRun, LInv, Sound, One, ChallengerYounger, CreatedInTurn, Status, Earned
  <2>5. \A v \in run'.todo : v # Base => v \in Candidates /\ Status(config', v) \in Active
    BY <1>3, <2>1 DEF StartRun, Definitions, Status
  <2> QED BY <2>1, <2>2, <2>3, <2>4, <2>5, SettledStep
<1>4. CASE Skip
  <2>1. run' = [run EXCEPT !.todo = @ \ {Current}] /\ run.active
    BY <1>4 DEF Skip
  <2>2. run' \in Run /\ run'.todo \subseteq run.todo /\ run'.active
    BY <1>0, <2>1 DEF TypeOK, Run
  <2>3. TypeOK'
    BY <1>0, <1>4, <2>2 DEF Skip, TypeOK
  <2> QED BY <1>4, <2>2, <2>3, QuietStep DEF Skip
<1>5. ASSUME NEW report \in Reports, Evaluate(report)
      PROVE  LInv'
  BY <1>5, EvaluateInv
<1>6. CASE Commit
  <2>1. /\ config' = draft.config /\ rows' = draft.rows /\ run' = Idle
        /\ UNCHANGED <<closed, draft, failures, total>>
    BY <1>6 DEF Commit
  <2>2. Idle \in Run /\ Idle.todo = {}
    BY DEF Idle, Run
  <2>3. draft \in Draft /\ draft = [config |-> draft.config, rows |-> draft.rows]
    BY <1>0 DEF TypeOK, Draft
  <2>4. TypeOK'
    BY <1>0, <2>1, <2>2, <2>3 DEF TypeOK, Draft
  <2>5. Sound(config)' /\ Earned(config, rows)'
    BY <2>1 DEF LInv, Sound, One, ChallengerYounger, CreatedInTurn, Status, Earned
  <2> QED BY <2>1, <2>2, <2>3, <2>4, <2>5, SettledStep
<1>7. CASE Abort
  <2>1. /\ draft' = [config |-> config, rows |-> rows] /\ run' = Idle
        /\ UNCHANGED <<closed, config, rows, total>>
    BY <1>7 DEF Abort
  <2>2. Idle \in Run /\ Idle.todo = {}
    BY DEF Idle, Run
  <2>3. failures' \in 0 .. MaxFailures
    BY <1>0, <1>7, LearningAssumption DEF Abort, TypeOK
  <2>4. draft' \in Draft /\ draft'.config = config' /\ draft'.rows = rows'
    BY <1>0, <2>1 DEF TypeOK, Draft
  <2>5. TypeOK'
    BY <1>0, <2>1, <2>2, <2>3, <2>4 DEF TypeOK
  <2>6. Sound(config)' /\ Earned(config, rows)'
    BY <2>1 DEF LInv, Sound, One, ChallengerYounger, CreatedInTurn, Status, Earned
  <2> QED BY <2>1, <2>2, <2>4, <2>5, <2>6, SettledStep
<1> QED
  BY <1>1, <1>2, <1>3, <1>4, <1>5, <1>6, <1>7 DEF Next, JobStep

LEMMA LearningInv == Spec => []LInv
BY InitInv, StepInv, PTL DEF Spec

-----------------------------------------------------------------------------
(* The properties                                                          *)

(* Configurations, evaluations and the running transaction keep their     *)
(* types: official_paper_enabled goes with the champion's status always.  *)
THEOREM LearningTypeCorrect == Spec => []TypeOK
<1>1. LInv => TypeOK
  BY DEF LInv
<1> QED
  BY <1>1, LearningInv, PTL

(* One champion and one collecting candidate, for every number of versions *)
(* and in both kinds of session: the missing flush can cost a candidate,   *)
(* never make two.                                                         *)
THEOREM OneOfEach == Spec => []OneActive
<1>1. LInv => OneActive
  BY DEF LInv, Sound, One, OneActive, Status
<1> QED
  BY <1>1, LearningInv, PTL

(* Official entries rest on a review that was passed and on none failed    *)
(* since.                                                                  *)
THEOREM OfficialIsEarned == Spec => []OfficialEarned
<1>1. LInv => OfficialEarned
  BY DEF LInv, Earned, OfficialEarned
<1> QED
  BY <1>1, LearningInv, PTL

(* A champion gives way only to a version at least as good as itself by    *)
(* its own latest evaluation, one of the same run included.                *)
THEOREM NeverDowngraded == Spec => NoDowngrade
<1>1. ASSUME LInv, [Next]_vars,
             NEW c \in Candidates, NEW d \in Candidates,
             config[c].status = "PAPER_CHAMPION", config'[c].status = "SUPERSEDED",
             config'[d].status = "PAPER_CHAMPION"
      PROVE  /\ rows'[c][Len(rows'[c])].verified
             /\ <<rows'[d][Len(rows'[d])].score, rows'[c][Len(rows'[c])].score>> \in AsGood
  <2>1. Commit
    <3>1. config' # config
      BY <1>1
    <3> QED BY <1>1, <3>1
         DEF Next, JobStep, CloseTrade, StartRun, Skip, Evaluate, Abort, vars
  <2>2. config' = draft.config /\ rows' = draft.rows
    BY <2>1 DEF Commit
  <2>3. PICK e \in Candidates : Status(draft.config, e) = "PAPER_CHAMPION" /\ Succeeds(e, c)
    BY <1>1, <2>2 DEF LInv, Succession, Status
  <2>4. e = d
    BY <1>1, <2>2, <2>3 DEF LInv, Sound, One, Status, Active
  <2> QED BY <2>2, <2>3, <2>4 DEF Succeeds, LastOf
<1>2. LInv /\ [Next]_vars =>
        [\A c, d \in Candidates :
            /\ config[c].status = "PAPER_CHAMPION" /\ config'[c].status = "SUPERSEDED"
            /\ config'[d].status = "PAPER_CHAMPION"
            => LET old == rows'[c][Len(rows'[c])]
                   new == rows'[d][Len(rows'[d])] IN
               old.verified /\ <<new.score, old.score>> \in AsGood]_vars
  BY <1>1
<1> QED
  BY <1>2, LearningInv, PTL DEF Spec, NoDowngrade

(* What a run has failed or superseded it does not touch again.            *)
THEOREM RetiredStaysRetired == Spec => RetiredStays
<1>1. ASSUME LInv, [Next]_vars, run.active, run'.active,
             NEW c \in Candidates, draft.config[c].status \in Retired
      PROVE  draft'.config[c] = draft.config[c]
  <2>1. ASSUME NEW report \in Reports, Evaluate(report)
        PROVE  draft'.config[c] = draft.config[c]
    BY <1>1, <2>1, EvaluateEffect DEF Status
  <2>2. CASE StartRun \/ Commit \/ Abort
    BY <1>1, <2>2 DEF StartRun, Commit, Abort, Idle
  <2>3. CASE Skip \/ UNCHANGED vars \/ \E v \in Versions : CloseTrade(v)
    BY <2>3 DEF Skip, CloseTrade, vars
  <2> QED BY <1>1, <2>1, <2>2, <2>3 DEF Next, JobStep
<1>2. LInv /\ [Next]_vars =>
        [\A c \in Candidates :
            run.active /\ run'.active /\ draft.config[c].status \in Retired =>
                draft'.config[c] = draft.config[c]]_vars
  BY <1>1
<1> QED
  BY <1>2, LearningInv, PTL DEF Spec, RetiredStays
=============================================================================
