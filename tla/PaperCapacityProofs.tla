------------------------- MODULE PaperCapacityProofs -------------------------
(***************************************************************************)
(* The margin ceiling of PaperBook, for every number of rows, executors    *)
(* and monitors and for every margin, unit count and ceiling.              *)
(*                                                                         *)
(* What the account has committed is a sum over its rows, so the first     *)
(* part is about sums: SumFunction picks the rows in an order nobody       *)
(* knows, and its value depends on none.                                   *)
(***************************************************************************)
EXTENDS PaperBookProofs, FiniteSetTheorems

-----------------------------------------------------------------------------
(* Induction over a set of naturals and over the subsets of a finite set   *)

\* A set of naturals that contains 0 and every successor is Nat.
LEMMA NatSetInduction ==
    ASSUME NEW G \in SUBSET Nat, 0 \in G, \A n \in G : n + 1 \in G
    PROVE  G = Nat
<1> SUFFICES ASSUME Nat \ G # {} PROVE FALSE
    OBVIOUS
<1>1. PICK n \in Nat \ G : \A m \in Nat \ G : ~ (<<m, n>> \in OpToRel(<, Nat))
    BY NatLessThanWellFounded, WFMin, Nat \ G \subseteq Nat
<1>2. \A m \in Nat \ G : ~ (m < n)
    BY <1>1 DEF OpToRel
<1>3. n # 0 /\ n - 1 \in Nat /\ n - 1 \notin Nat \ G
    BY <1>2
<1> QED
    BY <1>3

-----------------------------------------------------------------------------
(* Sums over the rows of a table                                           *)

\* The row a fold takes next.
Chosen(s) == CHOOSE x \in s : TRUE

SumStep(w, g, s) == IF s = {} THEN 0 ELSE w[Chosen(s)] + g[s \ {Chosen(s)}]

PartialSums(w) ==
    CHOOSE g : g = [s \in SUBSET DOMAIN w |-> SumStep(w, g, s)]

\* SumFunction, unfolded down to the function that its fold recurses with.
LEMMA SumUnfolds == \A w : SumFunction(w) = PartialSums(w)[DOMAIN w]
BY DEF SumFunction, SumFunctionOnSet, FoldFunctionOnSet, MapThenFoldSet,
       PartialSums, SumStep, Chosen

LEMMA ChosenMember == \A s : s # {} => Chosen(s) \in s
BY DEF Chosen

\* The recursion of the fold has a solution, so CHOOSE picks one: the partial
\* sums are built up by the number of rows they cover.
LEMMA PartialSumsExist ==
    ASSUME NEW w, IsFiniteSet(DOMAIN w)
    PROVE  PartialSums(w)
              = [s \in SUBSET DOMAIN w |-> SumStep(w, PartialSums(w), s)]
<1> DEFINE S == DOMAIN w
           Upto(n) == {s \in SUBSET S : Cardinality(s) =< n}
           G == {n \in Nat : \E g : \A s \in Upto(n) : g[s] = SumStep(w, g, s)}
<1> HIDE DEF S
<1>0. IsFiniteSet(S) BY DEF S
<1>1. \A s \in SUBSET S : /\ Cardinality(s) \in Nat
                          /\ s # {} => /\ Chosen(s) \in s
                                       /\ s \ {Chosen(s)} \in SUBSET S
                                       /\ Cardinality(s \ {Chosen(s)}) = Cardinality(s) - 1
    BY <1>0, FS_Subset, FS_CardinalityType, FS_RemoveElement, ChosenMember
<1>2. 0 \in G
  <2>1. \A s \in Upto(0) : s = {}
    <3> SUFFICES ASSUME NEW s \in Upto(0) PROVE s = {}
        OBVIOUS
    <3>1. IsFiniteSet(s)
        BY <1>0, FS_Subset
    <3>2. Cardinality(s) \in Nat /\ Cardinality(s) =< 0
        BY <3>1, FS_CardinalityType
    <3> QED
        BY <3>1, <3>2, FS_EmptySet
  <2>2. \A s \in Upto(0) : [u \in {{}} |-> 0][s] = SumStep(w, [u \in {{}} |-> 0], s)
      BY <2>1 DEF SumStep
  <2> QED BY <2>2
<1>3. ASSUME NEW n \in G PROVE n + 1 \in G
  <2>1. PICK g : \A s \in Upto(n) : g[s] = SumStep(w, g, s)
      OBVIOUS
  <2> DEFINE h == [s \in SUBSET S |-> SumStep(w, g, s)]
  <2>2. ASSUME NEW s \in Upto(n + 1) PROVE h[s] = SumStep(w, h, s)
    <3>1. CASE s = {} BY <3>1 DEF SumStep
    <3>2. CASE s # {}
      <4>1. s \ {Chosen(s)} \in Upto(n)
          BY <1>1, <3>2
      <4>2. h[s \ {Chosen(s)}] = g[s \ {Chosen(s)}]
          BY <2>1, <4>1
      <4> QED BY <3>2, <4>2 DEF SumStep
    <3> QED BY <3>1, <3>2
  <2> HIDE DEF h
  <2> QED BY <2>2
<1>4. G = Nat
  <2> HIDE DEF G
  <2>1. G \in SUBSET Nat BY DEF G
  <2> QED BY <1>2, <1>3, <2>1, NatSetInduction
<1>5. Cardinality(S) \in Nat /\ Upto(Cardinality(S)) = SUBSET S
    BY <1>0, FS_CardinalityType, FS_Subset
<1>6. PICK g : \A s \in SUBSET S : g[s] = SumStep(w, g, s)
    BY <1>4, <1>5
<1> DEFINE f == [s \in SUBSET S |-> SumStep(w, g, s)]
<1>7. \A s \in SUBSET S : f[s] = SumStep(w, f, s)
    BY <1>1, <1>6 DEF SumStep
<1>8. f = [s \in SUBSET S |-> SumStep(w, f, s)]
    BY <1>7
<1> HIDE DEF f
<1>9. \E h : h = [s \in SUBSET S |-> SumStep(w, h, s)]
    BY <1>8
<1> QED BY <1>9 DEF PartialSums, S

\* One step of the fold.
LEMMA SetSumRec ==
    ASSUME NEW w, IsFiniteSet(DOMAIN w), NEW s \in SUBSET DOMAIN w
    PROVE  PartialSums(w)[s] = SumStep(w, PartialSums(w), s)
BY PartialSumsExist

\* What holds of {} and passes from a subset without its chosen element to the
\* subset holds of the whole finite set.
LEMMA SubsetInduction ==
    ASSUME NEW S, IsFiniteSet(S), NEW G, {} \in G,
           \A s \in SUBSET S : s # {} /\ s \ {Chosen(s)} \in G => s \in G
    PROVE  S \in G
<1> SUFFICES ASSUME S \notin G PROVE FALSE
    OBVIOUS
<1> DEFINE T == {s \in SUBSET S : s \notin G}
<1>1. \A s \in SUBSET S : IsFiniteSet(s)
    BY FS_Subset
<1>2. T \subseteq FiniteSubsetsOf(S) /\ T # {}
    BY <1>1 DEF FiniteSubsetsOf
<1>3. PICK s \in T : \A u \in T : ~ (<<u, s>> \in StrictSubsetOrdering(S))
  <2> HIDE DEF T
  <2>1. IsWellFoundedOn(StrictSubsetOrdering(S), FiniteSubsetsOf(S))
      BY FS_StrictSubsetOrderingWellFounded
  <2> QED
      BY <1>2, <2>1, WFMin
<1>4. \A u \in T : ~ (u \subseteq s /\ u # s)
    BY <1>3 DEF StrictSubsetOrdering
<1>5. s # {} /\ Chosen(s) \in s
    BY ChosenMember
<1>6. s \ {Chosen(s)} \in T
    BY <1>5
<1> QED
    BY <1>4, <1>5, <1>6

\* A sum of integers is an integer.
LEMMA SumType ==
    ASSUME NEW w, IsFiniteSet(DOMAIN w), \A x \in DOMAIN w : w[x] \in Int
    PROVE  SumFunction(w) \in Int
<1> DEFINE G == {s \in SUBSET DOMAIN w : PartialSums(w)[s] \in Int}
<1>1. {} \in G
  <2>1. PartialSums(w)[{}] = SumStep(w, PartialSums(w), {})
      BY SetSumRec
  <2> QED
      BY <2>1 DEF SumStep
<1>2. ASSUME NEW s \in SUBSET DOMAIN w, s # {}, s \ {Chosen(s)} \in G
      PROVE  s \in G
    BY <1>2, SetSumRec, ChosenMember DEF SumStep
<1>3. DOMAIN w \in G
  <2> HIDE DEF G
  <2> QED BY <1>1, <1>2, SubsetInduction
<1> QED
    BY <1>3, SumUnfolds

\* A sum does not grow when no summand grows.
LEMMA SumMonotone ==
    ASSUME NEW S, IsFiniteSet(S), NEW v \in [S -> Int], NEW w \in [S -> Int],
           \A x \in S : v[x] =< w[x]
    PROVE  SumFunction(v) =< SumFunction(w)
<1> DEFINE G == {s \in SUBSET S : /\ PartialSums(v)[s] \in Int
                                  /\ PartialSums(w)[s] \in Int
                                  /\ PartialSums(v)[s] =< PartialSums(w)[s]}
<1>0. \A s \in SUBSET S : /\ PartialSums(v)[s] = SumStep(v, PartialSums(v), s)
                          /\ PartialSums(w)[s] = SumStep(w, PartialSums(w), s)
    BY SetSumRec
<1>1. {} \in G
  <2>1. PartialSums(v)[{}] = 0 /\ PartialSums(w)[{}] = 0
      BY <1>0 DEF SumStep
  <2> QED
      BY <2>1
<1>2. ASSUME NEW s \in SUBSET S, s # {}, s \ {Chosen(s)} \in G
      PROVE  s \in G
  <2>1. /\ PartialSums(v)[s] = v[Chosen(s)] + PartialSums(v)[s \ {Chosen(s)}]
        /\ PartialSums(w)[s] = w[Chosen(s)] + PartialSums(w)[s \ {Chosen(s)}]
      BY <1>0, <1>2 DEF SumStep
  <2>2. Chosen(s) \in S
      BY <1>2, ChosenMember
  <2> QED
      BY <1>2, <2>1, <2>2
<1>3. S \in G
  <2> HIDE DEF G
  <2> QED BY <1>1, <1>2, SubsetInduction
<1> QED
    BY <1>3, SumUnfolds

\* When one summand changes, the sum changes by as much.
LEMMA SumChanges ==
    ASSUME NEW S, IsFiniteSet(S), NEW v \in [S -> Int], NEW w \in [S -> Int],
           NEW t \in S, \A x \in S \ {t} : v[x] = w[x]
    PROVE  SumFunction(w) = SumFunction(v) + (w[t] - v[t])
<1> DEFINE Gap(s) == IF t \in s THEN w[t] - v[t] ELSE 0
           G == {s \in SUBSET S : /\ PartialSums(v)[s] \in Int
                                  /\ PartialSums(w)[s] \in Int
                                  /\ PartialSums(w)[s]
                                        = PartialSums(v)[s] + Gap(s)}
<1>0. \A s \in SUBSET S : /\ PartialSums(v)[s] = SumStep(v, PartialSums(v), s)
                          /\ PartialSums(w)[s] = SumStep(w, PartialSums(w), s)
    BY SetSumRec
<1>1. {} \in G
    BY <1>0 DEF SumStep
<1>2. ASSUME NEW s \in SUBSET S, s # {}, s \ {Chosen(s)} \in G
      PROVE  s \in G
  <2>1. /\ PartialSums(v)[s] = v[Chosen(s)] + PartialSums(v)[s \ {Chosen(s)}]
        /\ PartialSums(w)[s] = w[Chosen(s)] + PartialSums(w)[s \ {Chosen(s)}]
      BY <1>0, <1>2 DEF SumStep
  <2>2. Chosen(s) \in S /\ Chosen(s) \in s
      BY <1>2, ChosenMember
  <2>3. CASE Chosen(s) = t
    <3>1. Gap(s) = w[t] - v[t] /\ Gap(s \ {Chosen(s)}) = 0
        BY <2>2, <2>3
    <3> QED
        BY <1>2, <2>1, <2>2, <2>3, <3>1
  <2>4. CASE Chosen(s) # t
    <3>1. Gap(s) = Gap(s \ {Chosen(s)}) /\ Gap(s) \in Int
        BY <2>2, <2>4
    <3>2. w[Chosen(s)] = v[Chosen(s)] /\ v[Chosen(s)] \in Int
        BY <2>2, <2>4
    <3> HIDE DEF Gap
    <3> QED
        BY <1>2, <2>1, <3>1, <3>2
  <2> QED
      BY <2>3, <2>4
<1>3. S \in G
  <2> HIDE DEF G
  <2> QED BY <1>1, <1>2, SubsetInduction
<1> QED
    BY <1>3, SumUnfolds

\* A sum of zeros is zero.
LEMMA SumOfZeros ==
    ASSUME NEW S, IsFiniteSet(S)
    PROVE  SumFunction([x \in S |-> 0]) = 0
<1> DEFINE w == [x \in S |-> 0]
           G == {s \in SUBSET S : PartialSums(w)[s] = 0}
<1>0. \A s \in SUBSET S : PartialSums(w)[s] = SumStep(w, PartialSums(w), s)
    BY SetSumRec
<1>1. {} \in G
  <2>1. PartialSums(w)[{}] = 0
      BY <1>0 DEF SumStep
  <2> QED
      BY <2>1
<1>2. ASSUME NEW s \in SUBSET S, s # {}, s \ {Chosen(s)} \in G
      PROVE  s \in G
    BY <1>0, <1>2, ChosenMember DEF SumStep
<1>3. S \in G
  <2> HIDE DEF G
  <2> QED
      BY <1>1, <1>2, SubsetInduction
<1> QED
    BY <1>3, SumUnfolds

-----------------------------------------------------------------------------
(* What the rows commit                                                    *)

Margins == [t \in TradeIds |-> CommittedMargin(trade[t])]

\* The part of it that positions opened from a plan commit.
PlannedMargins ==
    [t \in TradeIds |-> IF trade[t].plan = None THEN 0
                        ELSE CommittedMargin(trade[t])]

PlannedCommitted == SumFunction(PlannedMargins)

LEMMA RowsFinite == IsFiniteSet(TradeIds)
BY BoundAssumption, FS_Interval DEF TradeIds

\* A position that has banked target 1 commits no more than a whole one.
LEMMA MarginFacts ==
    \A m \in Nat : /\ m * Units \in Nat
                   /\ m * (Units - Target1Units) \in Nat
                   /\ m * (Units - Target1Units) =< m * Units
<1> SUFFICES ASSUME NEW m \in Nat
             PROVE  /\ m * Units \in Nat
                    /\ m * (Units - Target1Units) \in Nat
                    /\ m * (Units - Target1Units) =< m * Units
    OBVIOUS
<1>1. PICK u \in Nat, k \in Nat : u = Units - Target1Units /\ k = Target1Units
    BY UnitsAssumption
<1>2. Units = u + k
    BY <1>1, UnitsAssumption
<1>3. m * u \in Nat /\ m * k \in Nat /\ m * (u + k) = m * u + m * k
    OBVIOUS
<1> QED
    BY <1>1, <1>2, <1>3

LEMMA CommittedMarginType ==
    ASSUME NEW row \in Row PROVE CommittedMargin(row) \in Nat
<1>1. row.margin \in Nat
    BY DEF Row
<1> QED
    BY <1>1, MarginFacts DEF CommittedMargin

LEMMA MarginsType ==
    ASSUME TypeOK
    PROVE  /\ Margins \in [TradeIds -> Int]
           /\ PlannedMargins \in [TradeIds -> Int]
           /\ \A t \in TradeIds : PlannedMargins[t] =< Margins[t]
BY CommittedMarginType DEF TypeOK, Margins, PlannedMargins

\* The same of the next state: a lemma's state cannot be primed as a whole.
LEMMA MarginsTypeNext ==
    ASSUME TypeOK'
    PROVE  /\ Margins' \in [TradeIds -> Int]
           /\ PlannedMargins' \in [TradeIds -> Int]
BY CommittedMarginType DEF TypeOK, Margins, PlannedMargins

LEMMA CommittedFacts ==
    ASSUME TypeOK
    PROVE  /\ Committed = SumFunction(Margins)
           /\ Committed \in Int
           /\ PlannedCommitted \in Int
           /\ PlannedCommitted =< Committed
<1>1. Committed = SumFunction(Margins)
    BY DEF Committed, Margins
<1>2. DOMAIN Margins = TradeIds /\ DOMAIN PlannedMargins = TradeIds
    BY DEF Margins, PlannedMargins
<1> QED
    BY <1>1, <1>2, RowsFinite, MarginsType, SumType, SumMonotone
    DEF PlannedCommitted

\* Nothing is committed anew by a step that raises no row's margin and
\* leaves every row its plan.
LEMMA CommittedShrinks ==
    ASSUME TypeOK, TypeOK',
           \A t \in TradeIds :
               /\ trade'[t].plan = trade[t].plan
               /\ CommittedMargin(trade'[t]) =< CommittedMargin(trade[t])
    PROVE  Committed' =< Committed /\ PlannedCommitted' =< PlannedCommitted
<1>1. /\ Margins \in [TradeIds -> Int] /\ Margins' \in [TradeIds -> Int]
      /\ PlannedMargins \in [TradeIds -> Int]
      /\ PlannedMargins' \in [TradeIds -> Int]
    BY MarginsType, MarginsTypeNext
<1>2. \A t \in TradeIds : Margins'[t] =< Margins[t]
    BY DEF Margins
<1>3. \A t \in TradeIds : PlannedMargins'[t] =< PlannedMargins[t]
    BY DEF PlannedMargins
<1>4. SumFunction(Margins') =< SumFunction(Margins)
    BY <1>1, <1>2, RowsFinite, SumMonotone
<1>5. SumFunction(PlannedMargins') =< SumFunction(PlannedMargins)
    BY <1>1, <1>3, RowsFinite, SumMonotone
<1> QED
    BY <1>4, <1>5 DEF Committed, Margins, PlannedCommitted

\* An insert commits its margin for every unit, and among the planned rows
\* only when the row has a plan.
LEMMA InsertCommits ==
    ASSUME TypeOK, TypeOK', NEW c, NEW p, NEW policy, NEW m \in Nat,
           InsertTrade(c, p, policy, m)
    PROVE  /\ Committed' = Committed + m * Units
           /\ PlannedCommitted' =< PlannedCommitted + m * Units
           /\ p = None => PlannedCommitted' = PlannedCommitted
<1>1. PICK t \in TradeIds :
        /\ trade[t].status = "NONE"
        /\ trade' = [trade EXCEPT ![t] = OpenRow(c, p, policy, m)]
    BY DEF InsertTrade
<1>2. trade'[t] = OpenRow(c, p, policy, m)
      /\ \A s \in TradeIds \ {t} : trade'[s] = trade[s]
    BY <1>1 DEF TypeOK
<1>3. /\ Margins \in [TradeIds -> Int] /\ Margins' \in [TradeIds -> Int]
      /\ PlannedMargins \in [TradeIds -> Int]
      /\ PlannedMargins' \in [TradeIds -> Int]
    BY MarginsType, MarginsTypeNext
<1>4. \A s \in TradeIds \ {t} : /\ Margins'[s] = Margins[s]
                                /\ PlannedMargins'[s] = PlannedMargins[s]
    BY <1>2 DEF Margins, PlannedMargins
<1>5. Margins[t] = 0 /\ PlannedMargins[t] = 0
    BY <1>1 DEF Margins, PlannedMargins, CommittedMargin
<1>6. Margins'[t] = m * Units
      /\ PlannedMargins'[t] = IF p = None THEN 0 ELSE m * Units
    BY <1>2 DEF Margins, PlannedMargins, CommittedMargin, OpenRow
<1>7. /\ SumFunction(Margins') = SumFunction(Margins) + (m * Units - 0)
      /\ SumFunction(PlannedMargins')
            = SumFunction(PlannedMargins)
              + ((IF p = None THEN 0 ELSE m * Units) - 0)
    BY <1>3, <1>4, <1>5, <1>6, RowsFinite, SumChanges
<1>8. m * Units \in Nat /\ Committed \in Int /\ PlannedCommitted \in Int
    BY MarginFacts, CommittedFacts
<1> QED
    BY <1>7, <1>8 DEF Committed, Margins, PlannedCommitted

\* No exit commits margin: target 1 frees a part of it, a close all of it.
LEMMA ExitsShrink ==
    ASSUME TypeOK, TypeOK', NEW w \in Monitors,
           EnsurePolicy(w) \/ TakeTarget1(w) \/ CommitClose(w)
    PROVE  Committed' =< Committed /\ PlannedCommitted' =< PlannedCommitted
<1> DEFINE r == monitor[w].trade
<1>1. \A t \in TradeIds : trade[t] \in Row /\ CommittedMargin(trade[t]) \in Nat
    BY CommittedMarginType DEF TypeOK
<1>2. CASE EnsurePolicy(w)
  <2>1. \A t \in TradeIds : /\ trade'[t].plan = trade[t].plan
                            /\ trade'[t].status = trade[t].status
                            /\ trade'[t].margin = trade[t].margin
                            /\ trade'[t].target1 = trade[t].target1
      BY <1>2 DEF EnsurePolicy, TypeOK, Row
  <2>2. \A t \in TradeIds :
            CommittedMargin(trade'[t]) = CommittedMargin(trade[t])
      BY <2>1 DEF CommittedMargin
  <2> QED
      BY <1>1, <2>1, <2>2, CommittedShrinks
<1>3. CASE TakeTarget1(w)
  <2>1. PICK x \in NetMarks :
          trade' = [trade EXCEPT ![r] = [@ EXCEPT !.target1 = TRUE,
                                                  !.target1Mark = x,
                                                  !.partial = Target1Units * x]]
      BY <1>3 DEF TakeTarget1
  <2>2. \A t \in TradeIds : /\ trade'[t].plan = trade[t].plan
                            /\ trade'[t].status = trade[t].status
                            /\ trade'[t].margin = trade[t].margin
                            /\ \/ trade'[t].target1 = TRUE
                               \/ trade'[t].target1 = trade[t].target1
    <3> SUFFICES ASSUME NEW t \in TradeIds
                 PROVE  /\ trade'[t].plan = trade[t].plan
                        /\ trade'[t].status = trade[t].status
                        /\ trade'[t].margin = trade[t].margin
                        /\ \/ trade'[t].target1 = TRUE
                           \/ trade'[t].target1 = trade[t].target1
        OBVIOUS
    <3>1. CASE t = r
      <4>1. trade'[t] = [trade[t] EXCEPT !.target1 = TRUE,
                                         !.target1Mark = x,
                                         !.partial = Target1Units * x]
          BY <2>1, <3>1 DEF TypeOK
      <4>2. trade[t] \in Row
          BY <1>1
      <4> QED
          BY <4>1, <4>2 DEF Row
    <3>2. CASE t # r
      <4>1. trade'[t] = trade[t]
          BY <2>1, <3>2 DEF TypeOK
      <4> QED
          BY <4>1
    <3> QED
        BY <3>1, <3>2
  <2>3. \A t \in TradeIds : trade[t].margin \in Nat
      BY <1>1 DEF Row
  <2>4. \A t \in TradeIds :
            CommittedMargin(trade'[t]) =< CommittedMargin(trade[t])
      BY <2>2, <2>3, MarginFacts DEF CommittedMargin
  <2> QED
      BY <2>2, <2>4, CommittedShrinks
<1>4. CASE CommitClose(w)
  <2>1. \A t \in TradeIds : /\ trade'[t].plan = trade[t].plan
                            /\ trade'[t].margin = trade[t].margin
                            /\ trade'[t].target1 = trade[t].target1
                            /\ \/ trade'[t].status = "CLOSED"
                               \/ trade'[t].status = trade[t].status
      BY <1>1, <1>4 DEF CommitClose, TypeOK, Row
  <2>2. \A t \in TradeIds :
            \/ CommittedMargin(trade'[t]) = 0
            \/ CommittedMargin(trade'[t]) = CommittedMargin(trade[t])
      BY <2>1 DEF CommittedMargin
  <2> QED
      BY <1>1, <2>1, <2>2, CommittedShrinks
<1> QED
    BY <1>2, <1>3, <1>4

-----------------------------------------------------------------------------
(* The ceiling                                                             *)

\* The margin that an executor inside an intact boundary was admitted with
\* still fits: while it holds the account lock nothing else is inserted, and
\* the exits that run beside it only free margin.
AdmissionFits ==
    \A e \in Executors :
        executor[e].pc = "admitted" /\ executor[e].intact =>
            Committed + executor[e].margin * Units =< Ceiling

PlannedFits == PlannedCommitted =< Ceiling

\* Without entries of the unified endpoint the whole book fits.
BookFits == UnifiedMargins = {} => WithinCeiling

CapacityInv == AdmissionFits /\ PlannedFits /\ BookFits

LEMMA CapacityInit == Init => CapacityInv
<1> SUFFICES ASSUME Init PROVE CapacityInv
    OBVIOUS
<1>1. Committed = SumFunction([t \in TradeIds |-> 0])
      /\ PlannedCommitted = SumFunction([t \in TradeIds |-> 0])
  <2>1. /\ [t \in TradeIds |-> CommittedMargin(trade[t])]
              = [t \in TradeIds |-> 0]
        /\ PlannedMargins = [t \in TradeIds |-> 0]
      BY DEF Init, NoRow, CommittedMargin, PlannedMargins
  <2> QED
      BY <2>1 DEF Committed, PlannedCommitted
<1>2. Committed = 0 /\ PlannedCommitted = 0
    BY <1>1, RowsFinite, SumOfZeros
<1>3. \A e \in Executors : executor[e].pc # "admitted"
    BY DEF Init, IdleExecutor
<1> QED
    BY <1>2, <1>3, MarginAssumption
    DEF CapacityInv, AdmissionFits, PlannedFits, BookFits, WithinCeiling

\* Steps of the candidate list, the lock, the queued plans and the monitors
\* that write no row and admit nothing.
LEMMA CapacityKept ==
    ASSUME CapacityInv, UNCHANGED trade,
           \A e \in Executors :
               executor'[e].pc = "admitted" /\ executor'[e].intact =>
                   /\ executor[e].pc = "admitted"
                   /\ executor[e].intact
                   /\ executor'[e].margin = executor[e].margin
    PROVE  CapacityInv'
<1>1. Committed' = Committed /\ PlannedCommitted' = PlannedCommitted
    BY DEF Committed, PlannedCommitted, PlannedMargins
<1> QED
    BY <1>1
    DEF CapacityInv, AdmissionFits, PlannedFits, BookFits, WithinCeiling

\* The run that holds the lock looks at the ceiling before it is admitted.
LEMMA AdmitFits ==
    ASSUME TypeOK, CapacityInv, NEW e \in Executors, Admit(e)
    PROVE  CapacityInv'
<1>1. Committed' = Committed /\ PlannedCommitted' = PlannedCommitted
    BY DEF Admit, Committed, PlannedCommitted, PlannedMargins
<1>2. PICK p \in executor[e].candidates, m \in EntryMargins :
        /\ Committed + m * Units =< Ceiling
        /\ executor' = [executor EXCEPT ![e] = [@ EXCEPT !.pc = "admitted",
                                                         !.plan = p,
                                                         !.margin = m]]
    BY DEF Admit
<1>3. executor'[e].margin = m /\ \A f \in Executors \ {e} :
                                     executor'[f] = executor[f]
    BY <1>2 DEF TypeOK, ExecutorState
<1> QED
    BY <1>1, <1>2, <1>3
    DEF CapacityInv, AdmissionFits, PlannedFits, BookFits, WithinCeiling

\* The fill commits what was admitted, and no other run was admitted beside
\* it: two of them would both hold the account lock.
LEMMA FillFits ==
    ASSUME TypeOK, TypeOK', Reserved, CapacityInv,
           NEW e \in Executors, Fill(e)
    PROVE  CapacityInv'
<1>1. executor[e].pc = "admitted" /\ executor[e].intact
    BY DEF Fill, ReservationIntact
<1>2. \A f \in Executors : executor'[f].pc = "admitted" => ~ executor'[f].intact
  <2> SUFFICES ASSUME NEW f \in Executors, executor'[f].pc = "admitted",
                      executor'[f].intact
               PROVE  FALSE
      OBVIOUS
  <2>1. f # e
      BY DEF Fill, NextCoin, IdleExecutor, TypeOK
  <2>2. executor'[f] = executor[f]
      BY <2>1 DEF Fill, NextCoin, TypeOK
  <2>3. account = e /\ account = f
      BY <1>1, <2>2 DEF Reserved
  <2> QED
      BY <2>1, <2>3
<1>3. executor[e].margin \in Nat
    BY DEF TypeOK, ExecutorState
<1>4. /\ Committed' = Committed + executor[e].margin * Units
      /\ PlannedCommitted' =< PlannedCommitted + executor[e].margin * Units
    BY <1>3, InsertCommits DEF Fill
<1>5. Committed + executor[e].margin * Units =< Ceiling
    BY <1>1 DEF CapacityInv, AdmissionFits
<1>6. /\ Committed \in Int /\ PlannedCommitted \in Int
      /\ PlannedCommitted =< Committed
      /\ executor[e].margin * Units \in Nat
    BY <1>3, CommittedFacts, MarginFacts
<1>7. PlannedCommitted' \in Int /\ Ceiling \in Int
  <2>1. PlannedMargins' \in [TradeIds -> Int]
      BY MarginsTypeNext
  <2> QED
      BY <2>1, RowsFinite, SumType, MarginAssumption DEF PlannedCommitted
<1>8. PlannedCommitted' =< Ceiling
    BY <1>4, <1>5, <1>6, <1>7
<1> QED
    BY <1>2, <1>4, <1>5, <1>8
    DEF CapacityInv, AdmissionFits, PlannedFits, BookFits, WithinCeiling

\* An entry of the unified endpoint has no plan, and no run is inside the
\* boundary when it takes the account lock.
LEMMA UnifiedFits ==
    ASSUME AccountLocks = TRUE, TypeOK, TypeOK', Reserved, CapacityInv,
           NEW c \in Coins, OpenUnified(c)
    PROVE  CapacityInv'
<1>1. PICK m \in UnifiedMargins :
        InsertTrade(c, None, "UNIFIED_PROFILE", m)
    BY DEF OpenUnified
<1>2. m \in Nat /\ UnifiedMargins # {}
    BY MarginAssumption
<1>3. PlannedCommitted' = PlannedCommitted
    BY <1>1, <1>2, InsertCommits
<1>4. \A e \in Executors : executor'[e].pc = "admitted" => ~ executor'[e].intact
    BY NoneAssumption DEF OpenUnified, Reserved
<1> QED
    BY <1>2, <1>3, <1>4
    DEF CapacityInv, AdmissionFits, PlannedFits, BookFits

LEMMA ExitsFit ==
    ASSUME TypeOK, TypeOK', CapacityInv, NEW w \in Monitors,
           EnsurePolicy(w) \/ TakeTarget1(w) \/ CommitClose(w)
    PROVE  CapacityInv'
<1>1. UNCHANGED executor
    BY DEF EnsurePolicy, TakeTarget1, CommitClose
<1>2. Committed' =< Committed /\ PlannedCommitted' =< PlannedCommitted
    BY ExitsShrink
<1>3. /\ Committed \in Int /\ PlannedCommitted \in Int /\ Ceiling \in Int
      /\ \A e \in Executors : executor[e].margin * Units \in Int
    BY CommittedFacts, MarginFacts, MarginAssumption DEF TypeOK, ExecutorState
<1>4. Committed' \in Int /\ PlannedCommitted' \in Int
  <2>1. Margins' \in [TradeIds -> Int] /\ PlannedMargins' \in [TradeIds -> Int]
      BY MarginsTypeNext
  <2>2. Committed' = SumFunction(Margins')
      BY DEF Committed, Margins
  <2> QED
      BY <2>1, <2>2, RowsFinite, SumType DEF PlannedCommitted
<1>5. AdmissionFits'
    BY <1>1, <1>2, <1>3, <1>4 DEF CapacityInv, AdmissionFits
<1>6. PlannedFits' /\ BookFits'
    BY <1>2, <1>3, <1>4
    DEF CapacityInv, PlannedFits, BookFits, WithinCeiling
<1> QED
    BY <1>5, <1>6 DEF CapacityInv

LEMMA CapacityStep ==
    ASSUME AccountLocks = TRUE, TypeOK, TypeOK', Reserved, CapacityInv,
           [Next]_vars
    PROVE  CapacityInv'
<1>1. CASE UNCHANGED <<trade, executor>>
    BY <1>1, CapacityKept
<1>2. ASSUME NEW e \in Executors, BuildCandidates(e) PROVE CapacityInv'
    BY <1>2, CapacityKept DEF BuildCandidates, IdleExecutor, TypeOK
<1>3. ASSUME NEW e \in Executors, Reserve(e) PROVE CapacityInv'
    BY <1>3, CapacityKept DEF Reserve, TypeOK, ExecutorState
<1>4. ASSUME NEW e \in Executors, Admit(e) PROVE CapacityInv'
    BY <1>4, AdmitFits
<1>5. ASSUME NEW e \in Executors, Fill(e) PROVE CapacityInv'
    BY <1>5, FillFits
<1>6. ASSUME NEW e \in Executors, Skip(e) PROVE CapacityInv'
    BY <1>6, CapacityKept DEF Skip, NextCoin, IdleExecutor, TypeOK
<1>7. ASSUME NEW e \in Executors, LoseReservation(e) PROVE CapacityInv'
    BY <1>7, CapacityKept DEF LoseReservation, TypeOK, ExecutorState
<1>8. ASSUME NEW c \in Coins, OpenUnified(c) PROVE CapacityInv'
    BY <1>8, UnifiedFits
<1>9. ASSUME NEW w \in Monitors,
             EnsurePolicy(w) \/ TakeTarget1(w) \/ CommitClose(w)
      PROVE  CapacityInv'
    BY <1>9, ExitsFit
<1> QED
    BY <1>1, <1>2, <1>3, <1>4, <1>5, <1>6, <1>7, <1>8, <1>9, MonitorAssumption
    DEF vars, Next, ExecutorStep, MonitorStep, SavePlan, RetirePlan,
        ListForPolicy, LockRow, Release, BeginClose

LEMMA CapacityAlways ==
    ASSUME AccountLocks = TRUE PROVE Spec => []CapacityInv
<1>1. Init => CapacityInv
    BY CapacityInit
<1>2. TypeOK /\ TypeOK' /\ Reserved /\ CapacityInv /\ [Next]_vars
          => CapacityInv'
    BY CapacityStep
<1> QED
    BY <1>1, <1>2, TypeCorrect, ReservedAlways, PTL DEF Spec

\* With the account lock the positions that executors open from plans never
\* commit more margin than the ceiling between them, with any number of
\* executors, with reservations lost under way, with exits beside them and
\* whatever the unified endpoint opens (build_inr_paper_wallet, the account
\* execution lock and _entry_reservation_intact).
THEOREM PlannedWithinCeiling ==
    ASSUME AccountLocks = TRUE PROVE Spec => []PlannedFits
<1>1. CapacityInv => PlannedFits
    BY DEF CapacityInv
<1> QED
    BY <1>1, CapacityAlways, PTL

\* The whole book keeps the ceiling as long as the unified endpoint, which
\* never looks at it, is not used.
THEOREM BookWithinCeiling ==
    ASSUME AccountLocks = TRUE, UnifiedMargins = {}
    PROVE  Spec => []WithinCeiling
<1>1. CapacityInv => WithinCeiling
    BY DEF CapacityInv, BookFits
<1> QED
    BY <1>1, CapacityAlways, PTL

=============================================================================
