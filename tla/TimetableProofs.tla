---------------------------- MODULE TimetableProofs ----------------------------
(***************************************************************************)
(* Theorems about the timetable of a school's groups, for any groups,      *)
(* teachers, rules, breaks, days and requests under way.                   *)
(*                                                                         *)
(* An edit holds its group, its teacher and the row of its lesson from the *)
(* check to the write, so a date found free is free when it is written     *)
(* (EditIsFree in BInv, and in EInv that no two lessons share a group or a *)
(* teacher on one date). A command that moves lessons computes their dates *)
(* in the statement that writes them: the k-th free day exists, grows with *)
(* k, and is none of the closed, blocked or taken days (KthIsThere,        *)
(* KthGrows, DatesGrow, PlanIs, ReflowMoves, BreakMoves).                  *)
(*                                                                         *)
(* A request that sets a rule is different: it plans on what it read and   *)
(* writes later, with no lock in between. Three theorems are therefore     *)
(* about the behaviours where that does not happen, and say so:            *)
(*   NothingScheduled: no request is setting a rule;                       *)
(*   SchedulesApart:   no two requests set the rule of one group at once;  *)
(*   NothingReflows:   no lesson is cancelled and no break declared.       *)
(* NoRuleIsSet, OneRequestIsApart and NothingIsMoved give constants under  *)
(* which each of them always holds.                                        *)
(***************************************************************************)
EXTENDS GroupTimetable, FiniteSetTheorems, WellFoundedInduction, TLAPS

-----------------------------------------------------------------------------
(* Least, greatest and k-th elements of a set of days.                     *)

LEMMA LeastOf ==
    ASSUME NEW S \in SUBSET Nat, S # {}
    PROVE  Min(S) \in S /\ \A y \in S : Min(S) <= y
  <1>1. IsWellFoundedOn(OpToRel(<, Nat), Nat)
    BY NatLessThanWellFounded
  <1>2. PICK x \in S : \A y \in S : ~ (<<y, x>> \in OpToRel(<, Nat))
    BY <1>1, WFMin
  <1>3. \A y \in S : ~ y < x
    BY <1>2 DEF OpToRel
  <1>4. \A y \in S : x <= y
    BY <1>3
  <1> QED BY <1>4 DEF Min

LEMMA GreatestOf ==
    ASSUME NEW b \in Nat, NEW S \in SUBSET (0..b), S # {}
    PROVE  Max(S) \in S /\ \A y \in S : y <= Max(S)
  <1> DEFINE D == {b - y : y \in S}
  <1>1. \A y \in S : b - y \in Nat
    OBVIOUS
  <1>2. D \in SUBSET Nat /\ D # {}
    BY <1>1
  <1>3. PICK d \in D : \A e \in D : d <= e
    BY <1>2, LeastOf
  <1>4. PICK x \in S : d = b - x
    BY <1>3
  <1>5. \A y \in S : b - x <= b - y
    BY <1>3, <1>4
  <1>6. \A y \in S : x >= y
    BY <1>5
  <1>7. Max(S) \in S /\ \A y \in S : Max(S) >= y
    BY <1>6 DEF Max
  <1> QED BY <1>7

UpTo(S, d) == {e \in S : e <= d}

LEMMA CountsUpTo ==
    ASSUME NEW S \in SUBSET Days, LastDay \in Nat, NEW d
    PROVE  /\ IsFiniteSet(S) /\ Cardinality(S) \in Nat
           /\ IsFiniteSet(UpTo(S, d)) /\ Cardinality(UpTo(S, d)) \in Nat
           /\ Cardinality(UpTo(S, d)) <= Cardinality(S)
  <1>1. IsFiniteSet(Days)
    BY FS_Interval DEF Days
  <1>2. IsFiniteSet(S)
    BY <1>1, FS_Subset
  <1>3. UpTo(S, d) \in SUBSET S
    BY DEF UpTo
  <1> QED BY <1>2, <1>3, FS_Subset, FS_CardinalityType

\* There is a k-th day in every set of at least k days.
LEMMA KthIsThere ==
    ASSUME NEW S \in SUBSET Days, LastDay \in Nat, NEW k \in 1..Cardinality(S)
    PROVE  Kth(S, k) \in S /\ Cardinality(UpTo(S, Kth(S, k))) = k
  <1> DEFINE T == {e \in S : Cardinality(UpTo(S, e)) >= k}
             low == Min(T)
  <1>1. S \in SUBSET (0..LastDay) /\ S # {} /\ Cardinality(S) \in Nat
    <2>1. IsFiniteSet(S) /\ Cardinality(S) \in Nat
      BY CountsUpTo
    <2> QED BY <2>1, FS_EmptySet DEF Days
  <1>2. UpTo(S, Max(S)) = S /\ Max(S) \in S
    BY <1>1, GreatestOf DEF UpTo
  <1>0. \A e \in S : e \in Nat /\ e <= LastDay
    BY DEF Days
  <1>3. T # {} /\ T \in SUBSET Nat
    <2>1. Max(S) \in T
      BY <1>1, <1>2
    <2> QED BY <1>0, <2>1
  <1>4. low \in T /\ \A e \in T : low <= e
    BY <1>3, LeastOf
  <1> HIDE DEF low
  <1>5. low \in S /\ Cardinality(UpTo(S, low)) \in Nat /\ IsFiniteSet(UpTo(S, low)) /\ k \in Nat
    BY <1>1, <1>4, CountsUpTo
  <1>6. Cardinality(UpTo(S, low)) = k
    <2>1. SUFFICES ASSUME Cardinality(UpTo(S, low)) >= k + 1
                   PROVE  FALSE
      BY <1>4, <1>5
    <2> DEFINE L == UpTo(S, low) \ {low}
               m == Max(L)
    <2>2. IsFiniteSet(L) /\ Cardinality(L) >= k
      BY <1>5, <2>1, FS_RemoveElement DEF UpTo
    <2>3. L # {} /\ L \in SUBSET (0..LastDay)
      <3>1. L # {}
        BY <1>5, <2>2, FS_EmptySet
      <3>2. \A e \in L : e \in S
        BY DEF UpTo
      <3> QED BY <1>0, <3>1, <3>2
    <2>4. m \in L /\ \A y \in L : y <= m
      BY <2>3, GreatestOf
    <2> HIDE DEF m
    <2>5. m \in S /\ m < low
      BY <1>1, <1>5, <2>4 DEF UpTo
    <2>6. UpTo(S, m) = L
      <3>1. \A e \in S : e <= m <=> e <= low /\ e # low
        <4> SUFFICES ASSUME NEW e \in S
                     PROVE  e <= m <=> e <= low /\ e # low
          OBVIOUS
        <4>1. e <= low /\ e # low => e <= m
          BY <2>4 DEF UpTo
        <4>2. e \in Nat /\ m \in Nat /\ low \in Nat
          BY <1>0, <1>5, <2>5
        <4> QED BY <2>5, <4>1, <4>2
      <3> QED BY <3>1 DEF UpTo
    <2>7. m \in T
      BY <2>2, <2>5, <2>6
    <2> QED BY <1>1, <1>4, <1>5, <2>5, <2>7
  <1> QED BY <1>5, <1>6 DEF Kth, UpTo

\* A later day has more days up to it.
LEMMA KthGrows ==
    ASSUME NEW S \in SUBSET Days, LastDay \in Nat,
           NEW j \in 1..Cardinality(S), NEW k \in 1..Cardinality(S), j < k
    PROVE  Kth(S, j) < Kth(S, k)
  <1> DEFINE a == Kth(S, j)
             b == Kth(S, k)
  <1>1. a \in S /\ b \in S /\ Cardinality(UpTo(S, a)) = j /\ Cardinality(UpTo(S, b)) = k
    BY KthIsThere
  <1> HIDE DEF a, b
  <1>2. ASSUME b <= a
        PROVE  FALSE
    <2>1. UpTo(S, b) \in SUBSET UpTo(S, a)
      <3>1. \A e \in S : e \in Int
        BY DEF Days
      <3>2. \A e \in S : e <= b => e <= a
        BY <1>1, <1>2, <3>1
      <3> QED BY <3>2 DEF UpTo
    <2>2. IsFiniteSet(UpTo(S, a))
      BY CountsUpTo
    <2>3. k <= j
      BY <1>1, <2>1, <2>2, FS_Subset
    <2> QED BY <2>3, CountsUpTo
  <1>3. a \in Int /\ b \in Int
    BY <1>1 DEF Days
  <1>4. a < b
    BY <1>2, <1>3
  <1> QED BY <1>4 DEF a, b

\* The lessons `rows` get free days, and later lessons later ones.
LEMMA DatesGrow ==
    ASSUME NEW rows \in SUBSET Orders, NEW free \in SUBSET Days, LastDay \in Nat, Lessons \in Nat,
           Fit(rows, free)
    PROVE  /\ Dates(rows, free) \in [rows -> free]
           /\ \A o, p \in rows : o < p => Dates(rows, free)[o] < Dates(rows, free)[p]
  <1> DEFINE place(o) == Cardinality({p \in rows : p <= o})
  <1>1. IsFiniteSet(rows) /\ Cardinality(rows) \in Nat /\ Cardinality(free) \in Nat
    <2>1. IsFiniteSet(Orders)
      BY FS_Interval DEF Orders
    <2> QED BY <2>1, FS_Subset, FS_CardinalityType, CountsUpTo
  <1>o. \A o \in rows : o \in Int
    BY DEF Orders
  <1>2. ASSUME NEW o \in rows
        PROVE  place(o) \in 1..Cardinality(free)
    <2>1. {p \in rows : p <= o} \in SUBSET rows /\ o \in {p \in rows : p <= o}
      BY DEF Orders
    <2>2. place(o) \in Nat /\ place(o) <= Cardinality(rows) /\ place(o) # 0
      BY <1>1, <2>1, FS_Subset, FS_CardinalityType, FS_EmptySet
    <2> QED BY <1>1, <2>2 DEF Fit
  <1>3. ASSUME NEW o \in rows, NEW p \in rows, o < p
        PROVE  place(o) < place(p)
    <2> DEFINE A == {q \in rows : q <= o}
               B == {q \in rows : q <= p}
    <2>1. A \in SUBSET B /\ p \in B /\ p \notin A /\ B \in SUBSET rows
      <3>1. \A q \in rows : q <= o => q <= p
        BY <1>3, <1>o
      <3>2. ~ p <= o /\ p <= p
        BY <1>3, <1>o
      <3> QED BY <3>1, <3>2
    <2>2. IsFiniteSet(B) /\ Cardinality(B) \in Nat
      BY <1>1, <2>1, FS_Subset, FS_CardinalityType
    <2>3. Cardinality(A) \in Nat /\ Cardinality(A) <= Cardinality(B) /\ Cardinality(A) # Cardinality(B)
      BY <2>1, <2>2, FS_Subset, FS_CardinalityType
    <2> QED BY <2>2, <2>3
  <1>4. Dates(rows, free) = [o \in rows |-> Kth(free, place(o))]
    BY DEF Dates
  <1> HIDE DEF place
  <1> QED BY <1>2, <1>3, <1>4, KthIsThere, KthGrows

-----------------------------------------------------------------------------
(* Types.                                                                  *)

LessonRows == [date : 0..LastDay, teacher : Teachers \cup {None}]
EditRows == [doing : {"open", "edit"}, group : Groups, order : Orders, date : EditDays,
             teacher : Teachers \cup {None}, moves : BOOLEAN]
DatesOfSome == UNION {[rows -> Days] : rows \in SUBSET Orders}
ScheduleRows == [doing : {"schedule"}, group : Groups, teacher : Teachers, days : Patterns,
                 from : Days, to : Days, old : 0..MaxRules, dates : DatesOfSome, moves : BOOLEAN]
RequestRows == {Idle} \cup EditRows \cup ScheduleRows

TInv == TypeOK /\ request \in [Requests -> RequestRows]

LEMMA Constants ==
    ASSUME TimetableAssumption
    PROVE  /\ Lessons \in Nat /\ Lessons >= 1 /\ LastDay \in Nat /\ LastDay >= 1
           /\ Today \in Days /\ MaxRules \in Nat
           /\ \A d \in Days : d \in Nat /\ d \in 1..LastDay
           /\ \A o \in Orders : o \in Nat /\ o \in 1..Lessons
           /\ Orders # {} /\ Orders \in SUBSET (0..Lessons) /\ 1 \in Orders /\ Lessons \in Orders
           /\ \A p \in Patterns : p \in SUBSET Days
           /\ Starts \in SUBSET Days /\ EditDays \in SUBSET Days
  BY DEF TimetableAssumption, Days, Orders

\* A group with active rules has a newest one.
LEMMA RuleIsActive ==
    ASSUME TimetableAssumption, rules \subseteq Rules, NEW g, RulesOf(g) # {}
    PROVE  /\ Rule(g) \in rules /\ Rule(g) \in Rules /\ Rule(g).group = g
           /\ Rule(g).days \in SUBSET Days
  <1> DEFINE I == {x.id : x \in RulesOf(g)}
  <1>1. \A x \in RulesOf(g) : x \in rules /\ x \in Rules /\ x.group = g /\ x.id \in Nat /\ x.id \in 0..MaxRules
    BY Constants DEF RulesOf, Rules
  <1>2. I # {} /\ I \in SUBSET (0..MaxRules)
    BY <1>1
  <1>3. Max(I) \in I /\ \A i \in I : i <= Max(I)
    BY <1>2, GreatestOf, Constants
  <1>4. PICK x \in RulesOf(g) : x.id = Max(I)
    BY <1>3
  <1>5. \A y \in RulesOf(g) : y.id <= x.id
    BY <1>3, <1>4
  <1>6. Rule(g) \in RulesOf(g)
    BY <1>5 DEF Rule
  <1>7. Rule(g).days \in Patterns
    BY <1>1, <1>6 DEF Rules
  <1> QED BY <1>1, <1>6, <1>7, Constants

LEMMA DatedTyped ==
    ASSUME TimetableAssumption, NEW g \in Groups,
           lesson \in [Groups -> [Orders -> LessonRows]],
           NEW rows \in SUBSET Orders, NEW dates \in [rows -> Days], NEW teacher \in Teachers
    PROVE  Dated(g, dates, teacher) \in [Orders -> LessonRows]
  <1>1. ASSUME NEW o \in Orders, o \in rows
        PROVE  [date |-> dates[o], teacher |-> teacher] \in LessonRows
    <2>1. dates[o] \in 0..LastDay
      BY <1>1, Constants
    <2> QED BY <2>1 DEF LessonRows
  <1>2. \A o \in Orders : lesson[g][o] \in LessonRows
    OBVIOUS
  <1> QED BY <1>1, <1>2 DEF Dated

LEMMA TeachingDaysAreDays ==
    ASSUME NEW days \in SUBSET Days, NEW start, NEW taken
    PROVE  /\ TeachingDays(days, start, taken) \in SUBSET Days
           /\ \A d \in TeachingDays(days, start, taken) : d \notin taken /\ d >= start
  BY DEF TeachingDays

\* The active rules stay, with other last days.
KeepsRules ==
    \E f \in [rules -> Rules] :
       /\ rules' = {f[x] : x \in rules}
       /\ \A x \in rules : f[x].id = x.id /\ f[x].group = x.group

LEMMA RulesStay ==
    ASSUME rules \subseteq Rules, UNCHANGED rules
    PROVE  KeepsRules
  <1> DEFINE f == [x \in rules |-> x]
  <1>1. f \in [rules -> Rules] /\ rules' = {f[x] : x \in rules}
    OBVIOUS
  <1> QED BY <1>1 DEF KeepsRules

LEMMA EndingKeepsRules ==
    ASSUME rules \subseteq Rules, NEW g, NEW date \in Days, rules' = Ending(g, date)
    PROVE  KeepsRules
  <1> DEFINE f == [x \in rules |-> IF x = Rule(g) THEN [x EXCEPT !.to = date] ELSE x]
  <1>1. \A x \in rules : /\ [x EXCEPT !.to = date] \in Rules
                         /\ [x EXCEPT !.to = date].id = x.id
                         /\ [x EXCEPT !.to = date].group = x.group
    BY DEF Rules
  <1>2. f \in [rules -> Rules] /\ \A x \in rules : f[x].id = x.id /\ f[x].group = x.group
    BY <1>1
  <1>3. rules' = {f[x] : x \in rules}
    BY DEF Ending
  <1> HIDE DEF f
  <1> QED BY <1>2, <1>3 DEF KeepsRules

\* What moving a lesson and all after it does.
LEMMA ReflowMoves ==
    ASSUME TimetableAssumption, TInv, NEW g \in Groups, NEW o \in Orders, NEW start, NEW blocked,
           Reflow(g, o, start, blocked)
    PROVE  /\ lesson' \in [Groups -> [Orders -> LessonRows]]
           /\ \A h \in Groups, p \in Orders :
                 lesson'[h][p] # lesson[h][p] =>
                    h = g /\ lesson'[h][p].date \notin blocked \cup Closed(g, breaks)
           /\ KeepsRules
  <1> DEFINE rows == o..Lessons
             free == TeachingDays(Rule(g).days, start, blocked \cup Closed(g, breaks))
  <1>1. rules \subseteq Rules /\ lesson \in [Groups -> [Orders -> LessonRows]]
    BY DEF TInv, TypeOK, LessonRows
  <1>2. RulesOf(g) # {} /\ Fit(rows, free)
    BY DEF Reflow
  <1>3. Rule(g) \in Rules /\ Rule(g).days \in SUBSET Days /\ Rule(g).teacher \in Teachers
    BY <1>1, <1>2, RuleIsActive DEF Rules
  <1>4. free \in SUBSET Days /\ \A d \in free : d \notin blocked \cup Closed(g, breaks)
    BY <1>3, TeachingDaysAreDays
  <1>5. rows \in SUBSET Orders /\ Lessons \in rows
    <2>1. o \in Nat /\ o \in 1..Lessons
      BY Constants
    <2> QED BY <2>1, Constants DEF Orders
  <1> HIDE DEF rows, free
  <1>6. Dates(rows, free) \in [rows -> free]
    BY <1>2, <1>4, <1>5, DatesGrow, Constants
  <1>7. Dates(rows, free) \in [rows -> Days] /\ Dates(rows, free)[Lessons] \in Days
    BY <1>4, <1>5, <1>6
  <1>8. /\ lesson' = [lesson EXCEPT ![g] = Dated(g, Dates(rows, free), Rule(g).teacher)]
        /\ rules' = Ending(g, Dates(rows, free)[Lessons])
    BY DEF Reflow, rows, free
  <1>9. Dated(g, Dates(rows, free), Rule(g).teacher) \in [Orders -> LessonRows]
    BY <1>1, <1>3, <1>5, <1>7, DatedTyped
  <1>10. ASSUME NEW h \in Groups, NEW p \in Orders, lesson'[h][p] # lesson[h][p]
         PROVE  h = g /\ lesson'[h][p].date \notin blocked \cup Closed(g, breaks)
    <2>1. h = g /\ lesson'[h][p] = Dated(g, Dates(rows, free), Rule(g).teacher)[p]
      BY <1>1, <1>8, <1>10
    <2>2. p \in rows /\ lesson'[h][p].date = Dates(rows, free)[p]
      BY <1>6, <1>10, <2>1 DEF Dated
    <2> QED BY <1>4, <1>6, <2>1, <2>2
  <1>11. KeepsRules
    BY <1>1, <1>7, <1>8, EndingKeepsRules
  <1> QED BY <1>1, <1>8, <1>9, <1>10, <1>11
\* The lessons a break moves are ones of a group with a rule, and none is recorded.
LEMMA MovableAre ==
    ASSUME TimetableAssumption, TInv, NEW g \in Groups, NEW start, NEW end, NEW rebuild
    PROVE  /\ Affected(g, start, end, rebuild) \in SUBSET Orders
           /\ \A o \in Affected(g, start, end, rebuild) : o \notin Recorded(g)
           /\ Movable(g, start, end, rebuild) \in SUBSET Orders
           /\ \A o \in Movable(g, start, end, rebuild) : o \notin Recorded(g)
           /\ Movable(g, start, end, rebuild) # {} => Affected(g, start, end, rebuild) # {}
           /\ Affected(g, start, end, rebuild) # {} =>
                 /\ RulesOf(g) # {}
                 /\ Min(Affected(g, start, end, rebuild)) \in Affected(g, start, end, rebuild)
                 /\ \A o \in Affected(g, start, end, rebuild) :
                       Min(Affected(g, start, end, rebuild)) <= o
  <1> DEFINE affected == Affected(g, start, end, rebuild)
             movable == Movable(g, start, end, rebuild)
  <1>1. affected \in SUBSET Orders /\ \A o \in affected : o \notin Recorded(g)
    BY DEF Affected, From, Undated
  <1>2. affected # {} => RulesOf(g) # {}
    BY DEF Affected
  <1>3. movable # {} => affected # {}
    BY DEF Movable
  <1>4. \A o \in movable : o \notin Recorded(g)
    BY DEF Movable
  <1> HIDE DEF affected
  <1>5. affected # {} => Min(affected) \in affected /\ \A o \in affected : Min(affected) <= o
    BY <1>1, Constants, LeastOf
  <1>6. movable \in SUBSET Orders
    <2>1. SUFFICES ASSUME affected # {}, NEW o \in movable
                   PROVE  o \in Orders
      BY <1>3
    <2>2. o \in Min(affected)..Lessons
      BY <2>1 DEF Movable, affected
    <2>3. Min(affected) \in Nat /\ Min(affected) >= 1
      BY <1>1, <1>5, <2>1, Constants
    <2> QED BY <2>2, <2>3, Constants DEF Orders
  <1> QED BY <1>1, <1>2, <1>3, <1>4, <1>5, <1>6 DEF affected

\* The plan of a group: nothing, or days for the lessons that move which neither a
\* break nor a cancelled slot holds.
LEMMA PlanIs ==
    ASSUME TimetableAssumption, TInv, NEW scope, NEW start, NEW end, NEW rebuild,
           NEW closures, EnoughDays(scope, start, end, rebuild, closures), NEW g \in Groups,
           NEW plan, plan = Plan(scope, start, end, rebuild, closures)[g]
    PROVE  \/ /\ plan = <<>> /\ DOMAIN plan = {}
              /\ g \in Scope(scope) => Movable(g, start, end, rebuild) = {}
           \/ /\ plan # <<>> /\ g \in Scope(scope) /\ RulesOf(g) # {}
              /\ DOMAIN plan = Movable(g, start, end, rebuild)
              /\ plan \in [Movable(g, start, end, rebuild) -> Days]
              /\ \A o \in DOMAIN plan : plan[o] \notin Blocked(g) \cup Closed(g, closures)
  <1> DEFINE movable == Movable(g, start, end, rebuild)
             free == FreeDays(g, start, end, rebuild, closures)
             fixed == {lesson[g][o].date : o \in Orders \ movable}
  <1>0. DOMAIN <<>> = {}
    OBVIOUS
  <1>1. ASSUME g \notin Scope(scope) \/ movable = {}
        PROVE  plan = <<>>
    BY <1>1 DEF Plan
  <1>2. ASSUME g \in Scope(scope), movable # {}
        PROVE  /\ plan # <<>> /\ RulesOf(g) # {} /\ DOMAIN plan = movable
               /\ plan \in [movable -> Days]
               /\ \A o \in movable : plan[o] \notin Blocked(g) \cup Closed(g, closures)
    <2>1. plan = Dates(movable, free) /\ Fit(movable, free)
      BY <1>2 DEF Plan, EnoughDays
    <2>2. movable \in SUBSET Orders /\ RulesOf(g) # {}
      BY <1>2, MovableAre
    <2>3. Rule(g).days \in SUBSET Days
      BY <2>2, RuleIsActive DEF TInv, TypeOK
    <2>4. free = TeachingDays(Rule(g).days, First(g, start, end, rebuild),
                              fixed \cup Blocked(g) \cup Closed(g, closures))
      BY DEF FreeDays
    <2>5. free \in SUBSET Days /\ \A d \in free : d \notin Blocked(g) \cup Closed(g, closures)
      BY <2>3, <2>4, TeachingDaysAreDays
    <2> HIDE DEF movable, free
    <2>6. LastDay \in Nat /\ Lessons \in Nat
      BY Constants
    <2>7. Dates(movable, free) \in [movable -> free]
      BY <2>1, <2>2, <2>5, <2>6, DatesGrow
    <2> QED BY <1>0, <1>2, <2>1, <2>2, <2>5, <2>7
  <1> QED BY <1>0, <1>1, <1>2

\* What a break that is made or ended with a rebuild does to lessons and rules.
LEMMA BreakMoves ==
    ASSUME TimetableAssumption, TInv, NEW scope, NEW start, NEW end, NEW rebuild,
           NEW closures, EnoughDays(scope, start, end, rebuild, closures),
           NEW plan, plan = Plan(scope, start, end, rebuild, closures), Applies(plan, scope)
    PROVE  /\ lesson' \in [Groups -> [Orders -> LessonRows]]
           /\ KeepsRules
           /\ \A g \in Groups, o \in Orders :
                 IF o \in DOMAIN plan[g]
                 THEN /\ plan[g] # <<>>
                      /\ lesson'[g][o].date = plan[g][o]
                      /\ lesson'[g][o].teacher = Rule(g).teacher
                 ELSE lesson'[g][o] = lesson[g][o]
  <1>1. rules \subseteq Rules /\ lesson \in [Groups -> [Orders -> LessonRows]]
    BY DEF TInv, TypeOK, LessonRows
  <1>2. lesson' = [g \in Groups |->
                     IF plan[g] = <<>> THEN lesson[g] ELSE Dated(g, plan[g], Rule(g).teacher)]
    BY DEF Applies
  <1>3. ASSUME NEW g \in Groups
        PROVE  lesson'[g] \in [Orders -> LessonRows]
    <2>1. CASE plan[g] = <<>>
      BY <1>1, <1>2, <2>1
    <2>2. CASE plan[g] # <<>>
      <3>1. PICK movable \in SUBSET Orders : plan[g] \in [movable -> Days] /\ RulesOf(g) # {}
        <4>1. /\ plan[g] \in [Movable(g, start, end, rebuild) -> Days]
            /\ RulesOf(g) # {}
        BY <2>2, PlanIs
      <4>2. Movable(g, start, end, rebuild) \in SUBSET Orders
        BY MovableAre
      <4> QED BY <4>1, <4>2
      <3>2. Rule(g).teacher \in Teachers
        BY <1>1, <3>1, RuleIsActive DEF Rules
      <3>3. Dated(g, plan[g], Rule(g).teacher) \in [Orders -> LessonRows]
        BY <1>1, <3>1, <3>2, DatedTyped
      <3> QED BY <1>2, <2>2, <3>3
    <2> QED BY <2>1, <2>2
  <1>4. lesson' \in [Groups -> [Orders -> LessonRows]]
    BY <1>2, <1>3
  <1>5. ASSUME NEW g \in Groups, NEW o \in Orders
        PROVE  IF o \in DOMAIN plan[g]
               THEN /\ plan[g] # <<>>
                    /\ lesson'[g][o].date = plan[g][o]
                    /\ lesson'[g][o].teacher = Rule(g).teacher
               ELSE lesson'[g][o] = lesson[g][o]
    <2>1. plan[g] = <<>> => DOMAIN plan[g] = {}
      BY PlanIs
    <2>2. plan[g] = <<>> => lesson'[g] = lesson[g]
      BY <1>2
    <2>3. plan[g] # <<>> => lesson'[g][o] = IF o \in DOMAIN plan[g]
                      THEN [date |-> plan[g][o], teacher |-> Rule(g).teacher] ELSE lesson[g][o]
      BY <1>2 DEF Dated
    <2> QED BY <2>1, <2>2, <2>3
  <1>6. KeepsRules
    <2> DEFINE last(x) == Max({lesson'[x.group][o].date : o \in Orders})
               moved(x) == x.group \in Scope(scope) /\ x = Rule(x.group) /\ last(x) # 0
               f == [x \in rules |-> IF moved(x) THEN [x EXCEPT !.to = last(x)] ELSE x]
    <2>1. ASSUME NEW x \in rules
          PROVE  last(x) \in 0..LastDay
      <3> DEFINE D == {lesson'[x.group][o].date : o \in Orders}
      <3>1. x.group \in Groups
        BY <1>1 DEF Rules
      <3>2. \A o \in Orders : lesson'[x.group][o].date \in 0..LastDay
        BY <1>4, <3>1 DEF LessonRows
      <3>3. D \in SUBSET (0..LastDay) /\ D # {}
        BY <3>2, Constants
      <3> HIDE DEF D
      <3>4. Max(D) \in D
        BY <3>3, GreatestOf, Constants
      <3> QED BY <3>3, <3>4 DEF D
    <2>2. rules' = {f[x] : x \in rules}
      <3>1. rules' = {IF x.group \in Scope(scope) /\ x = Rule(x.group)
                      THEN IF last(x) = 0 THEN x ELSE [x EXCEPT !.to = last(x)]
                      ELSE x : x \in rules}
        BY DEF Applies
      <3> HIDE DEF last
      <3>2. \A x \in rules : f[x] = IF x.group \in Scope(scope) /\ x = Rule(x.group)
                      THEN IF last(x) = 0 THEN x ELSE [x EXCEPT !.to = last(x)]
                      ELSE x
        OBVIOUS
      <3> QED BY <3>1, <3>2
    <2> HIDE DEF last
    <2>3. \A x \in rules : last(x) # 0 => last(x) \in Days
      BY <2>1, Constants DEF Days
    <2>4. \A x \in rules : last(x) # 0 => /\ [x EXCEPT !.to = last(x)] \in Rules
                                          /\ [x EXCEPT !.to = last(x)].id = x.id
                                          /\ [x EXCEPT !.to = last(x)].group = x.group
      BY <1>1, <2>3 DEF Rules
    <2>5. f \in [rules -> Rules] /\ \A x \in rules : f[x].id = x.id /\ f[x].group = x.group
      BY <1>1, <2>4
    <2> HIDE DEF f
    <2> QED BY <2>2, <2>5 DEF KeepsRules
  <1> QED BY <1>4, <1>5, <1>6
\* The timetables a run starts with: those of rules accepted one after the other.
StartsFrom(scheduled, pattern, teacher, start, rule) ==
    /\ \A g \in scheduled : /\ Cardinality(TeachingDays(pattern[g], start[g], {})) >= Lessons
                            /\ rule[g] \in Rules /\ rule[g].group = g
                            /\ rule[g].from = start[g]
                            /\ rule[g].to = Kth(TeachingDays(pattern[g], start[g], {}), Lessons)
    /\ \A g, h \in scheduled :
          g # h /\ teacher[g] = teacher[h] /\ pattern[g] \cap pattern[h] # {}
             => rule[g].to < rule[h].from \/ rule[h].to < rule[g].from
    /\ lesson = [g \in Groups |-> [o \in Orders |->
          IF g \in scheduled
          THEN [date |-> Kth(TeachingDays(pattern[g], start[g], {}), o), teacher |-> teacher[g]]
          ELSE [date |-> 0, teacher |-> None]]]
    /\ rules = {rule[g] : g \in scheduled}
    /\ ids \in 0..MaxRules /\ recorded = {} /\ slots = {} /\ breaks = {}
    /\ request = [r \in Requests |-> Idle]

LEMMA Numbered ==
    ASSUME TimetableAssumption, NEW scheduled \in SUBSET Groups
    PROVE  /\ Cardinality(scheduled) \in 0..MaxRules
           /\ \E f \in [scheduled -> 1..Cardinality(scheduled)] : IsInjective(f)
  <1>1. IsFiniteSet(Groups) /\ Cardinality(Groups) <= MaxRules
    BY DEF TimetableAssumption
  <1>2. IsFiniteSet(scheduled) /\ Cardinality(scheduled) \in Nat /\ Cardinality(scheduled) <= Cardinality(Groups)
    BY <1>1, FS_Subset, FS_CardinalityType
  <1> DEFINE n == Cardinality(scheduled)
  <1>3. IsFiniteSet(1..n) /\ Cardinality(1..n) = n
    <2> HIDE DEF n
    <2>1. n \in Nat
      BY <1>2 DEF n
    <2> QED BY <2>1, FS_Interval
  <1>4. ExistsBijection(scheduled, 1..n)
    BY <1>2, <1>3, FS_SameCardinalityBij
  <1>5. PICK f \in [scheduled -> 1..n] : IsInjective(f)
    <2>1. PICK f : f \in Bijection(scheduled, 1..n)
      BY <1>4 DEF ExistsBijection
    <2> QED BY <2>1 DEF Bijection, Injection
  <1> QED BY <1>1, <1>2, <1>5, Constants, FS_CardinalityType

LEMMA StartsSo ==
    ASSUME TimetableAssumption, Init
    PROVE  \E scheduled \in SUBSET Groups, pattern \in [Groups -> Patterns],
              teacher \in [Groups -> Teachers], start \in [Groups -> Starts] :
              \E rule : StartsFrom(scheduled, pattern, teacher, start, rule)
  <1> DEFINE days(pattern, start) == [g \in Groups |-> TeachingDays(pattern[g], start[g], {})]
             number(scheduled) ==
                CHOOSE f \in [scheduled -> 1..Cardinality(scheduled)] : IsInjective(f)
             rule(scheduled, pattern, teacher, start) ==
                [g \in scheduled |->
                   [id |-> number(scheduled)[g], group |-> g, teacher |-> teacher[g],
                    days |-> pattern[g], from |-> start[g],
                    to |-> Kth(days(pattern, start)[g], Lessons)]]
  <1>1. PICK scheduled \in SUBSET Groups, pattern \in [Groups -> Patterns],
             teacher \in [Groups -> Teachers], start \in [Groups -> Starts] :
           LET days1 == days(pattern, start)
               number1 == number(scheduled)
               rule1 == rule(scheduled, pattern, teacher, start)
           IN /\ \A g \in scheduled : Cardinality(days1[g]) >= Lessons
              /\ \A g, h \in scheduled :
                   g # h /\ teacher[g] = teacher[h] /\ pattern[g] \cap pattern[h] # {}
                      => rule1[g].to < rule1[h].from \/ rule1[h].to < rule1[g].from
              /\ lesson = [g \in Groups |-> [o \in Orders |->
                   IF g \in scheduled THEN [date |-> Kth(days1[g], o), teacher |-> teacher[g]]
                   ELSE [date |-> 0, teacher |-> None]]]
              /\ rules = {rule1[g] : g \in scheduled}
              /\ ids = Cardinality(scheduled)
              /\ recorded = {} /\ slots = {} /\ breaks = {}
              /\ request = [r \in Requests |-> Idle]
    BY DEF Init
  <1> DEFINE own == rule(scheduled, pattern, teacher, start)
  <1>2. Cardinality(scheduled) \in 0..MaxRules /\ number(scheduled) \in [scheduled -> 1..Cardinality(scheduled)]
    BY Numbered
  <1>3. ASSUME NEW g \in scheduled
        PROVE  /\ own[g] \in Rules /\ own[g].group = g /\ own[g].from = start[g]
               /\ own[g].to = Kth(TeachingDays(pattern[g], start[g], {}), Lessons)
    <2>1. number(scheduled)[g] \in 1..MaxRules
      BY <1>2, Constants
    <2>2. pattern[g] \in Patterns /\ pattern[g] \in SUBSET Days /\ start[g] \in Days
      BY Constants
    <2> DEFINE free == TeachingDays(pattern[g], start[g], {})
    <2>3. free \in SUBSET Days
      BY <2>2, TeachingDaysAreDays
    <2>4. Lessons \in 1..Cardinality(free)
      <3>1. days(pattern, start)[g] = free
        OBVIOUS
      <3>2. Cardinality(free) >= Lessons
        BY <1>1, <3>1
      <3>3. Cardinality(free) \in Nat
        BY <2>3, CountsUpTo, Constants
      <3> QED BY <3>2, <3>3, Constants
    <2>5. Kth(free, Lessons) \in Days
      BY <2>3, <2>4, KthIsThere, Constants
    <2>6. own[g] = [id |-> number(scheduled)[g], group |-> g, teacher |-> teacher[g],
                    days |-> pattern[g], from |-> start[g], to |-> Kth(free, Lessons)]
      OBVIOUS
    <2> HIDE DEF number, free, own
    <2>7. own[g] \in Rules
      BY <2>1, <2>2, <2>5, <2>6 DEF Rules
    <2> QED BY <2>6, <2>7 DEF free
  <1>4. StartsFrom(scheduled, pattern, teacher, start, own)
    <2>1. \A g \in Groups : days(pattern, start)[g] = TeachingDays(pattern[g], start[g], {})
      OBVIOUS
    <2> HIDE DEF number, rule, days
    <2> QED BY <1>1, <1>2, <1>3, <2>1 DEF StartsFrom
  <1> HIDE DEF own
  <1> QED BY <1>4

LEMMA StartsTyped ==
    ASSUME TimetableAssumption, Init
    PROVE  TInv
  <1>0. PICK scheduled \in SUBSET Groups, pattern \in [Groups -> Patterns],
             teacher \in [Groups -> Teachers], start \in [Groups -> Starts] :
             \E rule : StartsFrom(scheduled, pattern, teacher, start, rule)
    BY StartsSo
  <1>1. PICK rule : StartsFrom(scheduled, pattern, teacher, start, rule)
    BY <1>0
  <1>2. lesson \in [Groups -> [Orders -> LessonRows]]
    <2>1. ASSUME NEW g \in scheduled, NEW o \in Orders
          PROVE  Kth(TeachingDays(pattern[g], start[g], {}), o) \in 0..LastDay
      <3> DEFINE free == TeachingDays(pattern[g], start[g], {})
      <3>1. free \in SUBSET Days
        BY TeachingDaysAreDays, Constants
      <3>2. Cardinality(free) >= Lessons /\ Cardinality(free) \in Nat
        BY <1>1, <3>1, CountsUpTo, Constants DEF StartsFrom
      <3>3. o \in 1..Cardinality(free)
        BY <3>2, Constants
      <3> QED BY <3>1, <3>3, KthIsThere, Constants
    <2>2. 0 \in 0..LastDay
      BY Constants
    <2> QED BY <1>1, <2>1, <2>2 DEF StartsFrom, LessonRows
  <1>3. rules \subseteq Rules
    BY <1>1 DEF StartsFrom
  <1>4. request \in [Requests -> RequestRows] /\ \A r \in Requests : request[r].doing = "idle"
    BY <1>1 DEF StartsFrom, RequestRows, Idle
  <1> QED BY <1>1, <1>2, <1>3, <1>4 DEF TInv, TypeOK, LessonRows, StartsFrom
LEMMA RequestIs ==
    ASSUME NEW q \in RequestRows
    PROVE  /\ q.doing = "schedule" => q \in ScheduleRows
           /\ q.doing \in {"open", "edit"} => q \in EditRows
           /\ q.doing \in {"idle", "schedule", "open", "edit"}
           /\ q = Idle => q.doing = "idle"
  BY DEF RequestRows, ScheduleRows, EditRows, Idle

\* The rows of one request change, the others stay.
LEMMA RequestsTyped ==
    ASSUME TInv, NEW r \in Requests, NEW q \in RequestRows, request' = [request EXCEPT ![r] = q]
    PROVE  /\ request' \in [Requests -> RequestRows]
           /\ \A p \in Requests : request'[p].doing \in {"idle", "schedule", "open", "edit"}
           /\ request'[r] = q /\ \A p \in Requests : p # r => request'[p] = request[p]
  BY RequestIs DEF TInv

\* What a request to set a group's rule takes along.
LEMMA ReadsTyped ==
    ASSUME TimetableAssumption, TInv, NEW r \in Requests, NEW g \in Groups, NEW teacher \in Teachers,
           NEW days \in Patterns, NEW scope, NEW date \in Starts, NEW moves \in BOOLEAN,
           NEW relaunch, ReadsTimetable(r, g, teacher, days, scope, date, moves, relaunch)
    PROVE  \E q \in ScheduleRows :
              /\ request' = [request EXCEPT ![r] = q]
              /\ q.group = g
              /\ IF RulesOf(g) = {} THEN TRUE ELSE q.old = Rule(g).id
  <1> DEFINE existing == IF RulesOf(g) = {} THEN 0 ELSE Rule(g).id
             launch == IF existing # 0 /\ ~relaunch THEN Rule(g).from ELSE date
             rows == Selected(g, scope, date)
             free == TeachingDays(days, Anchor(g, scope, date, launch),
                                  Blocked(g) \cup Closed(g, breaks))
             dates == Dates(rows, free)
             q == [doing |-> "schedule", group |-> g, teacher |-> teacher, days |-> days,
                   from |-> launch, to |-> dates[Max(rows)], old |-> existing, dates |-> dates,
                   moves |-> moves]
  <1>1. request' = [request EXCEPT ![r] = q] /\ rows # {} /\ Fit(rows, free)
    BY DEF ReadsTimetable
  <1>2. rows \in SUBSET Orders
    BY DEF Selected, Undated, From
  <1>3. free \in SUBSET Days
    BY TeachingDaysAreDays, Constants
  <1>4. existing \in 0..MaxRules /\ launch \in Days
    <2>1. date \in Days /\ 0 \in 0..MaxRules
      BY Constants
    <2>2. ASSUME RulesOf(g) # {}
          PROVE  Rule(g).id \in 0..MaxRules /\ Rule(g).from \in Days
      <3>1. Rule(g) \in Rules
        BY <2>2, RuleIsActive DEF TInv, TypeOK
      <3> QED BY <3>1, Constants DEF Rules
    <2> QED BY <2>1, <2>2
  <1> HIDE DEF rows, free, existing, launch
  <1>5. dates \in [rows -> free]
    <2>1. LastDay \in Nat /\ Lessons \in Nat
      BY Constants
    <2> QED BY <1>1, <1>2, <1>3, <2>1, DatesGrow
  <1>6. Max(rows) \in rows
    <2>1. rows \in SUBSET (0..Lessons)
      BY <1>2, Constants
    <2> QED BY <1>1, <2>1, GreatestOf, Constants
  <1>7. dates[Max(rows)] \in Days /\ dates \in [rows -> Days]
    BY <1>3, <1>5, <1>6
  <1> HIDE DEF dates
  <1>8. dates \in DatesOfSome
    BY <1>2, <1>7 DEF DatesOfSome
  <1>9. q \in ScheduleRows
    BY <1>4, <1>7, <1>8 DEF ScheduleRows
  <1>10. q.group = g /\ IF RulesOf(g) = {} THEN TRUE ELSE q.old = Rule(g).id
    BY DEF existing
  <1> HIDE DEF q
  <1> QED BY <1>1, <1>9, <1>10

\* What the writing of a group's rule does.
LEMMA WritesTyped ==
    ASSUME TimetableAssumption, TInv, NEW r \in Requests, WritesTimetable(r)
    PROVE  TInv'
  <1> DEFINE q == request[r]
             new == [id |-> ids + 1, group |-> q.group, teacher |-> q.teacher, days |-> q.days,
                     from |-> q.from, to |-> q.to]
  <1>1. q \in ScheduleRows
    BY RequestIs DEF TInv, WritesTimetable
  <1>2. PICK rows \in SUBSET Orders : q.dates \in [rows -> Days]
    BY <1>1 DEF ScheduleRows, DatesOfSome
  <1>3. lesson \in [Groups -> [Orders -> LessonRows]] /\ rules \subseteq Rules /\ ids \in 0..MaxRules
    BY DEF TInv, TypeOK, LessonRows
  <1>4. ids + 1 \in 1..MaxRules /\ ids + 1 \in 0..MaxRules
    BY <1>3, Constants DEF WritesTimetable
  <1>5. new \in Rules
    BY <1>1, <1>4 DEF ScheduleRows, Rules
  <1>6. q.group \in Groups /\ q.teacher \in Teachers
    BY <1>1 DEF ScheduleRows
  <1>7. Dated(q.group, q.dates, q.teacher) \in [Orders -> LessonRows]
    BY <1>2, <1>3, <1>6, DatedTyped
  <1>8. lesson' = [lesson EXCEPT ![q.group] = Dated(q.group, q.dates, q.teacher)]
    BY DEF WritesTimetable
  <1>9. lesson' \in [Groups -> [Orders -> LessonRows]]
    BY <1>3, <1>7, <1>8
  <1>10. rules' = {x \in rules : x.id # q.old} \cup {new}
    BY DEF WritesTimetable
  <1>11. rules' \subseteq Rules
    BY <1>3, <1>5, <1>10
  <1>12. Idle \in RequestRows /\ request' = [request EXCEPT ![r] = Idle]
    BY DEF RequestRows, WritesTimetable
  <1>13. /\ request' \in [Requests -> RequestRows]
         /\ \A p \in Requests : request'[p].doing \in {"idle", "schedule", "open", "edit"}
    BY <1>12, RequestsTyped
  <1> QED BY <1>4, <1>9, <1>11, <1>13 DEF TInv, TypeOK, LessonRows, WritesTimetable
\* A break that is made, or ended with a rebuild, as one step.
Replans(scope, start, end, rebuild, closures) ==
    /\ \A g \in Scope(scope) : GroupIsFree(g)
    /\ EnoughDays(scope, start, end, rebuild, closures)
    /\ ~Collides(Plan(scope, start, end, rebuild, closures))
    /\ Applies(Plan(scope, start, end, rebuild, closures), scope)
    /\ breaks' = closures

LEMMA BreaksReplan ==
    ASSUME NEW b \in Breaks
    PROVE  /\ MakesBreak(b) => Replans(b.scope, b.from, b.to, FALSE, breaks \cup {b})
           /\ EndsBreak(b, TRUE) => Replans(b.scope, b.from, b.to, TRUE, breaks')
  BY DEF Replans, MakesBreak, EndsBreak, Refused

LEMMA ReplansMove ==
    ASSUME TimetableAssumption, TInv, NEW scope, NEW start, NEW end, NEW rebuild, NEW closures,
           Replans(scope, start, end, rebuild, closures)
    PROVE  lesson' \in [Groups -> [Orders -> LessonRows]] /\ KeepsRules
  <1>1. /\ EnoughDays(scope, start, end, rebuild, closures)
        /\ Applies(Plan(scope, start, end, rebuild, closures), scope)
    BY DEF Replans
  <1> QED BY <1>1, BreakMoves

LEMMA EndsBreakMoves ==
    ASSUME TimetableAssumption, TInv, NEW b \in Breaks, NEW rebuild \in BOOLEAN, EndsBreak(b, rebuild)
    PROVE  lesson' \in [Groups -> [Orders -> LessonRows]] /\ KeepsRules
  <1>1. CASE rebuild = TRUE
    <2>1. EndsBreak(b, TRUE)
      BY <1>1
    <2> HIDE DEF TInv
    <2>2. Replans(b.scope, b.from, b.to, TRUE, breaks')
      BY <2>1, BreaksReplan
    <2> QED BY <2>2, ReplansMove
  <1>2. CASE rebuild = FALSE
    BY <1>2, RulesStay DEF EndsBreak, TInv, TypeOK, LessonRows
  <1> QED BY <1>1, <1>2

\* An edit gives one lesson another date and leaves its teacher.
LEMMA EditMoves ==
    ASSUME lesson \in [Groups -> [Orders -> LessonRows]], NEW g \in Groups, NEW o \in Orders,
           NEW date \in 0..LastDay, lesson' = [lesson EXCEPT ![g][o].date = date]
    PROVE  /\ lesson' \in [Groups -> [Orders -> LessonRows]]
           /\ lesson'[g][o].date = date /\ lesson'[g][o].teacher = lesson[g][o].teacher
           /\ \A h \in Groups, p \in Orders : <<h, p>> # <<g, o>> => lesson'[h][p] = lesson[h][p]
  <1> DEFINE row == [lesson[g][o] EXCEPT !.date = date]
             own == [lesson[g] EXCEPT ![o] = row]
  <1>1. lesson[g] \in [Orders -> LessonRows] /\ lesson[g][o] \in LessonRows
    OBVIOUS
  <1>2. row \in LessonRows /\ row.date = date /\ row.teacher = lesson[g][o].teacher
    BY <1>1 DEF LessonRows
  <1>3. lesson' = [lesson EXCEPT ![g] = own]
    OBVIOUS
  <1> HIDE DEF row
  <1>4. own \in [Orders -> LessonRows] /\ own[o] = row /\ \A p \in Orders : p # o => own[p] = lesson[g][p]
    BY <1>1, <1>2
  <1> HIDE DEF own
  <1>5. lesson' \in [Groups -> [Orders -> LessonRows]] /\ lesson'[g] = own
    BY <1>3, <1>4
  <1>6. \A h \in Groups : h # g => lesson'[h] = lesson[h]
    BY <1>3
  <1> QED BY <1>2, <1>4, <1>5, <1>6

LEMMA StepsTyped ==
    ASSUME TimetableAssumption, TInv, [Next]_vars
    PROVE  TInv'
  <1>1. /\ rules \subseteq Rules /\ lesson \in [Groups -> [Orders -> LessonRows]]
        /\ recorded \subseteq Groups \X Orders /\ slots \subseteq Groups \X Orders \X Days
        /\ breaks \subseteq Breaks /\ ids \in 0..MaxRules
        /\ request \in [Requests -> RequestRows]
        /\ \A r \in Requests : request[r].doing \in {"idle", "schedule", "open", "edit"}
    BY DEF TInv, TypeOK, LessonRows
  <1>2. /\ rules' \subseteq Rules /\ lesson' \in [Groups -> [Orders -> LessonRows]]
        /\ recorded' \subseteq Groups \X Orders /\ slots' \subseteq Groups \X Orders \X Days
        /\ breaks' \subseteq Breaks /\ ids' \in 0..MaxRules
        /\ request' \in [Requests -> RequestRows]
        /\ \A r \in Requests : request'[r].doing \in {"idle", "schedule", "open", "edit"}
        => TInv'
    BY DEF TInv, TypeOK, LessonRows
  <1>3. KeepsRules => rules' \subseteq Rules
    BY DEF KeepsRules
  <1>4. Idle \in RequestRows
    BY DEF RequestRows
  <1>5. ASSUME NEW g \in Groups, NEW o \in Orders, RecordsLesson(g, o)
        PROVE  TInv'
    BY <1>1, <1>2, <1>5 DEF RecordsLesson
  <1>6. ASSUME NEW r \in Requests, ReadsAnyTimetable(r)
        PROVE  TInv'
    <2>1. PICK g \in Groups, teacher \in Teachers, days \in Patterns, date \in Starts,
               scope \in {"initial", "all", "from_date", "remaining"},
               moves \in BOOLEAN, relaunch \in BOOLEAN :
               ReadsTimetable(r, g, teacher, days, scope, date, moves, relaunch)
      BY <1>6 DEF ReadsAnyTimetable
    <2>2. PICK q \in ScheduleRows : request' = [request EXCEPT ![r] = q]
      BY <2>1, ReadsTyped
    <2>3. q \in RequestRows
      BY DEF RequestRows
    <2>4. /\ request' \in [Requests -> RequestRows]
          /\ \A p \in Requests : request'[p].doing \in {"idle", "schedule", "open", "edit"}
      BY <2>2, <2>3, RequestsTyped
    <2> QED BY <1>1, <1>2, <2>1, <2>4 DEF ReadsTimetable
  <1>7. ASSUME NEW r \in Requests, WritesTimetable(r)
        PROVE  TInv'
    BY <1>7, WritesTyped
  <1>8. ASSUME NEW g \in Groups, NEW o \in Orders, NEW moves \in BOOLEAN, CancelsLesson(g, o, moves)
        PROVE  TInv'
    <2>1. Reflow(g, o, lesson[g][o].date + 1, Blocked(g) \cup {lesson[g][o].date})
      BY <1>8 DEF CancelsLesson
    <2>2. lesson' \in [Groups -> [Orders -> LessonRows]] /\ KeepsRules
      BY <2>1, ReflowMoves
    <2>3. lesson[g][o].date \in Days
      BY <1>1, <1>8, Constants DEF CancelsLesson, LessonRows, Days
    <2>4. slots' \subseteq Groups \X Orders \X Days
      BY <1>1, <1>8, <2>3 DEF CancelsLesson
    <2> QED BY <1>1, <1>2, <1>3, <1>8, <2>2, <2>4 DEF CancelsLesson
  <1>9. ASSUME NEW g \in Groups, NEW o \in Orders, NEW moves \in BOOLEAN, RecoversLesson(g, o, moves)
        PROVE  TInv'
    <2>1. PICK slot \in slots :
             /\ slots' = slots \ {slot}
             /\ Reflow(g, o, slot[3], {s[3] : s \in {t \in slots \ {slot} : t[1] = g}})
      BY <1>9 DEF RecoversLesson
    <2>2. lesson' \in [Groups -> [Orders -> LessonRows]] /\ KeepsRules
      BY <2>1, ReflowMoves
    <2> QED BY <1>1, <1>2, <1>3, <1>9, <2>1, <2>2 DEF RecoversLesson
  <1>10. ASSUME NEW r \in Requests, NEW g \in Groups, NEW o \in Orders, NEW date \in EditDays,
                NEW moves \in BOOLEAN, OpensEdit(r, g, o, date, moves)
         PROVE  TInv'
    <2> DEFINE q == [doing |-> "open", group |-> g, order |-> o, date |-> date,
                     teacher |-> lesson[g][o].teacher, moves |-> moves]
    <2>1. lesson[g][o].teacher \in Teachers \cup {None}
      BY <1>1 DEF LessonRows
    <2>2. q \in RequestRows /\ request' = [request EXCEPT ![r] = q]
      BY <1>10, <2>1 DEF OpensEdit, RequestRows, EditRows
    <2> HIDE DEF q
    <2>3. /\ request' \in [Requests -> RequestRows]
          /\ \A p \in Requests : request'[p].doing \in {"idle", "schedule", "open", "edit"}
      BY <2>2, RequestsTyped
    <2> QED BY <1>1, <1>2, <1>10, <2>3 DEF OpensEdit
  <1>11. ASSUME NEW r \in Requests, ChecksEdit(r)
         PROVE  TInv'
    <2>1. request[r] \in EditRows
      BY <1>1, <1>11, RequestIs DEF ChecksEdit
    <2>2. [request[r] EXCEPT !.doing = "edit"] \in RequestRows
      BY <2>1 DEF RequestRows, EditRows
    <2>3. PICK q \in RequestRows : request' = [request EXCEPT ![r] = q]
      BY <1>4, <1>11, <2>2 DEF ChecksEdit
    <2>4. /\ request' \in [Requests -> RequestRows]
          /\ \A p \in Requests : request'[p].doing \in {"idle", "schedule", "open", "edit"}
      BY <2>3, RequestsTyped
    <2> QED BY <1>1, <1>2, <1>11, <2>4 DEF ChecksEdit
  <1>12. ASSUME NEW r \in Requests, WritesEdit(r)
         PROVE  TInv'
    <2>1. request[r] \in EditRows
      BY <1>1, <1>12, RequestIs DEF WritesEdit
    <2>2. /\ request' \in [Requests -> RequestRows]
          /\ \A p \in Requests : request'[p].doing \in {"idle", "schedule", "open", "edit"}
      BY <1>4, <1>12, RequestsTyped DEF WritesEdit
    <2>3. request[r].date \in 0..LastDay
      BY <2>1, Constants DEF EditRows
    <2>4. lesson' \in [Groups -> [Orders -> LessonRows]]
      <3>1. request[r].group \in Groups /\ request[r].order \in Orders
        BY <2>1 DEF EditRows
      <3> QED BY <1>1, <1>12, <2>3, <3>1, EditMoves DEF WritesEdit
    <2> QED BY <1>1, <1>2, <1>12, <2>2, <2>4 DEF WritesEdit
  <1>13. ASSUME NEW b \in Breaks, MakesBreak(b)
         PROVE  TInv'
    <2>1. lesson' \in [Groups -> [Orders -> LessonRows]] /\ KeepsRules
      BY <1>13, BreaksReplan, ReplansMove
    <2> QED BY <1>1, <1>2, <1>3, <1>13, <2>1 DEF MakesBreak
  <1>14. ASSUME NEW b \in Breaks, NEW rebuild \in BOOLEAN, EndsBreak(b, rebuild)
         PROVE  TInv'
    <2>1. lesson' \in [Groups -> [Orders -> LessonRows]] /\ KeepsRules
      BY <1>14, EndsBreakMoves
    <2> QED BY <1>1, <1>2, <1>3, <1>14, <2>1 DEF EndsBreak
  <1>15. UNCHANGED vars => TInv'
    BY <1>1, <1>2 DEF vars
  <1> QED BY <1>5, <1>6, <1>7, <1>8, <1>9, <1>10, <1>11, <1>12, <1>13, <1>14, <1>15 DEF Next

\* The timetables of groups keep their types, whatever is set, moved or closed.
THEOREM TimetableTypeCorrect ==
    ASSUME TimetableAssumption
    PROVE  Spec => [](TypeOK /\ TInv)
  <1>1. Init => TInv
    BY StartsTyped
  <1>2. TInv /\ [Next]_vars => TInv'
    BY StepsTyped
  <1>3. TInv => TypeOK
    BY DEF TInv
  <1> QED BY <1>1, <1>2, <1>3, PTL DEF Spec
-----------------------------------------------------------------------------
(* Breaks.                                                                 *)

\* An edit that checked its date found it free, and keeps it free by holding the group.
EditIsFree(r) ==
    request[r].doing = "edit" =>
       request[r].date \notin Blocked(request[r].group) \cup Closed(request[r].group, breaks)
NothingScheduled == \A r \in Requests : request[r].doing # "schedule"

BInv == TInv /\ NothingScheduled /\ \A r \in Requests : EditIsFree(r)

FreeDates ==
    \A g \in Groups, o \in Orders :
       LET date == lesson'[g][o].date
       IN date # lesson[g][o].date => date \notin Blocked(g)' \cup Closed(g, breaks')

LEMMA NoLessonMoves ==
    ASSUME UNCHANGED lesson
    PROVE  FreeDates
  BY DEF FreeDates

\* What holds the dates of a group does not grow.
Loosens(g) == Blocked(g)' \subseteq Blocked(g) /\ Closed(g, breaks') \subseteq Closed(g, breaks)

LEMMA EditStaysFree ==
    ASSUME NEW r \in Requests, EditIsFree(r), request'[r] = request[r],
           NEW g, g = request[r].group, Loosens(g)
    PROVE  EditIsFree(r)'
  <1>1. Blocked(request[r].group)' = Blocked(g)' /\ Closed(request[r].group, breaks)' = Closed(g, breaks')
    OBVIOUS
  <1> QED BY <1>1 DEF EditIsFree, Loosens

LEMMA BlockedOf ==
    ASSUME NEW g, UNCHANGED slots
    PROVE  Blocked(g)' = Blocked(g)
  BY DEF Blocked

LEMMA ClosedLess ==
    ASSUME NEW g, NEW A, NEW B, A \subseteq B
    PROVE  Closed(g, A) \subseteq Closed(g, B)
  BY DEF Closed

\* A step that takes and gives no slot and no break keeps the dates of waiting edits free.
LEMMA EditsWait ==
    ASSUME BInv, UNCHANGED <<slots, breaks>>,
           \A r \in Requests : request'[r] = request[r] \/ EditIsFree(r)'
    PROVE  \A r \in Requests : EditIsFree(r)'
  <1> SUFFICES ASSUME NEW r \in Requests, request'[r] = request[r]
               PROVE  EditIsFree(r)'
    OBVIOUS
  <1>1. EditIsFree(r)
    BY DEF BInv
  <1> DEFINE g == request[r].group
  <1>2. Blocked(request[r].group)' = Blocked(request[r].group)
    BY DEF Blocked
  <1>3. Closed(request[r].group, breaks)' = Closed(request[r].group, breaks)
    BY DEF Closed
  <1> QED BY <1>1, <1>2, <1>3 DEF EditIsFree

\* A step that holds group g free of edits keeps the others' dates.
LEMMA EditsElsewhere ==
    ASSUME BInv, NEW held, \A g \in held : GroupIsFree(g), UNCHANGED request,
           \A h \in Groups : h \notin held => Loosens(h)
    PROVE  \A r \in Requests : EditIsFree(r)'
  <1> SUFFICES ASSUME NEW r \in Requests, request[r].doing = "edit"
               PROVE  EditIsFree(r)'
    BY DEF EditIsFree
  <1>1. EditIsFree(r) /\ request[r] \in EditRows
    BY RequestIs DEF BInv, TInv
  <1>2. PICK h : h = request[r].group
    OBVIOUS
  <1>3. h \in Groups /\ h \notin held
    BY <1>1, <1>2 DEF EditRows, GroupIsFree, Edits
  <1> QED BY <1>1, <1>2, <1>3, EditStaysFree

\* A cancelled or recovered slot is one of its group.
LEMMA SlotsOfOthers ==
    ASSUME NEW g, NEW h, h # g,
           \A s : s \in slots' /\ s \notin slots => s[1] = g
    PROVE  Blocked(h)' \subseteq Blocked(h)
  BY DEF Blocked

LEMMA BreaksOfOthers ==
    ASSUME NEW b \in Breaks, NEW h \in Groups, h \notin Scope(b.scope)
    PROVE  Closed(h, breaks \cup {b}) \subseteq Closed(h, breaks)
  <1>1. b.scope \notin {h, School}
    BY DEF Scope
  <1> QED BY <1>1 DEF Closed

\* A group's lessons get no date that a break or a cancelled slot holds, as long as no
\* rule is set meanwhile.
LEMMA ReplansAreFree ==
    ASSUME TimetableAssumption, TInv, NEW scope, NEW start, NEW end, NEW rebuild, NEW closures,
           Replans(scope, start, end, rebuild, closures), UNCHANGED slots
    PROVE  FreeDates
  <1> DEFINE plan == Plan(scope, start, end, rebuild, closures)
  <1>1. EnoughDays(scope, start, end, rebuild, closures) /\ Applies(plan, scope) /\ breaks' = closures
    BY DEF Replans
  <1> SUFFICES ASSUME NEW g \in Groups, NEW o \in Orders, lesson'[g][o].date # lesson[g][o].date
               PROVE  lesson'[g][o].date \notin Blocked(g)' \cup Closed(g, breaks')
    BY DEF FreeDates
  <1> HIDE DEF plan
  <1>2. plan[g] # <<>> /\ o \in DOMAIN plan[g] /\ lesson'[g][o].date = plan[g][o]
    BY <1>1, BreakMoves DEF plan
  <1>3. plan[g][o] \notin Blocked(g) \cup Closed(g, closures)
    BY <1>1, <1>2, PlanIs DEF plan
  <1> QED BY <1>1, <1>2, <1>3, BlockedOf
LEMMA StartsFree ==
    ASSUME TimetableAssumption, Init
    PROVE  BInv
  <1>1. \A r \in Requests : request[r] = Idle
    BY StartsSo DEF StartsFrom
  <1>2. \A r \in Requests : request[r].doing = "idle"
    BY <1>1 DEF Idle
  <1> QED BY <1>2, StartsTyped DEF BInv, NothingScheduled, EditIsFree

\* A step after which no request is about to set a rule neither reads for one nor writes it.
LEMMA NoneReads ==
    ASSUME TimetableAssumption, TInv, NothingScheduled, NothingScheduled', NEW r \in Requests
    PROVE  ~ReadsAnyTimetable(r) /\ ~WritesTimetable(r)
  <1>1. ~WritesTimetable(r)
    BY DEF WritesTimetable, NothingScheduled
  <1>2. ASSUME ReadsAnyTimetable(r)
        PROVE  FALSE
    <2>1. PICK g \in Groups, teacher \in Teachers, days \in Patterns, date \in Starts,
               scope \in {"initial", "all", "from_date", "remaining"},
               moves \in BOOLEAN, relaunch \in BOOLEAN :
               ReadsTimetable(r, g, teacher, days, scope, date, moves, relaunch)
      BY <1>2 DEF ReadsAnyTimetable
    <2>2. PICK q \in ScheduleRows : request' = [request EXCEPT ![r] = q]
      BY <2>1, ReadsTyped
    <2>3. request'[r].doing = "schedule"
      BY <2>2 DEF TInv, ScheduleRows
    <2> QED BY <2>3 DEF NothingScheduled
  <1> QED BY <1>1, <1>2

LEMMA CancelBlocks ==
    ASSUME NEW g, NEW o, NEW date, slots' = slots \cup {<<g, o, date>>}
    PROVE  Blocked(g)' = Blocked(g) \cup {date}
  <1> DEFINE slot == <<g, o, date>>
  <1>1. slot[1] = g /\ slot[3] = date
    OBVIOUS
  <1> HIDE DEF slot
  <1>2. slots' = slots \cup {slot}
    BY DEF slot
  <1> QED BY <1>1, <1>2 DEF Blocked

LEMMA StepsFree ==
    ASSUME TimetableAssumption, BInv, NothingScheduled', [Next]_vars
    PROVE  BInv' /\ FreeDates
  <1>1. TInv /\ TInv' /\ NothingScheduled /\ \A r \in Requests : EditIsFree(r)
    BY StepsTyped DEF BInv
  <1>2. ASSUME NEW r \in Requests
        PROVE  ~ReadsAnyTimetable(r) /\ ~WritesTimetable(r)
    BY <1>1, NoneReads
  <1>3. UNCHANGED request => NothingScheduled'
    BY <1>1 DEF NothingScheduled
  <1>4. ASSUME UNCHANGED <<lesson, slots, breaks, request>>
        PROVE  BInv' /\ FreeDates
    BY <1>1, <1>3, <1>4, EditsWait, NoLessonMoves DEF BInv
  <1>5. ASSUME NEW g \in Groups, NEW o \in Orders, NEW moves \in BOOLEAN, CancelsLesson(g, o, moves)
        PROVE  BInv' /\ FreeDates
    <2> DEFINE date == lesson[g][o].date
    <2>1. /\ GroupIsFree(g) /\ slots' = slots \cup {<<g, o, date>>} /\ UNCHANGED <<breaks, request>>
          /\ Reflow(g, o, date + 1, Blocked(g) \cup {date})
      BY <1>5 DEF CancelsLesson
    <2> HIDE DEF date
    <2>2. Blocked(g)' = Blocked(g) \cup {date}
      BY <2>1, CancelBlocks
    <2>3. FreeDates
      BY <1>1, <2>1, <2>2, ReflowMoves DEF FreeDates
    <2>4. ASSUME NEW h \in Groups, h \notin {g}
          PROVE  Loosens(h)
      BY <2>1, <2>4, SlotsOfOthers DEF Loosens
    <2>5. \A r \in Requests : EditIsFree(r)'
      BY <2>1, <2>4, EditsElsewhere
    <2> QED BY <1>1, <1>3, <2>1, <2>3, <2>5 DEF BInv
  <1>6. ASSUME NEW g \in Groups, NEW o \in Orders, NEW moves \in BOOLEAN, RecoversLesson(g, o, moves)
        PROVE  BInv' /\ FreeDates
    <2>1. PICK slot \in slots :
             /\ slots' = slots \ {slot}
             /\ Reflow(g, o, slot[3], {s[3] : s \in {t \in slots \ {slot} : t[1] = g}})
      BY <1>6 DEF RecoversLesson
    <2>2. GroupIsFree(g) /\ UNCHANGED <<breaks, request>>
      BY <1>6 DEF RecoversLesson
    <2>3. Blocked(g)' = {s[3] : s \in {t \in slots \ {slot} : t[1] = g}}
      BY <2>1 DEF Blocked
    <2>4. FreeDates
      BY <1>1, <2>1, <2>2, <2>3, ReflowMoves DEF FreeDates
    <2>5. ASSUME NEW h \in Groups, h \notin {g}
          PROVE  Loosens(h)
      BY <2>1, <2>2, <2>5, SlotsOfOthers DEF Loosens
    <2>6. \A r \in Requests : EditIsFree(r)'
      BY <2>2, <2>5, EditsElsewhere
    <2> QED BY <1>1, <1>3, <2>2, <2>4, <2>6 DEF BInv
  <1>7. ASSUME NEW r \in Requests, NEW g \in Groups, NEW o \in Orders, NEW date \in EditDays,
               NEW moves \in BOOLEAN, OpensEdit(r, g, o, date, moves)
        PROVE  BInv' /\ FreeDates
    <2>1. UNCHANGED <<lesson, slots, breaks>> /\ request'[r].doing = "open"
          /\ \A p \in Requests : p # r => request'[p] = request[p]
      BY <1>1, <1>7 DEF OpensEdit, TInv
    <2>2. NothingScheduled'
      BY <1>1, <2>1 DEF NothingScheduled
    <2>3. \A p \in Requests : EditIsFree(p)'
      BY <2>1, EditsWait DEF EditIsFree
    <2> QED BY <1>1, <2>1, <2>2, <2>3, NoLessonMoves DEF BInv
  <1>8. ASSUME NEW r \in Requests, ChecksEdit(r)
        PROVE  BInv' /\ FreeDates
    <2> DEFINE q == request[r]
               g == q.group
    <2>0. q \in EditRows
      BY <1>1, <1>8, RequestIs DEF ChecksEdit, TInv
    <2>1. /\ UNCHANGED <<lesson, slots, breaks>>
          /\ \A p \in Requests : p # r => request'[p] = request[p]
          /\ \/ request'[r] = Idle
             \/ /\ request'[r] = [q EXCEPT !.doing = "edit"]
                /\ q.date \notin Blocked(g) \cup Closed(g, breaks)
      BY <1>1, <1>8 DEF ChecksEdit, TInv
    <2>2. \/ request'[r].doing = "idle"
          \/ /\ request'[r].doing = "edit" /\ request'[r].date = q.date /\ request'[r].group = g
             /\ q.date \notin Blocked(g) \cup Closed(g, breaks)
      <3>1. CASE request'[r] = Idle
        BY <3>1 DEF Idle
      <3>2. CASE request'[r] = [q EXCEPT !.doing = "edit"]
        BY <2>0, <2>1, <3>2 DEF EditRows, Idle
      <3> QED BY <2>1, <3>1, <3>2
    <2>3. NothingScheduled'
      BY <1>1, <2>1, <2>2 DEF NothingScheduled
    <2>4. EditIsFree(r)'
      <3>1. PICK h : h = request'[r].group
        OBVIOUS
      <3>2. Blocked(h)' = Blocked(h) /\ Closed(h, breaks') = Closed(h, breaks)
        BY <2>1, BlockedOf
      <3>3. Blocked(request[r].group)' = Blocked(h)' /\ Closed(request[r].group, breaks)' = Closed(h, breaks')
        BY <3>1 DEF Blocked, Closed
      <3> QED BY <2>2, <3>1, <3>2, <3>3 DEF EditIsFree
    <2>5. \A p \in Requests : EditIsFree(p)'
      BY <2>1, <2>4, EditsWait
    <2> QED BY <1>1, <2>1, <2>3, <2>5, NoLessonMoves DEF BInv
  <1>9. ASSUME NEW r \in Requests, WritesEdit(r)
        PROVE  BInv' /\ FreeDates
    <2> DEFINE q == request[r]
    <2>1. q \in EditRows /\ q.doing = "edit"
      BY <1>1, <1>9, RequestIs DEF WritesEdit, TInv
    <2>2. /\ lesson' = [lesson EXCEPT ![q.group][q.order].date = q.date]
          /\ UNCHANGED <<slots, breaks>>
          /\ request'[r] = Idle /\ \A p \in Requests : p # r => request'[p] = request[p]
      BY <1>1, <1>9 DEF WritesEdit, TInv
    <2>3. request'[r].doing = "idle"
      BY <2>2 DEF Idle
    <2>4. NothingScheduled' /\ \A p \in Requests : EditIsFree(p)'
      BY <1>1, <2>2, <2>3, EditsWait DEF NothingScheduled, EditIsFree
    <2>5. FreeDates
      <3> SUFFICES ASSUME NEW g \in Groups, NEW o \in Orders, lesson'[g][o].date # lesson[g][o].date
                   PROVE  lesson'[g][o].date \notin Blocked(g)' \cup Closed(g, breaks')
        BY DEF FreeDates
      <3>1. q.group \in Groups /\ q.order \in Orders /\ q.date \in 0..LastDay
        BY <2>1, Constants DEF EditRows
      <3>2. lesson \in [Groups -> [Orders -> LessonRows]]
        BY <1>1 DEF TInv, TypeOK, LessonRows
      <3>3. g = q.group /\ o = q.order /\ lesson'[g][o].date = q.date
        <4>1. /\ lesson'[q.group][q.order].date = q.date
              /\ \A h \in Groups, p \in Orders :
                    <<h, p>> # <<q.group, q.order>> => lesson'[h][p] = lesson[h][p]
          <5>1. PICK h \in Groups, p \in Orders, date \in 0..LastDay :
                   h = q.group /\ p = q.order /\ date = q.date
            BY <3>1
          <5>2. lesson' = [lesson EXCEPT ![h][p].date = date]
            BY <2>2, <5>1
          <5>3. /\ lesson'[h][p].date = date
                /\ \A h1 \in Groups, p1 \in Orders :
                      <<h1, p1>> # <<h, p>> => lesson'[h1][p1] = lesson[h1][p1]
            BY <3>2, <5>2, EditMoves
          <5> QED BY <5>1, <5>3
        <4> QED BY <4>1
      <3>4. q.date \notin Blocked(q.group) \cup Closed(q.group, breaks)
        BY <1>1, <2>1 DEF EditIsFree
      <3> QED BY <2>2, <3>3, <3>4, BlockedOf
    <2> QED BY <1>1, <2>4, <2>5 DEF BInv
  <1>10. ASSUME NEW b \in Breaks, MakesBreak(b)
         PROVE  BInv' /\ FreeDates
    <2>1. /\ Replans(b.scope, b.from, b.to, FALSE, breaks \cup {b})
          /\ UNCHANGED <<slots, request>> /\ breaks' = breaks \cup {b}
          /\ \A g \in Scope(b.scope) : GroupIsFree(g)
      BY <1>10, BreaksReplan DEF MakesBreak
    <2>2. FreeDates
      BY <1>1, <2>1, ReplansAreFree
    <2>3. ASSUME NEW h \in Groups, h \notin Scope(b.scope)
          PROVE  Loosens(h)
      BY <2>1, <2>3, BlockedOf, BreaksOfOthers DEF Loosens
    <2>4. \A r \in Requests : EditIsFree(r)'
      BY <2>1, <2>3, EditsElsewhere
    <2> QED BY <1>1, <1>3, <2>1, <2>2, <2>4 DEF BInv
  <1>11. ASSUME NEW b \in Breaks, NEW rebuild \in BOOLEAN, EndsBreak(b, rebuild)
         PROVE  BInv' /\ FreeDates
    <2>1. UNCHANGED <<slots, request>> /\ breaks' = breaks \ {b}
      BY <1>11 DEF EndsBreak
    <2>2. FreeDates
      <3>1. CASE rebuild = TRUE
        <4>1. EndsBreak(b, TRUE)
          BY <1>11, <3>1
        <4> QED BY <1>1, <2>1, <4>1, BreaksReplan, ReplansAreFree
      <3>2. CASE rebuild = FALSE
        BY <1>11, <3>2, NoLessonMoves DEF EndsBreak
      <3> QED BY <3>1, <3>2
    <2>3. ASSUME NEW h \in Groups
          PROVE  Loosens(h)
      BY <2>1, BlockedOf, ClosedLess DEF Loosens
    <2>4. \A r \in Requests : EditIsFree(r)'
      <3> DEFINE held == {}
      <3>1. \A g \in held : GroupIsFree(g)
        OBVIOUS
      <3>2. \A h \in Groups : h \notin held => Loosens(h)
        BY <2>3
      <3> HIDE DEF held
      <3> QED BY <2>1, <3>1, <3>2, EditsElsewhere
    <2> QED BY <1>1, <1>3, <2>1, <2>2, <2>4 DEF BInv
  <1>12. ASSUME NEW g \in Groups, NEW o \in Orders, RecordsLesson(g, o)
         PROVE  BInv' /\ FreeDates
    BY <1>4, <1>12 DEF RecordsLesson
  <1>13. UNCHANGED vars => BInv' /\ FreeDates
    BY <1>4 DEF vars
  <1> QED BY <1>2, <1>5, <1>6, <1>7, <1>8, <1>9, <1>10, <1>11, <1>12, <1>13 DEF Next
\* As long as no rule is set, a lesson that gets a date gets one no break and no cancelled
\* slot holds; a rule is written on what was read before.
THEOREM DatesStayFree ==
    ASSUME TimetableAssumption
    PROVE  Spec /\ []NothingScheduled => DatesAreFree
  <1>1. Init => BInv
    BY StartsFree
  <1>2. BInv /\ NothingScheduled' /\ [Next]_vars => BInv'
    BY StepsFree
  <1>3. BInv /\ NothingScheduled' /\ [Next]_vars => [FreeDates]_vars
    BY StepsFree
  <1> QED BY <1>1, <1>2, <1>3, PTL DEF Spec, DatesAreFree, FreeDates

\* Rules are set only where Scheduling says so.
THEOREM NoRuleIsSet ==
    ASSUME TimetableAssumption, ~Scheduling
    PROVE  Spec => []NothingScheduled
  <1>1. ASSUME Init
        PROVE  BInv
    BY <1>1, StartsFree
  <1>2. ASSUME TInv, NothingScheduled, [Next]_vars
        PROVE  NothingScheduled'
    <2>1. \A r \in Requests : ~ReadsAnyTimetable(r)
      <3> SUFFICES ASSUME NEW r \in Requests, ReadsAnyTimetable(r)
                   PROVE  FALSE
        OBVIOUS
      <3>1. PICK g \in Groups, teacher \in Teachers, days \in Patterns, date \in Starts,
                 scope \in {"initial", "all", "from_date", "remaining"},
                 moves \in BOOLEAN, relaunch \in BOOLEAN :
                 ReadsTimetable(r, g, teacher, days, scope, date, moves, relaunch)
        BY DEF ReadsAnyTimetable
      <3> QED BY <3>1 DEF ReadsTimetable
    <2>2. request \in [Requests -> RequestRows]
      BY <1>2 DEF TInv
    <2>3. ASSUME NEW r \in Requests, request'[r].doing # "schedule",
                 \A p \in Requests : p # r => request'[p] = request[p]
          PROVE  NothingScheduled'
      BY <1>2, <2>3 DEF NothingScheduled
    <2>4. Idle.doing # "schedule"
      BY DEF Idle
    <2>5. ASSUME NEW r \in Requests, WritesTimetable(r) \/ WritesEdit(r)
          PROVE  NothingScheduled'
      BY <2>2, <2>3, <2>4, <2>5 DEF WritesTimetable, WritesEdit
    <2>6. ASSUME NEW r \in Requests, ChecksEdit(r)
          PROVE  NothingScheduled'
      <3>1. request[r] \in EditRows
        BY <2>2, <2>6, RequestIs DEF ChecksEdit
      <3>2. [request[r] EXCEPT !.doing = "edit"].doing # "schedule"
        BY <3>1 DEF EditRows
      <3> QED BY <2>2, <2>3, <2>4, <2>6, <3>2 DEF ChecksEdit
    <2>7. ASSUME NEW r \in Requests, NEW g \in Groups, NEW o \in Orders, NEW date \in EditDays,
                 NEW moves \in BOOLEAN, OpensEdit(r, g, o, date, moves)
          PROVE  NothingScheduled'
      BY <2>2, <2>3, <2>7 DEF OpensEdit
    <2>8. UNCHANGED request => NothingScheduled'
      BY <1>2 DEF NothingScheduled
    <2>9. ASSUME NEW g \in Groups, NEW o \in Orders, NEW moves \in BOOLEAN,
                 RecordsLesson(g, o) \/ CancelsLesson(g, o, moves) \/ RecoversLesson(g, o, moves)
          PROVE  NothingScheduled'
      BY <2>8, <2>9 DEF RecordsLesson, CancelsLesson, RecoversLesson
    <2>10. ASSUME NEW b \in Breaks, NEW rebuild \in BOOLEAN, MakesBreak(b) \/ EndsBreak(b, rebuild)
           PROVE  NothingScheduled'
      BY <2>8, <2>10 DEF MakesBreak, EndsBreak
    <2> QED BY <1>2, <2>1, <2>5, <2>6, <2>7, <2>8, <2>9, <2>10 DEF Next, vars
  <1>3. BInv => NothingScheduled
    BY DEF BInv
  <1>4. Spec => []TInv
    BY TimetableTypeCorrect, PTL
  <1>5. Init => NothingScheduled
    BY <1>1, <1>3
  <1>6. TInv /\ NothingScheduled /\ [Next]_vars => NothingScheduled'
    BY <1>2
  <1> QED BY <1>4, <1>5, <1>6, PTL DEF Spec

KeptHistory ==
    \A b \in breaks' \ breaks : \A g \in Scope(b.scope), o \in Orders :
       IF <<g, o>> \in recorded THEN lesson'[g][o] = lesson[g][o]
       ELSE RulesOf(g) # {} => lesson'[g][o].date \notin Max({Today, b.from})..b.to
MadeRoom ==
    breaks' # breaks =>
       \A g \in Groups, o \in Orders :
          lesson'[g][o].date # lesson[g][o].date =>
             ~Taken(g, lesson[g][o].teacher, lesson[g][o].date, {<<g, o>>})'

LEMMA BreakIs ==
    ASSUME TimetableAssumption, NEW b \in Breaks
    PROVE  /\ b.from \in Days /\ b.to \in Days /\ b.from <= b.to
           /\ Scope(b.scope) \subseteq Groups
           /\ \A g \in Scope(b.scope) : b.scope \in {g, School}
           /\ Max({Today, b.from}) \in {Today, b.from}
           /\ Max({Today, b.from}) >= Today /\ Max({Today, b.from}) >= b.from
  <1>1. /\ b.from \in Days /\ b.to \in Days /\ b.from <= b.to /\ b.scope \in Groups \cup {School}
        /\ School \notin Groups
    BY DEF TimetableAssumption
  <1>2. {Today, b.from} \in SUBSET (0..LastDay)
    BY <1>1, Constants
  <1>3. /\ Max({Today, b.from}) \in {Today, b.from}
        /\ \A y \in {Today, b.from} : y <= Max({Today, b.from})
    BY <1>2, GreatestOf, Constants
  <1>4. Max({Today, b.from}) >= Today /\ Max({Today, b.from}) >= b.from
    BY <1>1, <1>3, Constants
  <1> QED BY <1>1, <1>3, <1>4 DEF Scope

\* A lesson of a group with a rule that stays inside a new break was recorded.
LEMMA InsideIsMovable ==
    ASSUME TimetableAssumption, TInv, NEW b \in Breaks, NEW g \in Groups, NEW o \in Orders,
           RulesOf(g) # {}, <<g, o>> \notin recorded,
           lesson[g][o].date \in Max({Today, b.from})..b.to
    PROVE  o \in Movable(g, b.from, b.to, FALSE)
  <1> DEFINE affected == Affected(g, b.from, b.to, FALSE)
             lower == Max({Today, b.from})
             dates == {lesson[g][p].date : p \in affected}
  <1>1. lower \in Nat /\ lower >= 1 /\ b.to \in Nat
    BY BreakIs, Constants
  <1>2. \A p \in Orders : lesson[g][p].date \in Nat
    BY Constants DEF TInv, TypeOK
  <1>3. lower <= lesson[g][o].date /\ lesson[g][o].date <= b.to /\ lesson[g][o].date # 0
    BY <1>1, <1>2
  <1>4. o \in affected
    <2> HIDE DEF lower
    <2>1. o \notin Recorded(g) /\ o \notin Undated(g) /\ o \in From(g, lower) /\ o \notin From(g, b.to + 1)
      BY <1>1, <1>2, <1>3 DEF Recorded, Undated, From
    <2> QED BY <2>1 DEF Affected, lower
  <1>5. Min(affected) <= o /\ Min(affected) \in Orders /\ affected \in SUBSET Orders
    BY <1>4, MovableAre
  <1> HIDE DEF affected
  <1>6. Min(dates) <= lesson[g][o].date
    <2>1. dates \in SUBSET Nat /\ lesson[g][o].date \in dates
      BY <1>2, <1>4, <1>5
    <2> QED BY <2>1, LeastOf
  <1>7. First(g, b.from, b.to, FALSE) = Min(dates)
    BY DEF First, affected
  <1>8. o \in From(g, First(g, b.from, b.to, FALSE))
    BY <1>6, <1>7, <1>2 DEF From
  <1>9. o \in Min(affected)..Lessons /\ o \notin Recorded(g)
    BY <1>5, Constants DEF Recorded, Orders
  <1> QED BY <1>4, <1>8, <1>9 DEF Movable, affected

\* In a group of the break, the lessons that can move get free days and the others stay.
LEMMA ReplanFollows ==
    ASSUME TimetableAssumption, TInv, NEW scope, NEW start, NEW end, NEW rebuild, NEW closures,
           Replans(scope, start, end, rebuild, closures),
           NEW g \in Groups, g \in Scope(scope), NEW o \in Orders
    PROVE  IF o \in Movable(g, start, end, rebuild)
           THEN lesson'[g][o].date \notin Closed(g, closures)
           ELSE lesson'[g][o] = lesson[g][o]
  <1> DEFINE plan == Plan(scope, start, end, rebuild, closures)
  <1>1. EnoughDays(scope, start, end, rebuild, closures) /\ Applies(plan, scope)
    BY DEF Replans
  <1> HIDE DEF plan
  <1>2. IF o \in DOMAIN plan[g] THEN lesson'[g][o].date = plan[g][o]
        ELSE lesson'[g][o] = lesson[g][o]
    BY <1>1, BreakMoves DEF plan
  <1>3. /\ o \in DOMAIN plan[g] <=> o \in Movable(g, start, end, rebuild)
        /\ \A p \in DOMAIN plan[g] : plan[g][p] \notin Closed(g, closures)
    <2>1. PICK own : own = plan[g]
      OBVIOUS
    <2>2. own = Plan(scope, start, end, rebuild, closures)[g]
      BY <2>1 DEF plan
    <2>3. /\ o \in DOMAIN own <=> o \in Movable(g, start, end, rebuild)
          /\ \A p \in DOMAIN own : own[p] \notin Closed(g, closures)
      BY <1>1, <2>2, PlanIs
    <2> QED BY <2>1, <2>3
  <1> QED BY <1>2, <1>3

LEMMA BreakKeepsHistory ==
    ASSUME TimetableAssumption, TInv, NEW b \in Breaks, MakesBreak(b)
    PROVE  KeptHistory
  <1> DEFINE no == FALSE
  <1>1. Replans(b.scope, b.from, b.to, no, breaks \cup {b}) /\ breaks' = breaks \cup {b}
    BY BreaksReplan DEF Replans
  <1> SUFFICES ASSUME NEW g \in Scope(b.scope), NEW o \in Orders
               PROVE  IF <<g, o>> \in recorded THEN lesson'[g][o] = lesson[g][o]
                      ELSE RulesOf(g) # {} => lesson'[g][o].date \notin Max({Today, b.from})..b.to
    BY <1>1 DEF KeptHistory
  <1>2. g \in Groups /\ b.scope \in {g, School}
    BY BreakIs
  <1> DEFINE movable == Movable(g, b.from, b.to, no)
  <1> HIDE DEF no
  <1>3. IF o \in movable THEN lesson'[g][o].date \notin Closed(g, breaks \cup {b})
        ELSE lesson'[g][o] = lesson[g][o]
    BY <1>1, <1>2, ReplanFollows
  <1>5. CASE o \in movable
    <2>1. o \notin Recorded(g)
      BY <1>2, <1>5, MovableAre
    <2>2. lesson'[g][o].date \notin b.from..b.to
      BY <1>2, <1>3, <1>5 DEF Closed
    <2>3. Max({Today, b.from})..b.to \subseteq b.from..b.to
      <3>1. Max({Today, b.from}) \in Nat /\ b.from \in Nat /\ b.to \in Nat /\ Max({Today, b.from}) >= b.from
        BY BreakIs, Constants
      <3> QED BY <3>1
    <2> QED BY <2>1, <2>2, <2>3 DEF Recorded
  <1>6. CASE o \notin movable
    BY <1>2, <1>3, <1>6, InsideIsMovable DEF no
  <1> QED BY <1>5, <1>6

LEMMA ReplansMakeRoom ==
    ASSUME TimetableAssumption, TInv, NEW scope, NEW start, NEW end, NEW rebuild, NEW closures,
           Replans(scope, start, end, rebuild, closures)
    PROVE  MadeRoom
  <1> DEFINE plan == Plan(scope, start, end, rebuild, closures)
             moved == {m \in Groups \X Orders : m[2] \in DOMAIN plan[m[1]]}
  <1>1. EnoughDays(scope, start, end, rebuild, closures) /\ Applies(plan, scope) /\ ~Collides(plan)
    BY DEF Replans
  <1> SUFFICES ASSUME NEW g \in Groups, NEW o \in Orders,
                      lesson'[g][o].date # lesson[g][o].date,
                      Taken(g, lesson[g][o].teacher, lesson[g][o].date, {<<g, o>>})'
               PROVE  FALSE
    BY DEF MadeRoom
  <1>2. PICK h \in Groups, p \in Orders :
           /\ <<h, p>> # <<g, o>> /\ lesson'[h][p].date = lesson'[g][o].date
           /\ h = g \/ (lesson'[g][o].teacher # None /\ lesson'[h][p].teacher = lesson'[g][o].teacher)
    BY DEF Taken
  <1>3. \A k \in Groups, q \in Orders :
           IF q \in DOMAIN plan[k]
           THEN lesson'[k][q].date = plan[k][q] /\ lesson'[k][q].teacher = Rule(k).teacher
           ELSE lesson'[k][q] = lesson[k][q]
    BY <1>1, BreakMoves
  <1> HIDE DEF plan
  <1>4. \A k \in Groups, q \in Orders : <<k, q>> \in moved <=> q \in DOMAIN plan[k]
    OBVIOUS
  <1>5. <<g, o>> \in moved /\ lesson'[g][o].date = plan[g][o] /\ lesson'[g][o].teacher = Rule(g).teacher
    BY <1>3, <1>4
  <1>6. /\ ~Taken(g, Rule(g).teacher, plan[g][o], moved)
        /\ \A n \in moved : ~(n # <<g, o>> /\ plan[n[1]][n[2]] = plan[g][o]
                              /\ (n[1] = g \/ Rule(n[1]).teacher = Rule(g).teacher))
    BY <1>1, <1>5 DEF Collides
  <1> HIDE DEF moved
  <1>7. CASE <<h, p>> \in moved
    <2>1. lesson'[h][p].date = plan[h][p] /\ lesson'[h][p].teacher = Rule(h).teacher
      BY <1>3, <1>4, <1>7
    <2> QED BY <1>2, <1>5, <1>6, <1>7, <2>1
  <1>8. CASE <<h, p>> \notin moved
    <2>1. lesson'[h][p] = lesson[h][p]
      BY <1>3, <1>4, <1>8
    <2> QED BY <1>2, <1>5, <1>6, <1>8, <2>1 DEF Taken
  <1> QED BY <1>7, <1>8

LEMMA StepsMakeRoom ==
    ASSUME TimetableAssumption, TInv, [Next]_vars
    PROVE  KeptHistory /\ MadeRoom
  <1>1. UNCHANGED breaks => KeptHistory /\ MadeRoom
    BY DEF KeptHistory, MadeRoom
  <1>2. ASSUME NEW b \in Breaks, MakesBreak(b)
        PROVE  KeptHistory /\ MadeRoom
    BY <1>2, BreakKeepsHistory, BreaksReplan, ReplansMakeRoom
  <1>3. ASSUME NEW b \in Breaks, NEW rebuild \in BOOLEAN, EndsBreak(b, rebuild)
        PROVE  KeptHistory /\ MadeRoom
    <2>1. KeptHistory
      BY <1>3 DEF EndsBreak, KeptHistory
    <2>2. CASE rebuild = TRUE
      <3>1. EndsBreak(b, TRUE)
        BY <1>3, <2>2
      <3> QED BY <2>1, <3>1, BreaksReplan, ReplansMakeRoom
    <2>3. CASE rebuild = FALSE
      BY <1>3, <2>1, <2>3 DEF EndsBreak, MadeRoom
    <2> QED BY <2>2, <2>3
  <1>4. \/ UNCHANGED breaks
        \/ \E b \in Breaks : MakesBreak(b)
        \/ \E b \in Breaks, rebuild \in BOOLEAN : EndsBreak(b, rebuild)
    <2>1. \A r \in Requests : ReadsAnyTimetable(r) => UNCHANGED breaks
      BY DEF ReadsAnyTimetable, ReadsTimetable
    <2>2. \A r \in Requests : WritesTimetable(r) \/ ChecksEdit(r) \/ WritesEdit(r) => UNCHANGED breaks
      BY DEF WritesTimetable, ChecksEdit, WritesEdit
    <2>3. \A g \in Groups, o \in Orders, moves \in BOOLEAN :
             CancelsLesson(g, o, moves) \/ RecoversLesson(g, o, moves) => UNCHANGED breaks
      BY DEF CancelsLesson, RecoversLesson
    <2>4. \A g \in Groups, o \in Orders : RecordsLesson(g, o) => UNCHANGED breaks
      BY DEF RecordsLesson
    <2>5. \A r \in Requests, g \in Groups, o \in Orders, date \in EditDays, moves \in BOOLEAN :
             OpensEdit(r, g, o, date, moves) => UNCHANGED breaks
      BY DEF OpensEdit
    <2> QED BY <2>1, <2>2, <2>3, <2>4, <2>5 DEF Next, vars
  <1> QED BY <1>1, <1>2, <1>3, <1>4

\* A new break leaves no unrecorded lesson of a group with a rule inside its days, and
\* every recorded one where it was.
THEOREM BreaksLeaveHistory ==
    ASSUME TimetableAssumption
    PROVE  Spec => BreaksKeepHistory
  <1>1. TInv /\ [Next]_vars => [KeptHistory]_vars
    BY StepsMakeRoom
  <1> QED BY <1>1, TimetableTypeCorrect, PTL DEF Spec, BreaksKeepHistory, KeptHistory

\* A break that is made or ended with a rebuild puts no lesson on the date of another of
\* its group or its teacher, whatever else was set, moved or edited before.
THEOREM BreaksFindRoom ==
    ASSUME TimetableAssumption
    PROVE  Spec => BreaksMakeRoom
  <1>1. TInv /\ [Next]_vars => [MadeRoom]_vars
    BY StepsMakeRoom
  <1> QED BY <1>1, TimetableTypeCorrect, PTL DEF Spec, BreaksMakeRoom, MadeRoom
-----------------------------------------------------------------------------
(* One rule for a group.                                                   *)

\* No two requests set the rule of one group at once: nothing in the code keeps them apart.
SchedulesApart ==
    \A r, p \in Requests :
       /\ request[r].doing = "schedule" /\ request[p].doing = "schedule"
       /\ request[r].group = request[p].group
       => r = p

OneRule == \A x, y \in rules : x.group = y.group => x = y
ReplacesAll(r) ==
    request[r].doing = "schedule" =>
       \A x \in rules : x.group = request[r].group => x.id = request[r].old

RInv == TInv /\ OneRule /\ \A r \in Requests : ReplacesAll(r)

\* Rules that only get other last days stay one to a group, and are replaced as before.
LEMMA KeptRules ==
    ASSUME RInv, KeepsRules
    PROVE  /\ OneRule'
           /\ \A r \in Requests :
                 request'[r] = request[r] \/ request'[r].doing # "schedule" => ReplacesAll(r)'
  <1>1. PICK f \in [rules -> Rules] :
           /\ rules' = {f[x] : x \in rules}
           /\ \A x \in rules : f[x].id = x.id /\ f[x].group = x.group
    BY DEF KeepsRules
  <1>2. OneRule /\ \A r \in Requests : ReplacesAll(r)
    BY DEF RInv
  <1>3. \A y \in rules' : \E x \in rules : y = f[x] /\ y.id = x.id /\ y.group = x.group
    BY <1>1
  <1>4. OneRule'
    BY <1>2, <1>3 DEF OneRule
  <1>5. ASSUME NEW r \in Requests, request'[r] = request[r] \/ request'[r].doing # "schedule"
        PROVE  ReplacesAll(r)'
    BY <1>2, <1>3, <1>5 DEF ReplacesAll
  <1> QED BY <1>4, <1>5

LEMMA StepsKeepOneRule ==
    ASSUME TimetableAssumption, RInv, SchedulesApart, [Next]_vars
    PROVE  RInv'
  <1>1. TInv /\ TInv' /\ OneRule /\ \A r \in Requests : ReplacesAll(r)
    BY StepsTyped DEF RInv
  <1>2. rules \subseteq Rules /\ request \in [Requests -> RequestRows]
    BY <1>1 DEF TInv, TypeOK
  <1>3. ASSUME KeepsRules, UNCHANGED request
        PROVE  RInv'
    BY <1>1, <1>3, KeptRules DEF RInv
  <1>4. ASSUME NEW r \in Requests, UNCHANGED rules, request'[r].doing # "schedule",
               \A p \in Requests : p # r => request'[p] = request[p]
        PROVE  RInv'
    <2>1. KeepsRules
      BY <1>2, <1>4, RulesStay
    <2> QED BY <1>1, <1>4, <2>1, KeptRules DEF RInv
  <1>5. ASSUME NEW r \in Requests, ReadsAnyTimetable(r)
        PROVE  RInv'
    <2>1. PICK g \in Groups, teacher \in Teachers, days \in Patterns, date \in Starts,
               scope \in {"initial", "all", "from_date", "remaining"},
               moves \in BOOLEAN, relaunch \in BOOLEAN :
               ReadsTimetable(r, g, teacher, days, scope, date, moves, relaunch)
      BY <1>5 DEF ReadsAnyTimetable
    <2>2. PICK q \in ScheduleRows :
             /\ request' = [request EXCEPT ![r] = q] /\ q.group = g
             /\ IF RulesOf(g) = {} THEN TRUE ELSE q.old = Rule(g).id
      BY <1>1, <2>1, ReadsTyped
    <2>3. UNCHANGED rules
      BY <2>1 DEF ReadsTimetable
    <2>4. request'[r] = q /\ \A p \in Requests : p # r => request'[p] = request[p]
      BY <1>2, <2>2
    <2>5. KeepsRules
      BY <1>2, <2>3, RulesStay
    <2>6. ReplacesAll(r)'
      <3> SUFFICES ASSUME NEW x \in rules, x.group = g
                   PROVE  x.id = q.old
        BY <2>2, <2>3, <2>4 DEF ReplacesAll
      <3>1. x \in RulesOf(g) /\ RulesOf(g) # {}
        BY DEF RulesOf
      <3>2. Rule(g) \in rules /\ Rule(g).group = g
        BY <1>2, <3>1, RuleIsActive
      <3> QED BY <1>1, <2>2, <3>1, <3>2 DEF OneRule
    <2> QED BY <1>1, <2>4, <2>5, <2>6, KeptRules DEF RInv
  <1>6. ASSUME NEW r \in Requests, WritesTimetable(r)
        PROVE  RInv'
    <2> DEFINE q == request[r]
               new == [id |-> ids + 1, group |-> q.group, teacher |-> q.teacher, days |-> q.days,
                       from |-> q.from, to |-> q.to]
    <2>1. /\ q.doing = "schedule" /\ rules' = {x \in rules : x.id # q.old} \cup {new}
          /\ request' = [request EXCEPT ![r] = Idle]
      BY <1>6 DEF WritesTimetable
    <2>2. new.group = q.group
      OBVIOUS
    <2> HIDE DEF new
    <2>3. \A y \in rules' : y = new \/ (y \in rules /\ y.group # q.group)
      BY <1>1, <2>1 DEF ReplacesAll
    <2>4. OneRule'
      BY <1>1, <2>2, <2>3 DEF OneRule
    <2>5. request'[r].doing = "idle" /\ \A p \in Requests : p # r => request'[p] = request[p]
      BY <1>2, <2>1 DEF Idle
    <2>6. ASSUME NEW p \in Requests
          PROVE  ReplacesAll(p)'
      <3>1. CASE p = r
        BY <2>5, <3>1 DEF ReplacesAll
      <3>2. CASE p # r
        <4> SUFFICES ASSUME request[p].doing = "schedule", NEW y \in rules', y.group = request[p].group
                     PROVE  y.id = request[p].old
          BY <2>5, <3>2 DEF ReplacesAll
        <4>1. request[p].group # q.group
          BY <2>1, <3>2 DEF SchedulesApart
        <4>2. y \in rules
          BY <2>2, <2>3, <4>1
        <4> QED BY <1>1, <4>2 DEF ReplacesAll
      <3> QED BY <3>1, <3>2
    <2> QED BY <1>1, <2>4, <2>6 DEF RInv
  <1>7. ASSUME NEW g \in Groups, NEW o \in Orders, NEW moves \in BOOLEAN,
               CancelsLesson(g, o, moves) \/ RecoversLesson(g, o, moves)
        PROVE  RInv'
    <2>1. UNCHANGED request
      BY <1>7 DEF CancelsLesson, RecoversLesson
    <2>2. \E start, blocked : Reflow(g, o, start, blocked)
      BY <1>7 DEF CancelsLesson, RecoversLesson
    <2> QED BY <1>1, <1>3, <2>1, <2>2, ReflowMoves
  <1>8. ASSUME NEW r \in Requests, NEW g \in Groups, NEW o \in Orders, NEW date \in EditDays,
               NEW moves \in BOOLEAN, OpensEdit(r, g, o, date, moves)
        PROVE  RInv'
    BY <1>2, <1>4, <1>8 DEF OpensEdit
  <1>9. ASSUME NEW r \in Requests, ChecksEdit(r)
        PROVE  RInv'
    <2>1. request[r] \in EditRows
      BY <1>2, <1>9, RequestIs DEF ChecksEdit
    <2>2. Idle.doing # "schedule" /\ [request[r] EXCEPT !.doing = "edit"].doing # "schedule"
      BY <2>1 DEF EditRows, Idle
    <2> QED BY <1>2, <1>4, <1>9, <2>2 DEF ChecksEdit
  <1>10. ASSUME NEW r \in Requests, WritesEdit(r)
         PROVE  RInv'
    <2>1. Idle.doing # "schedule"
      BY DEF Idle
    <2> QED BY <1>2, <1>4, <1>10, <2>1 DEF WritesEdit
  <1>11. ASSUME NEW b \in Breaks, MakesBreak(b)
         PROVE  RInv'
    BY <1>1, <1>3, <1>11, BreaksReplan, ReplansMove DEF MakesBreak
  <1>12. ASSUME NEW b \in Breaks, NEW rebuild \in BOOLEAN, EndsBreak(b, rebuild)
         PROVE  RInv'
    BY <1>1, <1>3, <1>12, EndsBreakMoves DEF EndsBreak
  <1>13. ASSUME NEW g \in Groups, NEW o \in Orders, RecordsLesson(g, o)
         PROVE  RInv'
    BY <1>2, <1>3, <1>13, RulesStay DEF RecordsLesson
  <1>14. UNCHANGED vars => RInv'
    BY <1>2, <1>3, RulesStay DEF vars
  <1> QED BY <1>5, <1>6, <1>7, <1>8, <1>9, <1>10, <1>11, <1>12, <1>13, <1>14 DEF Next

\* As long as no two requests set the rule of one group at once, a group has at most one
\* active rule.
THEOREM GroupsHaveOneRule ==
    ASSUME TimetableAssumption
    PROVE  Spec /\ []SchedulesApart => []OneActiveRule
  <1>1. ASSUME Init
        PROVE  RInv
    <2>1. TInv
      BY <1>1, StartsTyped
    <2>2. PICK scheduled \in SUBSET Groups, pattern \in [Groups -> Patterns],
               teacher \in [Groups -> Teachers], start \in [Groups -> Starts] :
               \E rule : StartsFrom(scheduled, pattern, teacher, start, rule)
      BY <1>1, StartsSo
    <2>3. PICK rule : StartsFrom(scheduled, pattern, teacher, start, rule)
      BY <2>2
    <2>4. OneRule
      BY <2>3 DEF StartsFrom, OneRule
    <2>5. \A r \in Requests : request[r].doing = "idle"
      BY <2>3 DEF StartsFrom, Idle
    <2> QED BY <2>1, <2>4, <2>5 DEF RInv, ReplacesAll
  <1>2. RInv /\ SchedulesApart /\ [Next]_vars => RInv'
    BY StepsKeepOneRule
  <1>3. RInv => OneActiveRule
    <2> SUFFICES ASSUME RInv, NEW g \in Groups
                 PROVE  Cardinality(RulesOf(g)) <= 1
      BY DEF OneActiveRule
    <2>1. RulesOf(g) = {} \/ \E x : RulesOf(g) = {x}
      BY DEF RInv, OneRule, RulesOf
    <2>2. CASE RulesOf(g) = {}
      <3>1. Cardinality(RulesOf(g)) = 0
        BY <2>2, FS_EmptySet
      <3> QED BY <3>1
    <2>3. ASSUME NEW x, RulesOf(g) = {x}
          PROVE  Cardinality(RulesOf(g)) <= 1
      <3>1. Cardinality(RulesOf(g)) = 1
        BY <2>3, FS_Singleton
      <3> QED BY <3>1
    <2> QED BY <2>1, <2>2, <2>3
  <1> QED BY <1>1, <1>2, <1>3, PTL DEF Spec

\* One request alone is not in its own way.
THEOREM OneRequestIsApart ==
    ASSUME \A r, p \in Requests : r = p
    PROVE  Spec => []SchedulesApart
  <1>1. SchedulesApart
    BY DEF SchedulesApart
  <1> QED BY <1>1, PTL
-----------------------------------------------------------------------------
(* One lesson at a time, while dates are only edited.                      *)

\* No lesson is cancelled and no break declared.
NothingReflows == slots = {} /\ breaks = {}

Waits(r) == request[r].doing \in {"open", "edit"}
KnowsTeacher(r) ==
    Waits(r) => request[r].teacher = lesson[request[r].group][request[r].order].teacher
Clash(h, p, g, o, teacher, date) ==
    /\ <<h, p>> # <<g, o>> /\ lesson[h][p].date = date
    /\ h = g \/ (teacher # None /\ lesson[h][p].teacher = teacher)
\* No lesson of its group or its teacher has the date an edit is about to write.
FindsRoom(r) ==
    request[r].doing = "edit" =>
       \A h \in Groups, p \in Orders :
          ~Clash(h, p, request[r].group, request[r].order, request[r].teacher, request[r].date)
\* The locks on groups and teachers keep the edits apart.
HoldApart(r, p) ==
    r # p /\ request[r].doing = "edit" /\ request[p].doing = "edit" =>
       /\ request[r].group # request[p].group
       /\ request[r].teacher # request[p].teacher \/ request[r].teacher = None

EInv ==
    /\ TInv /\ NothingScheduled /\ NothingReflows
    /\ OneLessonAtATime /\ TeacherInOnePlace
    /\ \A r \in Requests : KnowsTeacher(r) /\ FindsRoom(r)
    /\ \A r, p \in Requests : HoldApart(r, p)

LEMMA StartsOneAtATime ==
    ASSUME TimetableAssumption, Init
    PROVE  EInv
  <1>1. TInv
    BY StartsTyped
  <1>2. PICK scheduled \in SUBSET Groups, pattern \in [Groups -> Patterns],
             teacher \in [Groups -> Teachers], start \in [Groups -> Starts] :
             \E rule : StartsFrom(scheduled, pattern, teacher, start, rule)
    BY StartsSo
  <1>3. PICK rule : StartsFrom(scheduled, pattern, teacher, start, rule)
    BY <1>2
  <1> DEFINE free(g) == TeachingDays(pattern[g], start[g], {})
  <1>4. /\ slots = {} /\ breaks = {} /\ request = [r \in Requests |-> Idle]
        /\ lesson = [g \in Groups |-> [o \in Orders |->
              IF g \in scheduled THEN [date |-> Kth(free(g), o), teacher |-> teacher[g]]
              ELSE [date |-> 0, teacher |-> None]]]
        /\ \A g \in scheduled : /\ rule[g].from = start[g] /\ rule[g].to = Kth(free(g), Lessons)
                                /\ Cardinality(free(g)) >= Lessons
        /\ \A g, h \in scheduled :
              g # h /\ teacher[g] = teacher[h] /\ pattern[g] \cap pattern[h] # {}
                 => rule[g].to < rule[h].from \/ rule[h].to < rule[g].from
    BY <1>3 DEF StartsFrom
  <1>5. ASSUME NEW g \in Groups
        PROVE  /\ free(g) \in SUBSET Days /\ free(g) \subseteq pattern[g]
               /\ \A d \in free(g) : d >= start[g]
               /\ start[g] \in Days /\ Cardinality(free(g)) \in Nat
    <2>1. pattern[g] \in SUBSET Days /\ start[g] \in Days /\ LastDay \in Nat
      BY Constants
    <2>2. free(g) \in SUBSET Days /\ \A d \in free(g) : d >= start[g]
      BY <2>1, TeachingDaysAreDays
    <2>3. free(g) \subseteq pattern[g]
      BY DEF TeachingDays
    <2>4. Cardinality(free(g)) \in Nat
      BY <2>1, <2>2, CountsUpTo
    <2> QED BY <2>1, <2>2, <2>3, <2>4
  <1> HIDE DEF free
  <1>6. ASSUME NEW g \in scheduled, NEW o \in Orders
        PROVE  /\ lesson[g][o].date = Kth(free(g), o) /\ lesson[g][o].teacher = teacher[g]
               /\ o \in 1..Cardinality(free(g)) /\ Lessons \in 1..Cardinality(free(g)) /\ o <= Lessons
               /\ Kth(free(g), o) \in free(g) /\ Kth(free(g), o) \in Nat /\ Kth(free(g), o) <= rule[g].to
    <2>1. o \in 1..Cardinality(free(g)) /\ Lessons \in 1..Cardinality(free(g)) /\ o <= Lessons /\ LastDay \in Nat
      BY <1>4, <1>5, Constants
    <2>2. Kth(free(g), o) \in free(g) /\ Kth(free(g), Lessons) \in free(g)
      BY <1>5, <2>1, KthIsThere
    <2>3. \A d \in free(g) : d \in Nat
      BY <1>5, Constants
    <2>4. Kth(free(g), o) <= Kth(free(g), Lessons)
      <3>1. CASE o = Lessons
        BY <2>2, <2>3, <3>1
      <3>2. CASE o < Lessons
        BY <1>5, <2>1, <2>2, <2>3, <3>2, KthGrows
      <3>3. o \in Nat /\ Lessons \in Nat
        BY Constants
      <3> QED BY <2>1, <3>1, <3>2, <3>3
    <2> QED BY <1>4, <2>1, <2>2, <2>3, <2>4
  <1>7. ASSUME NEW g \in Groups, g \notin scheduled, NEW o \in Orders
        PROVE  lesson[g][o].date = 0
    BY <1>4, <1>7
  <1>8. OneLessonAtATime
    <2> SUFFICES ASSUME NEW g \in Groups, NEW o \in Orders, NEW p \in Orders, o # p,
                        lesson[g][o].date # 0
                 PROVE  lesson[g][o].date # lesson[g][p].date
      BY DEF OneLessonAtATime
    <2>1. g \in scheduled
      BY <1>7
    <2>2. o < p \/ p < o
      BY Constants
    <2>3. LastDay \in Nat
      BY Constants
    <2>4. Kth(free(g), o) # Kth(free(g), p)
      <3>1. CASE o < p
        <4>1. Kth(free(g), o) < Kth(free(g), p)
          BY <1>5, <1>6, <2>1, <2>3, <3>1, KthGrows
        <4> QED BY <1>6, <2>1, <4>1
      <3>2. CASE p < o
        <4>1. Kth(free(g), p) < Kth(free(g), o)
          BY <1>5, <1>6, <2>1, <2>3, <3>2, KthGrows
        <4> QED BY <1>6, <2>1, <4>1
      <3> QED BY <2>2, <3>1, <3>2
    <2> QED BY <1>6, <2>1, <2>4
  <1>9. TeacherInOnePlace
    <2> SUFFICES ASSUME NEW g \in Groups, NEW h \in Groups, NEW o \in Orders, NEW p \in Orders,
                        g # h, lesson[g][o].teacher # None, lesson[g][o].date # 0,
                        lesson[g][o].teacher = lesson[h][p].teacher,
                        lesson[g][o].date = lesson[h][p].date
                 PROVE  FALSE
      BY DEF TeacherInOnePlace
    <2>1. g \in scheduled /\ h \in scheduled
      BY <1>7
    <2>2. teacher[g] = teacher[h] /\ Kth(free(g), o) = Kth(free(h), p)
      BY <1>6, <2>1
    <2> DEFINE d == Kth(free(g), o)
    <2>3. /\ d \in free(g) /\ d \in free(h) /\ d <= rule[g].to /\ d <= rule[h].to
      BY <1>6, <2>1, <2>2
    <2> HIDE DEF d
    <2>4. d \in pattern[g] \cap pattern[h]
      BY <1>5, <2>3
    <2>5. rule[g].to < rule[h].from \/ rule[h].to < rule[g].from
      BY <1>4, <2>1, <2>2, <2>4
    <2>6. start[g] <= d /\ start[h] <= d /\ d \in Int /\ start[g] \in Int /\ start[h] \in Int
      BY <1>5, <2>3, Constants
    <2>7. rule[g].to \in Int /\ rule[h].to \in Int
      <3>1. rule[g] \in Rules /\ rule[h] \in Rules
        BY <1>3, <2>1 DEF StartsFrom
      <3> QED BY <3>1, Constants DEF Rules
    <2> QED BY <1>4, <2>1, <2>3, <2>5, <2>6, <2>7
  <1>10. \A r \in Requests : request[r].doing = "idle"
    BY <1>4 DEF Idle
  <1> QED BY <1>1, <1>4, <1>8, <1>9, <1>10
          DEF EInv, NothingScheduled, NothingReflows, KnowsTeacher, Waits, FindsRoom, HoldApart
\* Requests that change nothing but themselves.
LEMMA OthersStandStill ==
    ASSUME EInv, TInv', NEW r \in Requests, UNCHANGED <<lesson, slots, breaks>>,
           \A p \in Requests : p # r => request'[p] = request[p],
           request'[r].doing # "schedule", KnowsTeacher(r)', FindsRoom(r)',
           \A p \in Requests : HoldApart(r, p)' /\ HoldApart(p, r)'
    PROVE  EInv'
  <1>1. OneLessonAtATime' /\ TeacherInOnePlace'
    BY DEF EInv, OneLessonAtATime, TeacherInOnePlace
  <1>2. NothingScheduled' /\ NothingReflows'
    BY DEF EInv, NothingScheduled, NothingReflows
  <1>3. ASSUME NEW p \in Requests
        PROVE  KnowsTeacher(p)' /\ FindsRoom(p)'
    <2>1. CASE p = r
      BY <2>1
    <2>2. CASE p # r
      BY <2>2 DEF EInv, KnowsTeacher, Waits, FindsRoom, Clash
    <2> QED BY <2>1, <2>2
  <1>4. ASSUME NEW p \in Requests, NEW q \in Requests
        PROVE  HoldApart(p, q)'
    <2>1. CASE p = r \/ q = r
      BY <2>1
    <2>2. CASE p # r /\ q # r
      BY <2>2 DEF EInv, HoldApart
    <2> QED BY <2>1, <2>2
  <1> QED BY <1>1, <1>2, <1>3, <1>4 DEF EInv

LEMMA EditKeepsApart ==
    ASSUME TimetableAssumption, EInv, TInv', NEW r \in Requests, WritesEdit(r)
    PROVE  EInv'
  <1> DEFINE q == request[r]
  <1>1. q \in EditRows /\ q.doing = "edit" /\ TInv
    BY RequestIs DEF WritesEdit, EInv, TInv
  <1>2. lesson \in [Groups -> [Orders -> LessonRows]] /\ request \in [Requests -> RequestRows]
    BY <1>1 DEF TInv, TypeOK, LessonRows
  <1>3. PICK g \in Groups, o \in Orders, date \in 0..LastDay :
           g = q.group /\ o = q.order /\ date = q.date
    BY <1>1, Constants DEF EditRows
  <1>4. /\ lesson' = [lesson EXCEPT ![g][o].date = date] /\ UNCHANGED <<slots, breaks>>
        /\ request' = [request EXCEPT ![r] = Idle]
    BY <1>3 DEF WritesEdit
  <1>5. /\ lesson'[g][o].date = date /\ lesson'[g][o].teacher = lesson[g][o].teacher
        /\ \A h \in Groups, p \in Orders : <<h, p>> # <<g, o>> => lesson'[h][p] = lesson[h][p]
    BY <1>2, <1>4, EditMoves
  <1>6. \A h \in Groups, p \in Orders : lesson'[h][p].teacher = lesson[h][p].teacher
    <2> SUFFICES ASSUME NEW h \in Groups, NEW p \in Orders
                 PROVE  lesson'[h][p].teacher = lesson[h][p].teacher
      OBVIOUS
    <2> QED BY <1>5
  <1>7. request'[r].doing = "idle" /\ \A p \in Requests : p # r => request'[p] = request[p]
    BY <1>2, <1>4 DEF Idle
  <1>8. /\ \A h \in Groups, p \in Orders : ~Clash(h, p, g, o, q.teacher, date)
        /\ q.teacher = lesson[g][o].teacher
    BY <1>1, <1>3 DEF EInv, FindsRoom, KnowsTeacher, Waits
  <1>9. ASSUME NEW p \in Orders, p # o
        PROVE  lesson'[g][p].date = lesson[g][p].date /\ lesson[g][p].date # date
    <2>1. ~Clash(g, p, g, o, q.teacher, date)
      BY <1>8
    <2> QED BY <1>5, <1>9, <2>1 DEF Clash
  <1>10. ASSUME NEW h \in Groups, NEW p \in Orders, h # g, lesson[g][o].teacher # None,
                lesson[h][p].teacher = lesson[g][o].teacher
         PROVE  lesson'[h][p] = lesson[h][p] /\ lesson[h][p].date # date
    <2>1. ~Clash(h, p, g, o, q.teacher, date)
      BY <1>8
    <2> QED BY <1>5, <1>8, <1>10, <2>1 DEF Clash
  <1>11. OneLessonAtATime'
    <2> SUFFICES ASSUME NEW h \in Groups, NEW p \in Orders, NEW s \in Orders, p # s,
                        lesson'[h][p].date # 0
                 PROVE  lesson'[h][p].date # lesson'[h][s].date
      BY DEF OneLessonAtATime
    <2>1. CASE h = g /\ (p = o \/ s = o)
      BY <1>5, <1>9, <2>1
    <2>2. CASE ~(h = g /\ (p = o \/ s = o))
      <3>1. lesson'[h][p] = lesson[h][p] /\ lesson'[h][s] = lesson[h][s]
        BY <1>5, <2>2
      <3> QED BY <3>1 DEF EInv, OneLessonAtATime
    <2> QED BY <2>1, <2>2
  <1>12. TeacherInOnePlace'
    <2> SUFFICES ASSUME NEW h \in Groups, NEW k \in Groups, NEW p \in Orders, NEW s \in Orders,
                        h # k, lesson'[h][p].teacher # None, lesson'[h][p].date # 0,
                        lesson'[h][p].teacher = lesson'[k][s].teacher
                 PROVE  lesson'[h][p].date # lesson'[k][s].date
      BY DEF TeacherInOnePlace
    <2>0. lesson[h][p].teacher # None /\ lesson[h][p].teacher = lesson[k][s].teacher
      BY <1>6
    <2>1. CASE h = g /\ p = o
      <3>1. lesson'[k][s] = lesson[k][s] /\ lesson[k][s].date # date
        BY <1>10, <2>0, <2>1
      <3> QED BY <1>5, <2>1, <3>1
    <2>2. CASE k = g /\ s = o
      <3>1. lesson'[h][p] = lesson[h][p] /\ lesson[h][p].date # date
        BY <1>10, <2>0, <2>2
      <3> QED BY <1>5, <2>2, <3>1
    <2>3. CASE ~(h = g /\ p = o) /\ ~(k = g /\ s = o)
      <3>1. lesson'[h][p] = lesson[h][p] /\ lesson'[k][s] = lesson[k][s]
        BY <1>5, <2>3
      <3> QED BY <2>0, <3>1 DEF EInv, TeacherInOnePlace
    <2> QED BY <2>1, <2>2, <2>3
  <1>13. ASSUME NEW p \in Requests
         PROVE  KnowsTeacher(p)' /\ FindsRoom(p)'
    <2>1. CASE p = r
      BY <1>7, <2>1 DEF KnowsTeacher, Waits, FindsRoom
    <2>2. CASE p # r
      <3> DEFINE t == request[p]
      <3>1. request'[p] = t /\ KnowsTeacher(p) /\ FindsRoom(p) /\ HoldApart(p, r) /\ HoldApart(r, p)
        BY <1>7, <2>2 DEF EInv
      <3>2. Waits(p) => t.group \in Groups /\ t.order \in Orders
        BY <1>2, RequestIs DEF Waits, EditRows
      <3>3. KnowsTeacher(p)'
        <4>1. Waits(p)' <=> Waits(p)
          BY <3>1 DEF Waits
        <4>2. Waits(p) => lesson'[t.group][t.order].teacher = lesson[t.group][t.order].teacher
          BY <1>6, <3>2
        <4> QED BY <3>1, <4>1, <4>2 DEF KnowsTeacher
      <3>4. FindsRoom(p)'
        <4> SUFFICES ASSUME t.doing = "edit", NEW h \in Groups, NEW s \in Orders,
                            <<h, s>> # <<t.group, t.order>>, lesson'[h][s].date = t.date,
                            h = t.group \/ (t.teacher # None /\ lesson'[h][s].teacher = t.teacher)
                     PROVE  FALSE
          BY <3>1 DEF FindsRoom, Clash
        <4>1. ~Clash(h, s, t.group, t.order, t.teacher, t.date)
          BY <3>1 DEF FindsRoom
        <4>2. t.group # g /\ (t.teacher # lesson[g][o].teacher \/ t.teacher = None)
          BY <1>1, <1>3, <1>8, <2>2, <3>1 DEF HoldApart
        <4>3. <<h, s>> # <<g, o>>
          BY <1>6, <4>2
        <4>4. lesson'[h][s] = lesson[h][s]
          BY <1>5, <4>3
        <4> QED BY <4>1, <4>4 DEF Clash
      <3> QED BY <3>3, <3>4
    <2> QED BY <2>1, <2>2
  <1>14. ASSUME NEW p \in Requests, NEW s \in Requests
         PROVE  HoldApart(p, s)'
    <2>1. CASE p = r \/ s = r
      BY <1>7, <2>1 DEF HoldApart
    <2>2. CASE p # r /\ s # r
      BY <1>7, <2>2 DEF EInv, HoldApart
    <2> QED BY <2>1, <2>2
  <1>15. NothingScheduled' /\ NothingReflows'
    BY <1>4, <1>7 DEF EInv, NothingScheduled, NothingReflows
  <1> QED BY <1>11, <1>12, <1>13, <1>14, <1>15 DEF EInv

LEMMA StepsKeepApart ==
    ASSUME TimetableAssumption, EInv, NothingScheduled', NothingReflows', [Next]_vars
    PROVE  EInv'
  <1>1. TInv /\ TInv' /\ NothingScheduled /\ slots = {} /\ breaks = {}
    BY StepsTyped DEF EInv, NothingReflows
  <1>2. lesson \in [Groups -> [Orders -> LessonRows]] /\ request \in [Requests -> RequestRows]
    BY <1>1 DEF TInv, TypeOK, LessonRows
  <1>3. ASSUME NEW r \in Requests
        PROVE  ~ReadsAnyTimetable(r) /\ ~WritesTimetable(r)
    BY <1>1, NoneReads
  <1>4. slots' = {} /\ breaks' = {}
    BY DEF NothingReflows
  <1>5. \A g \in Groups, o \in Orders, moves \in BOOLEAN :
           ~CancelsLesson(g, o, moves) /\ ~RecoversLesson(g, o, moves)
    BY <1>1, <1>4 DEF CancelsLesson, RecoversLesson
  <1>6. /\ \A b \in Breaks : ~MakesBreak(b)
        /\ \A b \in Breaks, rebuild \in BOOLEAN : ~EndsBreak(b, rebuild)
    BY <1>1, <1>4 DEF MakesBreak, EndsBreak
  <1>7. ASSUME UNCHANGED <<lesson, slots, breaks, request>>
        PROVE  EInv'
    BY <1>1, <1>7 DEF EInv, NothingScheduled, NothingReflows, OneLessonAtATime, TeacherInOnePlace,
       KnowsTeacher, Waits, FindsRoom, Clash, HoldApart
  <1>8. ASSUME NEW r \in Requests, NEW g \in Groups, NEW o \in Orders, NEW date \in EditDays,
               NEW moves \in BOOLEAN, OpensEdit(r, g, o, date, moves)
        PROVE  EInv'
    <2>1. /\ UNCHANGED <<lesson, slots, breaks>> /\ request'[r].doing = "open"
          /\ request'[r].group = g /\ request'[r].order = o
          /\ request'[r].teacher = lesson[g][o].teacher
          /\ \A p \in Requests : p # r => request'[p] = request[p]
      BY <1>2, <1>8 DEF OpensEdit
    <2>2. KnowsTeacher(r)' /\ FindsRoom(r)' /\ \A p \in Requests : HoldApart(r, p)' /\ HoldApart(p, r)'
      BY <2>1 DEF KnowsTeacher, FindsRoom, HoldApart
    <2> QED BY <1>1, <2>1, <2>2, OthersStandStill
  <1>9. ASSUME NEW r \in Requests, ChecksEdit(r)
        PROVE  EInv'
    <2> DEFINE q == request[r]
    <2>1. q \in EditRows /\ q.doing = "open"
      BY <1>2, <1>9, RequestIs DEF ChecksEdit
    <2>2. /\ UNCHANGED <<lesson, slots, breaks>>
          /\ \A p \in Requests : p # r => request'[p] = request[p]
          /\ \A p \in Requests : request[p].doing = "edit" =>
                request[p].group # q.group /\ (request[p].teacher # q.teacher \/ q.teacher = None)
      BY <1>2, <1>9 DEF ChecksEdit, GroupIsFree, Edits
    <2>3. CASE request'[r] = Idle
      <3>1. request'[r].doing = "idle"
        BY <2>3 DEF Idle
      <3>2. KnowsTeacher(r)' /\ FindsRoom(r)' /\ \A p \in Requests : HoldApart(r, p)' /\ HoldApart(p, r)'
        BY <3>1 DEF KnowsTeacher, Waits, FindsRoom, HoldApart
      <3> QED BY <1>1, <2>2, <3>1, <3>2, OthersStandStill
    <2>4. CASE request'[r] # Idle
      <3>1. /\ request'[r] = [q EXCEPT !.doing = "edit"]
            /\ ~Taken(q.group, lesson[q.group][q.order].teacher, q.date, {<<q.group, q.order>>})
        BY <1>2, <1>9, <2>4 DEF ChecksEdit
      <3>2. /\ request'[r].doing = "edit" /\ request'[r].group = q.group
            /\ request'[r].order = q.order /\ request'[r].date = q.date
            /\ request'[r].teacher = q.teacher
        BY <2>1, <3>1 DEF EditRows
      <3>3. q.teacher = lesson[q.group][q.order].teacher
        BY <2>1 DEF EInv, KnowsTeacher, Waits
      <3>4. KnowsTeacher(r)'
        BY <2>2, <3>2, <3>3 DEF KnowsTeacher
      <3>5. \A h \in Groups, p \in Orders : ~Clash(h, p, q.group, q.order, q.teacher, q.date)
        BY <3>1, <3>3 DEF Taken, Clash
      <3>6. FindsRoom(r)'
        BY <2>2, <3>2, <3>5 DEF FindsRoom, Clash
      <3>7. \A p \in Requests : HoldApart(r, p)' /\ HoldApart(p, r)'
        BY <2>2, <3>2 DEF HoldApart
      <3> QED BY <1>1, <2>2, <3>2, <3>4, <3>6, <3>7, OthersStandStill
    <2> QED BY <2>3, <2>4
  <1>10. ASSUME NEW r \in Requests, WritesEdit(r)
         PROVE  EInv'
    BY <1>1, <1>10, EditKeepsApart
  <1>11. ASSUME NEW g \in Groups, NEW o \in Orders, RecordsLesson(g, o)
         PROVE  EInv'
    BY <1>7, <1>11 DEF RecordsLesson
  <1>12. UNCHANGED vars => EInv'
    BY <1>7 DEF vars
  <1> QED BY <1>3, <1>5, <1>6, <1>8, <1>9, <1>10, <1>11, <1>12 DEF Next

\* While lessons are only edited and recorded, however many requests do it at once, a group
\* and a teacher are in one lesson at a time: the locks hold between the check and the write.
THEOREM EditsKeepApart ==
    ASSUME TimetableAssumption
    PROVE  Spec /\ []NothingScheduled /\ []NothingReflows
              => [](OneLessonAtATime /\ TeacherInOnePlace)
  <1>1. Init => EInv
    BY StartsOneAtATime
  <1>2. EInv /\ NothingScheduled' /\ NothingReflows' /\ [Next]_vars => EInv'
    BY StepsKeepApart
  <1>3. EInv => OneLessonAtATime /\ TeacherInOnePlace
    BY DEF EInv
  <1> QED BY <1>1, <1>2, <1>3, PTL DEF Spec

\* The bounds 0 let no lesson be cancelled and no break be declared.
THEOREM NothingIsMoved ==
    ASSUME TimetableAssumption, MaxSlots = 0, MaxBreaks = 0
    PROVE  Spec => []NothingReflows
  <1>1. Init => NothingReflows
    <2>1. Init => EInv
      BY StartsOneAtATime
    <2> QED BY <2>1 DEF EInv
  <1>2. ASSUME NothingReflows, [Next]_vars
        PROVE  NothingReflows'
    <2>1. slots = {} /\ breaks = {}
      BY <1>2 DEF NothingReflows
    <2>2. ~(Cardinality(slots) < MaxSlots) /\ ~(Cardinality(breaks) < MaxBreaks)
      BY <2>1, FS_EmptySet
    <2>3. \A g \in Groups, o \in Orders, moves \in BOOLEAN :
             ~CancelsLesson(g, o, moves) /\ ~RecoversLesson(g, o, moves)
      BY <2>1, <2>2 DEF CancelsLesson, RecoversLesson
    <2>4. /\ \A b \in Breaks : ~MakesBreak(b)
          /\ \A b \in Breaks, rebuild \in BOOLEAN : ~EndsBreak(b, rebuild)
      BY <2>1, <2>2 DEF MakesBreak, EndsBreak
    <2>5. \A r \in Requests : ReadsAnyTimetable(r) => UNCHANGED <<slots, breaks>>
      BY DEF ReadsAnyTimetable, ReadsTimetable
    <2>6. \A r \in Requests : WritesTimetable(r) \/ ChecksEdit(r) \/ WritesEdit(r)
                                 => UNCHANGED <<slots, breaks>>
      BY DEF WritesTimetable, ChecksEdit, WritesEdit
    <2>7. /\ \A g \in Groups, o \in Orders : RecordsLesson(g, o) => UNCHANGED <<slots, breaks>>
          /\ \A r \in Requests, g \in Groups, o \in Orders, date \in EditDays, moves \in BOOLEAN :
                OpensEdit(r, g, o, date, moves) => UNCHANGED <<slots, breaks>>
      BY DEF RecordsLesson, OpensEdit
    <2>8. UNCHANGED <<slots, breaks>>
      BY <1>2, <2>3, <2>4, <2>5, <2>6, <2>7 DEF Next, vars
    <2> QED BY <1>2, <2>8 DEF NothingReflows
  <1>3. NothingReflows /\ [Next]_vars => NothingReflows'
    BY <1>2
  <1> QED BY <1>1, <1>3, PTL DEF Spec
=============================================================================
