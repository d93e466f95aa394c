------------------------- MODULE RecruitmentProofs -------------------------
(***************************************************************************)
(* Theorems about the components of MCRecruitment: for any candidates,     *)
(* requests and columns, of which one may be added, for any appointment    *)
(* types and any history of a candidate, and for any people and versions   *)
(* of an appointment.                                                      *)
(*                                                                         *)
(* A removal of a column holds its row from the check to the commit, and   *)
(* before it commits it has locked every other column on the board. So of  *)
(* all removals and additions only one can be at that point, its           *)
(* destination is on the board when it commits, and nobody can have put a  *)
(* card into the column since it listed them. In a deadlock each is waited *)
(* for; who waits for a card is another move, which holds nothing yet, or  *)
(* a removal. Only requests under way hold locks, so when all of them wait *)
(* one waits for itself.                                                   *)
(*                                                                         *)
(* A decision of the system was taken on the board, and it is the only one *)
(* that rests on its evaluation; whatever else happens to the history of   *)
(* decisions takes some away or appends one.                               *)
(*                                                                         *)
(* A command on an appointment and a change of the lead see what waits and *)
(* cancel it before they add, so nobody waits twice while they do not      *)
(* overlap; and the keys of what a command adds are new, because it writes *)
(* the next version.                                                       *)
(***************************************************************************)
EXTENDS MCRecruitment, Integers, FiniteSets, FiniteSetTheorems, SequenceTheorems,
    NaturalsInduction, WellFoundedInduction, TLAPS

-----------------------------------------------------------------------------
(* A candidate.                                                             *)

DecisionRows == [outcome : Candidate!Protected \cup Candidate!Closed, origin : Candidate!Stages,
                 because : Candidate!Kinds \cup {"nothing"}]

\* What is on record without the history of decisions, and the history.
RestTyped ==
    /\ stage \in Candidate!Stages \cup {"gone"} /\ previous \in Candidate!Stages
    /\ attempts \subseteq [kind : Candidate!Kinds, passed : BOOLEAN]
    /\ approval \in {"none", "requested", "approved"}
    /\ appointments \in [Types -> {"none", "scheduled", "in_progress"}]
    /\ academy \in {"none", "open", "rejected", "trash_bin"}
    /\ promoted \in BOOLEAN
    /\ teacher \in {"none", "academy", "active", "rejected", "trash_bin"}
    /\ onboarded \in BOOLEAN
    /\ login \in {"none", "enabled", "disabled"}
HistoryTyped == decisions \in Seq(DecisionRows) /\ Len(decisions) <= MaxDecisions

\* A decision of the system was taken on the board, has the evaluation it rests on, and
\* no other decision rests on that evaluation.
IsCaused(i) == i \in DOMAIN decisions /\ decisions[i].because # "nothing"
SystemDecisions ==
    /\ \A i \in DOMAIN decisions : IsCaused(i) =>
          decisions[i].origin \in Candidate!Board /\ Candidate!Failed(decisions[i].because) \in attempts
    /\ \A i, j \in DOMAIN decisions :
          IsCaused(i) /\ decisions[i].because = decisions[j].because => i = j

\* The roster of a hired candidate, a trainee, and one who is gone.
RosterKept ==
    /\ Candidate!RosterFollowsTheProfile
    /\ stage = "gone" => academy = "none" /\ teacher \in {"none", "rejected", "trash_bin"}

CandidateInv == RestTyped /\ HistoryTyped /\ SystemDecisions /\ RosterKept

LEMMA Parts == CandidateInv => /\ Candidate!TypeOK /\ Candidate!RosterFollowsTheProfile
                               /\ Candidate!PurgeLeavesNothingOpen /\ Candidate!SystemRejectionHasItsEvaluation
  BY DEF CandidateInv, RestTyped, HistoryTyped, DecisionRows, Candidate!TypeOK, RosterKept,
         Candidate!PurgeLeavesNothingOpen, SystemDecisions,
         Candidate!SystemRejectionHasItsEvaluation, IsCaused

-----------------------------------------------------------------------------
(* The history of decisions. *)

\* The decisions that are left, each at the place it had or an earlier one.
Left ==
    /\ decisions' \in Seq(DecisionRows) /\ Len(decisions') <= Len(decisions)
    /\ \E f \in [DOMAIN decisions' -> DOMAIN decisions] :
          /\ \A k \in DOMAIN decisions' : decisions'[k] = decisions[f[k]]
          /\ \A k, m \in DOMAIN decisions' : f[k] = f[m] => k = m

LEMMA SameHistory ==
    ASSUME HistoryTyped, UNCHANGED decisions PROVE Left
  <1> DEFINE f == [k \in DOMAIN decisions |-> k]
  <1>1. Len(decisions) \in Nat /\ decisions \in Seq(DecisionRows)
    BY LenProperties DEF HistoryTyped
  <1>2. /\ f \in [DOMAIN decisions' -> DOMAIN decisions]
        /\ \A k \in DOMAIN decisions' : decisions'[k] = decisions[f[k]]
        /\ \A k, m \in DOMAIN decisions' : f[k] = f[m] => k = m
    OBVIOUS
  <1>3. decisions' \in Seq(DecisionRows) /\ Len(decisions') <= Len(decisions)
    BY <1>1
  <1>4. \E g \in [DOMAIN decisions' -> DOMAIN decisions] :
           /\ \A k \in DOMAIN decisions' : decisions'[k] = decisions[g[k]]
           /\ \A k, m \in DOMAIN decisions' : g[k] = g[m] => k = m
    BY <1>2
  <1> QED BY <1>3, <1>4 DEF Left

LEMMA EmptyHistory ==
    ASSUME HistoryTyped, decisions' = <<>> PROVE Left
  <1>1. Len(decisions) \in Nat
    BY LenProperties DEF HistoryTyped
  <1>2. decisions' \in Seq(DecisionRows) /\ Len(decisions') = 0 /\ DOMAIN decisions' = {}
    <2>1. <<>> \in Seq(DecisionRows) /\ Len(<<>>) = 0
      BY EmptySeq
    <2>2. DOMAIN <<>> = {}
      OBVIOUS
    <2> QED BY <2>1, <2>2
  <1> DEFINE f == [k \in DOMAIN decisions' |-> k]
  <1>3. /\ f \in [DOMAIN decisions' -> DOMAIN decisions]
        /\ \A k \in DOMAIN decisions' : decisions'[k] = decisions[f[k]]
        /\ \A k, m \in DOMAIN decisions' : f[k] = f[m] => k = m
    BY <1>2
  <1>4. \E g \in [DOMAIN decisions' -> DOMAIN decisions] :
           /\ \A k \in DOMAIN decisions' : decisions'[k] = decisions[g[k]]
           /\ \A k, m \in DOMAIN decisions' : g[k] = g[m] => k = m
    BY <1>3
  <1>5. Len(decisions') <= Len(decisions)
    BY <1>1, <1>2
  <1> HIDE DEF f
  <1> QED BY <1>2, <1>4, <1>5 DEF Left

\* The rows of a sequence from one place to another.
LEMMA Piece ==
    ASSUME NEW d \in Seq(DecisionRows), NEW m \in 1..(Len(d) + 1), NEW n \in 0..Len(d)
    PROVE  /\ SubSeq(d, m, n) \in Seq(DecisionRows)
           /\ Len(SubSeq(d, m, n)) = IF m <= n THEN n - m + 1 ELSE 0
           /\ \A i \in 1..(n - m + 1) : SubSeq(d, m, n)[i] = d[m + i - 1]
  <1>1. Len(d) \in Nat /\ \A i \in 1..Len(d) : d[i] \in DecisionRows
    BY LenProperties, ElementOfSeq
  <1>2. \A i \in m..n : d[i] \in DecisionRows
    BY <1>1
  <1>3. m \in Int /\ n \in Int
    BY <1>1
  <1> QED BY <1>2, <1>3, SubSeqProperties

LEMMA WithoutLast ==
    ASSUME HistoryTyped, Len(decisions) > 0,
           decisions' = SubSeq(decisions, 1, Len(decisions) - 1)
    PROVE  /\ Left
           /\ DOMAIN decisions' = 1..(Len(decisions) - 1)
           /\ \A k \in DOMAIN decisions' : decisions'[k] = decisions[k]
  <1> DEFINE n == Len(decisions)
  <1>1. n \in Nat /\ decisions \in Seq(DecisionRows) /\ DOMAIN decisions = 1..n
    BY LenProperties DEF HistoryTyped
  <1>2. 1 \in 1..(n + 1) /\ n - 1 \in 0..n
    BY <1>1
  <1>3. /\ decisions' \in Seq(DecisionRows)
        /\ Len(decisions') = IF 1 <= n - 1 THEN n - 1 - 1 + 1 ELSE 0
        /\ \A i \in 1..(n - 1 - 1 + 1) : decisions'[i] = decisions[1 + i - 1]
    BY <1>1, <1>2, Piece
  <1>4. Len(decisions') = n - 1
    BY <1>1, <1>3
  <1>5. DOMAIN decisions' = 1..(n - 1)
    BY <1>3, <1>4, LenProperties
  <1>6. \A k \in 1..(n - 1) : decisions'[k] = decisions[k]
    BY <1>1, <1>3
  <1> DEFINE f == [k \in 1..(n - 1) |-> k]
  <1>7. /\ f \in [DOMAIN decisions' -> DOMAIN decisions]
        /\ \A k \in DOMAIN decisions' : decisions'[k] = decisions[f[k]]
        /\ \A k, m \in DOMAIN decisions' : f[k] = f[m] => k = m
    BY <1>1, <1>5, <1>6
  <1>8. Len(decisions') <= n
    BY <1>1, <1>4
  <1> HIDE DEF f
  <1> QED BY <1>3, <1>5, <1>6, <1>7, <1>8 DEF Left

LEMMA WithoutOne ==
    ASSUME HistoryTyped, NEW i \in DOMAIN decisions,
           decisions' = SubSeq(decisions, 1, i - 1) \o SubSeq(decisions, i + 1, Len(decisions))
    PROVE  Left
  <1> DEFINE n == Len(decisions)
             a == SubSeq(decisions, 1, i - 1)
             b == SubSeq(decisions, i + 1, n)
  <1>1. n \in Nat /\ decisions \in Seq(DecisionRows) /\ DOMAIN decisions = 1..n
    BY LenProperties DEF HistoryTyped
  <1>2. i \in 1..n
    BY <1>1
  <1>3. 1 \in 1..(n + 1) /\ i - 1 \in 0..n /\ i + 1 \in 1..(n + 1) /\ n \in 0..n
    BY <1>1, <1>2
  <1>4. /\ a \in Seq(DecisionRows) /\ Len(a) = IF 1 <= i - 1 THEN i - 1 - 1 + 1 ELSE 0
        /\ \A k \in 1..(i - 1 - 1 + 1) : a[k] = decisions[1 + k - 1]
    BY <1>1, <1>3, Piece
  <1>5. /\ b \in Seq(DecisionRows) /\ Len(b) = IF i + 1 <= n THEN n - (i + 1) + 1 ELSE 0
        /\ \A k \in 1..(n - (i + 1) + 1) : b[k] = decisions[i + 1 + k - 1]
    BY <1>1, <1>3, Piece
  <1> HIDE DEF a, b
  <1>6. Len(a) = i - 1 /\ \A k \in 1..(i - 1) : a[k] = decisions[k]
    BY <1>2, <1>4
  <1>7. Len(b) = n - i /\ \A k \in 1..(n - i) : b[k] = decisions[i + k]
    <2>1. Len(b) = n - i
      BY <1>1, <1>2, <1>5
    <2>2. ASSUME NEW k \in 1..(n - i) PROVE b[k] = decisions[i + k]
      <3>1. k \in 1..(n - (i + 1) + 1) /\ i + 1 + k - 1 = i + k
        BY <1>1, <1>2
      <3>2. b[k] = decisions[i + 1 + k - 1]
        BY <1>5, <3>1
      <3> QED BY <3>1, <3>2
    <2> QED BY <2>1, <2>2
  <1>8. /\ decisions' \in Seq(DecisionRows) /\ Len(decisions') = Len(a) + Len(b)
        /\ \A k \in 1..(Len(a) + Len(b)) :
              decisions'[k] = IF k <= Len(a) THEN a[k] ELSE b[k - Len(a)]
    BY <1>4, <1>5, ConcatProperties DEF a, b
  <1>9. Len(decisions') = n - 1
    <2>1. Len(decisions') = Len(a) + Len(b)
      BY <1>8
    <2>2. Len(a) = i - 1 /\ Len(b) = n - i
      BY <1>6, <1>7
    <2> QED BY <1>1, <1>2, <2>1, <2>2
  <1>10. DOMAIN decisions' = 1..(n - 1)
    BY <1>8, <1>9, LenProperties
  <1> DEFINE f == [k \in 1..(n - 1) |-> IF k < i THEN k ELSE k + 1]
  <1>11. \A k \in 1..(n - 1) : decisions'[k] = decisions[f[k]]
    <2> TAKE k \in 1..(n - 1)
    <2>0. k \in 1..(Len(a) + Len(b)) /\ k \in Int
      BY <1>1, <1>2, <1>6, <1>7
    <2>1. CASE k < i
      <3>1. k <= Len(a) /\ k \in 1..(i - 1)
        BY <1>2, <1>6, <2>1, <2>0
      <3> QED BY <1>6, <1>8, <2>0, <2>1, <3>1
    <2>2. CASE ~(k < i)
      <3>0. Len(a) = i - 1 /\ i \in Int /\ n \in Int /\ k >= i /\ k <= n - 1
        BY <1>1, <1>2, <1>6, <2>2, <2>0
      <3>1. ~(k <= Len(a)) /\ k - Len(a) \in 1..(n - i) /\ i + (k - Len(a)) = k + 1
        <4>1. ~(k <= i - 1) /\ k - (i - 1) \in 1..(n - i) /\ i + (k - (i - 1)) = k + 1
            <5>1. k \in Int
              BY <2>0
            <5>2. k - (i - 1) >= 1 /\ k - (i - 1) <= n - i
              BY <3>0, <5>1
            <5>3. i \in Int /\ n - i \in Int /\ k - (i - 1) \in Int
              BY <3>0, <5>1
            <5>4. ~(k <= i - 1)
              BY <3>0, <5>1
            <5>5. i + (k - (i - 1)) = k + 1
              BY <5>1, <5>3
            <5> QED BY <5>2, <5>3, <5>4, <5>5
        <4> QED BY <3>0, <4>1
      <3>2. decisions'[k] = b[k - Len(a)]
        BY <1>8, <2>0, <3>1
      <3>3. b[k - Len(a)] = decisions[i + (k - Len(a))]
        BY <1>7, <3>1
      <3> QED BY <2>2, <3>1, <3>2, <3>3
    <2> QED BY <2>1, <2>2
  <1>12. f \in [DOMAIN decisions' -> DOMAIN decisions]
    BY <1>1, <1>2, <1>10
  <1>13. \A k, m \in DOMAIN decisions' : f[k] = f[m] => k = m
    BY <1>1, <1>2, <1>10
  <1>14. Len(decisions') <= n
    BY <1>1, <1>9
  <1> HIDE DEF f
  <1> QED BY <1>8, <1>10, <1>11, <1>12, <1>13, <1>14 DEF Left

LEMMA LeastNatural ==
    ASSUME NEW S \in SUBSET Nat, S # {}
    PROVE  \E x \in S : \A y \in S : x <= y
  <1>1. IsWellFoundedOn(OpToRel(<, Nat), Nat)
    BY NatLessThanWellFounded
  <1>2. PICK x \in S : \A y \in S : ~ (<<y, x>> \in OpToRel(<, Nat))
    BY <1>1, WFMin
  <1>3. \A y \in S : ~ y < x
    BY <1>2 DEF OpToRel
  <1> QED BY <1>3

LEMMA GreatestNatural ==
    ASSUME NEW S \in SUBSET Nat, S # {}, NEW b \in Nat, \A y \in S : y <= b
    PROVE  \E x \in S : \A y \in S : y <= x
  <1> DEFINE D == {b - y : y \in S}
  <1>1. \A y \in S : b - y \in Nat
    OBVIOUS
  <1>2. D \in SUBSET Nat /\ D # {}
    BY <1>1
  <1>3. PICK d \in D : \A e \in D : d <= e
    BY <1>2, LeastNatural
  <1>4. PICK x \in S : d = b - x
    BY <1>3
  <1>5. \A y \in S : b - x <= b - y
    BY <1>3, <1>4
  <1> QED BY <1>5

\* A recovery voids the latest of the decisions that closed the candidate.
LEMMA VoidsOne ==
    ASSUME HistoryTyped, Candidate!VoidsLatestClosed PROVE Left
  <1> DEFINE closed == {i \in DOMAIN decisions : decisions[i].outcome \in Candidate!Closed}
             last == CHOOSE i \in closed : \A j \in closed : j <= i
  <1>1. CASE stage = "trash_bin" \/ closed = {}
    <2>1. UNCHANGED decisions
      BY <1>1 DEF Candidate!VoidsLatestClosed
    <2> QED BY <2>1, SameHistory
  <1>2. CASE ~(stage = "trash_bin" \/ closed = {})
    <2>1. Len(decisions) \in Nat /\ DOMAIN decisions = 1..Len(decisions)
      BY LenProperties DEF HistoryTyped
    <2>2. closed \in SUBSET Nat /\ closed # {} /\ \A y \in closed : y <= Len(decisions)
      BY <1>2, <2>1
    <2>3. \E x \in closed : \A y \in closed : y <= x
      BY <2>1, <2>2, GreatestNatural
    <2>4. last \in closed
      BY <2>3
    <2>5. decisions' = SubSeq(decisions, 1, last - 1) \o SubSeq(decisions, last + 1, Len(decisions))
      BY <1>2 DEF Candidate!VoidsLatestClosed
    <2>6. last \in DOMAIN decisions
      BY <2>4
    <2> HIDE DEF last
    <2> QED BY <2>5, <2>6, WithoutOne
  <1> QED BY <1>1, <1>2

\* What is left of a history keeps its form and, if no attempt goes, its evaluations.
LEMMA LeftKeeps ==
    ASSUME Candidate!CandidateAssumption, HistoryTyped, SystemDecisions, Left
    PROVE  /\ HistoryTyped'
           /\ attempts \subseteq attempts' => SystemDecisions'
  <1>1. Len(decisions) \in Nat /\ Len(decisions) <= MaxDecisions /\ MaxDecisions \in Nat
    BY LenProperties DEF HistoryTyped, Candidate!CandidateAssumption
  <1>2. Len(decisions') \in Nat
    BY LenProperties DEF Left
  <1>3. HistoryTyped'
    BY <1>1, <1>2 DEF HistoryTyped, Left
  <1>4. PICK f \in [DOMAIN decisions' -> DOMAIN decisions] :
           /\ \A k \in DOMAIN decisions' : decisions'[k] = decisions[f[k]]
           /\ \A k, m \in DOMAIN decisions' : f[k] = f[m] => k = m
    BY DEF Left
  <1>5. ASSUME attempts \subseteq attempts' PROVE SystemDecisions'
    <2>1. \A k \in DOMAIN decisions' : IsCaused(k)' => IsCaused(f[k])
      BY <1>4 DEF IsCaused
    <2>2. ASSUME NEW k \in DOMAIN decisions', IsCaused(k)'
          PROVE  decisions'[k].origin \in Candidate!Board /\ Candidate!Failed(decisions'[k].because) \in attempts'
      BY <1>4, <1>5, <2>1, <2>2 DEF SystemDecisions
    <2>3. ASSUME NEW k \in DOMAIN decisions', NEW m \in DOMAIN decisions', IsCaused(k)',
                 decisions'[k].because = decisions'[m].because
          PROVE  k = m
      BY <1>4, <2>1, <2>3 DEF SystemDecisions
    <2>4. (\A i \in DOMAIN decisions : IsCaused(i) =>
             decisions[i].origin \in Candidate!Board /\ Candidate!Failed(decisions[i].because) \in attempts)'
      BY <2>2 DEF Candidate!Failed
    <2>5. (\A i, j \in DOMAIN decisions :
             IsCaused(i) /\ decisions[i].because = decisions[j].because => i = j)'
      BY <2>3
    <2> QED BY <2>4, <2>5 DEF SystemDecisions
  <1> QED BY <1>3, <1>5

\* A new decision: of the staff, or of the system on an evaluation nothing rests on yet.
LEMMA OneMore ==
    ASSUME Candidate!CandidateAssumption, HistoryTyped, SystemDecisions,
           NEW outcome \in Candidate!Protected \cup Candidate!Closed, NEW o \in
           Candidate!Stages,
           NEW why \in Candidate!Kinds \cup {"nothing"},
           Candidate!Decides(outcome, o, why), attempts \subseteq attempts',
           why # "nothing" =>
              o \in Candidate!Board /\ Candidate!Failed(why) \notin attempts /\ Candidate!Failed(why) \in attempts'
    PROVE  HistoryTyped' /\ SystemDecisions'
  <1> DEFINE n == Len(decisions)
             new == [outcome |-> outcome, origin |-> o, because |-> why]
  <1>1. n \in Nat /\ decisions \in Seq(DecisionRows) /\ DOMAIN decisions = 1..n
    BY LenProperties DEF HistoryTyped
  <1>2. new \in DecisionRows
    BY DEF DecisionRows
  <1>3. decisions' = Append(decisions, new) /\ n < MaxDecisions /\ MaxDecisions \in Nat
    BY DEF Candidate!Decides, Candidate!CandidateAssumption
  <1>4. /\ decisions' \in Seq(DecisionRows) /\ Len(decisions') = n + 1
        /\ \A i \in 1..n : decisions'[i] = decisions[i]
        /\ decisions'[n + 1] = new
    BY <1>1, <1>2, <1>3, AppendProperties
  <1>5. DOMAIN decisions' = 1..(n + 1)
    BY <1>4, LenProperties
  <1>6. HistoryTyped'
    BY <1>1, <1>3, <1>4 DEF HistoryTyped
  <1>7. decisions'[n + 1].because = why /\ decisions'[n + 1].origin = o
    BY <1>4
  <1> HIDE DEF new
  <1>8. \A i \in DOMAIN decisions' : i \in DOMAIN decisions \/ i = n + 1
    BY <1>1, <1>5
  <1>9. n + 1 \notin DOMAIN decisions
    BY <1>1
  <1>10. \A i \in DOMAIN decisions : decisions'[i] = decisions[i] /\ (IsCaused(i)' <=> IsCaused(i))
    BY <1>1, <1>4, <1>5 DEF IsCaused
  <1>12. ASSUME NEW i \in DOMAIN decisions', IsCaused(i)'
         PROVE  decisions'[i].origin \in Candidate!Board /\ Candidate!Failed(decisions'[i].because) \in attempts'
    <2>1. CASE i \in DOMAIN decisions
      BY <1>10, <1>12, <2>1 DEF SystemDecisions
    <2>2. CASE i = n + 1
      BY <1>7, <1>12, <2>2 DEF IsCaused
    <2> QED BY <1>8, <2>1, <2>2
  <1>13. ASSUME NEW i \in DOMAIN decisions', NEW j \in DOMAIN decisions', IsCaused(i)',
                decisions'[i].because = decisions'[j].because
         PROVE  i = j
    <2>0. IsCaused(j)'
      BY <1>13 DEF IsCaused
    <2>1. CASE i \in DOMAIN decisions /\ j \in DOMAIN decisions
      BY <1>10, <1>13, <2>1 DEF SystemDecisions
    <2>2. CASE i = n + 1 /\ j \in DOMAIN decisions
      <3>1. Candidate!Failed(decisions[j].because) \in attempts
        BY <1>10, <2>0, <2>2 DEF SystemDecisions
      <3> QED BY <1>7, <1>10, <1>13, <2>2, <3>1 DEF IsCaused
    <2>3. CASE j = n + 1 /\ i \in DOMAIN decisions
      <3>1. Candidate!Failed(decisions[i].because) \in attempts
        BY <1>10, <1>13, <2>3 DEF SystemDecisions
      <3> QED BY <1>7, <1>10, <1>13, <2>0, <2>3, <3>1 DEF IsCaused
    <2> QED BY <1>8, <2>1, <2>2, <2>3
  <1>14. (\A i \in DOMAIN decisions : IsCaused(i) =>
           decisions[i].origin \in Candidate!Board /\ Candidate!Failed(decisions[i].because) \in attempts)'
    BY <1>12 DEF Candidate!Failed
  <1>15. (\A i, j \in DOMAIN decisions :
           IsCaused(i) /\ decisions[i].because = decisions[j].because => i = j)'
    BY <1>13
  <1> QED BY <1>6, <1>14, <1>15 DEF SystemDecisions

-----------------------------------------------------------------------------
(* What is on record, and the roster. *)

\* Where a recovery takes a candidate.
LEMMA RestoresToAStage ==
    ASSUME RestTyped, HistoryTyped PROVE Candidate!RestoreStage \in Candidate!Stages
  <1>1. CASE stage = "trash_bin" \/ decisions = <<>>
    BY <1>1 DEF Candidate!RestoreStage, RestTyped
  <1>2. CASE ~(stage = "trash_bin" \/ decisions = <<>>)
    <2>1. decisions \in Seq(DecisionRows) /\ decisions # <<>>
      BY <1>2 DEF HistoryTyped
    <2>2. Len(decisions) \in 1..Len(decisions)
      BY <2>1, EmptySeq, LenProperties
    <2>3. decisions[Len(decisions)] \in DecisionRows
      BY <2>1, <2>2, ElementOfSeq
    <2> QED BY <1>2, <2>3 DEF Candidate!RestoreStage, DecisionRows
  <1> QED BY <1>1, <1>2

\* Where a deleted evaluation takes one.
LEMMA RecalculatesToTheBoard ==
    ASSUME NEW left, NEW restored \in Candidate!Board
    PROVE  Candidate!Recalculated(left, restored) \in Candidate!Board \cup {"rejected"}
  BY DEF Candidate!Recalculated, Candidate!Board

\* A deletion leaves the candidate at the stage, or moves it on the board or to the
\* rejected; the system's decision is the last when it goes.
LEMMA Deleted ==
    ASSUME CandidateInv, NEW attempt \in attempts, Candidate!DeletesEvaluation(attempt)
    PROVE  /\ \/ UNCHANGED <<stage, previous>>
              \/ /\ stage \notin Candidate!Protected \cup {"gone"}
                 /\ stage' \in Candidate!Board \cup {"rejected"} /\ Candidate!Enters(stage')
           /\ attempts' = attempts \ {attempt}
           /\ \/ /\ UNCHANGED decisions
                 /\ \A i \in DOMAIN decisions : ~Candidate!IsSystem(decisions[i], attempt)
              \/ /\ Len(decisions) > 0
                 /\ decisions' = SubSeq(decisions, 1, Len(decisions) - 1)
                 /\ Candidate!IsSystem(decisions[Len(decisions)], attempt)
           /\ UNCHANGED <<approval, appointments, Candidate!roster>>
  <1> DEFINE system == \E i \in DOMAIN decisions : Candidate!IsSystem(decisions[i], attempt)
             restored == IF system THEN decisions[Len(decisions)].origin ELSE stage
             to == IF \/ stage \in Candidate!Protected \cup {"candidate_withdrew", "trash_bin"}
                      \/ stage = "rejected" /\ ~system
                   THEN stage
                   ELSE Candidate!Recalculated(attempts \ {attempt}, restored)
  <1>1. /\ stage # "gone"
        /\ system => stage = "rejected" /\ Candidate!IsSystem(decisions[Len(decisions)], attempt)
        /\ Candidate!DeletesAttempt(attempt, system)
    BY DEF Candidate!DeletesEvaluation
  <1>2. /\ attempts' = attempts \ {attempt}
        /\ IF to = stage THEN UNCHANGED <<stage, previous>> ELSE Candidate!Enters(to)
        /\ decisions' = IF system THEN SubSeq(decisions, 1, Len(decisions) - 1) ELSE decisions
        /\ UNCHANGED <<approval, appointments, Candidate!roster>>
    BY <1>1 DEF Candidate!DeletesAttempt
  <1>3. decisions \in Seq(DecisionRows) /\ DOMAIN decisions = 1..Len(decisions)
        /\ Len(decisions) \in Nat
    BY LenProperties DEF CandidateInv, HistoryTyped
  <1>4. attempt.passed \in BOOLEAN /\ attempt.kind \in Candidate!Kinds
    BY DEF CandidateInv, RestTyped
  <1>5. ASSUME system PROVE Len(decisions) > 0 /\ restored \in Candidate!Board
    <2>1. Len(decisions) > 0 /\ Len(decisions) \in DOMAIN decisions
      BY <1>3, <1>5
    <2>2. decisions[Len(decisions)].because \in Candidate!Kinds
      BY <1>1, <1>4, <1>5 DEF Candidate!IsSystem
    <2>3. decisions[Len(decisions)].because # "nothing"
      BY <2>2 DEF Candidate!Kinds
    <2>4. decisions[Len(decisions)].origin \in Candidate!Board
      BY <2>1, <2>3 DEF CandidateInv, SystemDecisions, IsCaused
    <2> QED BY <1>5, <2>1, <2>4
  <1>6. stage \in Candidate!Stages
    BY <1>1 DEF CandidateInv, RestTyped
  <1>7. CASE to = stage
    BY <1>1, <1>2, <1>5, <1>7
  <1>8. CASE to # stage
    <2>1. /\ stage \notin Candidate!Protected \cup {"candidate_withdrew", "trash_bin"}
          /\ stage = "rejected" => system
          /\ to = Candidate!Recalculated(attempts \ {attempt}, restored)
      BY <1>8
    <2>2. restored \in Candidate!Board
      BY <1>1, <1>5, <1>6, <2>1 DEF Candidate!Stages, Candidate!Closed
    <2>3. to \in Candidate!Board \cup {"rejected"}
      BY <2>1, <2>2, RecalculatesToTheBoard
    <2>4. Candidate!Enters(to)
      BY <1>2, <1>8
    <2>5. stage' = to
      BY <2>4 DEF Candidate!Enters
    <2> HIDE DEF to, restored
    <2> QED BY <1>1, <1>2, <1>5, <2>1, <2>3, <2>4, <2>5
  <1> QED BY <1>7, <1>8

\* The stage of a candidate who comes back, and what becomes of the roster.
LEMMA Restored ==
    ASSUME CandidateInv, Candidate!RestoresCandidate
    PROVE  /\ stage \in Candidate!Closed /\ Candidate!Enters(stage')
           /\ \/ stage' \in Candidate!Board /\ UNCHANGED Candidate!roster
              \/ stage = "trash_bin" /\ stage' \in Candidate!Protected /\ Candidate!ReopensRoster(stage')
           /\ Candidate!VoidsLatestClosed
           /\ UNCHANGED <<attempts, approval, appointments>>
  <1>1. Candidate!RestoreStage \in Candidate!Stages
    BY RestoresToAStage DEF CandidateInv
  <1>2. stage \in Candidate!Closed /\ Candidate!VoidsLatestClosed /\ UNCHANGED <<attempts, approval, appointments>>
    BY DEF Candidate!RestoresCandidate
  <1>3. CASE Candidate!RestoreStage \in Candidate!Protected /\ stage = "trash_bin"
    <2>0. Candidate!RestoreStage \notin Candidate!Closed
      BY <1>3 DEF Candidate!Closed, Candidate!Protected
    <2>1. Candidate!Enters(Candidate!RestoreStage) /\ Candidate!ReopensRoster(Candidate!RestoreStage)
      BY <1>3, <2>0 DEF Candidate!RestoresCandidate
    <2> QED BY <1>2, <1>3, <2>1 DEF Candidate!Enters
  <1>4. CASE Candidate!RestoreStage \in Candidate!Protected /\ stage # "trash_bin"
    <2>0. Candidate!RestoreStage \notin Candidate!Closed
      BY <1>4 DEF Candidate!Closed, Candidate!Protected
    <2>1. Candidate!Enters("under_review") /\ UNCHANGED Candidate!roster
      BY <1>4, <2>0 DEF Candidate!RestoresCandidate
    <2> QED BY <1>2, <2>1 DEF Candidate!Enters, Candidate!Board
  <1>5. CASE Candidate!RestoreStage \in Candidate!Closed
    <2>1. Candidate!RestoreStage \notin Candidate!Protected
      BY <1>5 DEF Candidate!Closed, Candidate!Protected
    <2>2. Candidate!Enters("new_candidate") /\ UNCHANGED Candidate!roster
      BY <1>5, <2>1 DEF Candidate!RestoresCandidate
    <2> QED BY <1>2, <2>2 DEF Candidate!Enters, Candidate!Board
  <1>6. CASE Candidate!RestoreStage \notin Candidate!Protected \cup Candidate!Closed
    <2>1. Candidate!Enters(Candidate!RestoreStage) /\ UNCHANGED Candidate!roster
      BY <1>6 DEF Candidate!RestoresCandidate
    <2>2. Candidate!RestoreStage \in Candidate!Board
      BY <1>1, <1>6 DEF Candidate!Stages
    <2> QED BY <1>2, <2>1, <2>2 DEF Candidate!Enters
  <1> QED BY <1>3, <1>4, <1>5, <1>6

LEMMA RestInit == ASSUME Candidate!Init PROVE RestTyped /\ RosterKept
  BY DEF Candidate!Init, RestTyped, RosterKept, Candidate!RosterFollowsTheProfile,
     Candidate!Stages, Candidate!Board, Candidate!Protected, Candidate!Closed,
         Candidate!Kinds, Candidate!NoAppointments

\* Steps of the appointments and of the evaluations.
LEMMA AppointmentSteps ==
    ASSUME RestTyped, RosterKept, NEW type \in Types,
           \/ Candidate!CreatesAppointment(type) \/ Candidate!SchedulesStageMove(type)
           \/ Candidate!StartsSession(type) \/ Candidate!UndoesStart(type) \/ Candidate!EndsAppointment(type)
    PROVE  /\ RestTyped' /\ RosterKept' /\ UNCHANGED <<attempts, decisions>>
           /\ stage' # "active_teacher" \/ stage' = stage
  <1>1. /\ UNCHANGED <<attempts, decisions, approval, Candidate!roster>>
        /\ appointments' \in [Types -> {"none", "scheduled", "in_progress"}]
        /\ stage # "gone"
    BY DEF Candidate!CreatesAppointment, Candidate!SchedulesStageMove, Candidate!StartsSession,
       Candidate!UndoesStart, Candidate!EndsAppointment,
           Candidate!SetsAppointment, RestTyped
  <1>2. \/ UNCHANGED <<stage, previous>>
        \/ stage' \in Candidate!Board /\ previous' \in Candidate!Stages
    BY <1>1 DEF Candidate!CreatesAppointment, Candidate!SchedulesStageMove,
       Candidate!StartsSession, Candidate!UndoesStart,
           Candidate!EndsAppointment, Candidate!Enters, Candidate!Board, RestTyped
  <1> QED BY <1>1, <1>2 DEF RestTyped, RosterKept, Candidate!RosterFollowsTheProfile,
       Candidate!roster, Candidate!Stages, Candidate!Board

LEMMA PassSteps ==
    ASSUME RestTyped, RosterKept, NEW kind \in Candidate!Kinds, Candidate!RecordsPass(kind)
    PROVE  /\ RestTyped' /\ RosterKept' /\ attempts \subseteq attempts' /\ UNCHANGED decisions
           /\ stage' # "active_teacher" \/ stage' = stage
  <1>1. /\ UNCHANGED <<decisions, approval, Candidate!roster>> /\ stage # "gone"
        /\ attempts' = attempts \cup {Candidate!Passed(kind)}
    BY DEF Candidate!RecordsPass
  <1>2. attempts' \subseteq [kind : Candidate!Kinds, passed : BOOLEAN]
    <2>1. [kind |-> kind, passed |-> TRUE] \in [kind : Candidate!Kinds, passed : BOOLEAN]
      OBVIOUS
    <2> QED BY <1>1, <2>1 DEF RestTyped, Candidate!Passed
  <1>3. appointments' \in [Types -> {"none", "scheduled", "in_progress"}]
    BY DEF Candidate!RecordsPass, Candidate!CompletesAppointment, RestTyped
  <1>4. \/ UNCHANGED <<stage, previous>>
        \/ stage' \in Candidate!Board /\ previous' \in Candidate!Stages
    <2>1. \/ UNCHANGED <<stage, previous>>
          \/ Candidate!Enters("test_and_demo") \/ Candidate!Enters("under_review")
      BY DEF Candidate!RecordsPass
    <2> QED BY <1>1, <2>1 DEF Candidate!Enters, Candidate!Board, RestTyped
  <1> QED BY <1>1, <1>2, <1>3, <1>4
          DEF RestTyped, RosterKept, Candidate!RosterFollowsTheProfile, Candidate!roster,
             Candidate!Stages, Candidate!Board

LEMMA FailureSteps ==
    ASSUME RestTyped, RosterKept, NEW kind \in Candidate!Kinds, Candidate!RecordsFailure(kind)
    PROVE  /\ RestTyped' /\ RosterKept' /\ attempts \subseteq attempts'
           /\ Candidate!Failed(kind) \notin attempts /\ Candidate!Failed(kind) \in attempts'
           /\ UNCHANGED decisions \/ (stage \in Candidate!Board /\ Candidate!Decides("rejected", stage, kind))
           /\ stage' # "active_teacher" \/ stage' = stage
  <1>1. /\ UNCHANGED Candidate!roster /\ Candidate!Failed(kind) \notin attempts
        /\ attempts' = attempts \cup {Candidate!Failed(kind)}
    BY DEF Candidate!RecordsFailure
  <1>2. attempts' \subseteq [kind : Candidate!Kinds, passed : BOOLEAN]
    <2>1. [kind |-> kind, passed |-> FALSE] \in [kind : Candidate!Kinds, passed : BOOLEAN]
      OBVIOUS
    <2> QED BY <1>1, <2>1 DEF RestTyped, Candidate!Failed
  <1>3. CASE stage = "teacher_academy" /\ Candidate!CompletesAppointment(kind)
             /\ UNCHANGED <<stage, previous, decisions, approval>>
    <2>1. appointments' \in [Types -> {"none", "scheduled", "in_progress"}]
      BY <1>3 DEF Candidate!CompletesAppointment, RestTyped
    <2> QED BY <1>1, <1>2, <1>3, <2>1 DEF RestTyped, RosterKept,
         Candidate!RosterFollowsTheProfile, Candidate!roster
  <1>4. CASE stage \in Candidate!Board /\ Candidate!DropsWhatIsOpen /\ Candidate!Enters("rejected")
             /\ Candidate!Decides("rejected", stage, kind)
    <2>1. stage' = "rejected" /\ previous' \in Candidate!Stages
      BY <1>4 DEF Candidate!Enters, RestTyped, Candidate!Stages
    <2>2. /\ approval' = "none"
          /\ appointments' \in [Types -> {"none", "scheduled", "in_progress"}]
      BY <1>4 DEF Candidate!DropsWhatIsOpen, Candidate!NoAppointments
    <2> QED BY <1>1, <1>2, <1>4, <2>1, <2>2
            DEF RestTyped, RosterKept, Candidate!RosterFollowsTheProfile, Candidate!roster,
               Candidate!Stages, Candidate!Closed
  <1> QED BY <1>3, <1>4 DEF Candidate!RecordsFailure

\* The other commands: what each leaves of the roster.
LEMMA RestSteps ==
    ASSUME CandidateInv, [Candidate!Next]_(Candidate!vars)
    PROVE  RestTyped' /\ RosterKept'
  <1>0. RestTyped /\ HistoryTyped /\ SystemDecisions /\ RosterKept
    BY DEF CandidateInv
  <1>1. ASSUME NEW s \in Candidate!Stages, Candidate!MovesCandidate(s) PROVE RestTyped' /\ RosterKept'
    BY <1>0, <1>1 DEF Candidate!MovesCandidate, Candidate!Enters, Candidate!DropsWhatIsOpen,
       Candidate!NoAppointments, RestTyped, RosterKept, Candidate!RosterFollowsTheProfile,
       Candidate!roster, Candidate!process, Candidate!Stages, Candidate!Board,
       Candidate!Protected, Candidate!Closed
  <1>2. ASSUME NEW s \in Candidate!Stages, Candidate!ClosesCandidate(s) PROVE RestTyped' /\ RosterKept'
    BY <1>0, <1>2 DEF Candidate!ClosesCandidate, Candidate!Enters, Candidate!DropsWhatIsOpen,
       Candidate!NoAppointments, Candidate!Decides, RestTyped, RosterKept,
       Candidate!RosterFollowsTheProfile, Candidate!roster, Candidate!process, Candidate!Stages,
       Candidate!Board, Candidate!Protected, Candidate!Closed
  <1>3. ASSUME NEW s \in Candidate!Stages, Candidate!ClosesHandoff(s) PROVE RestTyped' /\ RosterKept'
    BY <1>0, <1>3 DEF Candidate!ClosesHandoff, Candidate!Enters, Candidate!DropsWhatIsOpen,
       Candidate!NoAppointments, Candidate!Disables, Candidate!Decides, RestTyped, RosterKept,
       Candidate!RosterFollowsTheProfile, Candidate!roster, Candidate!process, Candidate!Stages,
       Candidate!Board, Candidate!Protected, Candidate!Closed
  <1>4. ASSUME Candidate!PurgesCandidate PROVE RestTyped' /\ RosterKept'
    BY <1>0, <1>4 DEF Candidate!PurgesCandidate, Candidate!MayBePurged,
       Candidate!NoAppointments, RestTyped, RosterKept, Candidate!RosterFollowsTheProfile,
       Candidate!roster, Candidate!process, Candidate!Stages, Candidate!Board,
       Candidate!Protected, Candidate!Closed
  <1>5. ASSUME Candidate!RequestsApproval PROVE RestTyped' /\ RosterKept'
    BY <1>0, <1>5 DEF Candidate!RequestsApproval, Candidate!MayBeHired, RestTyped, RosterKept,
       Candidate!RosterFollowsTheProfile, Candidate!roster, Candidate!process, Candidate!Stages,
       Candidate!Board, Candidate!Protected, Candidate!Closed
  <1>6. ASSUME Candidate!ReturnsApproval PROVE RestTyped' /\ RosterKept'
    BY <1>0, <1>6 DEF Candidate!ReturnsApproval, RestTyped, RosterKept,
       Candidate!RosterFollowsTheProfile, Candidate!roster, Candidate!process, Candidate!Stages,
       Candidate!Board, Candidate!Protected, Candidate!Closed
  <1>7. ASSUME Candidate!ApprovesHire PROVE RestTyped' /\ RosterKept'
    BY <1>0, <1>7 DEF Candidate!ApprovesHire, Candidate!MayBeHired,
       Candidate!EntersActiveRoster, Candidate!Enters, RestTyped, RosterKept,
       Candidate!RosterFollowsTheProfile, Candidate!roster, Candidate!process, Candidate!Stages,
       Candidate!Board, Candidate!Protected, Candidate!Closed
  <1>8. ASSUME Candidate!PlacesInAcademy PROVE RestTyped' /\ RosterKept'
    BY <1>0, <1>8 DEF Candidate!PlacesInAcademy, Candidate!Provisions, Candidate!Enters,
       RestTyped, RosterKept, Candidate!RosterFollowsTheProfile, Candidate!roster,
       Candidate!process, Candidate!Stages, Candidate!Board, Candidate!Protected,
       Candidate!Closed
  <1>9. ASSUME Candidate!RemovesTrainee PROVE RestTyped' /\ RosterKept'
    BY <1>0, <1>9 DEF Candidate!RemovesTrainee, Candidate!DropsWhatIsOpen,
       Candidate!NoAppointments, Candidate!Enters, RestTyped, RosterKept,
       Candidate!RosterFollowsTheProfile, Candidate!roster, Candidate!process, Candidate!Stages,
       Candidate!Board, Candidate!Protected, Candidate!Closed
  <1>10. ASSUME NEW s \in {"open", "rejected"}, Candidate!SetsAcademyStatus(s) PROVE RestTyped' /\ RosterKept'
    BY <1>0, <1>10 DEF Candidate!SetsAcademyStatus, RestTyped, RosterKept,
       Candidate!RosterFollowsTheProfile, Candidate!roster, Candidate!process, Candidate!Stages,
       Candidate!Board, Candidate!Protected, Candidate!Closed
  <1>11. ASSUME Candidate!Onboards PROVE RestTyped' /\ RosterKept'
    BY <1>0, <1>11 DEF Candidate!Onboards, Candidate!Provisions, RestTyped, RosterKept,
       Candidate!RosterFollowsTheProfile, Candidate!roster, Candidate!process, Candidate!Stages,
       Candidate!Board, Candidate!Protected, Candidate!Closed
  <1>12. ASSUME Candidate!Promotes PROVE RestTyped' /\ RosterKept'
    BY <1>0, <1>12 DEF Candidate!Promotes, RestTyped, RosterKept,
       Candidate!RosterFollowsTheProfile, Candidate!roster, Candidate!process, Candidate!Stages,
       Candidate!Board, Candidate!Protected, Candidate!Closed
  <1>13. ASSUME Candidate!ProvisionsTeacher PROVE RestTyped' /\ RosterKept'
    BY <1>0, <1>13 DEF Candidate!ProvisionsTeacher, RestTyped, RosterKept,
       Candidate!RosterFollowsTheProfile, Candidate!roster, Candidate!process, Candidate!Stages,
       Candidate!Board, Candidate!Protected, Candidate!Closed
  <1>14. ASSUME Candidate!RepairsLogins PROVE RestTyped' /\ RosterKept'
    BY <1>0, <1>14 DEF Candidate!RepairsLogins, RestTyped, RosterKept,
       Candidate!RosterFollowsTheProfile, Candidate!roster, Candidate!process, Candidate!Stages,
       Candidate!Board, Candidate!Protected, Candidate!Closed
  <1>15. ASSUME Candidate!RestoresCandidate PROVE RestTyped' /\ RosterKept'
    <2>1. /\ stage \in Candidate!Closed /\ Candidate!Enters(stage')
          /\ \/ stage' \in Candidate!Board /\ UNCHANGED Candidate!roster
             \/ stage = "trash_bin" /\ stage' \in Candidate!Protected /\ Candidate!ReopensRoster(stage')
          /\ UNCHANGED <<attempts, approval, appointments>>
      BY <1>15, Restored
    <2>2. stage' \in Candidate!Stages /\ previous' \in Candidate!Stages
      BY <1>0, <2>1 DEF Candidate!Enters, RestTyped, Candidate!Stages
    <2>3. CASE stage' \in Candidate!Board /\ UNCHANGED Candidate!roster
      BY <1>0, <2>1, <2>2, <2>3 DEF RestTyped, RosterKept, Candidate!RosterFollowsTheProfile,
         Candidate!roster, Candidate!Board
    <2>4. CASE stage' \in Candidate!Protected /\ Candidate!ReopensRoster(stage')
      BY <1>0, <2>1, <2>2, <2>4
         DEF RestTyped, RosterKept, Candidate!RosterFollowsTheProfile, Candidate!ReopensRoster,
            Candidate!Protected
    <2> QED BY <2>1, <2>3, <2>4
  <1>16. ASSUME NEW attempt \in attempts, Candidate!DeletesEvaluation(attempt)
        PROVE  RestTyped' /\ RosterKept'
    <2>1. /\ \/ UNCHANGED <<stage, previous>>
             \/ /\ stage \notin Candidate!Protected \cup {"gone"}
                /\ stage' \in Candidate!Board \cup {"rejected"} /\ Candidate!Enters(stage')
          /\ attempts' = attempts \ {attempt}
          /\ UNCHANGED <<approval, appointments, Candidate!roster>>
      BY <1>16, Deleted
    <2>2. stage' \in Candidate!Stages \cup {"gone"} /\ previous' \in Candidate!Stages
      BY <1>0, <2>1 DEF Candidate!Enters, RestTyped, Candidate!Stages, Candidate!Closed
    <2> QED BY <1>0, <2>1, <2>2
            DEF RestTyped, RosterKept, Candidate!RosterFollowsTheProfile, Candidate!roster,
               Candidate!Board
  <1>17. CASE UNCHANGED Candidate!vars
    BY <1>0, <1>17 DEF Candidate!vars, Candidate!process, Candidate!roster, RestTyped,
       RosterKept, Candidate!RosterFollowsTheProfile
  <1> QED
    BY <1>0, <1>1, <1>2, <1>3, <1>4, <1>5, <1>6, <1>7, <1>8, <1>9, <1>10, <1>11, <1>12, <1>13,
       <1>14, <1>15, <1>16, <1>17,
       AppointmentSteps, PassSteps, FailureSteps DEF Candidate!Next

-----------------------------------------------------------------------------
(* The decisions, and who is hired. *)

\* Every step leaves the history as it is, takes from it, or adds one decision.
LEMMA HistorySteps ==
    ASSUME Candidate!CandidateAssumption, CandidateInv, [Candidate!Next]_(Candidate!vars)
    PROVE  HistoryTyped' /\ SystemDecisions'
  <1>0. RestTyped /\ HistoryTyped /\ SystemDecisions /\ RosterKept
    BY DEF CandidateInv
  <1>a. ASSUME UNCHANGED decisions, attempts \subseteq attempts'
        PROVE  HistoryTyped' /\ SystemDecisions'
    BY <1>0, <1>a, SameHistory, LeftKeeps
  <1>b. ASSUME NEW outcome \in Candidate!Protected \cup Candidate!Closed, NEW o \in Candidate!Stages,
               Candidate!Decides(outcome, o, "nothing"), UNCHANGED attempts
        PROVE  HistoryTyped' /\ SystemDecisions'
    BY <1>0, <1>b, OneMore
  <1>1. ASSUME NEW s \in Candidate!Stages, Candidate!MovesCandidate(s) PROVE HistoryTyped' /\ SystemDecisions'
    BY <1>1, <1>a DEF Candidate!MovesCandidate
  <1>2. ASSUME NEW s \in Candidate!Stages, Candidate!ClosesCandidate(s) PROVE HistoryTyped' /\ SystemDecisions'
    <2>1. s \in Candidate!Closed /\ stage \in Candidate!Stages /\ Candidate!Decides(s, stage, "nothing") /\ UNCHANGED attempts
      BY <1>0, <1>2 DEF Candidate!ClosesCandidate, Candidate!Closed, RestTyped
    <2> QED BY <2>1, <1>b
  <1>3. ASSUME NEW s \in Candidate!Stages, Candidate!ClosesHandoff(s) PROVE HistoryTyped' /\ SystemDecisions'
    <2>1. CASE s = "rejected"
      <3>1. s \in Candidate!Closed /\ stage \in Candidate!Stages /\ Candidate!Decides(s, stage, "nothing") /\ UNCHANGED attempts
        BY <1>0, <1>3, <2>1 DEF Candidate!ClosesHandoff, Candidate!Closed, Candidate!Stages,
           Candidate!Protected
      <3> QED BY <3>1, <1>b
    <2>2. CASE s # "rejected"
      BY <1>3, <1>a, <2>2 DEF Candidate!ClosesHandoff
    <2> QED BY <2>1, <2>2
  <1>4. ASSUME Candidate!RestoresCandidate PROVE HistoryTyped' /\ SystemDecisions'
    BY <1>0, <1>4, VoidsOne, LeftKeeps DEF Candidate!RestoresCandidate
  <1>5. ASSUME Candidate!PurgesCandidate PROVE HistoryTyped' /\ SystemDecisions'
    <2>1. decisions' = <<>>
      BY <1>5 DEF Candidate!PurgesCandidate
    <2>2. HistoryTyped'
      BY <1>0, <2>1, EmptyHistory, LeftKeeps
    <2>3. DOMAIN decisions' = {}
      BY <2>1
    <2> QED BY <2>2, <2>3 DEF SystemDecisions
  <1>6. ASSUME Candidate!ApprovesHire PROVE HistoryTyped' /\ SystemDecisions'
    <2>1. /\ stage \in Candidate!Stages /\ Candidate!Decides("active_teacher", stage, "nothing")
          /\ UNCHANGED attempts
      BY <1>6 DEF Candidate!ApprovesHire, Candidate!MayBeHired, Candidate!Stages,
         Candidate!Board, Candidate!Protected
    <2>2. "active_teacher" \in Candidate!Protected \cup Candidate!Closed
      BY DEF Candidate!Protected
    <2> QED BY <2>1, <2>2, <1>b
  <1>7. ASSUME Candidate!PlacesInAcademy PROVE HistoryTyped' /\ SystemDecisions'
    <2>1. /\ stage \in Candidate!Stages /\ Candidate!Decides("teacher_academy", stage, "nothing")
          /\ UNCHANGED attempts
      BY <1>7 DEF Candidate!PlacesInAcademy, Candidate!Stages, Candidate!Board
    <2>2. "teacher_academy" \in Candidate!Protected \cup Candidate!Closed
      BY DEF Candidate!Protected
    <2> QED BY <2>1, <2>2, <1>b
  <1>8. ASSUME Candidate!RemovesTrainee PROVE HistoryTyped' /\ SystemDecisions'
    <2>1. Candidate!Decides("rejected", "teacher_academy", "nothing") /\ UNCHANGED attempts
      BY <1>8 DEF Candidate!RemovesTrainee
    <2>2. "rejected" \in Candidate!Protected \cup Candidate!Closed /\ "teacher_academy" \in Candidate!Stages
      BY DEF Candidate!Protected, Candidate!Closed, Candidate!Stages
    <2> QED BY <2>1, <2>2, <1>b
  <1>9. ASSUME NEW kind \in Candidate!Kinds, Candidate!RecordsFailure(kind) PROVE HistoryTyped' /\ SystemDecisions'
    <2>1. /\ attempts \subseteq attempts'
          /\ Candidate!Failed(kind) \notin attempts /\ Candidate!Failed(kind) \in attempts'
          /\ UNCHANGED decisions \/ (stage \in Candidate!Board /\ Candidate!Decides("rejected", stage, kind))
      BY <1>0, <1>9, FailureSteps
    <2>2. CASE UNCHANGED decisions
      BY <1>a, <2>1, <2>2
    <2>3. CASE stage \in Candidate!Board /\ Candidate!Decides("rejected", stage, kind)
      <3>1. "rejected" \in Candidate!Protected \cup Candidate!Closed /\ stage \in Candidate!Stages
        BY <2>3 DEF Candidate!Closed, Candidate!Stages
      <3> QED BY <1>0, <2>1, <2>3, <3>1, OneMore
    <2> QED BY <2>1, <2>2, <2>3
  <1>10. ASSUME NEW attempt \in attempts, Candidate!DeletesEvaluation(attempt)
         PROVE  HistoryTyped' /\ SystemDecisions'
    <2>1. /\ attempts' = attempts \ {attempt}
          /\ \/ /\ UNCHANGED decisions
                /\ \A i \in DOMAIN decisions : ~Candidate!IsSystem(decisions[i], attempt)
             \/ /\ Len(decisions) > 0
                /\ decisions' = SubSeq(decisions, 1, Len(decisions) - 1)
                /\ Candidate!IsSystem(decisions[Len(decisions)], attempt)
      BY <1>10, Deleted
    <2>2. \A kind \in Candidate!Kinds : Candidate!Failed(kind) = attempt => ~attempt.passed /\ attempt.kind = kind
      BY DEF Candidate!Failed
    <2>3. decisions \in Seq(DecisionRows)
      BY <1>0 DEF HistoryTyped
    <2>4. \A i \in DOMAIN decisions : IsCaused(i) => decisions[i].because \in Candidate!Kinds
      <3>1. \A i \in DOMAIN decisions : decisions[i] \in DecisionRows
        BY <2>3, ElementOfSeq, LenProperties
      <3> QED BY <3>1 DEF IsCaused, DecisionRows
    <2>5. CASE UNCHANGED decisions /\ \A i \in DOMAIN decisions : ~Candidate!IsSystem(decisions[i], attempt)
      <3>1. \A i \in DOMAIN decisions : IsCaused(i) => Candidate!Failed(decisions[i].because) # attempt
        BY <2>2, <2>4, <2>5 DEF Candidate!IsSystem
      <3>2. SystemDecisions'
        BY <1>0, <2>1, <2>5, <3>1 DEF SystemDecisions, IsCaused, Candidate!Failed
      <3> QED BY <1>0, <2>5, <3>2 DEF HistoryTyped
    <2>6. CASE /\ Len(decisions) > 0
               /\ decisions' = SubSeq(decisions, 1, Len(decisions) - 1)
               /\ Candidate!IsSystem(decisions[Len(decisions)], attempt)
      <3>1. /\ Left /\ DOMAIN decisions' = 1..(Len(decisions) - 1)
            /\ \A k \in DOMAIN decisions' : decisions'[k] = decisions[k]
        BY <1>0, <2>6, WithoutLast
      <3>2. HistoryTyped'
        BY <1>0, <3>1, LeftKeeps
      <3>3. /\ Len(decisions) \in Nat /\ DOMAIN decisions = 1..Len(decisions)
        BY <2>3, LenProperties
      <3>4. /\ Len(decisions) \in DOMAIN decisions /\ DOMAIN decisions' \subseteq DOMAIN decisions
            /\ Len(decisions) \notin DOMAIN decisions'
        BY <2>6, <3>1, <3>3
      <3>5. ASSUME NEW k \in DOMAIN decisions', IsCaused(k)'
            PROVE  Candidate!Failed(decisions[k].because) # attempt
        <4>1. IsCaused(k) /\ k # Len(decisions)
          BY <3>1, <3>4, <3>5 DEF IsCaused
        <4>2. decisions[k].because # decisions[Len(decisions)].because
          BY <1>0, <3>4, <4>1 DEF SystemDecisions
        <4>3. decisions[k].because \in Candidate!Kinds
          BY <2>4, <3>4, <4>1
        <4> QED BY <2>2, <2>6, <4>2, <4>3 DEF Candidate!IsSystem
      <3>6. \A k \in DOMAIN decisions' : IsCaused(k)' => IsCaused(k) /\ k \in DOMAIN decisions
        BY <3>1, <3>4 DEF IsCaused
      <3>7. ASSUME NEW i \in DOMAIN decisions', IsCaused(i)'
            PROVE  decisions'[i].origin \in Candidate!Board /\ Candidate!Failed(decisions'[i].because) \in attempts'
        BY <1>0, <2>1, <3>1, <3>5, <3>6, <3>7 DEF SystemDecisions
      <3>8. ASSUME NEW i \in DOMAIN decisions', NEW j \in DOMAIN decisions', IsCaused(i)',
                   decisions'[i].because = decisions'[j].because
            PROVE  i = j
        BY <1>0, <3>1, <3>4, <3>6, <3>8 DEF SystemDecisions
      <3>9. (\A i \in DOMAIN decisions : IsCaused(i) =>
               decisions[i].origin \in Candidate!Board /\ Candidate!Failed(decisions[i].because) \in attempts)'
        BY <3>7 DEF Candidate!Failed
      <3>10. (\A i, j \in DOMAIN decisions :
               IsCaused(i) /\ decisions[i].because = decisions[j].because => i = j)'
        BY <3>8
      <3> QED BY <3>2, <3>9, <3>10 DEF SystemDecisions
    <2> QED BY <2>1, <2>5, <2>6
  <1>11. ASSUME \/ Candidate!RequestsApproval \/ Candidate!ReturnsApproval \/ Candidate!Onboards \/ Candidate!Promotes
                \/ Candidate!ProvisionsTeacher \/ Candidate!RepairsLogins
                \/ \E s \in {"open", "rejected"} : Candidate!SetsAcademyStatus(s)
         PROVE  HistoryTyped' /\ SystemDecisions'
    <2>1. UNCHANGED <<attempts, decisions>>
      BY <1>11 DEF Candidate!RequestsApproval, Candidate!ReturnsApproval, Candidate!Onboards,
         Candidate!Promotes, Candidate!ProvisionsTeacher,
             Candidate!RepairsLogins, Candidate!SetsAcademyStatus, Candidate!process
    <2> QED BY <2>1, <1>a
  <1>12. CASE UNCHANGED Candidate!vars
    BY <1>12, <1>a DEF Candidate!vars, Candidate!process
  <1>13. ASSUME NEW kind \in Candidate!Kinds, Candidate!RecordsPass(kind) PROVE HistoryTyped' /\ SystemDecisions'
    BY <1>0, <1>13, <1>a, PassSteps
  <1>14. ASSUME NEW type \in Types,
                \/ Candidate!CreatesAppointment(type) \/ Candidate!SchedulesStageMove(type)
                \/ Candidate!StartsSession(type) \/ Candidate!UndoesStart(type) \/ Candidate!EndsAppointment(type)
         PROVE  HistoryTyped' /\ SystemDecisions'
    <2>1. UNCHANGED <<attempts, decisions>>
      BY <1>0, <1>14, AppointmentSteps
    <2> QED BY <2>1, <1>a
  <1> QED BY <1>1, <1>2, <1>3, <1>4, <1>5, <1>6, <1>7, <1>8, <1>9, <1>10, <1>11, <1>12, <1>13,
             <1>14 DEF Candidate!Next

LEMMA CandidateInit == ASSUME Candidate!CandidateAssumption, Candidate!Init PROVE CandidateInv
  <1>1. decisions = <<>>
    BY DEF Candidate!Init
  <1>2. HistoryTyped
    BY <1>1, EmptySeq DEF HistoryTyped, Candidate!CandidateAssumption
  <1>3. SystemDecisions
    BY <1>1 DEF SystemDecisions
  <1> QED BY <1>2, <1>3, RestInit DEF CandidateInv

LEMMA CandidateStep ==
    ASSUME Candidate!CandidateAssumption, CandidateInv, [Candidate!Next]_(Candidate!vars) PROVE CandidateInv'
  BY RestSteps, HistorySteps DEF CandidateInv

\* The types hold; a hired candidate and a trainee have the row their stage asks for; a purge
\* leaves nobody behind at work; a rejection of the system has its evaluation.
THEOREM CandidateKeepsTheRoster ==
    ASSUME Candidate!CandidateAssumption
    PROVE  Candidate!Spec => [](Candidate!TypeOK /\ Candidate!RosterFollowsTheProfile
                        /\ Candidate!PurgeLeavesNothingOpen /\ Candidate!SystemRejectionHasItsEvaluation)
  BY CandidateInit, CandidateStep, Parts, PTL DEF Candidate!Spec

\* Who becomes an active teacher earned it.
LEMMA WhoIsHired ==
    ASSUME CandidateInv, [Candidate!Next]_(Candidate!vars), stage # "active_teacher", stage' = "active_teacher"
    PROVE  \/ stage = "trash_bin" /\ teacher = "trash_bin"
           \/ /\ approval # "none" /\ approval' = "none"
              /\ stage = "teacher_academy" \/ Candidate!AllPassed
  <1>0. RestTyped /\ RosterKept
    BY DEF CandidateInv
  <1>1. ~UNCHANGED stage
    OBVIOUS
  <1>2. \A s \in Candidate!Stages : ~Candidate!MovesCandidate(s) /\ ~Candidate!ClosesCandidate(s) /\ ~Candidate!ClosesHandoff(s)
    BY DEF Candidate!MovesCandidate, Candidate!ClosesCandidate, Candidate!ClosesHandoff,
       Candidate!Enters, Candidate!Board
  <1>3. CASE Candidate!RestoresCandidate
    <2>1. /\ \/ stage' \in Candidate!Board
             \/ stage = "trash_bin" /\ Candidate!ReopensRoster(stage')
      BY <1>3, Restored
    <2>2. stage' \notin Candidate!Board
      BY DEF Candidate!Board
    <2> QED BY <2>1, <2>2 DEF Candidate!ReopensRoster
  <1>4. ~Candidate!PurgesCandidate /\ ~Candidate!PlacesInAcademy /\ ~Candidate!RemovesTrainee
    BY DEF Candidate!PurgesCandidate, Candidate!PlacesInAcademy, Candidate!RemovesTrainee,
       Candidate!Enters
  <1>5. CASE Candidate!ApprovesHire
    BY <1>5 DEF Candidate!ApprovesHire, Candidate!MayBeHired
  <1>6. ~\E kind \in Candidate!Kinds : Candidate!RecordsPass(kind) \/ Candidate!RecordsFailure(kind)
    BY <1>0, PassSteps, FailureSteps
  <1>7. ~\E attempt \in attempts : Candidate!DeletesEvaluation(attempt)
    <2>1. stage' \notin Candidate!Board \cup {"rejected"}
      BY DEF Candidate!Board
    <2> QED BY <2>1, Deleted
  <1>8. ~\E type \in Types :
          \/ Candidate!CreatesAppointment(type) \/ Candidate!SchedulesStageMove(type)
          \/ Candidate!StartsSession(type) \/ Candidate!UndoesStart(type) \/ Candidate!EndsAppointment(type)
    BY <1>0, AppointmentSteps
  <1>9. ~(\/ Candidate!RequestsApproval \/ Candidate!ReturnsApproval \/ Candidate!Onboards \/ Candidate!Promotes
          \/ Candidate!ProvisionsTeacher \/ Candidate!RepairsLogins
          \/ \E s \in {"open", "rejected"} : Candidate!SetsAcademyStatus(s))
    BY DEF Candidate!RequestsApproval, Candidate!ReturnsApproval, Candidate!Onboards,
       Candidate!Promotes, Candidate!ProvisionsTeacher,
           Candidate!RepairsLogins, Candidate!SetsAcademyStatus
  <1>10. ~UNCHANGED Candidate!vars
    BY DEF Candidate!vars
  <1> QED BY <1>2, <1>3, <1>4, <1>5, <1>6, <1>7, <1>8, <1>9, <1>10 DEF Candidate!Next

\* Nobody is hired but from the Academy or with every evaluation passed, on an approval that
\* is then used up; only the trash gives a hired teacher back.
THEOREM HiredTeachersEarnedIt ==
    ASSUME Candidate!CandidateAssumption PROVE Candidate!Spec => Candidate!HiresAreEarned
  <1>1. ASSUME CandidateInv, [Candidate!Next]_(Candidate!vars)
        PROVE  [stage # "active_teacher" /\ stage' = "active_teacher" =>
                  \/ stage = "trash_bin" /\ teacher = "trash_bin"
                  \/ /\ approval # "none" /\ approval' = "none"
                     /\ stage = "teacher_academy" \/ Candidate!AllPassed]_(Candidate!vars)
    BY <1>1, WhoIsHired
  <1> QED BY CandidateInit, CandidateStep, <1>1, PTL DEF Candidate!Spec,
       Candidate!HiresAreEarned
-----------------------------------------------------------------------------
(* The columns of the board.                                                *)

\* No two creations of a column overlap once they have begun to write the order.
AddsApart ==
    \A u, t \in Users :
        /\ session[u].doing = "add" /\ session[u].phase = "order"
        /\ session[t].doing = "add" /\ session[t].phase = "order"
        => u = t

SessionRows ==
    [doing : {"idle", "move", "recover", "remove", "edit", "add"},
     phase : {"idle", "form", "card", "target", "column", "checked", "cards",
              "replacement", "order"},
     row : Stages!Rows \cup {None}, to : Stages!Rows \cup {None}, fresh : BOOLEAN,
     left : SUBSET Stages!Rows, wants : Stages!Rows \X {"X", "N", "K"} \cup {Stages!NoLock}]
HoldSets == SUBSET (Stages!Rows \X {"X", "N", "K"})

\* A request and the locks it holds, whatever the tables are like.
Moves(s, h) ==
    /\ s.row \in Cards /\ s.phase \in {"form", "card", "target"}
    /\ s.doing = "move" => s.to \in Stages!AllColumns \cup {Bin}
    /\ s.phase # "target" => h = {}
    /\ s.phase = "card" => s.wants = <<s.row, "X">>
    /\ s.phase = "target" => h = {<<s.row, "X">>} /\ s.wants = <<s.to, "K">>
    /\ s.phase \in {"card", "target"} => s.to \in Stages!AllColumns \cup {Bin}
    /\ s.phase \in {"card", "target"} /\ s.doing = "recover" => s.to \in Stages!AllColumns
Arranges(s, h) ==
    /\ s.row \in Stages!AllColumns
    /\ s.phase \in {"form", "column", "checked", "cards", "replacement", "order"}
    /\ s.phase \in {"form", "column"} => h = {}
    /\ s.phase = "column" => s.wants = <<s.row, "X">> /\ s.doing # "add"
    /\ s.phase \notin {"form", "column"} /\ s.doing # "add" => <<s.row, "X">> \in h
    /\ s.phase \in {"checked", "cards", "replacement"} => s.doing = "remove"
    /\ s.phase = "cards" => s.wants \in Cards \X {"X"} /\ s.left \subseteq Cards
    /\ s.phase = "replacement" => s.wants = <<s.to, "K">>
    /\ s.phase = "order" => s.wants \in Stages!AllColumns \X {"N"} /\ s.left \subseteq Stages!AllColumns
    /\ s.doing = "remove" => s.row \in Columns /\ s.to \in Stages!AllColumns \ {s.row}
    /\ s.doing # "remove" => h \subseteq Stages!AllColumns \X {"X", "N", "K"}
    /\ s.doing = "edit" /\ s.phase = "order" => s.row \in Columns
Shape(s, h) ==
    /\ s \in SessionRows /\ h \in HoldSets
    /\ s.doing = "idle" => s = Stages!Idle /\ h = {}
    /\ s.phase \in {"form", "checked"} => s.wants = Stages!NoLock
    /\ s.doing \in {"move", "recover"} => Moves(s, h)
    /\ s.doing \in {"edit", "remove", "add"} => Arranges(s, h)

\* What a request has found of the tables still holds.
Busy == {"cards", "replacement", "order"}
Fits(s, h, act, pos, rep) ==
    /\ s.doing = "move" /\ (s.fresh \/ s.phase = "target") /\ s.to = Bin => pos[s.row] # Bin
    /\ s.doing = "remove" /\ s.phase \in Busy \cup {"checked"} => s.row \in act
    /\ s.doing = "remove" /\ s.phase \in Busy => s.to \in act
    /\ s.doing = "remove" /\ s.phase \in Busy =>
          \A k \in Cards : pos[k] = s.row =>
              \/ <<k, "X">> \in h
              \/ s.phase = "cards" /\ (k = s.wants[1] \/ k \in s.left)
    /\ s.doing \in {"remove", "add"} /\ s.phase = "order" =>
          \A c \in act \ {s.row} : <<c, "N">> \in h \/ c = s.wants[1] \/ c \in s.left
    /\ s.doing = "add" => s.row \in Added /\ s.row \notin act /\ rep[s.row] = None

TableTyped ==
    /\ active \subseteq Stages!AllColumns /\ Home \in active
    /\ replacement \in [Columns -> Stages!AllColumns \cup {None}]
    /\ at \in [Cards -> Stages!AllColumns \cup {Bin}]
    /\ origin \in [Cards -> Stages!AllColumns]
    /\ \A c \in Columns : replacement[c] # None => c \notin active
AllShaped ==
    /\ session \in [Users -> SessionRows] /\ holds \in [Users -> HoldSets]
    /\ \A u \in Users : Shape(session[u], holds[u])
AllFit == \A u \in Users : Fits(session[u], holds[u], active, at, replacement)
LocksApart ==
    \A u, t \in Users : u # t =>
        \A a \in holds[u], b \in holds[t] : a[1] = b[1] => ~Stages!Excludes(a[2], b[2])
AddersApart ==
    \A u, t \in Users : session[u].doing = "add" /\ session[t].doing = "add"
                          /\ session[u].row = session[t].row => u = t

PipeInv == TableTyped /\ AllShaped /\ AllFit /\ LocksApart /\ AddersApart

LEMMA PipeTypes == PipeInv => Stages!TypeOK
  BY DEF PipeInv, TableTyped, AllShaped, Stages!TypeOK, SessionRows, HoldSets

LEMMA Names ==
    ASSUME Stages!StagesAssumption
    PROVE  /\ Home \notin Columns /\ Bin \notin Stages!AllColumns /\ None \notin Stages!AllColumns
           /\ Home # Bin /\ Home # None /\ Bin # None
           /\ \A k \in Cards : k \notin Stages!AllColumns /\ k # Bin /\ k # None
           /\ Added \subseteq Columns
  <1>1. Home # Bin /\ Home # None /\ Bin # None
    <2>1. Cardinality({Home, Bin, None}) = 3
      BY DEF Stages!StagesAssumption, Stages!Cardinality, Cardinality
    <2>2. ASSUME NEW a, NEW b, {Home, Bin, None} = {a, b} PROVE FALSE
      <3>1. Cardinality({a}) = 1 /\ IsFiniteSet({a})
        BY FS_Singleton
      <3>2. Cardinality({a} \cup {b}) \in {1, 2}
        BY <3>1, FS_AddElement
      <3>3. {a, b} = {a} \cup {b}
        OBVIOUS
      <3> QED BY <2>1, <2>2, <3>2, <3>3
    <2>3. CASE Home = Bin
      <3>1. {Home, Bin, None} = {Home, None}
        BY <2>3
      <3> QED BY <3>1, <2>2
    <2>4. CASE Home = None
      <3>1. {Home, Bin, None} = {Home, Bin}
        BY <2>4
      <3> QED BY <3>1, <2>2
    <2>5. CASE Bin = None
      <3>1. {Home, Bin, None} = {Home, Bin}
        BY <2>5
      <3> QED BY <3>1, <2>2
    <2> QED BY <2>3, <2>4, <2>5
  <1> QED BY <1>1 DEF Stages!StagesAssumption, Stages!AllColumns

\* The locks h of u exclude nobody else's; the column s adds is added by nobody else.
FreeOf(u, h) ==
    \A t \in Users \ {u} : \A a \in h, b \in holds[t] : a[1] = b[1] =>
        ~Stages!Excludes(a[2], b[2]) /\ ~Stages!Excludes(b[2], a[2])
AddsAlone(u, s) ==
    s.doing = "add" => \A t \in Users \ {u} :
        session[t].doing = "add" => session[t].row # s.row

\* The request that is idle.
LEMMA IdleFits ==
    ASSUME NEW act, NEW pos, NEW rep
    PROVE  Shape(Stages!Idle, {}) /\ Fits(Stages!Idle, {}, act, pos, rep) /\ Stages!Idle.doing = "idle"
  <1>1. Stages!Idle \in SessionRows
    BY DEF Stages!Idle, SessionRows, Stages!NoLock
  <1>2. Stages!Idle.doing = "idle" /\ Stages!Idle.phase = "idle" /\ {} \in HoldSets
    BY DEF Stages!Idle, HoldSets
  <1> QED BY <1>1, <1>2 DEF Shape, Fits

\* A step of one request that leaves the tables alone.
LEMMA OwnStep ==
    ASSUME PipeInv, NEW u \in Users, NEW s, NEW h,
           session' = [session EXCEPT ![u] = s], holds' = [holds EXCEPT ![u] = h],
           UNCHANGED Stages!table,
           Shape(s, h), Fits(s, h, active, at, replacement),
           FreeOf(u, h),
           AddsAlone(u, s)
    PROVE  PipeInv'
  <1>1. /\ session \in [Users -> SessionRows] /\ holds \in [Users -> HoldSets]
        /\ UNCHANGED <<active, replacement, at, origin>>
    BY DEF PipeInv, AllShaped, Stages!table
  <1>2. TableTyped'
    BY <1>1 DEF PipeInv, TableTyped
  <1>3. s \in SessionRows /\ h \in HoldSets
    BY DEF Shape
  <1>4. session' \in [Users -> SessionRows] /\ holds' \in [Users -> HoldSets]
    BY <1>1, <1>3
  <1>5. /\ session'[u] = s /\ holds'[u] = h
        /\ \A t \in Users \ {u} : session'[t] = session[t] /\ holds'[t] = holds[t]
    BY <1>1
  <1>6. \A t \in Users : Shape(session'[t], holds'[t])
    BY <1>5 DEF PipeInv, AllShaped
  <1>7. \A t \in Users : Fits(session'[t], holds'[t], active', at', replacement')
    BY <1>1, <1>5 DEF PipeInv, AllFit
  <1>8. LocksApart'
    <2> SUFFICES ASSUME NEW t \in Users, NEW v \in Users, t # v,
                        NEW a \in holds'[t], NEW b \in holds'[v], a[1] = b[1]
                 PROVE  ~Stages!Excludes(a[2], b[2])
      BY DEF LocksApart, Stages!Excludes
    <2>1. CASE t = u
      BY <1>5, <2>1 DEF FreeOf
    <2>2. CASE v = u
      BY <1>5, <2>2 DEF FreeOf
    <2>3. CASE t # u /\ v # u
      BY <1>5, <2>3 DEF PipeInv, LocksApart
    <2> QED BY <2>1, <2>2, <2>3
  <1>9. AddersApart'
    <2> SUFFICES ASSUME NEW t \in Users, NEW v \in Users, session'[t].doing = "add",
                        session'[v].doing = "add", session'[t].row = session'[v].row
                 PROVE  t = v
      BY DEF AddersApart
    <2>1. CASE t = u \/ v = u
      BY <1>5, <2>1 DEF AddsAlone
    <2>2. CASE t # u /\ v # u
      BY <1>5, <2>2 DEF PipeInv, AddersApart
    <2> QED BY <2>1, <2>2
  <1> QED BY <1>2, <1>4, <1>6, <1>7, <1>8, <1>9 DEF PipeInv, AllShaped, AllFit

\* The sessions of the others after a commit: some of their forms are out of date.
LEMMA OthersAfter ==
    ASSUME PipeInv, NEW u \in Users, NEW written, Stages!Commits(u, written)
    PROVE  /\ session'[u] = Stages!Idle /\ holds'[u] = {}
           /\ \A t \in Users \ {u} :
                 /\ holds'[t] = holds[t]
                 /\ session'[t] \in SessionRows
                 /\ session'[t].doing = session[t].doing /\ session'[t].phase = session[t].phase
                 /\ session'[t].row = session[t].row /\ session'[t].to = session[t].to
                 /\ session'[t].left = session[t].left /\ session'[t].wants = session[t].wants
                 /\ session'[t].fresh => session[t].fresh /\ session[t].row \notin written
                 /\ session[t].doing = "idle" => session'[t] = Stages!Idle
           /\ session' \in [Users -> SessionRows] /\ holds' \in [Users -> HoldSets]
  <1>1. session \in [Users -> SessionRows] /\ holds \in [Users -> HoldSets]
        /\ \A t \in Users : Shape(session[t], holds[t])
    BY DEF PipeInv, AllShaped
  <1>2. session' = [t \in Users |->
                     IF t = u THEN Stages!Idle
                     ELSE [session[t] EXCEPT !.fresh = @ /\ session[t].row \notin written]]
        /\ holds' = [holds EXCEPT ![u] = {}]
    BY DEF Stages!Commits
  <1>3. Stages!Idle \in SessionRows /\ {} \in HoldSets
    BY DEF Stages!Idle, SessionRows, Stages!NoLock, HoldSets
  <1>4. session'[u] = Stages!Idle /\ holds'[u] = {} /\ holds' \in [Users -> HoldSets]
        /\ \A t \in Users \ {u} : holds'[t] = holds[t]
    BY <1>1, <1>2, <1>3
  <1>5. ASSUME NEW t \in Users \ {u}
        PROVE  /\ session'[t] \in SessionRows
               /\ session'[t].doing = session[t].doing /\ session'[t].phase = session[t].phase
               /\ session'[t].row = session[t].row /\ session'[t].to = session[t].to
               /\ session'[t].left = session[t].left /\ session'[t].wants = session[t].wants
               /\ session'[t].fresh => session[t].fresh /\ session[t].row \notin written
               /\ session[t].doing = "idle" => session'[t] = Stages!Idle
    <2>1. PICK b \in BOOLEAN : b = (session[t].fresh /\ session[t].row \notin written)
      OBVIOUS
    <2>2. session[t] \in SessionRows
      BY <1>1
    <2>3. session'[t] = [session[t] EXCEPT !.fresh = b]
      BY <1>2, <2>1
    <2>4. session[t].doing = "idle" => session[t] = Stages!Idle
      BY <1>1 DEF Shape
    <2>5. session[t].doing = "idle" => session'[t] = Stages!Idle
      <3>0. Stages!Idle.fresh = FALSE
        BY DEF Stages!Idle
      <3>1. ASSUME session[t] = Stages!Idle PROVE b = FALSE
        BY <2>1, <3>0, <3>1
      <3>2. [Stages!Idle EXCEPT !.fresh = FALSE] = Stages!Idle
        BY <1>3, <3>0 DEF SessionRows
      <3> QED BY <2>3, <2>4, <3>1, <3>2
    <2>6. session'[t] \in SessionRows
      BY <2>1, <2>2, <2>3 DEF SessionRows
    <2>7. /\ session'[t].doing = session[t].doing /\ session'[t].phase = session[t].phase
          /\ session'[t].row = session[t].row /\ session'[t].to = session[t].to
          /\ session'[t].left = session[t].left /\ session'[t].wants = session[t].wants
          /\ session'[t].fresh = b
      BY <2>2, <2>3 DEF SessionRows
    <2> QED BY <2>1, <2>5, <2>6, <2>7
  <1>6. session' \in [Users -> SessionRows]
    <2>1. \A t \in Users : session'[t] \in SessionRows
      BY <1>3, <1>4, <1>5
    <2> QED BY <1>2, <2>1
  <1> QED BY <1>4, <1>5, <1>6

\* A commit.
LEMMA EndStep ==
    ASSUME PipeInv, NEW u \in Users, NEW written, Stages!Commits(u, written), TableTyped',
           \A t \in Users \ {u} : Fits(session'[t], holds[t], active', at', replacement')
    PROVE  PipeInv'
  <1> DEFINE Same(t) ==
        /\ holds'[t] = holds[t] /\ session'[t] \in SessionRows
        /\ session'[t].doing = session[t].doing /\ session'[t].phase = session[t].phase
        /\ session'[t].row = session[t].row /\ session'[t].to = session[t].to
        /\ session'[t].left = session[t].left /\ session'[t].wants = session[t].wants
        /\ session[t].doing = "idle" => session'[t] = Stages!Idle
  <1>1. /\ session'[u] = Stages!Idle /\ holds'[u] = {}
        /\ \A t \in Users \ {u} : Same(t)
        /\ session' \in [Users -> SessionRows] /\ holds' \in [Users -> HoldSets]
    BY OthersAfter
  <1>2. ASSUME NEW t \in Users PROVE Shape(session'[t], holds'[t])
    <2>1. CASE t = u
      BY <1>1, <2>1, IdleFits
    <2>2. CASE t # u
      <3>1. Shape(session[t], holds[t]) /\ Same(t)
        BY <1>1, <2>2 DEF PipeInv, AllShaped
      <3> QED BY <3>1 DEF Shape, Moves, Arranges
    <2> QED BY <2>1, <2>2
  <1>3. ASSUME NEW t \in Users
        PROVE  Fits(session'[t], holds'[t], active', at', replacement')
    <2>1. CASE t = u
      <3>1. session'[t] = Stages!Idle /\ holds'[t] = {}
        BY <1>1, <2>1
      <3>2. Fits(Stages!Idle, {}, active', at', replacement')
        BY IdleFits
      <3> QED BY <3>1, <3>2
    <2>2. CASE t # u
      <3>1. t \in Users \ {u}
        BY <2>2
      <3>2. holds'[t] = holds[t]
        BY <1>1, <3>1
      <3> QED BY <3>1, <3>2
    <2> QED BY <2>1, <2>2
  <1>4. LocksApart'
    <2> SUFFICES ASSUME NEW t \in Users, NEW v \in Users, t # v,
                        NEW a \in holds'[t], NEW b \in holds'[v], a[1] = b[1]
                 PROVE  ~Stages!Excludes(a[2], b[2])
      BY DEF LocksApart, Stages!Excludes
    <2>1. t # u /\ v # u
      BY <1>1
    <2> QED BY <1>1, <2>1 DEF PipeInv, LocksApart
  <1>5. AddersApart'
    <2> SUFFICES ASSUME NEW t \in Users, NEW v \in Users, session'[t].doing = "add",
                        session'[v].doing = "add", session'[t].row = session'[v].row
                 PROVE  t = v
      BY DEF AddersApart
    <2>1. t # u /\ v # u
      BY <1>1, IdleFits
    <2> QED BY <1>1, <2>1 DEF PipeInv, AddersApart
  <1> HIDE DEF Same
  <1> QED BY <1>1, <1>2, <1>3, <1>4, <1>5 DEF PipeInv, AllShaped, AllFit

\* Nobody but a card's own loses by an out-of-date form.
LEMMA FitsAfter ==
    ASSUME PipeInv, NEW u \in Users, NEW written, Stages!Commits(u, written), NEW t \in Users \ {u},
           NEW act, NEW pos, NEW rep,
           Fits(session[t], holds[t], act, pos, rep)
    PROVE  Fits(session'[t], holds[t], act, pos, rep)
  <1>1. /\ session'[t].doing = session[t].doing /\ session'[t].phase = session[t].phase
        /\ session'[t].row = session[t].row /\ session'[t].to = session[t].to
        /\ session'[t].left = session[t].left /\ session'[t].wants = session[t].wants
        /\ session'[t].fresh => session[t].fresh
    BY OthersAfter
  <1> QED BY <1>1 DEF Fits

LEMMA GivesUpStep ==
    ASSUME PipeInv, NEW u \in Users, Stages!GivesUp(u) PROVE PipeInv'
  <1>1. Stages!Commits(u, {}) /\ UNCHANGED <<active, replacement, at, origin>>
    BY DEF Stages!GivesUp, Stages!table
  <1>2. TableTyped'
    BY <1>1 DEF PipeInv, TableTyped
  <1>3. ASSUME NEW t \in Users \ {u}
        PROVE  Fits(session'[t], holds[t], active', at', replacement')
    <2>1. Fits(session[t], holds[t], active, at, replacement)
      BY DEF PipeInv, AllFit
    <2> QED BY <1>1, <2>1, FitsAfter
  <1> QED BY <1>1, <1>2, <1>3, EndStep

-----------------------------------------------------------------------------
(* The pieces steps are made of. *)

LEMMA User ==
    ASSUME PipeInv, NEW u \in Users
    PROVE  /\ session[u] \in SessionRows /\ holds[u] \in HoldSets
           /\ Shape(session[u], holds[u])
           /\ Fits(session[u], holds[u], active, at, replacement)
           /\ session[u].fresh \in BOOLEAN
           /\ session[u].row \in Stages!Rows \cup {None} /\ session[u].to \in Stages!Rows \cup {None}
  <1>1. session[u] \in SessionRows /\ holds[u] \in HoldSets
    BY DEF PipeInv, AllShaped
  <1> QED BY <1>1 DEF PipeInv, AllShaped, AllFit, SessionRows

Phases == {"idle", "form", "card", "target", "column", "checked", "cards", "replacement", "order"}
Modes == {"X", "N", "K"}

\* The request, as it asks for the next lock.
Asks(u, s, phase, row, mode, left) ==
    /\ s \in SessionRows
    /\ s.doing = session[u].doing /\ s.row = session[u].row /\ s.to = session[u].to
    /\ s.fresh = session[u].fresh
    /\ s.phase = phase /\ s.wants = <<row, mode>> /\ s.left = left

LEMMA Asked ==
    ASSUME PipeInv, NEW u \in Users, NEW phase \in Phases, NEW row \in Stages!Rows,
           NEW mode \in Modes, NEW left \in SUBSET Stages!Rows, Stages!Wants(u, phase, row,
           mode, left)
    PROVE  \E s : Asks(u, s, phase, row, mode, left) /\ session' = [session EXCEPT ![u] = s]
  <1>1. session \in [Users -> SessionRows] /\ session[u] \in SessionRows
    BY DEF PipeInv, AllShaped
  <1>2. PICK s : s = [session[u] EXCEPT !.phase = phase, !.wants = <<row, mode>>, !.left = left]
    OBVIOUS
  <1>3. session' = [session EXCEPT ![u] = s]
    BY <1>1, <1>2 DEF Stages!Wants, SessionRows
  <1>4. <<row, mode>> \in Stages!Rows \X {"X", "N", "K"}
    BY DEF Modes
  <1>5. s \in SessionRows
    BY <1>1, <1>2, <1>4 DEF SessionRows, Phases
  <1>6. /\ s.doing = session[u].doing /\ s.row = session[u].row /\ s.to = session[u].to
        /\ s.fresh = session[u].fresh
        /\ s.phase = phase /\ s.wants = <<row, mode>> /\ s.left = left
    BY <1>1, <1>2 DEF SessionRows
  <1> QED BY <1>3, <1>5, <1>6 DEF Asks

\* A lock is taken when nobody's excludes it.
LEMMA Taken ==
    ASSUME PipeInv, NEW u \in Users, Stages!Takes(u), Stages!Blockers(u) = {},
           session[u].wants \in Stages!Rows \X Modes
    PROVE  \E h \in HoldSets :
              /\ h = holds[u] \cup {session[u].wants} /\ holds' = [holds EXCEPT ![u] = h]
              /\ FreeOf(u, h)
  <1>1. PICK h : h = holds[u] \cup {session[u].wants}
    OBVIOUS
  <1>2. holds[u] \in HoldSets
    BY User
  <1>3. h \in HoldSets
    BY <1>1, <1>2 DEF HoldSets, Modes
  <1>4. holds' = [holds EXCEPT ![u] = h]
    BY <1>1 DEF Stages!Takes
  <1>5. ASSUME NEW t \in Users \ {u}, NEW a \in h, NEW b \in holds[t], a[1] = b[1]
        PROVE  ~Stages!Excludes(a[2], b[2]) /\ ~Stages!Excludes(b[2], a[2])
    <2>1. CASE a = session[u].wants
      <3>1. ~Stages!Excludes(b[2], a[2])
        BY <1>5, <2>1 DEF Stages!Blockers
      <3> QED BY <3>1 DEF Stages!Excludes
    <2>2. CASE a \in holds[u]
      BY <1>5, <2>2 DEF PipeInv, LocksApart
    <2> QED BY <1>1, <2>1, <2>2
  <1> QED BY <1>1, <1>3, <1>4, <1>5 DEF FreeOf

\* What a request wants is free: nobody else has a lock that excludes it.
LEMMA Free ==
    ASSUME NEW u \in Users, Stages!Blockers(u) = {}, NEW t \in Users, t # u, NEW lock \in holds[t],
           lock[1] = session[u].wants[1]
    PROVE  ~Stages!Excludes(lock[2], session[u].wants[2])
  BY DEF Stages!Blockers

\* A request that only asks, and one that takes a lock and asks for the next.
LEMMA AsksStep ==
    ASSUME PipeInv, NEW u \in Users, NEW s,
           session' = [session EXCEPT ![u] = s], UNCHANGED <<holds, Stages!table>>,
           Shape(s, holds[u]), Fits(s, holds[u], active, at, replacement),
           AddsAlone(u, s)
    PROVE  PipeInv'
  <1>1. holds' = [holds EXCEPT ![u] = holds[u]]
    BY DEF PipeInv, AllShaped
  <1>2. FreeOf(u, holds[u])
    BY DEF PipeInv, LocksApart, FreeOf, Stages!Excludes
  <1> QED BY <1>1, <1>2, OwnStep

LEMMA StillApart ==
    ASSUME PipeInv, NEW u \in Users, session[u].doing = "add"
    PROVE  AddsAlone(u, session[u])
  BY DEF PipeInv, AddersApart, AddsAlone

-----------------------------------------------------------------------------
(* Begin. *)

LEMMA PipeInit == ASSUME Stages!StagesAssumption, Stages!Init PROVE PipeInv
  <1>1. active \subseteq Stages!AllColumns /\ Home \in active /\ Home \in Stages!AllColumns
    BY DEF Stages!Init, Stages!AllColumns
  <1>2. TableTyped
    BY <1>1 DEF Stages!Init, TableTyped
  <1>3. \A u \in Users : session[u] = Stages!Idle /\ holds[u] = {}
    BY DEF Stages!Init
  <1>4. Stages!Idle \in SessionRows /\ {} \in HoldSets
    BY DEF Stages!Idle, SessionRows, Stages!NoLock, HoldSets
  <1>5. AllShaped /\ AllFit
    BY <1>3, <1>4, IdleFits DEF Stages!Init, AllShaped, AllFit
  <1>6. LocksApart /\ AddersApart
    BY <1>3, IdleFits DEF LocksApart, AddersApart
  <1> QED BY <1>2, <1>5, <1>6 DEF PipeInv

LEMMA OpensCardStep ==
    ASSUME Stages!StagesAssumption, PipeInv, NEW u \in Users, NEW card \in Cards,
           NEW to \in active \cup {Bin}, Stages!OpensCard(u, card, to)
    PROVE  PipeInv'
  <1>0. to \in Stages!AllColumns \cup {Bin} /\ card \in Stages!Rows /\ to \in Stages!Rows
    BY DEF PipeInv, TableTyped, Stages!Rows
  <1>1. holds[u] = {} /\ UNCHANGED <<Stages!table, holds>>
    BY User, IdleFits DEF Stages!OpensCard, Shape
  <1>2. ASSUME at[card] # to,
               session' = [session EXCEPT ![u] = [Stages!Idle EXCEPT !.doing = "move", !.phase =
               "form",
                             !.row = card, !.to = to, !.fresh = TRUE]]
        PROVE  PipeInv'
    <2>1. PICK s : s = [Stages!Idle EXCEPT !.doing = "move", !.phase = "form",
                          !.row = card, !.to = to, !.fresh = TRUE]
      OBVIOUS
    <2>2. s \in SessionRows /\ s.doing = "move" /\ s.phase = "form" /\ s.row = card /\ s.to = to
          /\ s.wants = Stages!NoLock
      BY <1>0, <2>1 DEF Stages!Idle, SessionRows, Stages!NoLock
    <2>3. Shape(s, {})
      BY <1>0, <2>2 DEF Shape, Moves, HoldSets
    <2>4. Fits(s, {}, active, at, replacement)
      BY <1>2, <2>2 DEF Fits
    <2>n. AddsAlone(u, s)
      BY <2>2 DEF AddsAlone
    <2> QED BY <1>1, <1>2, <2>1, <2>2, <2>3, <2>4, <2>n, AsksStep
  <1>3. ASSUME session' = [session EXCEPT ![u] = [Stages!Idle EXCEPT !.doing = "recover",
                             !.phase = "form", !.row = card, !.fresh = TRUE]]
        PROVE  PipeInv'
    <2>1. PICK s : s = [Stages!Idle EXCEPT !.doing = "recover", !.phase = "form",
                          !.row = card, !.fresh = TRUE]
      OBVIOUS
    <2>2. s \in SessionRows /\ s.doing = "recover" /\ s.phase = "form" /\ s.row = card
          /\ s.wants = Stages!NoLock
      BY <1>0, <2>1 DEF Stages!Idle, SessionRows, Stages!NoLock
    <2>3. Shape(s, {})
      BY <1>0, <2>2 DEF Shape, Moves, HoldSets
    <2>4. Fits(s, {}, active, at, replacement)
      BY <2>2 DEF Fits
    <2>n. AddsAlone(u, s)
      BY <2>2 DEF AddsAlone
    <2> QED BY <1>1, <1>3, <2>1, <2>2, <2>3, <2>4, <2>n, AsksStep
  <1> QED BY <1>2, <1>3 DEF Stages!OpensCard

LEMMA OpensColumnStep ==
    ASSUME Stages!StagesAssumption, PipeInv, NEW u \in Users, NEW column \in Stages!AllColumns,
           NEW doing \in {"add", "edit", "remove"}, NEW to \in Stages!AllColumns,
           Stages!OpensColumn(u, column, doing, to)
    PROVE  PipeInv'
  <1>0. column \in Stages!Rows /\ to \in Stages!Rows
    BY DEF Stages!Rows
  <1>1. holds[u] = {} /\ UNCHANGED <<Stages!table, holds>>
    BY User, IdleFits DEF Stages!OpensColumn, Shape
  <1>2. PICK goal : goal = IF doing = "remove" THEN to ELSE None
    OBVIOUS
  <1>3. PICK s : s = [Stages!Idle EXCEPT !.doing = doing, !.phase = "form",
                        !.row = column, !.fresh = TRUE, !.to = goal]
    OBVIOUS
  <1>4. session' = [session EXCEPT ![u] = s]
    BY <1>2, <1>3 DEF Stages!OpensColumn
  <1>5. goal \in Stages!Rows \cup {None} /\ (doing = "remove" => goal = to)
    BY <1>0, <1>2
  <1>6. s \in SessionRows /\ s.doing = doing /\ s.phase = "form" /\ s.row = column /\ s.to = goal
        /\ s.wants = Stages!NoLock
    BY <1>0, <1>3, <1>5 DEF Stages!Idle, SessionRows, Stages!NoLock
  <1>7. /\ doing = "add" => column \in Added /\ column \notin active /\ replacement[column] = None
        /\ \A t \in Users : session[t].doing = "add" => session[t].row # column
        /\ doing = "remove" => column \in Columns /\ to # column
    BY DEF Stages!OpensColumn
  <1>8. Shape(s, {})
    BY <1>5, <1>6, <1>7 DEF Shape, Arranges, HoldSets
  <1>9. Fits(s, {}, active, at, replacement)
    BY <1>6, <1>7 DEF Fits, Busy
  <1>n. AddsAlone(u, s)
    BY <1>6, <1>7 DEF AddsAlone
  <1> QED BY <1>1, <1>4, <1>6, <1>7, <1>8, <1>9, <1>n, AsksStep

LEMMA ChecksTargetStep ==
    ASSUME Stages!StagesAssumption, PipeInv, NEW u \in Users, Stages!ChecksTarget(u)
    PROVE  PipeInv'
  <1>0. /\ session[u] \in SessionRows /\ Shape(session[u], holds[u])
        /\ Fits(session[u], holds[u], active, at, replacement)
    BY User
  <1>1. /\ session[u].doing \in {"move", "recover"} /\ session[u].phase = "form"
        /\ Moves(session[u], holds[u]) /\ holds[u] = {}
    BY <1>0 DEF Stages!ChecksTarget, Shape, Moves
  <1>2. PICK to : to = IF session[u].doing = "move" THEN session[u].to
                       ELSE Stages!Resolve(origin[session[u].row])
    OBVIOUS
  <1>3. \A c : Stages!Resolve(c) \in active \cup {Home}
    BY DEF Stages!Resolve
  <1>4. /\ to \in Stages!AllColumns \cup {Bin} /\ (session[u].doing = "recover" => to \in Stages!AllColumns)
        /\ to \in Stages!Rows
        /\ session[u].doing = "move" => to = session[u].to
    BY <1>1, <1>2, <1>3 DEF Moves, PipeInv, TableTyped, Stages!AllColumns, Stages!Rows
  <1>5. CASE Stages!GivesUp(u)
    BY <1>5, GivesUpStep
  <1>6. CASE /\ session' = [session EXCEPT ![u].phase = "card", ![u].to = to,
                                           ![u].wants = <<session[u].row, "X">>]
             /\ UNCHANGED <<Stages!table, holds>>
    <2>1. PICK s : s = [session[u] EXCEPT !.phase = "card", !.to = to,
                                          !.wants = <<session[u].row, "X">>]
      OBVIOUS
    <2>2. session[u].row \in Cards /\ <<session[u].row, "X">> \in Stages!Rows \X {"X", "N", "K"}
      BY <1>1 DEF Moves, Stages!Rows
    <2>3. s \in SessionRows
      BY <1>0, <1>4, <2>1, <2>2 DEF SessionRows
    <2>4. /\ s.doing = session[u].doing /\ s.row = session[u].row /\ s.to = to
          /\ s.fresh = session[u].fresh /\ s.phase = "card" /\ s.wants = <<s.row, "X">>
      BY <1>0, <2>1 DEF SessionRows
    <2>5. session' = [session EXCEPT ![u] = s]
      BY <1>6, <2>1 DEF PipeInv, AllShaped, SessionRows
    <2>6. Shape(s, {})
      BY <1>1, <1>4, <2>2, <2>3, <2>4 DEF Shape, Moves, HoldSets
    <2>7. Fits(s, {}, active, at, replacement)
      BY <1>0, <1>1, <1>4, <2>4 DEF Fits
    <2>n. AddsAlone(u, s)
      BY <1>1, <2>4 DEF AddsAlone
    <2> QED BY <1>1, <1>6, <2>4, <2>5, <2>6, <2>7, <2>n, AsksStep
  <1> QED BY <1>2, <1>5, <1>6 DEF Stages!ChecksTarget

LEMMA AsksColumnStep ==
    ASSUME Stages!StagesAssumption, PipeInv, NEW u \in Users, Stages!AsksColumn(u)
    PROVE  PipeInv'
  <1>0. /\ session[u] \in SessionRows /\ Shape(session[u], holds[u])
        /\ Fits(session[u], holds[u], active, at, replacement)
    BY User
  <1>1. /\ session[u].doing \in {"edit", "remove"} /\ session[u].phase = "form"
        /\ Arranges(session[u], holds[u]) /\ holds[u] = {} /\ session[u].row \in Stages!AllColumns
        /\ UNCHANGED <<Stages!table, holds>>
    BY <1>0 DEF Stages!AsksColumn, Shape, Arranges
  <1>2. PICK s : /\ Asks(u, s, "column", session[u].row, "X", {})
                 /\ session' = [session EXCEPT ![u] = s]
    <2>1. session[u].row \in Stages!Rows /\ "column" \in Phases /\ "X" \in Modes
      BY <1>1 DEF Stages!Rows, Phases, Modes
    <2>2. Stages!Wants(u, "column", session[u].row, "X", {})
      BY DEF Stages!AsksColumn
    <2> QED BY <2>1, <2>2, Asked
  <1>3. Shape(s, {})
    BY <1>1, <1>2 DEF Asks, Shape, Arranges, HoldSets
  <1>4. Fits(s, {}, active, at, replacement)
    BY <1>1, <1>2 DEF Asks, Fits, Busy
  <1>5. AddsAlone(u, s)
    BY <1>1, <1>2 DEF Asks, AddsAlone
  <1>6. session' = [session EXCEPT ![u] = s]
    BY <1>2
  <1> QED BY <1>1, <1>3, <1>4, <1>5, <1>6, AsksStep

\* The order of the columns is written one by one, the first of them now.
LEMMA Ordered ==
    ASSUME PipeInv, NEW u \in Users, NEW columns \in SUBSET Stages!AllColumns, Stages!Reorders(u, columns)
    PROVE  \E c \in columns : \E s :
              /\ Asks(u, s, "order", c, "N", columns \ {c})
              /\ session' = [session EXCEPT ![u] = s]
  <1>1. PICK c \in columns : Stages!Wants(u, "order", c, "N", columns \ {c})
    BY DEF Stages!Reorders
  <1>2. c \in Stages!Rows /\ columns \ {c} \in SUBSET Stages!Rows /\ "order" \in Phases /\ "N" \in Modes
    BY DEF Stages!Rows, Phases, Modes
  <1>3. PICK s : Asks(u, s, "order", c, "N", columns \ {c}) /\ session' = [session EXCEPT ![u] = s]
    BY <1>1, <1>2, Asked
  <1> QED BY <1>3

LEMMA AddsColumnStep ==
    ASSUME Stages!StagesAssumption, PipeInv, NEW u \in Users, Stages!AddsColumn(u)
    PROVE  PipeInv'
  <1>0. /\ session[u] \in SessionRows /\ Shape(session[u], holds[u])
        /\ Fits(session[u], holds[u], active, at, replacement)
        /\ active \in SUBSET Stages!AllColumns
    BY User DEF PipeInv, TableTyped
  <1>1. /\ session[u].doing = "add" /\ session[u].phase = "form"
        /\ Arranges(session[u], holds[u]) /\ holds[u] = {} /\ session[u].row \in Stages!AllColumns
        /\ UNCHANGED <<Stages!table, holds>> /\ Stages!Reorders(u, active)
    BY <1>0 DEF Stages!AddsColumn, Shape, Arranges
  <1>2. PICK c, s : /\ c \in active
                    /\ Asks(u, s, "order", c, "N", active \ {c})
                    /\ session' = [session EXCEPT ![u] = s]
    <2>1. \E c \in active : \E s : /\ Asks(u, s, "order", c, "N", active \ {c})
                                   /\ session' = [session EXCEPT ![u] = s]
      BY <1>0, <1>1, Ordered
    <2> QED BY <2>1, Zenon
  <1>3. Shape(s, {})
    BY <1>0, <1>1, <1>2 DEF Asks, Shape, Arranges, HoldSets
  <1>4. Fits(s, {}, active, at, replacement)
    BY <1>0, <1>1, <1>2 DEF Asks, Fits, Busy
  <1>5. AddsAlone(u, s)
    BY <1>1, <1>2, StillApart DEF Asks, AddsAlone
  <1>6. session' = [session EXCEPT ![u] = s]
    BY <1>2
  <1> QED BY <1>1, <1>3, <1>4, <1>5, <1>6, AsksStep

-----------------------------------------------------------------------------
(* Locks. *)

LEMMA LocksCardStep ==
    ASSUME Stages!StagesAssumption, PipeInv, NEW u \in Users, Stages!LocksCard(u)
    PROVE  PipeInv'
  <1>0. /\ session[u] \in SessionRows /\ Shape(session[u], holds[u])
        /\ Fits(session[u], holds[u], active, at, replacement)
    BY User
  <1>1. /\ session[u].doing \in {"move", "recover"} /\ session[u].phase = "card"
        /\ Stages!Blockers(u) = {} /\ Moves(session[u], holds[u])
    BY <1>0 DEF Stages!LocksCard, Stages!InPhase, Shape
  <1>2. /\ holds[u] = {} /\ session[u].row \in Cards /\ session[u].wants = <<session[u].row, "X">>
        /\ session[u].to \in Stages!AllColumns \cup {Bin}
        /\ session[u].doing = "recover" => session[u].to \in Stages!AllColumns
    BY <1>1 DEF Moves
  <1>3. CASE Stages!GivesUp(u)
    BY <1>3, GivesUpStep
  <1>4. CASE session[u].fresh /\ Stages!Takes(u) /\ Stages!Wants(u, "target", session[u].to, "K", {})
             /\ UNCHANGED Stages!table
    <2>1. session[u].wants \in Stages!Rows \X Modes /\ session[u].to \in Stages!Rows
          /\ "target" \in Phases /\ "K" \in Modes
      BY <1>2 DEF Stages!Rows, Modes, Phases
    <2>2. PICK h \in HoldSets :
              /\ h = holds[u] \cup {session[u].wants} /\ holds' = [holds EXCEPT ![u] = h]
              /\ FreeOf(u, h)
      BY <1>1, <1>4, <2>1, Taken
    <2>3. PICK s : Asks(u, s, "target", session[u].to, "K", {}) /\ session' = [session EXCEPT ![u] = s]
      BY <1>4, <2>1, Asked
    <2>4. h = {<<session[u].row, "X">>}
      BY <1>2, <2>2
    <2>5. Shape(s, h)
      BY <1>1, <1>2, <2>2, <2>3, <2>4 DEF Asks, Shape, Moves
    <2>6. Fits(s, h, active, at, replacement)
      BY <1>0, <1>1, <1>4, <2>3 DEF Asks, Fits
    <2>7. AddsAlone(u, s)
      BY <1>1, <2>3 DEF Asks, AddsAlone
    <2> QED BY <1>4, <2>2, <2>3, <2>5, <2>6, <2>7, OwnStep
  <1> QED BY <1>3, <1>4 DEF Stages!LocksCard

\* A commit that changes no table.
LEMMA PlainCommit ==
    ASSUME PipeInv, NEW u \in Users, NEW written, Stages!Commits(u, written), UNCHANGED Stages!table
    PROVE  PipeInv'
  <1>1. UNCHANGED <<active, replacement, at, origin>>
    BY DEF Stages!table
  <1>2. TableTyped'
    BY <1>1 DEF PipeInv, TableTyped
  <1>3. ASSUME NEW t \in Users \ {u}
        PROVE  Fits(session'[t], holds[t], active', at', replacement')
    <2>1. Fits(session[t], holds[t], active, at, replacement)
      BY DEF PipeInv, AllFit
    <2> QED BY <1>1, <2>1, FitsAfter
  <1> QED BY <1>2, <1>3, EndStep

LEMMA LocksColumnStep ==
    ASSUME Stages!StagesAssumption, PipeInv, NEW u \in Users, Stages!LocksColumn(u)
    PROVE  PipeInv'
  <1>0. /\ session[u] \in SessionRows /\ Shape(session[u], holds[u])
        /\ Fits(session[u], holds[u], active, at, replacement)
        /\ active \in SUBSET Stages!AllColumns /\ session \in [Users -> SessionRows]
    BY User DEF PipeInv, TableTyped, AllShaped
  <1>1. /\ session[u].doing \in {"edit", "remove"} /\ session[u].phase = "column"
        /\ Stages!Blockers(u) = {} /\ Arranges(session[u], holds[u])
    BY <1>0 DEF Stages!LocksColumn, Stages!InPhase, Shape
  <1>2. /\ holds[u] = {} /\ session[u].row \in Stages!AllColumns
        /\ session[u].wants = <<session[u].row, "X">>
        /\ session[u].doing = "remove" => session[u].row \in Columns
                                          /\ session[u].to \in Stages!AllColumns \ {session[u].row}
    BY <1>1 DEF Arranges
  <1>3. CASE Stages!GivesUp(u)
    BY <1>3, GivesUpStep
  <1>4. CASE Stages!Commits(u, {session[u].row}) /\ UNCHANGED Stages!table
    BY <1>4, PlainCommit
  <1>a. ASSUME Stages!Takes(u)
        PROVE  \E h \in HoldSets :
                  /\ h = {<<session[u].row, "X">>} /\ holds' = [holds EXCEPT ![u] = h]
                  /\ FreeOf(u, h)
    <2>1. session[u].wants \in Stages!Rows \X Modes
      BY <1>2 DEF Stages!Rows, Modes
    <2>2. holds[u] \cup {session[u].wants} = {<<session[u].row, "X">>}
      BY <1>2
    <2> QED BY <1>1, <1>a, <2>1, <2>2, Taken
  <1>5. CASE /\ session[u].doing = "edit" /\ session[u].row \in Columns
             /\ Stages!Takes(u) /\ Stages!Reorders(u, active) /\ UNCHANGED Stages!table
    <2>1. PICK h \in HoldSets :
              /\ h = {<<session[u].row, "X">>} /\ holds' = [holds EXCEPT ![u] = h]
              /\ FreeOf(u, h)
      BY <1>5, <1>a
    <2>2. PICK c, s : /\ c \in active
                      /\ Asks(u, s, "order", c, "N", active \ {c})
                      /\ session' = [session EXCEPT ![u] = s]
      BY <1>0, <1>5, Ordered
    <2>3. s.wants \in Stages!AllColumns \X {"N"} /\ s.left \subseteq Stages!AllColumns
          /\ h \subseteq Stages!AllColumns \X {"X", "N", "K"}
      BY <1>0, <1>2, <2>1, <2>2 DEF Asks
    <2>4. Shape(s, h)
      BY <1>2, <1>5, <2>1, <2>2, <2>3 DEF Asks, Shape, Arranges
    <2>5. Fits(s, h, active, at, replacement) 
      BY <1>5, <2>2 DEF Asks, Fits, Busy
    <2>6. AddsAlone(u, s)
      BY <1>5, <2>2 DEF Asks, AddsAlone
    <2> QED BY <1>5, <2>1, <2>2, <2>4, <2>5, <2>6, OwnStep
  <1>6. CASE /\ session[u].doing = "remove" /\ session[u].row \in active /\ Stages!Takes(u)
             /\ session' = [session EXCEPT ![u].phase = "checked", ![u].wants = Stages!NoLock]
             /\ UNCHANGED Stages!table
    <2>1. PICK h \in HoldSets :
              /\ h = {<<session[u].row, "X">>} /\ holds' = [holds EXCEPT ![u] = h]
              /\ FreeOf(u, h)
      BY <1>6, <1>a
    <2>2. PICK s : s = [session[u] EXCEPT !.phase = "checked", !.wants = Stages!NoLock]
      OBVIOUS
    <2>3. session' = [session EXCEPT ![u] = s]
      BY <1>0, <1>6, <2>2 DEF SessionRows
    <2>4. /\ s \in SessionRows /\ s.doing = "remove" /\ s.phase = "checked"
          /\ s.row = session[u].row /\ s.to = session[u].to /\ s.wants = Stages!NoLock
      BY <1>0, <1>6, <2>2 DEF SessionRows
    <2>5. Shape(s, h)
      BY <1>2, <1>6, <2>1, <2>4 DEF Shape, Arranges
    <2>6. Fits(s, h, active, at, replacement)
      BY <1>6, <2>4 DEF Fits, Busy
    <2>7. AddsAlone(u, s)
      BY <2>4 DEF AddsAlone
    <2> QED BY <1>6, <2>1, <2>3, <2>4, <2>5, <2>6, <2>7, OwnStep
  <1> QED BY <1>1, <1>3, <1>4, <1>5, <1>6 DEF Stages!LocksColumn

\* Cards are locked one by one, then the destination is asked for.
LEMMA CardsAsked ==
    ASSUME PipeInv, NEW u \in Users, NEW cards \in SUBSET Cards, Stages!AsksCards(u, cards),
           session[u].to \in Stages!AllColumns
    PROVE  \/ /\ cards = {}
              /\ \E s : /\ Asks(u, s, "replacement", session[u].to, "K", {})
                        /\ session' = [session EXCEPT ![u] = s]
           \/ \E k \in cards : \E s :
                 /\ Asks(u, s, "cards", k, "X", cards \ {k})
                 /\ session' = [session EXCEPT ![u] = s]
  <1>1. CASE cards = {}
    <2>1. Stages!Wants(u, "replacement", session[u].to, "K", {})
      BY <1>1 DEF Stages!AsksCards
    <2>2. session[u].to \in Stages!Rows /\ "replacement" \in Phases /\ "K" \in Modes
      BY DEF Stages!Rows, Phases, Modes
    <2>3. PICK s : /\ Asks(u, s, "replacement", session[u].to, "K", {})
                   /\ session' = [session EXCEPT ![u] = s]
      BY <2>1, <2>2, Asked
    <2> QED BY <1>1, <2>3
  <1>2. CASE cards # {}
    <2>1. PICK k \in cards : Stages!Wants(u, "cards", k, "X", cards \ {k})
      BY <1>2 DEF Stages!AsksCards
    <2>2. k \in Stages!Rows /\ cards \ {k} \in SUBSET Stages!Rows /\ "cards" \in Phases /\ "X" \in Modes
      BY DEF Stages!Rows, Phases, Modes
    <2>3. PICK s : Asks(u, s, "cards", k, "X", cards \ {k}) /\ session' = [session EXCEPT ![u] = s]
      BY <2>1, <2>2, Asked
    <2> QED BY <2>3
  <1> QED BY <1>1, <1>2

\* The removal that asks for cards, having locked what it holds.
LEMMA CardsFit ==
    ASSUME PipeInv, NEW u \in Users, NEW h \in HoldSets, NEW s, NEW cards \in SUBSET Cards,
           session[u].doing = "remove", session[u].row \in Columns \cap active,
           session[u].to \in active \ {session[u].row}, active \subseteq Stages!AllColumns,
           <<session[u].row, "X">> \in h,
           \A k \in Cards : at[k] = session[u].row => <<k, "X">> \in h \/ k \in cards,
           \/ cards = {} /\ Asks(u, s, "replacement", session[u].to, "K", {})
           \/ \E k \in cards : Asks(u, s, "cards", k, "X", cards \ {k})
    PROVE  Shape(s, h) /\ Fits(s, h, active, at, replacement) /\ AddsAlone(u, s)
  <1>1. CASE cards = {} /\ Asks(u, s, "replacement", session[u].to, "K", {})
    <2>1. Shape(s, h)
      BY <1>1 DEF Asks, Shape, Arranges, Stages!AllColumns
    <2> QED BY <1>1, <2>1 DEF Asks, Fits, Busy, AddsAlone
  <1>2. CASE \E k \in cards : Asks(u, s, "cards", k, "X", cards \ {k})
    <2>1. PICK k \in cards : Asks(u, s, "cards", k, "X", cards \ {k})
      BY <1>2
    <2>2. s.wants \in Cards \X {"X"} /\ s.left \subseteq Cards /\ s.wants[1] = k
      BY <2>1 DEF Asks
    <2>3. Shape(s, h)
      BY <2>1, <2>2 DEF Asks, Shape, Arranges, Stages!AllColumns
    <2> QED BY <2>1, <2>2, <2>3 DEF Asks, Fits, Busy, AddsAlone
  <1> QED BY <1>1, <1>2

LEMMA ChecksReplacementStep ==
    ASSUME Stages!StagesAssumption, PipeInv, NEW u \in Users, Stages!ChecksReplacement(u)
    PROVE  PipeInv'
  <1>0. /\ session[u] \in SessionRows /\ Shape(session[u], holds[u]) /\ holds[u] \in HoldSets
        /\ Fits(session[u], holds[u], active, at, replacement)
        /\ active \subseteq Stages!AllColumns
    BY User DEF PipeInv, TableTyped
  <1>1. /\ session[u].doing = "remove" /\ session[u].phase = "checked"
        /\ Arranges(session[u], holds[u])
    BY <1>0 DEF Stages!ChecksReplacement, Stages!InPhase, Shape
  <1>2. /\ session[u].row \in Columns \cap active /\ session[u].to \in Stages!AllColumns \ {session[u].row}
        /\ <<session[u].row, "X">> \in holds[u]
    BY <1>0, <1>1 DEF Arranges, Fits
  <1>3. CASE Stages!GivesUp(u)
    BY <1>3, GivesUpStep
  <1>4. CASE /\ session[u].to \in active
             /\ Stages!AsksCards(u, {k \in Cards : at[k] = session[u].row})
             /\ UNCHANGED <<Stages!table, holds>>
    <2>1. PICK cards : cards = {k \in Cards : at[k] = session[u].row}
      OBVIOUS
    <2>2. cards \in SUBSET Cards /\ Stages!AsksCards(u, cards)
      BY <1>4, <2>1
    <2>3. PICK s : /\ session' = [session EXCEPT ![u] = s]
                   /\ \/ cards = {} /\ Asks(u, s, "replacement", session[u].to, "K", {})
                      \/ \E k \in cards : Asks(u, s, "cards", k, "X", cards \ {k})
      BY <1>2, <2>2, CardsAsked
    <2>4. \A k \in Cards : at[k] = session[u].row => <<k, "X">> \in holds[u] \/ k \in cards
      BY <2>1
    <2>5. Shape(s, holds[u]) /\ Fits(s, holds[u], active, at, replacement) /\ AddsAlone(u, s)
      BY <1>0, <1>1, <1>2, <1>4, <2>2, <2>3, <2>4, CardsFit
    <2> QED BY <1>4, <2>3, <2>5, AsksStep
  <1> QED BY <1>3, <1>4 DEF Stages!ChecksReplacement

LEMMA LocksCardsStep ==
    ASSUME Stages!StagesAssumption, PipeInv, NEW u \in Users, Stages!LocksCards(u)
    PROVE  PipeInv'
  <1>0. /\ session[u] \in SessionRows /\ Shape(session[u], holds[u]) /\ holds[u] \in HoldSets
        /\ Fits(session[u], holds[u], active, at, replacement)
        /\ active \subseteq Stages!AllColumns
    BY User DEF PipeInv, TableTyped
  <1>1. /\ session[u].doing = "remove" /\ session[u].phase = "cards" /\ Stages!Blockers(u) = {}
        /\ Arranges(session[u], holds[u]) /\ Stages!Takes(u) /\ Stages!AsksCards(u, session[u].left)
        /\ UNCHANGED Stages!table
    BY <1>0 DEF Stages!LocksCards, Stages!InPhase, Shape
  <1>2. /\ session[u].row \in Columns \cap active /\ session[u].to \in active \ {session[u].row}
        /\ session[u].to \in Stages!AllColumns
        /\ <<session[u].row, "X">> \in holds[u] /\ session[u].left \in SUBSET Cards
        /\ session[u].wants \in Cards \X {"X"}
        /\ \A k \in Cards : at[k] = session[u].row =>
              \/ <<k, "X">> \in holds[u]
              \/ k = session[u].wants[1] \/ k \in session[u].left
    BY <1>0, <1>1 DEF Arranges, Fits, Busy
  <1>3. session[u].wants \in Stages!Rows \X Modes
    BY <1>2 DEF Stages!Rows, Modes
  <1>4. PICK h \in HoldSets :
              /\ h = holds[u] \cup {session[u].wants} /\ holds' = [holds EXCEPT ![u] = h]
              /\ FreeOf(u, h)
    BY <1>1, <1>3, Taken
  <1>5. PICK s : /\ session' = [session EXCEPT ![u] = s]
                 /\ \/ session[u].left = {} /\ Asks(u, s, "replacement", session[u].to, "K", {})
                    \/ \E k \in session[u].left : Asks(u, s, "cards", k, "X", session[u].left \ {k})
    BY <1>1, <1>2, CardsAsked
  <1>6. session[u].wants = <<session[u].wants[1], "X">>
    BY <1>2
  <1>7. \A k \in Cards : at[k] = session[u].row => <<k, "X">> \in h \/ k \in session[u].left
    BY <1>2, <1>4, <1>6
  <1>8. <<session[u].row, "X">> \in h
    BY <1>2, <1>4
  <1>9. Shape(s, h) /\ Fits(s, h, active, at, replacement) /\ AddsAlone(u, s)
    BY <1>0, <1>1, <1>2, <1>5, <1>7, <1>8, CardsFit
  <1> QED BY <1>1, <1>4, <1>5, <1>9, OwnStep

LEMMA SharesReplacementStep ==
    ASSUME Stages!StagesAssumption, PipeInv, NEW u \in Users, Stages!SharesReplacement(u)
    PROVE  PipeInv'
  <1>0. /\ session[u] \in SessionRows /\ Shape(session[u], holds[u]) /\ holds[u] \in HoldSets
        /\ Fits(session[u], holds[u], active, at, replacement)
        /\ active \subseteq Stages!AllColumns
    BY User DEF PipeInv, TableTyped
  <1>1. /\ session[u].doing = "remove" /\ session[u].phase = "replacement" /\ Stages!Blockers(u) = {}
        /\ Arranges(session[u], holds[u]) /\ Stages!Takes(u) /\ Stages!Reorders(u, active \ {session[u].row})
        /\ UNCHANGED Stages!table
    BY <1>0 DEF Stages!SharesReplacement, Stages!InPhase, Shape
  <1>2. /\ session[u].row \in Columns \cap active /\ session[u].to \in active \ {session[u].row}
        /\ session[u].to \in Stages!AllColumns
        /\ <<session[u].row, "X">> \in holds[u] /\ session[u].wants = <<session[u].to, "K">>
        /\ \A k \in Cards : at[k] = session[u].row => <<k, "X">> \in holds[u]
    BY <1>0, <1>1 DEF Arranges, Fits, Busy
  <1>3. session[u].wants \in Stages!Rows \X Modes
    BY <1>2 DEF Stages!Rows, Modes
  <1>4. PICK h \in HoldSets :
              /\ h = holds[u] \cup {session[u].wants} /\ holds' = [holds EXCEPT ![u] = h]
              /\ FreeOf(u, h)
    BY <1>1, <1>3, Taken
  <1>5. PICK rest \in SUBSET Stages!AllColumns : rest = active \ {session[u].row}
    BY <1>0
  <1>6. PICK c, s : /\ c \in rest
                    /\ Asks(u, s, "order", c, "N", rest \ {c})
                    /\ session' = [session EXCEPT ![u] = s]
    <2>1. \E c \in rest : \E s : /\ Asks(u, s, "order", c, "N", rest \ {c})
                                 /\ session' = [session EXCEPT ![u] = s]
      BY <1>1, <1>5, Ordered
    <2> QED BY <2>1, Zenon
  <1>7. s.wants \in Stages!AllColumns \X {"N"} /\ s.left \subseteq Stages!AllColumns /\ s.wants[1] = c
    BY <1>5, <1>6 DEF Asks
  <1>8. Shape(s, h)
    BY <1>0, <1>1, <1>2, <1>4, <1>6, <1>7 DEF Asks, Shape, Arranges, Stages!AllColumns
  <1>9. Fits(s, h, active, at, replacement) /\ AddsAlone(u, s)
    BY <1>1, <1>2, <1>4, <1>5, <1>6, <1>7 DEF Asks, Fits, Busy, AddsAlone
  <1> QED BY <1>1, <1>4, <1>6, <1>8, <1>9, OwnStep

LEMMA OrderStep ==
    ASSUME Stages!StagesAssumption, PipeInv, NEW u \in Users,
           Stages!InPhase(u, {"edit", "add", "remove"}, "order"),
           Stages!Takes(u), Stages!Reorders(u, session[u].left), UNCHANGED Stages!table
    PROVE  PipeInv'
  <1>0. /\ session[u] \in SessionRows /\ Shape(session[u], holds[u]) /\ holds[u] \in HoldSets
        /\ Fits(session[u], holds[u], active, at, replacement)
        /\ active \subseteq Stages!AllColumns
    BY User DEF PipeInv, TableTyped
  <1>1. /\ session[u].doing \in {"edit", "add", "remove"} /\ session[u].phase = "order"
        /\ Stages!Blockers(u) = {} /\ Arranges(session[u], holds[u])
    BY <1>0 DEF Stages!InPhase, Shape
  <1>2. session[u].wants \in Stages!AllColumns \X {"N"} /\ session[u].left \in SUBSET Stages!AllColumns
    BY <1>1 DEF Arranges
  <1>3. session[u].wants \in Stages!Rows \X Modes
    BY <1>2 DEF Stages!Rows, Modes
  <1>4. PICK h \in HoldSets :
              /\ h = holds[u] \cup {session[u].wants} /\ holds' = [holds EXCEPT ![u] = h]
              /\ FreeOf(u, h)
    BY <1>1, <1>3, Taken
  <1>5. PICK c, s : /\ c \in session[u].left
                    /\ Asks(u, s, "order", c, "N", session[u].left \ {c})
                    /\ session' = [session EXCEPT ![u] = s]
    BY <1>2, Ordered
  <1>6. s.wants \in Stages!AllColumns \X {"N"} /\ s.left \subseteq Stages!AllColumns /\ s.wants[1] = c
    BY <1>2, <1>5 DEF Asks
  <1>7. session[u].wants = <<session[u].wants[1], "N">>
        /\ session[u].wants \in Stages!AllColumns \X {"X", "N", "K"}
    BY <1>2
  <1>8. Shape(s, h)
    <2>1. Arranges(s, h)
      BY <1>1, <1>4, <1>5, <1>6, <1>7 DEF Asks, Arranges
    <2> QED BY <1>1, <1>5, <2>1 DEF Asks, Shape
  <1>9. Fits(s, h, active, at, replacement)
    BY <1>0, <1>1, <1>4, <1>5, <1>6, <1>7 DEF Asks, Fits, Busy
  <1>10. AddsAlone(u, s)
    BY <1>5, StillApart DEF Asks, AddsAlone
  <1> QED BY <1>4, <1>5, <1>8, <1>9, <1>10, OwnStep

-----------------------------------------------------------------------------
(* Commits. *)

LEMMA EntersColumnStep ==
    ASSUME Stages!StagesAssumption, PipeInv, NEW u \in Users, Stages!EntersColumn(u)
    PROVE  PipeInv'
  <1>0. /\ session[u] \in SessionRows /\ Shape(session[u], holds[u])
        /\ Fits(session[u], holds[u], active, at, replacement)
    BY User
  <1>1. /\ session[u].doing \in {"move", "recover"} /\ session[u].phase = "target"
        /\ Stages!Blockers(u) = {} /\ Moves(session[u], holds[u])
    BY <1>0 DEF Stages!EntersColumn, Stages!InPhase, Shape
  <1>2. PICK card, to : card = session[u].row /\ to = session[u].to
    OBVIOUS
  <1>3. /\ card \in Cards /\ to \in Stages!AllColumns \cup {Bin}
        /\ holds[u] = {<<card, "X">>} /\ session[u].wants = <<to, "K">>
        /\ to = Bin => at[card] # Bin
    BY <1>0, <1>1, <1>2, Names DEF Moves, Fits
  <1>4. PICK from : from = IF to = Bin THEN at[card] ELSE origin[card]
    OBVIOUS
  <1>5. /\ at' = [at EXCEPT ![card] = to] /\ origin' = [origin EXCEPT ![card] = from]
        /\ Stages!Commits(u, {card}) /\ UNCHANGED <<active, replacement>>
    BY <1>2, <1>4 DEF Stages!EntersColumn, PipeInv, TableTyped
  <1>6. from \in Stages!AllColumns
    BY <1>3, <1>4 DEF PipeInv, TableTyped
  <1>7. TableTyped'
    BY <1>3, <1>5, <1>6 DEF PipeInv, TableTyped
  <1>8. ASSUME NEW t \in Users \ {u}
        PROVE  Fits(session'[t], holds[t], active', at', replacement')
    <2>1. /\ session'[t].doing = session[t].doing /\ session'[t].phase = session[t].phase
          /\ session'[t].row = session[t].row /\ session'[t].to = session[t].to
          /\ session'[t].left = session[t].left /\ session'[t].wants = session[t].wants
          /\ session'[t].fresh => session[t].fresh /\ session[t].row # card
      BY <1>5, OthersAfter
    <2>2. /\ Shape(session[t], holds[t])
          /\ Fits(session[t], holds[t], active, at, replacement)
      BY User
    <2>3. ASSUME session[t].doing = "move", session'[t].fresh \/ session[t].phase = "target",
                 session[t].to = Bin
          PROVE  at'[session[t].row] # Bin
      <3>1. Moves(session[t], holds[t])
        BY <2>2, <2>3 DEF Shape
      <3>2. session[t].row # card
        <4>1. CASE session'[t].fresh
          BY <2>1, <4>1
        <4>2. CASE session[t].phase = "target"
          <5>1. <<session[t].row, "X">> \in holds[t] /\ <<card, "X">> \in holds[u]
            BY <1>3, <3>1, <4>2 DEF Moves
          <5> QED BY <5>1 DEF PipeInv, LocksApart, Stages!Excludes
        <4> QED BY <2>3, <4>1, <4>2
      <3>3. at[session[t].row] # Bin
        BY <2>1, <2>2, <2>3 DEF Fits
      <3> QED BY <1>5, <3>1, <3>2, <3>3 DEF Moves, PipeInv, TableTyped
    <2>4. ASSUME session[t].doing = "remove", session[t].phase \in Busy, NEW k \in Cards,
                 at'[k] = session[t].row
          PROVE  at[k] = session[t].row
      <3>1. <<session[t].row, "X">> \in holds[t]
        BY <2>2, <2>4 DEF Shape, Arranges, Busy
      <3>2. session[t].row # to
        BY <1>1, <1>3, <3>1, Free DEF Stages!Excludes
      <3> QED BY <1>3, <1>5, <2>4, <3>2 DEF PipeInv, TableTyped
    <2> QED BY <1>5, <2>1, <2>2, <2>3, <2>4 DEF Fits
  <1> QED BY <1>5, <1>7, <1>8, EndStep

\* Whoever has ordered the columns is alone: nobody else has one of them locked.
LEMMA NobodyElseRemoves ==
    ASSUME Stages!StagesAssumption, PipeInv, NEW u \in Users, NEW t \in Users \ {u},
           session[u].doing \in {"add", "remove"}, session[u].phase = "order",
           session[u].left = {}, Stages!Blockers(u) = {},
           session[t].doing = "remove", session[t].phase \in Busy \cup {"checked"}
    PROVE  FALSE
  <1>1. /\ Shape(session[u], holds[u]) /\ Shape(session[t], holds[t])
        /\ Fits(session[u], holds[u], active, at, replacement)
        /\ Fits(session[t], holds[t], active, at, replacement)
    BY User
  <1>2. /\ <<session[t].row, "X">> \in holds[t] /\ session[t].row \in active
    BY <1>1 DEF Shape, Arranges, Fits, Busy
  <1>3. session[t].row # session[u].row
    <2>1. CASE session[u].doing = "add"
      BY <1>1, <1>2, <2>1 DEF Fits
    <2>2. CASE session[u].doing = "remove"
      <3>1. <<session[u].row, "X">> \in holds[u]
        BY <1>1, <2>2 DEF Shape, Arranges
      <3> QED BY <1>2, <3>1 DEF PipeInv, LocksApart, Stages!Excludes
    <2> QED BY <2>1, <2>2
  <1>4. <<session[t].row, "N">> \in holds[u] \/ session[t].row = session[u].wants[1]
    BY <1>1, <1>2, <1>3 DEF Fits
  <1>5. CASE <<session[t].row, "N">> \in holds[u]
    BY <1>2, <1>5 DEF PipeInv, LocksApart, Stages!Excludes
  <1>6. CASE session[t].row = session[u].wants[1]
    BY <1>2, <1>6, Free DEF Stages!Excludes
  <1> QED BY <1>4, <1>5, <1>6

LEMMA RemovesStep ==
    ASSUME Stages!StagesAssumption, PipeInv, NEW u \in Users,
           Stages!InPhase(u, {"edit", "add", "remove"}, "order"), session[u].left = {},
           Stages!Removes(u)
    PROVE  PipeInv'
  <1>0. /\ Shape(session[u], holds[u])
        /\ Fits(session[u], holds[u], active, at, replacement)
    BY User
  <1>1. /\ session[u].doing = "remove" /\ session[u].phase = "order" /\ Stages!Blockers(u) = {}
        /\ Arranges(session[u], holds[u])
    BY <1>0 DEF Stages!Removes, Stages!InPhase, Shape
  <1>2. PICK row, to, moved : row = session[u].row /\ to = session[u].to /\ moved = Stages!MovedCards(u)
    OBVIOUS
  <1>3. /\ row \in Columns \cap active /\ to \in Stages!AllColumns \ {row} /\ to \in active
    BY <1>0, <1>1, <1>2 DEF Arranges, Fits, Busy
  <1>4. /\ active' = active \ {row} /\ replacement' = [replacement EXCEPT ![row] = to]
        /\ at' = [k \in Cards |-> IF k \in moved THEN to ELSE at[k]]
        /\ UNCHANGED origin /\ Stages!Commits(u, moved \cup {row})
    BY <1>2 DEF Stages!Removes
  <1>5. TableTyped'
    BY <1>3, <1>4, Names DEF PipeInv, TableTyped
  <1>6. ASSUME NEW t \in Users \ {u}
        PROVE  Fits(session'[t], holds[t], active', at', replacement')
    <2>1. /\ session'[t].doing = session[t].doing /\ session'[t].phase = session[t].phase
          /\ session'[t].row = session[t].row /\ session'[t].to = session[t].to
          /\ session'[t].left = session[t].left /\ session'[t].wants = session[t].wants
          /\ session'[t].fresh => session[t].fresh
      BY <1>4, OthersAfter
    <2>2. /\ Shape(session[t], holds[t])
          /\ Fits(session[t], holds[t], active, at, replacement)
      BY User
    <2>3. ~(session[t].doing = "remove" /\ session[t].phase \in Busy \cup {"checked"})
      BY <1>1, NobodyElseRemoves
    <2>4. ASSUME session[t].doing = "move", session'[t].fresh \/ session[t].phase = "target",
                 session[t].to = Bin
          PROVE  at'[session[t].row] # Bin
      <3>1. session[t].row \in Cards /\ at[session[t].row] # Bin
        BY <2>1, <2>2, <2>4 DEF Shape, Moves, Fits
      <3> QED BY <1>3, <1>4, <3>1, Names
    <2>5. ASSUME session[t].doing = "add"
          PROVE  /\ session[t].row \in Added /\ session[t].row \notin active'
                 /\ replacement'[session[t].row] = None
      <3>1. /\ session[t].row \in Added /\ session[t].row \notin active
            /\ replacement[session[t].row] = None
        BY <2>2, <2>5 DEF Fits
      <3> QED BY <1>3, <1>4, <3>1, Names DEF PipeInv, TableTyped
    <2>6. ASSUME session[t].doing = "add", session[t].phase = "order",
                 NEW c \in active' \ {session[t].row}
          PROVE  <<c, "N">> \in holds[t] \/ c = session[t].wants[1] \/ c \in session[t].left
      BY <1>4, <2>2, <2>6 DEF Fits
    <2> QED BY <2>1, <2>3, <2>4, <2>5, <2>6 DEF Fits, Busy
  <1> QED BY <1>4, <1>5, <1>6, EndStep

LEMMA AddsStep ==
    ASSUME Stages!StagesAssumption, AddsApart, PipeInv, NEW u \in Users,
           Stages!InPhase(u, {"edit", "add", "remove"}, "order"), session[u].left = {},
           Stages!Adds(u)
    PROVE  PipeInv'
  <1>0. /\ Shape(session[u], holds[u])
        /\ Fits(session[u], holds[u], active, at, replacement)
    BY User
  <1>1. /\ session[u].doing = "add" /\ session[u].phase = "order" /\ Stages!Blockers(u) = {}
    BY DEF Stages!Adds, Stages!InPhase
  <1>2. PICK row : row = session[u].row
    OBVIOUS
  <1>3. row \in Added /\ row \notin active /\ replacement[row] = None /\ row \in Columns
    BY <1>0, <1>1, <1>2, Names DEF Fits
  <1>4. /\ active' = active \cup {row} /\ UNCHANGED <<replacement, at, origin>>
        /\ Stages!Commits(u, {})
    BY <1>2 DEF Stages!Adds
  <1>5. TableTyped'
    BY <1>3, <1>4 DEF PipeInv, TableTyped, Stages!AllColumns
  <1>6. ASSUME NEW t \in Users \ {u}
        PROVE  Fits(session'[t], holds[t], active', at', replacement')
    <2>1. Fits(session[t], holds[t], active, at, replacement)
      BY User
    <2>2. ~(session[t].doing = "remove" /\ session[t].phase \in Busy \cup {"checked"})
      BY <1>1, NobodyElseRemoves
    <2>3. session[t].doing = "add" => session[t].phase # "order" /\ session[t].row # row
      BY <1>1, <1>2 DEF AddsApart, PipeInv, AddersApart
    <2>4. Fits(session[t], holds[t], active', at', replacement')
      BY <1>4, <2>1, <2>2, <2>3 DEF Fits, Busy
    <2> QED BY <1>4, <2>4, FitsAfter
  <1> QED BY <1>4, <1>5, <1>6, EndStep

LEMMA PipeStep ==
    ASSUME Stages!StagesAssumption, AddsApart, PipeInv, [Stages!Next]_(Stages!vars)
    PROVE  PipeInv'
  <1>1. CASE UNCHANGED Stages!vars
    <2>1. UNCHANGED <<active, replacement, at, origin, session, holds>>
      BY <1>1 DEF Stages!vars
    <2> QED BY <2>1 DEF PipeInv, TableTyped, AllShaped, AllFit, LocksApart, AddersApart
  <1>2. CASE Stages!Next
    <2>1. PICK u \in Users : Stages!Step(u)
      BY <1>2 DEF Stages!Next
    <2>2. CASE Stages!Begins(u)
      BY <2>2, OpensCardStep, OpensColumnStep DEF Stages!Begins
    <2>3. CASE Stages!ChecksTarget(u) \/ Stages!AsksColumn(u) \/ Stages!AddsColumn(u)
      BY <2>3, ChecksTargetStep, AsksColumnStep, AddsColumnStep
    <2>4. CASE Stages!LocksCard(u) \/ Stages!EntersColumn(u) \/ Stages!LocksColumn(u)
      BY <2>4, LocksCardStep, EntersColumnStep, LocksColumnStep
    <2>5. CASE Stages!ChecksReplacement(u) \/ Stages!LocksCards(u) \/ Stages!SharesReplacement(u)
      BY <2>5, ChecksReplacementStep, LocksCardsStep, SharesReplacementStep
    <2>6. CASE Stages!SetsOrder(u)
      <3>1. Stages!InPhase(u, {"edit", "add", "remove"}, "order")
        BY <2>6 DEF Stages!SetsOrder
      <3>2. CASE Stages!Takes(u) /\ Stages!Reorders(u, session[u].left) /\ UNCHANGED Stages!table
        BY <3>1, <3>2, OrderStep
      <3>3. CASE session[u].left = {} /\ Stages!Removes(u)
        BY <3>1, <3>3, RemovesStep
      <3>4. CASE session[u].left = {} /\ Stages!Adds(u)
        BY <3>1, <3>4, AddsStep
      <3>5. CASE Stages!Edits(u)
        BY <3>5, PlainCommit DEF Stages!Edits
      <3> QED BY <2>6, <3>2, <3>3, <3>4, <3>5 DEF Stages!SetsOrder
    <2>7. CASE Stages!IsRolledBack(u)
      BY <2>7, GivesUpStep DEF Stages!IsRolledBack
    <2> QED BY <2>1, <2>2, <2>3, <2>4, <2>5, <2>6, <2>7 DEF Stages!Step, Stages!Advances
  <1> QED BY <1>1, <1>2

LEMMA PipeAlways ==
    ASSUME Stages!StagesAssumption PROVE Stages!Spec /\ []AddsApart => []PipeInv
  BY PipeInit, PipeStep, PTL DEF Stages!Spec

\* Where no more than one column is ever added, creations never overlap.
THEOREM OneNewColumnIsAddedAlone ==
    ASSUME Stages!StagesAssumption, \A c, d \in Added : c = d
    PROVE  Stages!Spec => []AddsApart
  <1>1. PipeInv => AddsApart
    <2> SUFFICES ASSUME PipeInv, NEW u \in Users, NEW t \in Users,
                        session[u].doing = "add", session[t].doing = "add"
                 PROVE  u = t
      BY DEF AddsApart
    <2>1. session[u].row \in Added /\ session[t].row \in Added
      BY User DEF Fits
    <2> QED BY <2>1 DEF PipeInv, AddersApart
  <1> QED BY <1>1, PipeInit, PipeStep, PTL DEF Stages!Spec

-----------------------------------------------------------------------------
(* What follows. *)

\* A column only goes when its removal commits.
LEMMA ColumnsStay ==
    ASSUME NEW u \in Users, Stages!Step(u), ~(Stages!SetsOrder(u) /\ session[u].left = {} /\ Stages!Removes(u))
    PROVE  active \subseteq active' /\ UNCHANGED replacement
  <1>1. CASE Stages!Begins(u) \/ Stages!ChecksTarget(u) \/ Stages!AsksColumn(u) \/ Stages!AddsColumn(u)
    BY <1>1 DEF Stages!Begins, Stages!OpensCard, Stages!OpensColumn, Stages!ChecksTarget,
       Stages!AsksColumn, Stages!AddsColumn, Stages!GivesUp, Stages!table
  <1>2. CASE Stages!LocksCard(u) \/ Stages!EntersColumn(u) \/ Stages!LocksColumn(u)
    BY <1>2 DEF Stages!LocksCard, Stages!EntersColumn, Stages!LocksColumn, Stages!GivesUp,
       Stages!table
  <1>3. CASE Stages!ChecksReplacement(u) \/ Stages!LocksCards(u) \/ Stages!SharesReplacement(u)
    BY <1>3 DEF Stages!ChecksReplacement, Stages!LocksCards, Stages!SharesReplacement,
       Stages!GivesUp, Stages!table
  <1>4. CASE Stages!SetsOrder(u)
    BY <1>4 DEF Stages!SetsOrder, Stages!Adds, Stages!Edits, Stages!table
  <1>5. CASE Stages!IsRolledBack(u)
    BY <1>5 DEF Stages!IsRolledBack, Stages!GivesUp, Stages!table
  <1> QED BY <1>1, <1>2, <1>3, <1>4, <1>5 DEF Stages!Step, Stages!Advances

LEMMA RemovalLeaves ==
    ASSUME Stages!StagesAssumption, PipeInv, [Stages!Next]_(Stages!vars), NEW c \in Columns, c \in active, c \notin active'
    PROVE  /\ replacement'[c] \in active'
           /\ \A k \in Cards : at'[k] # c
  <1>1. Stages!Next
    BY DEF Stages!vars
  <1>2. PICK u \in Users : Stages!Step(u)
    BY <1>1 DEF Stages!Next
  <1>3. Stages!SetsOrder(u) /\ session[u].left = {} /\ Stages!Removes(u)
    BY <1>2, ColumnsStay
  <1>4. /\ Shape(session[u], holds[u])
        /\ Fits(session[u], holds[u], active, at, replacement)
        /\ session[u].doing = "remove" /\ session[u].phase = "order"
    BY <1>3, User DEF Stages!Removes, Stages!SetsOrder, Stages!InPhase
  <1>5. /\ active' = active \ {session[u].row}
        /\ replacement' = [replacement EXCEPT ![session[u].row] = session[u].to]
        /\ at' = [k \in Cards |-> IF k \in Stages!MovedCards(u) THEN session[u].to ELSE at[k]]
    BY <1>3 DEF Stages!Removes
  <1>6. c = session[u].row
    BY <1>5
  <1>7. session[u].to \in active /\ session[u].to # c
    BY <1>4, <1>6 DEF Shape, Arranges, Fits, Busy
  <1>8. ASSUME NEW k \in Cards PROVE at'[k] # c
    <2>1. CASE k \in Stages!MovedCards(u)
      BY <1>5, <1>7, <2>1
    <2>2. CASE k \notin Stages!MovedCards(u)
      <3>1. at'[k] = at[k]
        BY <1>5, <2>2
      <3>2. at[k] = c => <<k, "X">> \in holds[u]
        BY <1>4, <1>6 DEF Fits, Busy
      <3> QED BY <1>6, <2>2, <3>1, <3>2 DEF Stages!MovedCards
    <2> QED BY <2>1, <2>2
  <1> QED BY <1>5, <1>6, <1>7, <1>8 DEF PipeInv, TableTyped

\* While no two creations of a column overlap: when a removal commits, its destination is
\* on the board and no card is left in the column.
THEOREM RemovalEmptiesTheColumn ==
    ASSUME Stages!StagesAssumption
    PROVE  Stages!Spec /\ []AddsApart => Stages!RemovalLeavesNoCard
  <1>1. PipeInv /\ [Stages!Next]_(Stages!vars) =>
        [\A c \in Columns : c \in active /\ c \notin active' =>
          /\ replacement'[c] \in active'
          /\ \A k \in Cards : at'[k] # c]_(Stages!vars)
    BY RemovalLeaves
  <1> QED BY <1>1, PipeAlways, PTL DEF Stages!Spec, Stages!RemovalLeavesNoCard

-----------------------------------------------------------------------------
(* Deadlocks. *)

\* Where all of a set wait for one of them, one waits for itself: it belongs to a
\* smallest set of this kind.
LEMMA SomeoneWaitsForItself ==
    ASSUME NEW S, IsFiniteSet(S), NEW waits \in [S -> SUBSET S],
           NEW busy \in SUBSET S, busy # {}, \A s \in busy : waits[s] \cap busy # {}
    PROVE  \E r \in busy : \A waited \in SUBSET S :
              waits[r] \subseteq waited /\ (\A s \in waited : waits[s] \subseteq waited)
              => r \in waited
  <1> DEFINE Circles == {d \in SUBSET busy : d # {} /\ \A s \in d : waits[s] \cap d # {}}
             less == StrictSubsetOrdering(S)
  <1>1. Circles \subseteq SUBSET S /\ Circles # {}
    <2>1. busy \in Circles
      OBVIOUS
    <2> QED BY <2>1
  <1>2. IsWellFoundedOn(less, SUBSET S)
    BY FS_StrictSubsetOrderingWellFounded, FS_FiniteSubsetsOfFinite
  <1>3. PICK d \in Circles : \A e \in Circles : <<e, d>> \notin less
    <2> HIDE DEF Circles, less
    <2> QED BY <1>1, <1>2, WFMin
  <1>4. \A e \in Circles : e \subseteq d => e = d
    BY <1>1, <1>3 DEF StrictSubsetOrdering
  <1>5. PICK r \in d : TRUE
    BY <1>3
  <1>6. ASSUME NEW waited \in SUBSET S, waits[r] \subseteq waited,
               \A s \in waited : waits[s] \subseteq waited, r \notin waited
        PROVE  FALSE
    <2>1. waited \cap d \in Circles
      <3>1. waited \cap d # {}
        BY <1>3, <1>5, <1>6
      <3>2. \A s \in waited \cap d : waits[s] \cap (waited \cap d) # {}
        BY <1>3, <1>6
      <3> QED BY <1>3, <3>1, <3>2
    <2> QED BY <1>4, <1>5, <1>6, <2>1
  <1> QED BY <1>3, <1>5, <1>6

LEMMA WithoutLocks ==
    ASSUME NEW u, NEW v, u \in Stages!Blockers(v) PROVE holds[u] # {}
  BY DEF Stages!Blockers

LEMMA MovesYield ==
    ASSUME Stages!StagesAssumption, PipeInv PROVE Stages!MovesYieldOnlyToRemovals
  <1> SUFFICES ASSUME NEW d \in Stages!Deadlocks, NEW u \in d, session[u].doing \in {"move", "recover"},
                      \A v \in d : session[v].doing # "remove"
               PROVE  FALSE
    BY DEF Stages!MovesYieldOnlyToRemovals
  <1>1. d \subseteq Users /\ \A v \in d : \E w \in d : v \in Stages!Blockers(w)
    BY DEF Stages!Deadlocks
  <1>2. PICK v \in d : u \in Stages!Blockers(v)
    BY <1>1
  <1>3. Shape(session[u], holds[u]) /\ Shape(session[v], holds[v])
    BY <1>1, User
  <1>4. session[u].row \in Cards /\ holds[u] = {<<session[u].row, "X">>}
    BY <1>2, <1>3, WithoutLocks DEF Shape, Moves
  <1>5. session[v].wants[1] = session[u].row
    BY <1>2, <1>4 DEF Stages!Blockers
  <1>6. session[v].wants[1] \in Cards
    BY <1>4, <1>5
  <1>7. session[v].wants # Stages!NoLock
    BY <1>6, Names DEF Stages!NoLock
  <1>8. session[v].doing \in {"move", "recover"} /\ session[v].phase = "card"
    <2>1. session[v].doing # "idle"
      BY <1>3, <1>7 DEF Shape, Stages!Idle
    <2>2. ASSUME session[v].doing \in {"edit", "add"} PROVE FALSE
      <3>1. Arranges(session[v], holds[v]) /\ session[v].phase \in {"column", "order"}
        BY <1>3, <1>7, <2>2 DEF Shape, Arranges
      <3>2. session[v].wants[1] \in Stages!AllColumns
        BY <3>1 DEF Arranges
      <3> QED BY <1>6, <3>2, Names
    <2>3. session[v].doing \in {"move", "recover"}
      BY <1>3, <2>1, <2>2 DEF Shape, SessionRows
    <2>4. Moves(session[v], holds[v]) /\ session[v].phase # "form"
      BY <1>3, <1>7, <2>3 DEF Shape
    <2>5. session[v].phase # "target"
      <3>1. ASSUME session[v].phase = "target" PROVE session[v].wants[1] \in Stages!AllColumns \cup {Bin}
        BY <2>4, <3>1 DEF Moves
      <3> QED BY <1>6, <3>1, Names
    <2> QED BY <2>3, <2>4, <2>5 DEF Moves
  <1>9. holds[v] = {}
    BY <1>3, <1>8 DEF Shape, Moves
  <1> QED BY <1>1, <1>9, WithoutLocks

LEMMA NobodyIsForgotten ==
    ASSUME Stages!StagesAssumption, PipeInv
    PROVE  Stages!SomeRequestMoves
  <1> DEFINE busy == {u \in Users : session[u] # Stages!Idle}
             waits == [u \in Users |-> Stages!Blockers(u)]
  <1> SUFFICES ASSUME busy # {}, \A u \in busy : Stages!Blockers(u) # {}
               PROVE  \E u \in busy : Stages!Deadlocked(u)
    BY DEF Stages!SomeRequestMoves
  <1>1. ASSUME NEW u \in Users, NEW t \in Stages!Blockers(u) PROVE t \in busy
    <2>1. t \in Users /\ holds[t] # {}
      BY <1>1 DEF Stages!Blockers
    <2>2. Shape(session[t], holds[t])
      BY <2>1, User
    <2>3. Stages!Idle.doing = "idle"
      BY DEF Stages!Idle
    <2> QED BY <2>1, <2>2, <2>3 DEF Shape
  <1>2. waits \in [Users -> SUBSET Users] /\ \A u \in Users : waits[u] = Stages!Blockers(u)
    BY <1>1
  <1>3. \A u \in busy : waits[u] \cap busy # {}
    BY <1>1, <1>2
  <1>4. busy \in SUBSET Users /\ IsFiniteSet(Users)
    BY DEF Stages!StagesAssumption, Stages!IsFiniteSet, IsFiniteSet
  <1> HIDE DEF waits, busy
  <1>5. PICK u \in busy : \A waited \in SUBSET Users :
              waits[u] \subseteq waited /\ (\A s \in waited : waits[s] \subseteq waited)
              => u \in waited
    BY <1>2, <1>3, <1>4, SomeoneWaitsForItself
  <1>6. Stages!Deadlocked(u)
    BY <1>2, <1>4, <1>5 DEF Stages!Deadlocked
  <1> QED BY <1>6

-----------------------------------------------------------------------------
(* Where replacements lead. *)

Gone == {c \in Columns : replacement[c] # None}

\* The code follows MaxHops replacements; no more columns than that were ever removed.
HopsSuffice == IsFiniteSet(Columns) /\ Cardinality(Columns) <= MaxHops

ColumnLeads(c, n, p) ==
    /\ p \in [0..n -> Stages!AllColumns] /\ p[0] = c /\ p[n] \in active
    /\ \A i \in 1..n : p[i - 1] \in Gone /\ p[i] = replacement[p[i - 1]]
PathsEnd == \A c \in Gone : \E n \in 1..Cardinality(Gone) : \E p : ColumnLeads(c, n, p)

LEMMA GoneIsFinite ==
    ASSUME Stages!StagesAssumption, HopsSuffice
    PROVE  IsFiniteSet(Gone) /\ Cardinality(Gone) \in Nat /\ Cardinality(Gone) <= MaxHops
           /\ Cardinality(Columns) \in Nat
  <1>1. Gone \subseteq Columns
    BY DEF Gone
  <1>2. IsFiniteSet(Columns) /\ Cardinality(Columns) <= MaxHops
    BY DEF HopsSuffice
  <1>3. IsFiniteSet(Gone) /\ Cardinality(Gone) <= Cardinality(Columns)
    BY <1>1, <1>2, FS_Subset
  <1>4. Cardinality(Gone) \in Nat /\ Cardinality(Columns) \in Nat
    BY <1>2, <1>3, FS_CardinalityType
  <1>5. Cardinality(Gone) <= MaxHops
    BY <1>2, <1>3, <1>4 DEF Stages!StagesAssumption
  <1> QED BY <1>3, <1>4, <1>5

LEMMA PathsInit == ASSUME Stages!Init PROVE PathsEnd
  BY DEF Stages!Init, PathsEnd, Gone

LEMMA PathsStep ==
    ASSUME Stages!StagesAssumption, HopsSuffice, PipeInv, PathsEnd, [Stages!Next]_(Stages!vars)
    PROVE  PathsEnd'
  <1>1. CASE active \subseteq active' /\ UNCHANGED replacement
    <2>1. Gone' = Gone
      BY <1>1 DEF Gone
    <2>2. ASSUME NEW c, NEW n, NEW p, ColumnLeads(c, n, p) PROVE ColumnLeads(c, n, p)'
      BY <1>1, <2>1, <2>2 DEF ColumnLeads
    <2> QED BY <2>1, <2>2 DEF PathsEnd
  <1>2. ASSUME NEW u \in Users, Stages!SetsOrder(u), session[u].left = {}, Stages!Removes(u) PROVE PathsEnd'
    <2>1. /\ Shape(session[u], holds[u])
          /\ Fits(session[u], holds[u], active, at, replacement)
          /\ session[u].doing = "remove" /\ session[u].phase = "order"
      BY <1>2, User DEF Stages!Removes, Stages!SetsOrder, Stages!InPhase
    <2>2. PICK row, to : row = session[u].row /\ to = session[u].to
      OBVIOUS
    <2>3. /\ row \in Columns \cap active /\ to \in active \ {row} /\ to \in Stages!AllColumns
          /\ row \in Stages!AllColumns
      BY <2>1, <2>2 DEF Shape, Arranges, Fits, Busy, Stages!AllColumns
    <2>4. /\ active' = active \ {row} /\ replacement' = [replacement EXCEPT ![row] = to]
      BY <1>2, <2>2 DEF Stages!Removes
    <2>5. row \notin Gone /\ Gone' = Gone \cup {row}
          /\ replacement'[row] = to /\ \A c \in Gone : replacement'[c] = replacement[c]
      BY <2>3, <2>4, Names DEF Gone, PipeInv, TableTyped
    <2>6. PICK size \in Nat : size = Cardinality(Gone)
      BY GoneIsFinite
    <2>7. Cardinality(Gone') = size + 1
      <3>1. IsFiniteSet(Gone)
        BY GoneIsFinite
      <3> QED BY <2>5, <2>6, <3>1, FS_AddElement
    <2>8. \E n \in 1..(size + 1) : \E p : ColumnLeads(row, n, p)'
      <3>1. PICK p : p = [i \in 0..1 |-> IF i = 0 THEN row ELSE to]
        OBVIOUS
      <3>2. p \in [0..1 -> Stages!AllColumns] /\ p[0] = row /\ p[1] = to
        BY <2>3, <3>1
      <3>3. \A i \in 1..1 : p[i - 1] \in Gone' /\ p[i] = replacement'[p[i - 1]]
        BY <2>5, <3>2
      <3>4. ColumnLeads(row, 1, p)'
        BY <2>3, <2>4, <3>2, <3>3 DEF ColumnLeads
      <3> QED BY <2>6, <3>4
    <2>9. ASSUME NEW c \in Gone PROVE \E n \in 1..(size + 1) : \E p : ColumnLeads(c, n, p)'
      <3>1. PICK n \in 1..size : \E p : ColumnLeads(c, n, p)
        BY <2>6 DEF PathsEnd
      <3>2. PICK p : ColumnLeads(c, n, p)
        BY <3>1
      <3>3. /\ p \in [0..n -> Stages!AllColumns] /\ p[0] = c /\ p[n] \in active
            /\ \A i \in 1..n : p[i - 1] \in Gone /\ p[i] = replacement[p[i - 1]]
        BY <3>2 DEF ColumnLeads
      <3>4. n \in Nat /\ n + 1 \in 1..(size + 1) /\ n \in 1..(size + 1)
        BY <2>6, <3>1
      <3>5. CASE p[n] # row
        <4>1. ColumnLeads(c, n, p)'
          BY <2>4, <2>5, <3>3, <3>5 DEF ColumnLeads
        <4> QED BY <3>4, <4>1
      <3>6. CASE p[n] = row
        <4>1. PICK q : q = [i \in 0..(n + 1) |-> IF i = n + 1 THEN to ELSE p[i]]
          OBVIOUS
        <4>2. \A i \in 0..n : i \in 0..(n + 1) /\ i # n + 1
          BY <3>4
        <4>3. \A i \in 0..(n + 1) : i = n + 1 \/ i \in 0..n
          BY <3>4
        <4>4. \A i \in 0..n : q[i] = p[i]
          BY <4>1, <4>2
        <4>5. q[n + 1] = to
          BY <3>4, <4>1
        <4>6. q \in [0..(n + 1) -> Stages!AllColumns]
          BY <2>3, <3>3, <4>1, <4>3
        <4>7. ASSUME NEW i \in 1..(n + 1) PROVE q[i - 1] \in Gone' /\ q[i] = replacement'[q[i - 1]]
          <5>1. CASE i = n + 1
            <6>1. i - 1 = n /\ n \in 0..n
              BY <3>4, <5>1
            <6> QED BY <2>5, <3>6, <4>4, <4>5, <5>1, <6>1
          <5>2. CASE i # n + 1
            <6>1. i \in 1..n /\ i \in 0..n /\ i - 1 \in 0..n
              BY <3>4, <5>2
            <6> QED BY <2>5, <3>3, <4>4, <6>1
          <5> QED BY <5>1, <5>2
        <4>8. q[0] = c
          <5>1. 0 \in 0..n
            BY <3>4
          <5> QED BY <3>3, <4>4, <5>1
        <4>9. ColumnLeads(c, n + 1, q)'
          BY <2>3, <2>4, <4>5, <4>6, <4>7, <4>8 DEF ColumnLeads
        <4> QED BY <3>4, <4>9
      <3> QED BY <3>5, <3>6
    <2> QED BY <2>5, <2>7, <2>8, <2>9 DEF PathsEnd
  <1>3. CASE UNCHANGED Stages!vars
    BY <1>1, <1>3 DEF Stages!vars
  <1>4. ASSUME NEW u \in Users, Stages!Step(u) PROVE PathsEnd'
    BY <1>1, <1>2, <1>4, ColumnsStay
  <1> QED BY <1>3, <1>4 DEF Stages!Next

\* Of two functions that differ there is a first difference.
LEMMA FirstDifference ==
    ASSUME NEW n \in Nat, NEW f, NEW g, NEW m \in 0..n, f[m] # g[m]
    PROVE  \E i \in 0..n : f[i] # g[i] /\ \A j \in 0..n : j < i => f[j] = g[j]
  <1> DEFINE D == {i \in 0..n : f[i] # g[i]}
  <1>1. D \in SUBSET Nat /\ D # {} /\ D \subseteq 0..n
    OBVIOUS
  <1>2. \A i \in D : f[i] # g[i]
    OBVIOUS
  <1>3. \A i \in 0..n : i \in D \/ f[i] = g[i]
    OBVIOUS
  <1> HIDE DEF D
  <1>4. PICK i \in D : \A j \in D : i <= j
    BY <1>1, LeastNatural
  <1>5. \A j \in 0..n : j < i => j \notin D
    BY <1>1, <1>4
  <1> QED BY <1>1, <1>2, <1>3, <1>4, <1>5

\* A function defined step by step.
Follows(c, n, hop) ==
    hop = [i \in 0..n |-> IF i = 0 THEN c ELSE
             IF hop[i - 1] \in Columns \ active THEN replacement[hop[i - 1]]
             ELSE hop[i - 1]]

\* It is the path, wherever both are defined.
LEMMA HopsFollowThePath ==
    ASSUME Stages!StagesAssumption, PipeInv, NEW c, NEW n \in Nat, NEW p, ColumnLeads(c, n, p), NEW hop,
           Follows(c, n, hop)
    PROVE  hop[n] \in active
  <1>a. p \in [0..n -> Stages!AllColumns] /\ p[0] = c
        /\ \A i \in 1..n : p[i - 1] \in Gone /\ p[i] = replacement[p[i - 1]]
    BY DEF ColumnLeads
  <1>1. ASSUME hop[n] # p[n] PROVE FALSE
    <2>1. n \in 0..n
      OBVIOUS
    <2>2. PICK i \in 0..n : hop[i] # p[i] /\ \A j \in 0..n : j < i => hop[j] = p[j]
      BY <1>1, <2>1, FirstDifference
    <2>3. 0 \in 0..n /\ hop[0] = c
      BY DEF Follows
    <2>4. i # 0
      BY <1>a, <2>2, <2>3
    <2>5. i \in 1..n /\ i - 1 \in 0..n /\ i - 1 < i
      BY <2>4
    <2>6. hop[i - 1] = p[i - 1]
      BY <2>2, <2>5
    <2>7. p[i - 1] \in Columns \ active /\ p[i] = replacement[p[i - 1]]
      BY <1>a, <2>5 DEF Gone, PipeInv, TableTyped
    <2>8. hop[i] = replacement[hop[i - 1]]
      BY <2>4, <2>6, <2>7 DEF Follows
    <2> QED BY <2>2, <2>6, <2>7, <2>8
  <1> QED BY <1>1 DEF ColumnLeads

LEMMA PathsResolve ==
    ASSUME Stages!StagesAssumption, HopsSuffice, PipeInv, PathsEnd PROVE Stages!ReplacementsResolve
  <1> SUFFICES ASSUME NEW c \in Columns, replacement[c] # None
               PROVE  \E n \in 1..MaxHops :
                        LET hop[i \in 0..n] == IF i = 0 THEN c ELSE
                              IF hop[i - 1] \in Columns \ active THEN replacement[hop[i - 1]]
                              ELSE hop[i - 1]
                        IN  hop[n] \in active
    BY DEF Stages!ReplacementsResolve
  <1>1. c \in Gone
    BY DEF Gone
  <1>2. PICK n \in 1..Cardinality(Gone) : \E p : ColumnLeads(c, n, p)
    BY <1>1 DEF PathsEnd
  <1>3. PICK p : ColumnLeads(c, n, p)
    BY <1>2
  <1>4. n \in 1..MaxHops /\ n \in Nat
    BY <1>2, GoneIsFinite DEF Stages!StagesAssumption
  <1>5. p = [i \in 0..n |-> IF i = 0 THEN c ELSE
               IF p[i - 1] \in Columns \ active THEN replacement[p[i - 1]]
               ELSE p[i - 1]]
    <2>1. p \in [0..n -> Stages!AllColumns] /\ p[0] = c
      BY <1>3 DEF ColumnLeads
    <2>2. ASSUME NEW i \in 0..n, i # 0
          PROVE  p[i - 1] \in Columns \ active /\ p[i] = replacement[p[i - 1]]
      <3>1. i \in 1..n
        BY <1>4, <2>2
      <3> QED BY <1>3, <3>1 DEF ColumnLeads, Gone, PipeInv, TableTyped
    <2> QED BY <2>1, <2>2
  <1>6. LET hop[i \in 0..n] == IF i = 0 THEN c ELSE
              IF hop[i - 1] \in Columns \ active THEN replacement[hop[i - 1]]
              ELSE hop[i - 1]
        IN  hop[n] \in active
    <2> DEFINE hop == CHOOSE f : f = [i \in 0..n |-> IF i = 0 THEN c ELSE
                         IF f[i - 1] \in Columns \ active THEN replacement[f[i - 1]]
                         ELSE f[i - 1]]
    <2>1. Follows(c, n, hop)
      BY <1>5 DEF Follows
    <2>2. hop[n] \in active
      <3> HIDE DEF hop
      <3> QED BY <1>3, <1>4, <2>1, HopsFollowThePath
    <2> QED BY <2>2
  <1> QED BY <1>4, <1>6

LEMMA PathsAlways ==
    ASSUME Stages!StagesAssumption, HopsSuffice PROVE Stages!Spec /\ []AddsApart => []PathsEnd
  <1>1. Stages!Init => PathsEnd
    BY PathsInit
  <1>2. PipeInv /\ PathsEnd /\ [Stages!Next]_(Stages!vars) => PathsEnd'
    BY PathsStep
  <1> QED BY <1>1, <1>2, PipeAlways, PTL DEF Stages!Spec

\* While no two creations of a column overlap, and a recovery follows as many replacements as
\* there are columns: following the replacements of a removed column ends on the board, and a move
\* gives way in a deadlock only to the removal of a column.
THEOREM TheBoardIsSound ==
    ASSUME Stages!StagesAssumption, HopsSuffice
    PROVE  Stages!Spec /\ []AddsApart =>
              [](/\ Stages!TypeOK /\ Stages!ReplacementsResolve
                 /\ Stages!MovesYieldOnlyToRemovals /\ Stages!SomeRequestMoves)
  <1>1. PipeInv /\ PathsEnd =>
            /\ Stages!TypeOK /\ Stages!ReplacementsResolve
            /\ Stages!MovesYieldOnlyToRemovals /\ Stages!SomeRequestMoves
    BY PipeTypes, PathsResolve, MovesYield, NobodyIsForgotten
  <1> QED BY <1>1, PipeAlways, PathsAlways, PTL
-----------------------------------------------------------------------------
(* Appointment reminders.                                                   *)

\* A transaction on the appointment, and one on the lead, at each of its steps.
Commands == {Reminders!Idle} \cup
    [step : {"written", "looked", "cancelled", "enqueued"}, reminds : BOOLEAN,
     sees : SUBSET Reminders!Reminders, adds : SUBSET Reminders!Reminders, row : Reminders!Rows]
Recalculations == {Reminders!Idle} \cup
    [step : {"written", "looked", "cancelled", "enqueued"}, lead : Leads,
     sees : SUBSET Reminders!Reminders, adds : SUBSET Reminders!Reminders]

\* What is about to be inserted waits, and is one reminder for each recipient.
OneEach(rows) ==
    /\ \A r \in rows : r.state = "waiting"
    /\ \A r, q \in rows : r.to = q.to => r = q

RemindersTyped ==
    /\ Reminders!TypeOK
    /\ command \in Commands /\ recalculation \in Recalculations
    /\ command # Reminders!Idle => OneEach(command.adds)
    /\ recalculation # Reminders!Idle => OneEach(recalculation.adds) /\ config.version <= MaxConfig

\* Rows that tell the time of an appointment to those who have a part in it.
AllTell(rows, row) == \A r \in rows : r.tells = row.starts /\ r.to \in Reminders!Recipients(row)

\* While no change of the lead overlaps a command: what waits tells the truth, and a
\* transaction that has looked saw all that waits, or will add nothing.
OneTransaction == command = Reminders!Idle \/ recalculation = Reminders!Idle
CommandKnows ==
    command # Reminders!Idle =>
        /\ command.step # "written" => Reminders!Waiting \subseteq command.sees
        /\ AllTell(command.adds, command.row)
NothingToRemind == appointment.status # "scheduled" \/ appointment.starts <= now
RecalculationKnows ==
    recalculation # Reminders!Idle =>
        /\ recalculation.step # "written" => Reminders!Waiting \subseteq recalculation.sees \/ NothingToRemind
        /\ recalculation.step = "enqueued" =>
              Reminders!Waiting \subseteq recalculation.sees \/ recalculation.adds = {}
        /\ AllTell(recalculation.adds, appointment)
AloneInv ==
    /\ RemindersTyped
    /\ OneTransaction
    /\ Reminders!OneWaitingReminder
    /\ AllTell(Reminders!Waiting, appointment)
    /\ CommandKnows
    /\ RecalculationKnows

-----------------------------------------------------------------------------
(* The rows two transactions make. *)

LEMMA NewReminders ==
    ASSUME Reminders!RemindersAssumption, now \in Reminders!Times, NEW row \in Reminders!Rows, NEW lead \in Leads,
           NEW version \in 0..MaxVersion, NEW configVersion \in 0..MaxConfig + 1
    PROVE  /\ Reminders!RemindersOf(row, lead, version, configVersion) \subseteq Reminders!Reminders
           /\ OneEach(Reminders!RemindersOf(row, lead, version, configVersion))
           /\ AllTell(Reminders!RemindersOf(row, lead, version, configVersion), row)
           /\ row.starts <= now => Reminders!RemindersOf(row, lead, version, configVersion) = {}
  <1>1. /\ row.starts \in Reminders!Times \cup {Reminders!NoTime} /\ row.responsible \in Reminders!Accounts
        /\ lead \in Nat /\ lead > 0 /\ now \in Int /\ now >= 0 /\ LastStart \in Nat
    BY DEF Reminders!Rows, Reminders!RemindersAssumption, Reminders!Times
  <1>2. row.starts \in Int /\ row.starts - lead \in Int
    BY <1>1 DEF Reminders!Times, Reminders!NoTime
  <1>3. row.starts - lead > now => row.starts \in Reminders!Times /\ row.starts > now
    BY <1>1, <1>2 DEF Reminders!Times, Reminders!NoTime
  <1>4. Reminders!Recipients(row) \subseteq Reminders!Accounts
    BY <1>1 DEF Reminders!Recipients, Reminders!Accounts
  <1> DEFINE rows == Reminders!RemindersOf(row, lead, version, configVersion)
  <1>5. ASSUME NEW r \in rows
        PROVE  /\ row.starts - lead > now
               /\ r.to \in Reminders!Recipients(row)
               /\ r = [to |-> r.to, at |-> row.starts - lead, tells |-> row.starts,
                       version |-> version, lead |-> lead, config |-> configVersion,
                       state |-> "waiting"]
    BY DEF Reminders!RemindersOf
  <1>6. ASSUME NEW r \in rows PROVE r \in Reminders!Reminders
    <2>1. r.to \in Reminders!Accounts /\ row.starts \in Reminders!Times
      BY <1>3, <1>4, <1>5
    <2>2. row.starts - lead \in Int
      BY <1>2
    <2>3. [to |-> r.to, at |-> row.starts - lead, tells |-> row.starts,
                       version |-> version, lead |-> lead, config |-> configVersion,
                       state |-> "waiting"] \in Reminders!Reminders
      BY <2>1, <2>2 DEF Reminders!Reminders
    <2> QED BY <2>3, <1>5
  <1>7. ASSUME NEW r \in rows
        PROVE  r.state = "waiting" /\ r.tells = row.starts /\ r.to \in Reminders!Recipients(row)
    BY <1>5
  <1>8. ASSUME NEW r \in rows, NEW q \in rows, r.to = q.to PROVE r = q
    BY <1>5, <1>8
  <1>9. row.starts <= now => rows = {}
    BY <1>1, <1>2, <1>3, <1>5
  <1> HIDE DEF rows
  <1> QED BY <1>6, <1>7, <1>8, <1>9 DEF rows, OneEach, AllTell

\* A commit: what the transaction saw is cancelled, what it adds is inserted.
LEMMA Committed ==
    ASSUME NEW sees, NEW adds \in SUBSET Reminders!Reminders, OneEach(adds),
           reminders \subseteq Reminders!Reminders,
           \A r, q \in reminders : Reminders!Key(r) = Reminders!Key(q) => r = q,
           reminders' = Reminders!Inserted(Reminders!Cancelled(reminders, sees), adds)
    PROVE  /\ reminders' \subseteq Reminders!Reminders
           /\ (\A r, q \in reminders : Reminders!Key(r) = Reminders!Key(q) => r = q)'
           /\ Reminders!Waiting' \subseteq (Reminders!Waiting \ sees) \cup adds
           /\ \A r \in reminders' : r.state \in {"alerted", "read"} => r \in reminders
           /\ \A r \in reminders : r.state # "waiting" => r \in reminders'
           /\ \A r \in adds : (\A q \in reminders : Reminders!Key(q) # Reminders!Key(r)) => r \in reminders'
  <1> DEFINE made(r) == IF r \in sees /\ r.state = "waiting"
                        THEN [r EXCEPT !.state = "cancelled"] ELSE r
             old == Reminders!Cancelled(reminders, sees)
  <1>1. old = {made(r) : r \in reminders}
    BY DEF Reminders!Cancelled
  <1>2. ASSUME NEW r \in reminders
        PROVE  made(r) \in Reminders!Reminders /\ Reminders!Key(made(r)) = Reminders!Key(r)
               /\ (made(r) = r \/ made(r).state = "cancelled")
               /\ (made(r).state = "waiting" => made(r) = r /\ r \notin sees)
               /\ (r.state # "waiting" => made(r) = r)
    <2>1. r \in Reminders!Reminders
      OBVIOUS
    <2>2. CASE r \in sees /\ r.state = "waiting"
      <3>1. made(r) = [r EXCEPT !.state = "cancelled"]
        BY <2>2
      <3>2. [r EXCEPT !.state = "cancelled"] \in Reminders!Reminders
        BY <2>1 DEF Reminders!Reminders
      <3>3. /\ [r EXCEPT !.state = "cancelled"].to = r.to
            /\ [r EXCEPT !.state = "cancelled"].version = r.version
            /\ [r EXCEPT !.state = "cancelled"].lead = r.lead
            /\ [r EXCEPT !.state = "cancelled"].config = r.config
            /\ [r EXCEPT !.state = "cancelled"].state = "cancelled"
        BY <2>1 DEF Reminders!Reminders
      <3> HIDE DEF made
      <3> QED BY <3>1, <3>2, <3>3, <2>2 DEF Reminders!Key
    <2>3. CASE ~(r \in sees /\ r.state = "waiting")
      BY <2>1, <2>3
    <2> QED BY <2>2, <2>3
  <1> HIDE DEF made
  <1>3. reminders' = old \cup {r \in adds : \A q \in old : Reminders!Key(q) # Reminders!Key(r)}
    BY DEF Reminders!Inserted
  <1> HIDE DEF old
  <1>4. \A r, q \in old : Reminders!Key(r) = Reminders!Key(q) => r = q
    BY <1>1, <1>2
  <1>5. \A r, q \in adds : Reminders!Key(r) = Reminders!Key(q) => r = q
    BY DEF OneEach, Reminders!Key
  <1>6. (\A r, q \in reminders : Reminders!Key(r) = Reminders!Key(q) => r = q)'
    <2> SUFFICES ASSUME NEW r \in reminders', NEW q \in reminders', Reminders!Key(r) = Reminders!Key(q)
                 PROVE  r = q
      BY DEF Reminders!Key
    <2> QED BY <1>3, <1>4, <1>5
  <1>7. reminders' \subseteq Reminders!Reminders
    BY <1>1, <1>2, <1>3
  <1>8. Reminders!Waiting' \subseteq (Reminders!Waiting \ sees) \cup adds
    <2> SUFFICES ASSUME NEW r \in reminders', r.state = "waiting", r \notin adds
                 PROVE  r \in reminders /\ r \notin sees
      BY DEF Reminders!Waiting
    <2> QED BY <1>1, <1>2, <1>3
  <1>9. \A r \in reminders' : r.state \in {"alerted", "read"} => r \in reminders
    <2> SUFFICES ASSUME NEW r \in reminders', r.state \in {"alerted", "read"}
                 PROVE  r \in reminders
      OBVIOUS
    <2>1. r \notin adds
      BY DEF OneEach
    <2> QED BY <2>1, <1>1, <1>2, <1>3
  <1>10. \A r \in reminders : r.state # "waiting" => r \in reminders'
    BY <1>1, <1>2, <1>3
  <1>11. \A r \in adds : (\A q \in reminders : Reminders!Key(q) # Reminders!Key(r)) => r \in reminders'
    BY <1>1, <1>2, <1>3
  <1> QED BY <1>6, <1>7, <1>8, <1>9, <1>10, <1>11

\* A claim and a look change the state of rows and nothing else.
Changed(a) == {IF r \in Reminders!Due(a) THEN [r EXCEPT !.state = "alerted"] ELSE r : r \in reminders}

LEMMA Claimed ==
    ASSUME reminders \subseteq Reminders!Reminders,
           \A r, q \in reminders : Reminders!Key(r) = Reminders!Key(q) => r = q,
           NEW a, Reminders!ClaimsAlerts(a)
    PROVE  /\ reminders' \subseteq Reminders!Reminders
           /\ (\A r, q \in reminders : Reminders!Key(r) = Reminders!Key(q) => r = q)'
           /\ Reminders!Waiting' \subseteq Reminders!Waiting
           /\ \A r \in reminders' : r \in reminders
                 \/ (r.state = "alerted" /\ \E q \in Reminders!Due(a) : r.tells = q.tells /\ r.to = q.to)
           /\ \A r \in reminders : r.state # "cancelled" =>
                 \E q \in reminders' : q.to = r.to /\ q.tells = r.tells /\ q.state # "cancelled"
           /\ \A r \in reminders' : \E q \in reminders : r.version = q.version
  <1> DEFINE made(r) == IF r \in Reminders!Due(a) THEN [r EXCEPT !.state = "alerted"] ELSE r
  <1>1. reminders' = {made(r) : r \in reminders}
    BY DEF Reminders!ClaimsAlerts
  <1>2. ASSUME NEW r \in reminders
        PROVE  made(r) \in Reminders!Reminders /\ Reminders!Key(made(r)) = Reminders!Key(r) /\ made(r).to = r.to
               /\ made(r).tells = r.tells /\ made(r).version = r.version
               /\ (made(r) = r \/ (made(r).state = "alerted" /\ r \in Reminders!Due(a)))
    <2>1. r \in Reminders!Reminders
      OBVIOUS
    <2>2. CASE r \in Reminders!Due(a)
      <3>1. made(r) = [r EXCEPT !.state = "alerted"]
        BY <2>2
      <3>2. [r EXCEPT !.state = "alerted"] \in Reminders!Reminders
        BY <2>1 DEF Reminders!Reminders
      <3>3. /\ [r EXCEPT !.state = "alerted"].to = r.to
            /\ [r EXCEPT !.state = "alerted"].tells = r.tells
            /\ [r EXCEPT !.state = "alerted"].version = r.version
            /\ [r EXCEPT !.state = "alerted"].lead = r.lead
            /\ [r EXCEPT !.state = "alerted"].config = r.config
            /\ [r EXCEPT !.state = "alerted"].state = "alerted"
        BY <2>1 DEF Reminders!Reminders
      <3> HIDE DEF made
      <3> QED BY <3>1, <3>2, <3>3, <2>2 DEF Reminders!Key
    <2>3. CASE r \notin Reminders!Due(a)
      BY <2>1, <2>3
    <2> QED BY <2>2, <2>3
  <1> HIDE DEF made
  <1>3. (\A r, q \in reminders : Reminders!Key(r) = Reminders!Key(q) => r = q)'
    <2> SUFFICES ASSUME NEW r \in reminders', NEW q \in reminders', Reminders!Key(r) = Reminders!Key(q)
                 PROVE  r = q
      BY DEF Reminders!Key
    <2> QED BY <1>1, <1>2
  <1>4. Reminders!Waiting' \subseteq Reminders!Waiting
    <2> SUFFICES ASSUME NEW r \in reminders', r.state = "waiting"
                 PROVE  r \in reminders
      BY DEF Reminders!Waiting
    <2> QED BY <1>1, <1>2
  <1>5. \A r \in reminders' : r \in reminders
           \/ (r.state = "alerted" /\ \E q \in Reminders!Due(a) : r.tells = q.tells /\ r.to = q.to)
    BY <1>1, <1>2
  <1>6. \A r \in reminders : r.state # "cancelled" =>
           \E q \in reminders' : q.to = r.to /\ q.tells = r.tells /\ q.state # "cancelled"
    BY <1>1, <1>2
  <1>7. \A r \in reminders' : \E q \in reminders : r.version = q.version
    BY <1>1, <1>2
  <1>8. reminders' \subseteq Reminders!Reminders
    BY <1>1, <1>2
  <1> QED BY <1>3, <1>4, <1>5, <1>6, <1>7, <1>8

LEMMA Looked ==
    ASSUME reminders \subseteq Reminders!Reminders,
           \A r, q \in reminders : Reminders!Key(r) = Reminders!Key(q) => r = q,
           NEW a, Reminders!ReadsAlert(a)
    PROVE  /\ reminders' \subseteq Reminders!Reminders
           /\ (\A r, q \in reminders : Reminders!Key(r) = Reminders!Key(q) => r = q)'
           /\ Reminders!Waiting' \subseteq Reminders!Waiting
           /\ \A r \in reminders' : r \in reminders \/ r.state = "read"
           /\ \A r \in reminders : r.state # "cancelled" =>
                 \E q \in reminders' : q.to = r.to /\ q.tells = r.tells /\ q.state # "cancelled"
           /\ \A r \in reminders' : \E q \in reminders : r.version = q.version
  <1>1. PICK s \in reminders : reminders' = (reminders \ {s}) \cup {[s EXCEPT !.state = "read"]}
    BY DEF Reminders!ReadsAlert
  <1>2. PICK n : n = [s EXCEPT !.state = "read"]
    OBVIOUS
  <1>3. /\ n \in Reminders!Reminders /\ n.to = s.to /\ n.tells = s.tells /\ n.version = s.version
        /\ n.lead = s.lead /\ n.config = s.config /\ n.state = "read"
    BY <1>1, <1>2 DEF Reminders!Reminders
  <1>4. Reminders!Key(n) = Reminders!Key(s)
    BY <1>3 DEF Reminders!Key
  <1>5. reminders' = (reminders \ {s}) \cup {n}
    BY <1>1, <1>2
  <1>6. (\A r, q \in reminders : Reminders!Key(r) = Reminders!Key(q) => r = q)'
    <2> SUFFICES ASSUME NEW r \in reminders', NEW q \in reminders', Reminders!Key(r) = Reminders!Key(q)
                 PROVE  r = q
      BY DEF Reminders!Key
    <2> QED BY <1>1, <1>4, <1>5
  <1>7. Reminders!Waiting' \subseteq Reminders!Waiting
    BY <1>3, <1>5 DEF Reminders!Waiting
  <1>8. reminders' \subseteq Reminders!Reminders
    BY <1>3, <1>5
  <1>9. \A r \in reminders : r.state # "cancelled" =>
           \E q \in reminders' : q.to = r.to /\ q.tells = r.tells /\ q.state # "cancelled"
    BY <1>3, <1>5
  <1>10. \A r \in reminders' : \E q \in reminders : r.version = q.version
    BY <1>1, <1>3, <1>5
  <1> QED BY <1>3, <1>5, <1>6, <1>7, <1>8, <1>9, <1>10

-----------------------------------------------------------------------------
(* The types. *)

CommandRows ==
    [step : {"written", "looked", "cancelled", "enqueued"}, reminds : BOOLEAN,
     sees : SUBSET Reminders!Reminders, adds : SUBSET Reminders!Reminders, row : Reminders!Rows]
RecalculationRows ==
    [step : {"written", "looked", "cancelled", "enqueued"}, lead : Leads,
     sees : SUBSET Reminders!Reminders, adds : SUBSET Reminders!Reminders]

\* A transaction is idle or a row of its kind.
LEMMA UnderWay ==
    ASSUME RemindersTyped
    PROVE  /\ command.step = "idle" <=> command = Reminders!Idle
           /\ command # Reminders!Idle => command \in CommandRows
           /\ recalculation.step = "idle" <=> recalculation = Reminders!Idle
           /\ recalculation # Reminders!Idle => recalculation \in RecalculationRows
           /\ Reminders!Waiting \subseteq Reminders!Reminders
           /\ now \in Nat
  <1>1. command = Reminders!Idle \/ command \in CommandRows
    BY DEF RemindersTyped, Commands, CommandRows
  <1>2. recalculation = Reminders!Idle \/ recalculation \in RecalculationRows
    BY DEF RemindersTyped, Recalculations, RecalculationRows
  <1>3. Reminders!Idle.step = "idle"
    BY DEF Reminders!Idle
  <1>4. command \in CommandRows => command.step # "idle"
    BY DEF CommandRows
  <1>5. recalculation \in RecalculationRows => recalculation.step # "idle"
    BY DEF RecalculationRows
  <1>6. Reminders!Waiting \subseteq Reminders!Reminders
    BY DEF RemindersTyped, Reminders!TypeOK, Reminders!Waiting
  <1>7. now \in Nat
    BY DEF RemindersTyped, Reminders!TypeOK, Reminders!Times
  <1> QED BY <1>1, <1>2, <1>3, <1>4, <1>5, <1>6, <1>7

\* What a command finds before it writes the appointment.
LEMMA Begun ==
    ASSUME Reminders!RemindersAssumption, RemindersTyped,
           Reminders!Schedules \/ Reminders!Reschedules \/ Reminders!StartsNow \/
           Reminders!UndoesStart \/ Reminders!Closes
    PROVE  /\ command = Reminders!Idle
           /\ Overlaps \/ recalculation = Reminders!Idle
           /\ command' \in CommandRows
           /\ command'.step = "written" /\ command'.adds = {}
           /\ command'.row.version = appointment.version + 1
           /\ ~command'.reminds => command'.row.status # "scheduled"
           /\ UNCHANGED <<now, appointment, reminders, config, recalculation, enabled>>
  <1>1. /\ appointment \in Reminders!Rows /\ now \in Reminders!Times /\ Creator \in Reminders!Accounts
        /\ MaxVersion \in Nat
    BY DEF RemindersTyped, Reminders!TypeOK, Reminders!RemindersAssumption, Reminders!Accounts
  <1>2. ASSUME NEW row \in Reminders!Rows, NEW reminds \in BOOLEAN, Reminders!Begins(row, reminds),
               ~reminds => row.status # "scheduled"
        PROVE  /\ command = Reminders!Idle
               /\ Overlaps \/ recalculation = Reminders!Idle
               /\ command' \in CommandRows
               /\ command'.step = "written" /\ command'.adds = {}
               /\ command'.row.version = appointment.version + 1
               /\ ~command'.reminds => command'.row.status # "scheduled"
               /\ UNCHANGED <<now, appointment, reminders, config, recalculation, enabled>>
    <2>1. command = Reminders!Idle /\ (Overlaps \/ recalculation = Reminders!Idle)
      BY <1>2, UnderWay DEF Reminders!Begins
    <2>2. appointment.version + 1 \in 0..MaxVersion
      <3>1. appointment.version < MaxVersion
        BY <1>2 DEF Reminders!Begins
      <3>2. appointment.version \in 0..MaxVersion
        BY <1>1 DEF Reminders!Rows
      <3> QED BY <3>1, <3>2, <1>1
    <2>3. PICK n : n = [row EXCEPT !.version = appointment.version + 1]
      OBVIOUS
    <2>4. n \in Reminders!Rows /\ n.version = appointment.version + 1 /\ n.status = row.status
      BY <2>2, <2>3 DEF Reminders!Rows
    <2>5. command' = [step |-> "written", reminds |-> reminds, sees |-> {}, adds |-> {},
                      row |-> n]
      BY <1>2, <2>3 DEF Reminders!Begins
    <2>6. command' \in CommandRows
      BY <2>4, <2>5 DEF CommandRows
    <2> QED BY <1>2, <2>1, <2>4, <2>5, <2>6 DEF Reminders!Begins
  <1>3. CASE Reminders!Schedules
    <2>1. PICK t \in Reminders!Times, e \in Reminders!Accounts :
             Reminders!Begins([appointment EXCEPT !.status = "scheduled", !.starts = t,
                                        !.responsible = e], TRUE)
      BY <1>3 DEF Reminders!Schedules
    <2>2. [appointment EXCEPT !.status = "scheduled", !.starts = t, !.responsible = e] \in Reminders!Rows
      BY <1>1 DEF Reminders!Rows
    <2> QED BY <1>2, <2>1, <2>2
  <1>4. CASE Reminders!Reschedules
    <2>1. PICK t \in Reminders!Times, e \in Reminders!Accounts :
             Reminders!Begins([appointment EXCEPT !.starts = t, !.responsible = e], TRUE)
      BY <1>4 DEF Reminders!Reschedules
    <2>2. [appointment EXCEPT !.starts = t, !.responsible = e] \in Reminders!Rows
      BY <1>1 DEF Reminders!Rows
    <2> QED BY <1>2, <2>1, <2>2
  <1>5. CASE Reminders!StartsNow
    <2>1. PICK row : row = [appointment EXCEPT !.status = "in_progress", !.starts = now,
                                               !.saved = appointment.starts]
      OBVIOUS
    <2>2. row \in Reminders!Rows /\ row.status = "in_progress"
      BY <1>1, <2>1 DEF Reminders!Rows
    <2>3. Reminders!Begins(row, FALSE)
      BY <1>5, <2>1 DEF Reminders!StartsNow
    <2> QED BY <1>2, <2>2, <2>3
  <1>6. CASE Reminders!UndoesStart
    <2>1. PICK row : row = [appointment EXCEPT !.status = "scheduled",
                                !.starts = appointment.saved, !.saved = Reminders!NoTime]
      OBVIOUS
    <2>2. row \in Reminders!Rows
      BY <1>1, <2>1 DEF Reminders!Rows
    <2>3. Reminders!Begins(row, TRUE)
      BY <1>6, <2>1 DEF Reminders!UndoesStart
    <2> QED BY <1>2, <2>2, <2>3
  <1>7. CASE Reminders!Closes
    <2>1. PICK row : row = [appointment EXCEPT !.status = "closed"]
      OBVIOUS
    <2>2. row \in Reminders!Rows /\ row.status = "closed"
      BY <1>1, <2>1 DEF Reminders!Rows
    <2>3. Reminders!Begins(row, FALSE)
      BY <1>7, <2>1 DEF Reminders!Closes
    <2> QED BY <1>2, <2>2, <2>3
  <1> QED BY <1>3, <1>4, <1>5, <1>6, <1>7

\* What the later steps of a command make of it.
LEMMA CommandGoesOn ==
    ASSUME Reminders!RemindersAssumption, RemindersTyped,
           Reminders!LooksForReminders \/ Reminders!CancelsReminders \/
           Reminders!EnqueuesReminders
    PROVE  /\ command \in CommandRows /\ command' \in CommandRows
           /\ command'.row = command.row /\ command'.reminds = command.reminds
           /\ OneEach(command.adds) => OneEach(command'.adds)
           /\ AllTell(command.adds, command.row) => AllTell(command'.adds, command'.row)
           /\ \/ command.step = "written" /\ command'.sees = Reminders!Waiting
              \/ command.step # "written" /\ command'.sees \in {command.sees, command.sees \cap Reminders!Waiting}
           /\ command'.step # "written"
           /\ UNCHANGED <<now, appointment, reminders, config, recalculation, enabled>>
  <1>1. command \in CommandRows
    BY UnderWay DEF Reminders!LooksForReminders, Reminders!CancelsReminders,
       Reminders!EnqueuesReminders
  <1>2. CASE Reminders!LooksForReminders
    BY <1>1, <1>2, UnderWay DEF Reminders!LooksForReminders, CommandRows
  <1>3. CASE Reminders!CancelsReminders
    BY <1>1, <1>3, UnderWay DEF Reminders!CancelsReminders, CommandRows
  <1>4. CASE Reminders!EnqueuesReminders
    <2>1. PICK new : new = IF command.reminds
                           THEN Reminders!RemindersOf(command.row, config.lead, command.row.version, 0)
                           ELSE {}
      OBVIOUS
    <2>2. command' = [command EXCEPT !.step = "enqueued", !.adds = new]
      BY <1>4, <2>1 DEF Reminders!EnqueuesReminders
    <2>3. /\ command.row \in Reminders!Rows /\ config.lead \in Leads /\ now \in Reminders!Times
          /\ 0 \in 0..MaxConfig + 1 /\ command.row.version \in 0..MaxVersion
      BY <1>1 DEF CommandRows, Reminders!Rows, RemindersTyped, Reminders!TypeOK,
         Reminders!RemindersAssumption
    <2>4. new \in SUBSET Reminders!Reminders /\ OneEach(new) /\ AllTell(new, command.row)
      <3>1. CASE command.reminds
        BY <2>1, <2>3, <3>1, NewReminders
      <3>2. CASE ~command.reminds
        BY <2>1, <3>2 DEF OneEach, AllTell
      <3> QED BY <3>1, <3>2
    <2>5. /\ command' \in CommandRows /\ command'.row = command.row
          /\ command'.reminds = command.reminds /\ command'.adds = new
          /\ command'.sees = command.sees /\ command'.step = "enqueued"
      BY <1>1, <2>2, <2>4 DEF CommandRows
    <2>6. command.step = "cancelled"
      BY <1>4 DEF Reminders!EnqueuesReminders
    <2> QED BY <1>1, <1>4, <2>4, <2>5, <2>6 DEF Reminders!EnqueuesReminders
  <1> QED BY <1>2, <1>3, <1>4

\* A change of the lead, and what the later steps of one make of it.
LEMMA LeadChanges ==
    ASSUME Reminders!RemindersAssumption, RemindersTyped, Reminders!ChangesLead
    PROVE  /\ recalculation = Reminders!Idle /\ (Overlaps \/ command = Reminders!Idle)
           /\ recalculation' \in RecalculationRows
           /\ recalculation'.step = "written" /\ recalculation'.adds = {}
           /\ config.version <= MaxConfig
           /\ UNCHANGED <<now, appointment, reminders, config, command, enabled>>
  <1>1. PICK lead \in Leads :
           recalculation' = [step |-> "written", lead |-> lead, sees |-> {}, adds |-> {}]
    BY DEF Reminders!ChangesLead
  <1>2. recalculation' \in RecalculationRows
    BY <1>1 DEF RecalculationRows
  <1> QED BY <1>1, <1>2, UnderWay DEF Reminders!ChangesLead

LEMMA LeadGoesOn ==
    ASSUME Reminders!RemindersAssumption, RemindersTyped,
           Reminders!FindsFuture \/ Reminders!CancelsFuture \/ Reminders!InsertsFuture
    PROVE  /\ recalculation \in RecalculationRows /\ recalculation' \in RecalculationRows
           /\ OneEach(recalculation.adds) => OneEach(recalculation'.adds)
           /\ AllTell(recalculation.adds, appointment) => AllTell(recalculation'.adds, appointment)
           /\ \/ /\ recalculation.step = "written"
                 /\ recalculation'.sees = Reminders!Waiting \/ NothingToRemind
              \/ /\ recalculation.step # "written"
                 /\ recalculation'.sees \in {recalculation.sees, recalculation.sees \cap Reminders!Waiting}
           /\ recalculation'.step # "written"
           /\ recalculation'.step = "enqueued" /\ NothingToRemind => recalculation'.adds = {}
           /\ UNCHANGED <<now, appointment, reminders, config, command, enabled>>
  <1>1. recalculation \in RecalculationRows
    BY UnderWay DEF Reminders!FindsFuture, Reminders!CancelsFuture, Reminders!InsertsFuture
  <1>0. appointment \in Reminders!Rows /\ now \in Reminders!Times /\ LastStart \in Nat
    BY DEF RemindersTyped, Reminders!TypeOK, Reminders!RemindersAssumption
  <1>2. CASE Reminders!FindsFuture
    <2>1. PICK found : found = IF appointment.status = "scheduled" /\ appointment.starts > now
                               THEN Reminders!Waiting ELSE {}
      OBVIOUS
    <2>2. recalculation' = [recalculation EXCEPT !.step = "looked", !.sees = found]
      BY <1>2, <2>1 DEF Reminders!FindsFuture
    <2>3. found \in SUBSET Reminders!Reminders /\ (found = Reminders!Waiting \/ NothingToRemind)
      BY <1>0, <2>1, UnderWay DEF NothingToRemind, Reminders!Rows, Reminders!Times,
         Reminders!NoTime
    <2>4. /\ recalculation' \in RecalculationRows /\ recalculation'.sees = found
          /\ recalculation'.adds = recalculation.adds /\ recalculation'.step = "looked"
      BY <1>1, <2>2, <2>3 DEF RecalculationRows
    <2> QED BY <1>1, <1>2, <2>3, <2>4 DEF Reminders!FindsFuture
  <1>3. CASE Reminders!CancelsFuture
    BY <1>1, <1>3, UnderWay DEF Reminders!CancelsFuture, RecalculationRows
  <1>4. CASE Reminders!InsertsFuture
    <2>1. PICK all : all = Reminders!RemindersOf(appointment, recalculation.lead, appointment.version,
                                       config.version + 1)
      OBVIOUS
    <2>2. PICK new : new = IF appointment.status = "scheduled"
                           THEN {r \in all : ~Reminders!AlertedBefore(r.to)} ELSE {}
      OBVIOUS
    <2>3. recalculation' = [recalculation EXCEPT !.step = "enqueued", !.adds = new]
      BY <1>4, <2>1, <2>2 DEF Reminders!InsertsFuture
    <2>4. /\ recalculation.lead \in Leads /\ config.version + 1 \in 0..MaxConfig + 1
          /\ appointment.version \in 0..MaxVersion
      <3>1. recalculation # Reminders!Idle
        BY <1>4, UnderWay DEF Reminders!InsertsFuture, Reminders!Idle
      <3>2. config.version <= MaxConfig /\ config.version \in 1..MaxConfig + 1 /\ MaxConfig \in Nat
        BY <3>1 DEF RemindersTyped, Reminders!TypeOK, Reminders!RemindersAssumption
      <3>3. config.version + 1 \in 0..MaxConfig + 1
        BY <3>2
      <3> QED BY <1>0, <1>1, <3>3 DEF RecalculationRows, Reminders!Rows
    <2>5. /\ all \subseteq Reminders!Reminders /\ OneEach(all) /\ AllTell(all, appointment)
          /\ appointment.starts <= now => all = {}
      BY <1>0, <2>1, <2>4, NewReminders
    <2>6. new \subseteq all
      BY <2>2
    <2>7. new \in SUBSET Reminders!Reminders /\ OneEach(new) /\ AllTell(new, appointment)
      BY <2>5, <2>6 DEF OneEach, AllTell
    <2>8. NothingToRemind => new = {}
      BY <2>2, <2>5 DEF NothingToRemind
    <2>9. /\ recalculation' \in RecalculationRows /\ recalculation'.sees = recalculation.sees
          /\ recalculation'.adds = new /\ recalculation'.step = "enqueued"
      BY <1>1, <2>3, <2>7 DEF RecalculationRows
    <2>10. recalculation.step = "cancelled"
      BY <1>4 DEF Reminders!InsertsFuture
    <2> QED BY <1>1, <1>4, <2>7, <2>8, <2>9, <2>10 DEF Reminders!InsertsFuture
  <1> QED BY <1>2, <1>3, <1>4


\* The rows a commit inserts, and what the transaction saw of those there are.
LEMMA CommandCommits ==
    ASSUME Reminders!RemindersAssumption, RemindersTyped, Reminders!CommitsCommand
    PROVE  /\ command \in CommandRows /\ command # Reminders!Idle /\ command.step = "enqueued"
           /\ command' = Reminders!Idle /\ appointment' = command.row
           /\ reminders' = Reminders!Inserted(Reminders!Cancelled(reminders, command.sees), command.adds)
           /\ command.adds \in SUBSET Reminders!Reminders /\ OneEach(command.adds)
           /\ UNCHANGED <<now, config, recalculation, enabled>>
  <1>1. command \in CommandRows /\ command # Reminders!Idle
    BY UnderWay DEF Reminders!CommitsCommand, Reminders!Idle
  <1> QED BY <1>1 DEF Reminders!CommitsCommand, CommandRows, RemindersTyped

LEMMA LeadCommits ==
    ASSUME Reminders!RemindersAssumption, RemindersTyped, Reminders!CommitsLead
    PROVE  /\ recalculation \in RecalculationRows /\ recalculation # Reminders!Idle
           /\ recalculation.step = "enqueued"
           /\ recalculation' = Reminders!Idle
           /\ config' = [lead |-> recalculation.lead, version |-> config.version + 1]
           /\ config.version <= MaxConfig
           /\ reminders' = Reminders!Inserted(Reminders!Cancelled(reminders, recalculation.sees), recalculation.adds)
           /\ recalculation.adds \in SUBSET Reminders!Reminders /\ OneEach(recalculation.adds)
           /\ UNCHANGED <<now, appointment, command, enabled>>
  <1>1. recalculation \in RecalculationRows /\ recalculation # Reminders!Idle
    BY UnderWay DEF Reminders!CommitsLead, Reminders!Idle
  <1> QED BY <1>1 DEF Reminders!CommitsLead, RecalculationRows, RemindersTyped

CommandBegins == Reminders!Schedules \/ Reminders!Reschedules \/ Reminders!StartsNow \/ Reminders!UndoesStart \/ Reminders!Closes
CommandMoves == Reminders!LooksForReminders \/ Reminders!CancelsReminders \/ Reminders!EnqueuesReminders
LeadMoves == Reminders!FindsFuture \/ Reminders!CancelsFuture \/ Reminders!InsertsFuture

\* The kinds of steps.
LEMMA Kinds ==
    ASSUME [Reminders!Next]_(Reminders!vars)
    PROVE  \/ CommandBegins \/ CommandMoves \/ Reminders!CommitsCommand
           \/ Reminders!ChangesLead \/ LeadMoves \/ Reminders!CommitsLead
           \/ Reminders!TimePasses
           \/ \E a \in Reminders!Accounts : Reminders!ClaimsAlerts(a) \/ Reminders!ReadsAlert(a)
           \/ \E a \in Reminders!Accounts : Reminders!SetsPreference(a)
           \/ UNCHANGED Reminders!vars
  BY DEF Reminders!Next, Reminders!CommandSteps, Reminders!LeadSteps, CommandBegins,
     CommandMoves, LeadMoves

LEMMA TypesInit == ASSUME Reminders!RemindersAssumption, Reminders!Init PROVE RemindersTyped
  <1>1. appointment \in Reminders!Rows /\ now \in Reminders!Times /\ 1 \in 1..MaxConfig + 1
    BY DEF Reminders!Init, Reminders!Rows, Reminders!Times, Reminders!RemindersAssumption,
       Reminders!Accounts
  <1>2. PICK lead \in Leads : config = [lead |-> lead, version |-> 1]
    BY DEF Reminders!Init
  <1>3. Reminders!TypeOK
    BY <1>1, <1>2 DEF Reminders!Init, Reminders!TypeOK
  <1> QED BY <1>3 DEF Reminders!Init, RemindersTyped, Commands, Recalculations

LEMMA TypesStep ==
    ASSUME Reminders!RemindersAssumption, RemindersTyped, [Reminders!Next]_(Reminders!vars)
    PROVE  RemindersTyped'
  <1>0. /\ Reminders!TypeOK /\ command \in Commands /\ recalculation \in Recalculations
        /\ command # Reminders!Idle => OneEach(command.adds)
        /\ recalculation # Reminders!Idle => OneEach(recalculation.adds) /\ config.version <= MaxConfig
    BY DEF RemindersTyped
  <1>a. Reminders!Idle' = Reminders!Idle /\ OneEach({})
    BY DEF Reminders!Idle, OneEach
  <1>b. CommandRows \subseteq Commands /\ RecalculationRows \subseteq Recalculations
        /\ Reminders!Idle \in Commands /\ Reminders!Idle \in Recalculations
    BY DEF CommandRows, Commands, RecalculationRows, Recalculations
  <1>c. ASSUME UNCHANGED <<now, appointment, reminders, config, enabled>> PROVE Reminders!TypeOK'
    BY <1>0, <1>c DEF Reminders!TypeOK, Reminders!Key
  <1>1. CASE CommandBegins
    <2>1. /\ command' \in CommandRows /\ command'.adds = {}
          /\ UNCHANGED <<now, appointment, reminders, config, recalculation, enabled>>
      BY <1>1, Begun DEF CommandBegins
    <2> QED BY <1>0, <1>a, <1>b, <1>c, <2>1 DEF RemindersTyped, OneEach
  <1>2. CASE CommandMoves
    <2>1. /\ command' \in CommandRows /\ command \in CommandRows
          /\ OneEach(command.adds) => OneEach(command'.adds)
          /\ UNCHANGED <<now, appointment, reminders, config, recalculation, enabled>>
      BY <1>2, CommandGoesOn DEF CommandMoves
    <2>2. command # Reminders!Idle
      BY <2>1 DEF CommandRows, Reminders!Idle
    <2> QED BY <1>0, <1>a, <1>b, <1>c, <2>1, <2>2 DEF RemindersTyped, OneEach
  <1>3. CASE Reminders!CommitsCommand
    <2>1. /\ command \in CommandRows /\ command' = Reminders!Idle /\ appointment' = command.row
          /\ UNCHANGED <<now, config, recalculation, enabled>>
      BY <1>3, CommandCommits
    <2>2. reminders' \subseteq Reminders!Reminders /\ (\A r, q \in reminders : Reminders!Key(r) = Reminders!Key(q) => r = q)'
      BY <1>0, <1>3, CommandCommits, Committed DEF Reminders!TypeOK
    <2>3. command.row \in Reminders!Rows
      BY <2>1 DEF CommandRows
    <2>4. Reminders!TypeOK'
      BY <1>0, <2>1, <2>2, <2>3 DEF Reminders!TypeOK
    <2> QED BY <1>0, <1>a, <1>b, <2>1, <2>4 DEF RemindersTyped, OneEach
  <1>4. CASE Reminders!ChangesLead
    <2>1. /\ recalculation' \in RecalculationRows /\ recalculation'.adds = {}
          /\ config.version <= MaxConfig
          /\ UNCHANGED <<now, appointment, reminders, config, command, enabled>>
      BY <1>4, LeadChanges
    <2> QED BY <1>0, <1>a, <1>b, <1>c, <2>1 DEF RemindersTyped, OneEach
  <1>5. CASE LeadMoves
    <2>1. /\ recalculation' \in RecalculationRows /\ recalculation \in RecalculationRows
          /\ OneEach(recalculation.adds) => OneEach(recalculation'.adds)
          /\ UNCHANGED <<now, appointment, reminders, config, command, enabled>>
      BY <1>5, LeadGoesOn DEF LeadMoves
    <2>2. recalculation # Reminders!Idle
      BY <2>1 DEF RecalculationRows, Reminders!Idle
    <2> QED BY <1>0, <1>a, <1>b, <1>c, <2>1, <2>2 DEF RemindersTyped, OneEach
  <1>6. CASE Reminders!CommitsLead
    <2>1. /\ recalculation \in RecalculationRows /\ recalculation' = Reminders!Idle
          /\ config' = [lead |-> recalculation.lead, version |-> config.version + 1]
          /\ config.version <= MaxConfig
          /\ UNCHANGED <<now, appointment, command, enabled>>
      BY <1>6, LeadCommits
    <2>2. reminders' \subseteq Reminders!Reminders /\ (\A r, q \in reminders : Reminders!Key(r) = Reminders!Key(q) => r = q)'
      BY <1>0, <1>6, LeadCommits, Committed DEF Reminders!TypeOK
    <2>3. recalculation.lead \in Leads /\ config.version + 1 \in 1..MaxConfig + 1
      <3>1. config.version \in 1..MaxConfig + 1 /\ MaxConfig \in Nat
        BY <1>0 DEF Reminders!TypeOK, Reminders!RemindersAssumption
      <3>2. config.version + 1 \in 1..MaxConfig + 1
        BY <2>1, <3>1
      <3> QED BY <2>1, <3>2 DEF RecalculationRows
    <2>4. Reminders!TypeOK'
      BY <1>0, <2>1, <2>2, <2>3 DEF Reminders!TypeOK
    <2> QED BY <1>0, <1>a, <1>b, <2>1, <2>4 DEF RemindersTyped, OneEach
  <1>7. CASE Reminders!TimePasses
    <2>1. now' \in Reminders!Times
      BY <1>0, <1>7 DEF Reminders!TimePasses, Reminders!TypeOK, Reminders!Times,
         Reminders!RemindersAssumption
    <2> QED BY <1>0, <1>7, <2>1 DEF Reminders!TimePasses, RemindersTyped, Reminders!TypeOK,
         OneEach, Reminders!Key, Reminders!Idle
  <1>8. CASE \E a \in Reminders!Accounts : Reminders!ClaimsAlerts(a) \/ Reminders!ReadsAlert(a)
    <2>1. /\ reminders' \subseteq Reminders!Reminders
          /\ (\A r, q \in reminders : Reminders!Key(r) = Reminders!Key(q) => r = q)'
      BY <1>0, <1>8, Claimed, Looked DEF Reminders!TypeOK
    <2>2. UNCHANGED <<now, appointment, config, command, recalculation, enabled>>
      BY <1>8 DEF Reminders!ClaimsAlerts, Reminders!ReadsAlert
    <2>3. Reminders!TypeOK'
      BY <1>0, <2>1, <2>2 DEF Reminders!TypeOK
    <2> QED BY <1>0, <1>a, <2>2, <2>3 DEF RemindersTyped, OneEach
  <1>9. CASE \E a \in Reminders!Accounts : Reminders!SetsPreference(a)
    <2>1. enabled' \subseteq Reminders!Accounts
      BY <1>0, <1>9 DEF Reminders!SetsPreference, Reminders!TypeOK
    <2> QED BY <1>0, <1>a, <1>9, <2>1 DEF Reminders!SetsPreference, RemindersTyped,
         Reminders!TypeOK, OneEach, Reminders!Key
  <1>10. CASE UNCHANGED Reminders!vars
    BY <1>0, <1>a, <1>10 DEF Reminders!vars, RemindersTyped, Reminders!TypeOK, OneEach,
       Reminders!Key
  <1> QED BY <1>1, <1>2, <1>3, <1>4, <1>5, <1>6, <1>7, <1>8, <1>9, <1>10, Kinds

\* The reminder rows keep one row for each dedupe key.
THEOREM RemindersTypeCorrect ==
    ASSUME Reminders!RemindersAssumption PROVE Reminders!Spec => []Reminders!TypeOK
  <1>1. RemindersTyped => Reminders!TypeOK
    BY DEF RemindersTyped
  <1> QED BY TypesInit, TypesStep, <1>1, PTL DEF Reminders!Spec

-----------------------------------------------------------------------------
(* No change of the lead overlaps a command. *)

LEMMA AloneInit == ASSUME Reminders!RemindersAssumption, Reminders!Init PROVE AloneInv
  <1>1. RemindersTyped
    BY TypesInit
  <1> QED BY <1>1 DEF Reminders!Init, AloneInv, OneTransaction, Reminders!OneWaitingReminder,
       Reminders!Waiting, AllTell,
             CommandKnows, RecalculationKnows

\* What is left waiting after a commit was inserted by it, or nothing was inserted.
LEMMA AloneCommit ==
    ASSUME RemindersTyped, Reminders!OneWaitingReminder, NEW sees, NEW adds, OneEach(adds),
           Reminders!Waiting \subseteq sees \/ adds = {},
           Reminders!Waiting' \subseteq (Reminders!Waiting \ sees) \cup adds
    PROVE  Reminders!OneWaitingReminder' /\ (Reminders!Waiting' \subseteq Reminders!Waiting \/ Reminders!Waiting' \subseteq adds)
  <1>1. Reminders!Waiting' \subseteq Reminders!Waiting \/ Reminders!Waiting' \subseteq adds
    OBVIOUS
  <1>2. \A r, q \in Reminders!Waiting : r.to = q.to => r = q
    BY DEF Reminders!OneWaitingReminder
  <1>3. \A r, q \in adds : r.to = q.to => r = q
    BY DEF OneEach
  <1>4. \A r, q \in Reminders!Waiting' : r.to = q.to => r = q
    BY <1>1, <1>2, <1>3
  <1> QED BY <1>1, <1>4 DEF Reminders!OneWaitingReminder

LEMMA AloneStep ==
    ASSUME Reminders!RemindersAssumption, ~Overlaps, AloneInv, [Reminders!Next]_(Reminders!vars)
    PROVE  /\ AloneInv'
           /\ \A r \in reminders' :
                 r.state = "alerted" /\ r \notin reminders =>
                    r.tells = appointment.starts /\ r.to \in Reminders!Recipients(appointment)
  <1>0. /\ RemindersTyped /\ OneTransaction /\ Reminders!OneWaitingReminder
        /\ AllTell(Reminders!Waiting, appointment) /\ CommandKnows /\ RecalculationKnows
    BY DEF AloneInv
  <1>a. RemindersTyped'
    BY <1>0, TypesStep
  <1>b. /\ reminders \subseteq Reminders!Reminders
        /\ \A r, q \in reminders : Reminders!Key(r) = Reminders!Key(q) => r = q
    BY <1>0 DEF RemindersTyped, Reminders!TypeOK
  <1>c. Reminders!Idle' = Reminders!Idle /\ AllTell({}, appointment) /\ AllTell({}, appointment')
        /\ AllTell({}, command.row) /\ AllTell({}, command'.row)
    BY DEF Reminders!Idle, AllTell
  <1>d. ASSUME UNCHANGED <<now, appointment, reminders>>
        PROVE  /\ Reminders!Waiting' = Reminders!Waiting /\ Reminders!OneWaitingReminder' /\ AllTell(Reminders!Waiting, appointment)'
               /\ NothingToRemind' <=> NothingToRemind
    BY <1>0, <1>d DEF Reminders!Waiting, Reminders!OneWaitingReminder, AllTell,
       Reminders!Recipients, NothingToRemind
  <1>e. ASSUME UNCHANGED reminders
        PROVE  \A r \in reminders' : ~(r.state = "alerted" /\ r \notin reminders)
    BY <1>e
  <1>f. ASSUME reminders' = reminders, UNCHANGED <<appointment, command>>
        PROVE  CommandKnows'
    BY <1>0, <1>f DEF CommandKnows, Reminders!Waiting, AllTell, Reminders!Recipients,
       Reminders!Idle
  <1>g. ASSUME UNCHANGED <<now, reminders, appointment, recalculation>>
        PROVE  RecalculationKnows'
    BY <1>0, <1>d, <1>g DEF RecalculationKnows, AllTell, Reminders!Recipients, Reminders!Idle
  <1>1. CASE CommandBegins
    <2>1. /\ command = Reminders!Idle /\ recalculation = Reminders!Idle
          /\ command'.step = "written" /\ command'.adds = {}
          /\ UNCHANGED <<now, appointment, reminders, config, recalculation, enabled>>
      BY <1>0, <1>1, Begun DEF CommandBegins
    <2>2. CommandKnows'
      BY <1>c, <2>1 DEF CommandKnows, AllTell
    <2>3. OneTransaction'
      BY <2>1, <1>c DEF OneTransaction
    <2>4. AloneInv'
      BY <1>a, <1>d, <1>g, <2>1, <2>2, <2>3 DEF AloneInv
    <2> QED BY <2>4, <2>1, <1>e
  <1>2. CASE CommandMoves
    <2>1. /\ command \in CommandRows /\ command' \in CommandRows
          /\ AllTell(command.adds, command.row) => AllTell(command'.adds, command'.row)
          /\ \/ command.step = "written" /\ command'.sees = Reminders!Waiting
             \/ command.step # "written" /\ command'.sees \in {command.sees, command.sees \cap Reminders!Waiting}
          /\ UNCHANGED <<now, appointment, reminders, config, recalculation, enabled>>
      BY <1>0, <1>2, CommandGoesOn DEF CommandMoves
    <2>2. command # Reminders!Idle
      BY <2>1 DEF CommandRows, Reminders!Idle
    <2>3. Reminders!Waiting \subseteq command'.sees
      BY <1>0, <2>1, <2>2 DEF CommandKnows
    <2>4. AllTell(command'.adds, command'.row)
      BY <1>0, <2>1, <2>2 DEF CommandKnows
    <2>5. CommandKnows'
      BY <1>d, <2>1, <2>3, <2>4 DEF CommandKnows, AllTell, Reminders!Recipients
    <2>6. OneTransaction'
      BY <1>0, <1>c, <2>1, <2>2 DEF OneTransaction
    <2>7. AloneInv'
      BY <1>a, <1>d, <1>g, <2>1, <2>5, <2>6 DEF AloneInv
    <2> QED BY <2>7, <2>1, <1>e
  <1>3. CASE Reminders!CommitsCommand
    <2>1. /\ command # Reminders!Idle /\ command.step = "enqueued" /\ command' = Reminders!Idle
          /\ appointment' = command.row /\ OneEach(command.adds)
          /\ recalculation' = recalculation
      BY <1>0, <1>3, CommandCommits
    <2>2. recalculation = Reminders!Idle
      BY <1>0, <2>1 DEF OneTransaction
    <2>3. Reminders!Waiting \subseteq command.sees /\ AllTell(command.adds, command.row)
      BY <1>0, <2>1 DEF CommandKnows
    <2>4. /\ Reminders!Waiting' \subseteq (Reminders!Waiting \ command.sees) \cup command.adds
          /\ \A r \in reminders' : r.state \in {"alerted", "read"} => r \in reminders
      BY <1>0, <1>3, <1>b, CommandCommits, Committed
    <2>5. Reminders!Waiting' \subseteq command.adds
      BY <2>3, <2>4
    <2>6. Reminders!OneWaitingReminder'
      BY <1>0, <2>1, <2>3, <2>4, AloneCommit
    <2>7. AllTell(Reminders!Waiting, appointment)'
      BY <2>1, <2>3, <2>5 DEF AllTell, Reminders!Recipients
    <2>8. CommandKnows' /\ RecalculationKnows' /\ OneTransaction'
      BY <1>c, <2>1, <2>2 DEF CommandKnows, RecalculationKnows, OneTransaction
    <2>9. AloneInv'
      BY <1>a, <2>6, <2>7, <2>8 DEF AloneInv
    <2> QED BY <2>4, <2>9
  <1>4. CASE Reminders!ChangesLead
    <2>1. /\ recalculation = Reminders!Idle /\ command = Reminders!Idle
          /\ recalculation'.step = "written" /\ recalculation'.adds = {}
          /\ UNCHANGED <<now, appointment, reminders, config, command, enabled>>
      BY <1>0, <1>4, LeadChanges
    <2>2. RecalculationKnows'
      BY <1>c, <2>1 DEF RecalculationKnows, AllTell
    <2>3. OneTransaction'
      BY <2>1, <1>c DEF OneTransaction
    <2>4. AloneInv'
      BY <1>a, <1>d, <1>f, <2>1, <2>2, <2>3 DEF AloneInv
    <2> QED BY <2>4, <2>1, <1>e
  <1>5. CASE LeadMoves
    <2>1. /\ recalculation \in RecalculationRows /\ recalculation' \in RecalculationRows
          /\ AllTell(recalculation.adds, appointment) => AllTell(recalculation'.adds, appointment)
          /\ \/ /\ recalculation.step = "written"
                /\ recalculation'.sees = Reminders!Waiting \/ NothingToRemind
             \/ /\ recalculation.step # "written"
                /\ recalculation'.sees \in {recalculation.sees, recalculation.sees \cap Reminders!Waiting}
          /\ recalculation'.step = "enqueued" /\ NothingToRemind => recalculation'.adds = {}
          /\ UNCHANGED <<now, appointment, reminders, config, command, enabled>>
      BY <1>0, <1>5, LeadGoesOn DEF LeadMoves
    <2>2. recalculation # Reminders!Idle
      BY <2>1 DEF RecalculationRows, Reminders!Idle
    <2>3. Reminders!Waiting \subseteq recalculation'.sees \/ NothingToRemind
      BY <1>0, <2>1, <2>2 DEF RecalculationKnows
    <2>4. AllTell(recalculation'.adds, appointment)
      BY <1>0, <2>1, <2>2 DEF RecalculationKnows
    <2>5. RecalculationKnows'
      BY <1>d, <2>1, <2>3, <2>4 DEF RecalculationKnows, AllTell, Reminders!Recipients
    <2>6. OneTransaction'
      BY <1>0, <1>c, <2>1, <2>2 DEF OneTransaction
    <2>7. AloneInv'
      BY <1>a, <1>d, <1>f, <2>1, <2>5, <2>6 DEF AloneInv
    <2> QED BY <2>7, <2>1, <1>e
  <1>6. CASE Reminders!CommitsLead
    <2>1. /\ recalculation # Reminders!Idle /\ recalculation.step = "enqueued" /\ recalculation' = Reminders!Idle
          /\ appointment' = appointment /\ OneEach(recalculation.adds)
          /\ command' = command
      BY <1>0, <1>6, LeadCommits
    <2>2. command = Reminders!Idle
      BY <1>0, <2>1 DEF OneTransaction
    <2>3. /\ Reminders!Waiting \subseteq recalculation.sees \/ recalculation.adds = {}
          /\ AllTell(recalculation.adds, appointment)
      BY <1>0, <2>1 DEF RecalculationKnows
    <2>4. /\ Reminders!Waiting' \subseteq (Reminders!Waiting \ recalculation.sees) \cup recalculation.adds
          /\ \A r \in reminders' : r.state \in {"alerted", "read"} => r \in reminders
      BY <1>0, <1>6, <1>b, LeadCommits, Committed
    <2>5. Reminders!OneWaitingReminder' /\ (Reminders!Waiting' \subseteq Reminders!Waiting \/ Reminders!Waiting' \subseteq recalculation.adds)
      BY <1>0, <2>1, <2>3, <2>4, AloneCommit
    <2>6. AllTell(Reminders!Waiting, appointment)'
      BY <1>0, <2>1, <2>3, <2>5 DEF AllTell, Reminders!Recipients
    <2>7. CommandKnows' /\ RecalculationKnows' /\ OneTransaction'
      BY <1>c, <2>1, <2>2 DEF CommandKnows, RecalculationKnows, OneTransaction
    <2>8. AloneInv'
      BY <1>a, <2>5, <2>6, <2>7 DEF AloneInv
    <2> QED BY <2>4, <2>8
  <1>7. CASE Reminders!TimePasses
    <2>1. /\ UNCHANGED <<appointment, reminders, config, command, recalculation, enabled>>
          /\ now' = now + 1
      BY <1>7 DEF Reminders!TimePasses
    <2>2. NothingToRemind => NothingToRemind'
      <3>1. appointment.starts \in Int /\ now \in Int
        BY <1>0 DEF RemindersTyped, Reminders!TypeOK, Reminders!Rows, Reminders!Times,
           Reminders!NoTime, Reminders!RemindersAssumption
      <3> QED BY <2>1, <3>1 DEF NothingToRemind
    <2>3. Reminders!Waiting' = Reminders!Waiting /\ Reminders!OneWaitingReminder' /\ AllTell(Reminders!Waiting, appointment)'
      BY <1>0, <2>1 DEF Reminders!Waiting, Reminders!OneWaitingReminder, AllTell,
         Reminders!Recipients
    <2>4. RecalculationKnows'
      BY <1>0, <1>c, <2>1, <2>2, <2>3 DEF RecalculationKnows, AllTell, Reminders!Recipients
    <2>5. OneTransaction'
      BY <1>0, <1>c, <2>1 DEF OneTransaction
    <2>6. AloneInv'
      BY <1>a, <1>f, <2>1, <2>3, <2>4, <2>5 DEF AloneInv
    <2> QED BY <2>6, <2>1, <1>e
  <1>8. CASE \E a \in Reminders!Accounts : Reminders!ClaimsAlerts(a) \/ Reminders!ReadsAlert(a)
    <2>1. UNCHANGED <<now, appointment, config, command, recalculation, enabled>>
      BY <1>8 DEF Reminders!ClaimsAlerts, Reminders!ReadsAlert
    <2>2. Reminders!Waiting' \subseteq Reminders!Waiting
      BY <1>8, <1>b, Claimed, Looked
    <2>3. Reminders!OneWaitingReminder'
      BY <1>0, <2>2 DEF Reminders!OneWaitingReminder
    <2>4. AllTell(Reminders!Waiting, appointment)'
      BY <1>0, <2>1, <2>2 DEF AllTell, Reminders!Recipients
    <2>5. CommandKnows'
      BY <1>0, <1>c, <2>1, <2>2 DEF CommandKnows, AllTell, Reminders!Recipients
    <2>6. RecalculationKnows'
      BY <1>0, <1>c, <2>1, <2>2 DEF RecalculationKnows, AllTell, Reminders!Recipients,
         NothingToRemind
    <2>7. AloneInv'
      BY <1>a, <1>0, <1>c, <2>1, <2>3, <2>4, <2>5, <2>6 DEF AloneInv, OneTransaction
    <2>8. ASSUME NEW r \in reminders', r.state = "alerted", r \notin reminders
          PROVE  r.tells = appointment.starts /\ r.to \in Reminders!Recipients(appointment)
      <3>1. PICK a \in Reminders!Accounts : Reminders!ClaimsAlerts(a) \/ Reminders!ReadsAlert(a)
        BY <1>8
      <3>2. Reminders!ClaimsAlerts(a)
        BY <3>1, <2>8, <1>b, Looked
      <3>3. PICK q \in Reminders!Due(a) : r.tells = q.tells /\ r.to = q.to
        BY <3>2, <2>8, <1>b, Claimed
      <3>4. q \in Reminders!Waiting
        BY <3>3 DEF Reminders!Due
      <3> QED BY <1>0, <3>3, <3>4 DEF AllTell
    <2> QED BY <2>7, <2>8
  <1>9. CASE (\E a \in Reminders!Accounts : Reminders!SetsPreference(a)) \/ UNCHANGED Reminders!vars
    <2>1. UNCHANGED <<now, appointment, reminders, config, command, recalculation>>
      BY <1>9 DEF Reminders!SetsPreference, Reminders!vars
    <2>2. OneTransaction'
      BY <1>0, <1>c, <2>1 DEF OneTransaction
    <2>3. AloneInv'
      BY <1>a, <1>d, <1>f, <1>g, <2>1, <2>2 DEF AloneInv
    <2> QED BY <2>3, <2>1, <1>e
  <1> QED BY <1>1, <1>2, <1>3, <1>4, <1>5, <1>6, <1>7, <1>8, <1>9, Kinds

\* While no change of the lead overlaps a command, nobody waits for two reminders of an
\* appointment.
THEOREM OneReminderWaits ==
    ASSUME Reminders!RemindersAssumption, ~Overlaps PROVE Reminders!Spec => []Reminders!OneWaitingReminder
  <1>1. AloneInv => Reminders!OneWaitingReminder
    BY DEF AloneInv
  <1> QED BY AloneInit, AloneStep, <1>1, PTL DEF Reminders!Spec

\* And an alert that goes out tells the present time to somebody with a part in it.
THEOREM AlertsTellTheTime ==
    ASSUME Reminders!RemindersAssumption, ~Overlaps PROVE Reminders!Spec => Reminders!AlertTellsTheTime
  <1>1. ASSUME AloneInv, [Reminders!Next]_(Reminders!vars)
        PROVE  [\A r \in reminders' :
                  r.state = "alerted" /\ r \notin reminders =>
                     r.tells = appointment.starts /\ r.to \in Reminders!Recipients(appointment)]_(Reminders!vars)
    BY <1>1, AloneStep
  <1> QED BY AloneInit, AloneStep, <1>1, PTL DEF Reminders!Spec, Reminders!AlertTellsTheTime


-----------------------------------------------------------------------------
(* Until the lead changes. *)

\* A command writes the next version; what it adds is of that version, and is there for
\* everybody who is to be reminded.
CommandReminds ==
    command # Reminders!Idle =>
        /\ command.row.version = appointment.version + 1
        /\ ~command.reminds => command.row.status # "scheduled"
        /\ \A r \in command.adds : r.version = command.row.version
        /\ command.step = "enqueued" /\ command.reminds
             /\ command.row.starts - config.lead > now =>
                \A a \in Reminders!Recipients(command.row) :
                    \E r \in command.adds : r.to = a /\ r.tells = command.row.starts
NoneNewer == \A r \in reminders : r.version <= appointment.version
Steady == config.version = 1 => NoneNewer /\ CommandReminds /\ Reminders!EveryoneIsReminded
SteadyInv == RemindersTyped /\ Steady

LEMMA SteadyInit == ASSUME Reminders!RemindersAssumption, Reminders!Init PROVE SteadyInv
  <1>1. RemindersTyped
    BY TypesInit
  <1> QED BY <1>1 DEF Reminders!Init, SteadyInv, Steady, NoneNewer, CommandReminds,
       Reminders!EveryoneIsReminded

LEMMA EnqueuesForEach ==
    ASSUME Reminders!RemindersAssumption, RemindersTyped, CommandReminds, CommandMoves
    PROVE  CommandReminds'
  <1>0. RemindersTyped /\ CommandReminds
    OBVIOUS
  <1>1. /\ command \in CommandRows /\ command' \in CommandRows
        /\ command'.row = command.row /\ command'.reminds = command.reminds
        /\ UNCHANGED <<now, appointment, reminders, config, recalculation, enabled>>
    BY <1>0, CommandGoesOn DEF CommandMoves
  <1>2. command # Reminders!Idle
    BY <1>1 DEF CommandRows, Reminders!Idle
  <1>3. CASE Reminders!LooksForReminders
    <2>1. command'.adds = command.adds /\ command'.step = "looked"
      BY <1>1, <1>3 DEF Reminders!LooksForReminders, CommandRows
    <2> QED BY <1>0, <1>1, <1>2, <2>1 DEF CommandReminds
  <1>4. CASE Reminders!CancelsReminders
    <2>1. command'.adds = command.adds /\ command'.step = "cancelled"
      BY <1>1, <1>4 DEF Reminders!CancelsReminders, CommandRows
    <2> QED BY <1>0, <1>1, <1>2, <2>1 DEF CommandReminds
  <1>5. CASE Reminders!EnqueuesReminders
    <2>1. PICK new : new = IF command.reminds
                           THEN Reminders!RemindersOf(command.row, config.lead, command.row.version, 0)
                           ELSE {}
      OBVIOUS
    <2>2. command'.adds = new
      BY <1>1, <1>5, <2>1 DEF Reminders!EnqueuesReminders, CommandRows
    <2>3. \A r \in new : r.version = command.row.version
      BY <2>1 DEF Reminders!RemindersOf
    <2>4. ASSUME command.reminds, command.row.starts - config.lead > now,
                 NEW a \in Reminders!Recipients(command.row)
          PROVE  \E r \in new : r.to = a /\ r.tells = command.row.starts
      <3>1. PICK r : r = [to |-> a, at |-> command.row.starts - config.lead,
                          tells |-> command.row.starts, version |-> command.row.version,
                          lead |-> config.lead, config |-> 0, state |-> "waiting"]
        OBVIOUS
      <3>2. r \in new
        BY <2>1, <2>4, <3>1 DEF Reminders!RemindersOf
      <3> QED BY <3>1, <3>2
    <2>5. /\ command'.row.version = appointment'.version + 1
          /\ ~command'.reminds => command'.row.status # "scheduled"
          /\ \A r \in command'.adds : r.version = command'.row.version
      BY <1>0, <1>1, <1>2, <2>2, <2>3 DEF CommandReminds
    <2>6. /\ command'.reminds /\ command'.row.starts - config'.lead > now' =>
                \A a \in Reminders!Recipients(command'.row) :
                    \E r \in command'.adds : r.to = a /\ r.tells = command'.row.starts
      BY <1>1, <2>2, <2>4
    <2>7. Reminders!Recipients(command.row)' = Reminders!Recipients(command'.row)
      BY DEF Reminders!Recipients
    <2> QED BY <2>5, <2>6, <2>7 DEF CommandReminds
  <1> QED BY <1>3, <1>4, <1>5 DEF CommandMoves

LEMMA SteadyStep ==
    ASSUME Reminders!RemindersAssumption, SteadyInv, [Reminders!Next]_(Reminders!vars)
    PROVE  SteadyInv'
  <1>a. RemindersTyped /\ RemindersTyped'
    BY TypesStep DEF SteadyInv
  <1> SUFFICES ASSUME config'.version = 1
               PROVE  NoneNewer' /\ CommandReminds' /\ Reminders!EveryoneIsReminded'
    BY <1>a DEF SteadyInv, Steady
  <1>e. ~Reminders!CommitsLead
    <2> SUFFICES ASSUME Reminders!CommitsLead PROVE FALSE
      OBVIOUS
    <2>1. config.version \in Nat /\ config.version > 0
      BY <1>a DEF RemindersTyped, Reminders!TypeOK
    <2>2. config'.version = config.version + 1
      BY DEF Reminders!CommitsLead
    <2> QED BY <2>1, <2>2
  <1>f. CASE Reminders!ChangesLead \/ LeadMoves
    <2>1. UNCHANGED <<now, appointment, reminders, config, command, enabled>>
      BY <1>f DEF Reminders!ChangesLead, LeadMoves, Reminders!FindsFuture,
         Reminders!CancelsFuture, Reminders!InsertsFuture
    <2>2. NoneNewer /\ CommandReminds /\ Reminders!EveryoneIsReminded
      BY <2>1 DEF SteadyInv, Steady
    <2>3. Reminders!Idle' = Reminders!Idle
      BY DEF Reminders!Idle
    <2> QED BY <2>1, <2>2, <2>3 DEF NoneNewer, CommandReminds, Reminders!EveryoneIsReminded,
         Reminders!Recipients
  <1>g. ~(Reminders!ChangesLead \/ LeadMoves) => UNCHANGED config
    <2>1. CASE CommandBegins
      BY <1>a, <2>1, Begun DEF CommandBegins
    <2>2. CASE CommandMoves
      BY <1>a, <2>2, CommandGoesOn DEF CommandMoves
    <2>3. CASE Reminders!CommitsCommand
      BY <1>a, <2>3, CommandCommits
    <2>4. CASE Reminders!TimePasses \/ (\E a \in Reminders!Accounts : Reminders!ClaimsAlerts(a) \/ Reminders!ReadsAlert(a))
               \/ (\E a \in Reminders!Accounts : Reminders!SetsPreference(a)) \/ UNCHANGED Reminders!vars
      BY <2>4 DEF Reminders!TimePasses, Reminders!ClaimsAlerts, Reminders!ReadsAlert,
         Reminders!SetsPreference, Reminders!vars
    <2> QED BY <1>e, <2>1, <2>2, <2>3, <2>4, Kinds
  <1> SUFFICES ASSUME ~(Reminders!ChangesLead \/ LeadMoves)
               PROVE  NoneNewer' /\ CommandReminds' /\ Reminders!EveryoneIsReminded'
    BY <1>f
  <1>0. RemindersTyped /\ NoneNewer /\ CommandReminds /\ Reminders!EveryoneIsReminded
    BY <1>a, <1>g DEF SteadyInv, Steady
  <1>b. /\ reminders \subseteq Reminders!Reminders
        /\ \A r, q \in reminders : Reminders!Key(r) = Reminders!Key(q) => r = q
        /\ appointment \in Reminders!Rows /\ now \in Nat /\ config.lead \in Nat
        /\ appointment.starts \in Int /\ appointment.version \in Nat
    <2>1. /\ reminders \subseteq Reminders!Reminders
          /\ \A r, q \in reminders : Reminders!Key(r) = Reminders!Key(q) => r = q
          /\ appointment \in Reminders!Rows /\ config.lead \in Leads
      BY <1>0 DEF RemindersTyped, Reminders!TypeOK
    <2>2. now \in Nat /\ config.lead \in Nat
      BY <1>0, <2>1, UnderWay DEF Reminders!RemindersAssumption
    <2>3. appointment.starts \in Int /\ appointment.version \in Nat
      BY <2>1 DEF Reminders!Rows, Reminders!Times, Reminders!NoTime,
         Reminders!RemindersAssumption
    <2> QED BY <2>1, <2>2, <2>3
  <1>c. Reminders!Idle' = Reminders!Idle
    BY DEF Reminders!Idle
  <1>d. ASSUME UNCHANGED <<now, appointment, reminders, config>>
        PROVE  NoneNewer' /\ Reminders!EveryoneIsReminded'
    BY <1>0, <1>d DEF NoneNewer, Reminders!EveryoneIsReminded, Reminders!Recipients
  <1>1. CASE CommandBegins
    <2>1. /\ command' \in CommandRows
          /\ command'.step = "written" /\ command'.adds = {}
          /\ command'.row.version = appointment.version + 1
          /\ ~command'.reminds => command'.row.status # "scheduled"
          /\ UNCHANGED <<now, appointment, reminders, config, recalculation, enabled>>
      BY <1>0, <1>1, Begun DEF CommandBegins
    <2>2. CommandReminds'
      BY <2>1 DEF CommandReminds
    <2> QED BY <1>d, <2>1, <2>2
  <1>2. CASE CommandMoves
    <2>1. UNCHANGED <<now, appointment, reminders, config, recalculation, enabled>>
      BY <1>0, <1>2, CommandGoesOn DEF CommandMoves
    <2>2. CommandReminds'
      BY <1>0, <1>2, EnqueuesForEach
    <2> QED BY <1>d, <2>1, <2>2
  <1>3. CASE Reminders!CommitsCommand
    <2>1. /\ command \in CommandRows /\ command # Reminders!Idle /\ command.step = "enqueued"
          /\ command' = Reminders!Idle /\ appointment' = command.row
          /\ reminders' = Reminders!Inserted(Reminders!Cancelled(reminders, command.sees), command.adds)
          /\ command.adds \in SUBSET Reminders!Reminders /\ OneEach(command.adds)
          /\ UNCHANGED <<now, config, recalculation, enabled>>
      BY <1>0, <1>3, CommandCommits
    <2>2. /\ command.row.version = appointment.version + 1
          /\ ~command.reminds => command.row.status # "scheduled"
          /\ \A r \in command.adds : r.version = command.row.version
          /\ command.reminds /\ command.row.starts - config.lead > now =>
                \A a \in Reminders!Recipients(command.row) :
                    \E r \in command.adds : r.to = a /\ r.tells = command.row.starts
      BY <1>0, <2>1 DEF CommandReminds
    <2>3. \A r \in command.adds : (\A q \in reminders : Reminders!Key(q) # Reminders!Key(r))
      <3> SUFFICES ASSUME NEW r \in command.adds, NEW q \in reminders, Reminders!Key(q) = Reminders!Key(r)
                   PROVE  FALSE
        OBVIOUS
      <3>1. q.version = r.version
        BY DEF Reminders!Key
      <3>2. q.version <= appointment.version /\ q.version \in Nat
        BY <1>0, <1>b DEF NoneNewer, Reminders!Reminders
      <3> QED BY <1>b, <2>2, <3>1, <3>2
    <2>4. command.adds \subseteq reminders'
      BY <1>b, <2>1, <2>3, Committed
    <2>5. \A r \in reminders' : \E q \in reminders \cup command.adds : r.version = q.version
      <3> SUFFICES ASSUME NEW r \in reminders'
                   PROVE  \E q \in reminders \cup command.adds : r.version = q.version
        OBVIOUS
      <3>1. CASE r \in command.adds
        BY <3>1
      <3>2. CASE r \notin command.adds
        <4>1. r \in Reminders!Cancelled(reminders, command.sees)
          BY <2>1, <3>2 DEF Reminders!Inserted
        <4>2. PICK q \in reminders :
                 r = IF q \in command.sees /\ q.state = "waiting"
                     THEN [q EXCEPT !.state = "cancelled"] ELSE q
          BY <4>1 DEF Reminders!Cancelled
        <4>3. r.version = q.version
          BY <1>b, <4>2 DEF Reminders!Reminders
        <4> QED BY <4>3
      <3> QED BY <3>1, <3>2
    <2>6. NoneNewer'
      <3> SUFFICES ASSUME NEW r \in reminders' PROVE r.version <= appointment'.version
        BY DEF NoneNewer
      <3>1. PICK q \in reminders \cup command.adds : r.version = q.version
        BY <2>5
      <3>2. CASE q \in reminders
        <4>1. q.version <= appointment.version /\ q.version \in Nat
          BY <1>0, <1>b, <3>2 DEF NoneNewer, Reminders!Reminders
        <4> QED BY <1>b, <2>1, <2>2, <3>1, <4>1
      <3>3. CASE q \in command.adds
        <4>1. q.version = command.row.version /\ command.row.version \in Nat
          BY <1>b, <2>2, <3>3
        <4> QED BY <2>1, <3>1, <4>1
      <3> QED BY <3>1, <3>2, <3>3
    <2>7. Reminders!EveryoneIsReminded'
      <3> SUFFICES ASSUME command.row.status = "scheduled",
                          command.row.starts - config.lead > now,
                          NEW a \in Reminders!Recipients(command.row)
                   PROVE  \E r \in reminders' : /\ r.to = a /\ r.tells = command.row.starts
                                                /\ r.state # "cancelled"
        BY <2>1 DEF Reminders!EveryoneIsReminded, Reminders!Recipients
      <3>1. PICK r \in command.adds : r.to = a /\ r.tells = command.row.starts
        BY <2>2
      <3>2. r.state = "waiting"
        BY <2>1 DEF OneEach
      <3> QED BY <2>4, <3>1, <3>2
    <2>8. CommandReminds'
      BY <1>c, <2>1 DEF CommandReminds
    <2> QED BY <2>6, <2>7, <2>8
  <1>7. CASE Reminders!TimePasses
    <2>1. /\ UNCHANGED <<appointment, reminders, config, command, recalculation, enabled>>
          /\ now' = now + 1
      BY <1>7 DEF Reminders!TimePasses
    <2>2. \A x \in Int : x > now' => x > now
      BY <1>b, <2>1
    <2>3. NoneNewer'
      BY <1>0, <2>1 DEF NoneNewer
    <2>4. appointment.starts - config.lead \in Int
      BY <1>b
    <2>5. Reminders!EveryoneIsReminded'
      BY <1>0, <2>1, <2>2, <2>4 DEF Reminders!EveryoneIsReminded, Reminders!Recipients
    <2>6. CommandReminds'
      <3> SUFFICES ASSUME command # Reminders!Idle PROVE CommandReminds'
        BY <1>c, <2>1 DEF CommandReminds
      <3>1. command \in CommandRows
        BY <1>0, UnderWay
      <3>2. command.row.starts \in Int
        BY <3>1 DEF CommandRows, Reminders!Rows, Reminders!Times, Reminders!NoTime
      <3>3. command.row.starts - config.lead \in Int
        BY <1>b, <3>2
      <3> QED BY <1>0, <1>c, <2>1, <2>2, <3>3 DEF CommandReminds, Reminders!Recipients
    <2> QED BY <2>3, <2>5, <2>6
  <1>8. CASE \E a \in Reminders!Accounts : Reminders!ClaimsAlerts(a) \/ Reminders!ReadsAlert(a)
    <2>1. UNCHANGED <<now, appointment, config, command, recalculation, enabled>>
      BY <1>8 DEF Reminders!ClaimsAlerts, Reminders!ReadsAlert
    <2>2. /\ \A r \in reminders : r.state # "cancelled" =>
                 \E q \in reminders' : q.to = r.to /\ q.tells = r.tells /\ q.state # "cancelled"
          /\ \A r \in reminders' : \E q \in reminders : r.version = q.version
      BY <1>8, <1>b, Claimed, Looked
    <2>3. NoneNewer'
      BY <1>0, <2>1, <2>2 DEF NoneNewer
    <2>4. Reminders!EveryoneIsReminded'
      <3> SUFFICES ASSUME appointment.status = "scheduled",
                          appointment.starts - config.lead > now,
                          NEW a \in Reminders!Recipients(appointment)
                   PROVE  \E q \in reminders' : /\ q.to = a /\ q.tells = appointment.starts
                                                /\ q.state # "cancelled"
        BY <2>1 DEF Reminders!EveryoneIsReminded, Reminders!Recipients
      <3>1. PICK r \in reminders : r.to = a /\ r.tells = appointment.starts /\ r.state # "cancelled"
        BY <1>0 DEF Reminders!EveryoneIsReminded
      <3> QED BY <2>2, <3>1
    <2>5. CommandReminds'
      BY <1>0, <1>c, <2>1 DEF CommandReminds, Reminders!Recipients
    <2> QED BY <2>3, <2>4, <2>5
  <1>9. CASE (\E a \in Reminders!Accounts : Reminders!SetsPreference(a)) \/ UNCHANGED Reminders!vars
    <2>1. UNCHANGED <<now, appointment, reminders, config, command, recalculation>>
      BY <1>9 DEF Reminders!SetsPreference, Reminders!vars
    <2>2. CommandReminds'
      BY <1>0, <1>c, <2>1 DEF CommandReminds, Reminders!Recipients
    <2> QED BY <1>d, <2>1, <2>2
  <1> QED BY <1>1, <1>2, <1>3, <1>e, <1>7, <1>8, <1>9, Kinds

\* Until somebody changes the lead, whoever has a part in a scheduled appointment and is not
\* late for it has a reminder of its present time.
THEOREM EachIsReminded ==
    ASSUME Reminders!RemindersAssumption
    PROVE  Reminders!Spec => [](config.version = 1 => Reminders!EveryoneIsReminded)
  <1>1. SteadyInv => (config.version = 1 => Reminders!EveryoneIsReminded)
    BY DEF SteadyInv, Steady
  <1> QED BY SteadyInit, SteadyStep, <1>1, PTL DEF Reminders!Spec

-----------------------------------------------------------------------------
(* The components side by side.                                             *)

\* Whichever component moves, each of them takes a step of its own or stands still.
LEMMA EachComponent == MCSpec => Stages!Spec /\ Candidate!Spec /\ Reminders!Spec
  <1>1. MCInit => Stages!Init /\ Candidate!Init /\ Reminders!Init
    BY DEF MCInit
  <1>2. ASSUME [MCNext]_MCvars
        PROVE  /\ [Stages!Next]_(Stages!vars) /\ [Candidate!Next]_(Candidate!vars)
               /\ [Reminders!Next]_(Reminders!vars)
    <2>1. UNCHANGED columnsVars \/ Stages!Next
      BY <1>2 DEF MCNext, MCvars
    <2>2. UNCHANGED candidateVars \/ Candidate!Next
      BY <1>2 DEF MCNext, MCvars
    <2>3. UNCHANGED remindersVars \/ Reminders!Next
      BY <1>2 DEF MCNext, MCvars
    <2>4. UNCHANGED columnsVars => UNCHANGED Stages!vars
      BY DEF columnsVars, Stages!vars
    <2>5. UNCHANGED candidateVars => UNCHANGED Candidate!vars
      BY DEF candidateVars, Candidate!vars, Candidate!process, Candidate!roster
    <2>6. UNCHANGED remindersVars => UNCHANGED Reminders!vars
      BY DEF remindersVars, Reminders!vars
    <2> QED BY <2>1, <2>2, <2>3, <2>4, <2>5, <2>6
  <1> QED BY <1>1, <1>2, PTL DEF MCSpec, Stages!Spec, Candidate!Spec, Reminders!Spec

\* In the composition, too, a removed column is emptied into one on the board, while no two
\* creations of a column overlap.
THEOREM RecruitmentEmptiesColumns == MCSpec /\ []AddsApart => RemovalLeavesNoCard
  <1>1. Stages!StagesAssumption
    BY MCAssumption
  <1> QED BY <1>1, EachComponent, RemovalEmptiesTheColumn DEF RemovalLeavesNoCard

\* Under the same condition, replacements lead to the board, and a move gives way only to a
\* removal.
THEOREM RecruitmentKeepsColumns ==
    ASSUME HopsSuffice PROVE MCSpec /\ []AddsApart => []ColumnsSound
  <1>1. Stages!StagesAssumption
    BY MCAssumption
  <1>2. Stages!Spec /\ []AddsApart =>
            [](/\ Stages!TypeOK /\ Stages!ReplacementsResolve
               /\ Stages!MovesYieldOnlyToRemovals /\ Stages!SomeRequestMoves)
    BY <1>1, TheBoardIsSound
  <1> QED BY <1>2, EachComponent, PTL DEF ColumnsSound

\* A candidate's stage, academy profile, evaluations and appointments agree.
THEOREM RecruitmentKeepsCandidates == MCSpec => []CandidateSound
  <1>1. Candidate!CandidateAssumption
    BY MCAssumption
  <1>2. Candidate!Spec => [](Candidate!TypeOK /\ Candidate!RosterFollowsTheProfile
                        /\ Candidate!PurgeLeavesNothingOpen
                        /\ Candidate!SystemRejectionHasItsEvaluation)
    BY <1>1, CandidateKeepsTheRoster
  <1> QED BY <1>2, EachComponent, PTL DEF CandidateSound

\* Whoever is hired earned it.
THEOREM RecruitmentHiresTheEarned == MCSpec => HiresAreEarned
  <1>1. Candidate!CandidateAssumption
    BY MCAssumption
  <1> QED BY <1>1, EachComponent, HiredTeachersEarnedIt DEF HiresAreEarned

\* While no change of the lead overlaps a command nobody waits for two reminders; until the
\* lead changes everybody has one.
THEOREM RecruitmentReminds == ASSUME ~Overlaps PROVE MCSpec => []RemindersSound
  <1>1. Reminders!RemindersAssumption
    BY MCAssumption
  <1>2. Reminders!Spec => []Reminders!TypeOK
    BY <1>1, RemindersTypeCorrect
  <1>3. Reminders!Spec => []Reminders!OneWaitingReminder
    BY <1>1, OneReminderWaits
  <1>4. Reminders!Spec => [](config.version = 1 => Reminders!EveryoneIsReminded)
    BY <1>1, EachIsReminded
  <1> QED BY <1>2, <1>3, <1>4, EachComponent, PTL DEF RemindersSound

\* And what an alert tells is so when it goes out.
THEOREM RecruitmentAlertsTellTheTime ==
    ASSUME ~Overlaps PROVE MCSpec => AlertTellsTheTime
  <1>1. Reminders!RemindersAssumption
    BY MCAssumption
  <1> QED BY <1>1, EachComponent, AlertsTellTheTime DEF AlertTellsTheTime
=============================================================================
