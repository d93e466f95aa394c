---------------------------- MODULE PipelineStages -----------------------------
(***************************************************************************)
(* The columns of the recruitment board and the cards that sit in them.    *)
(* HR moves cards; the HR manager adds, edits and removes columns.         *)
(* Removing a column sends its cards to another one, which also answers    *)
(* for it when a card that was closed there is recovered.                  *)
(*                                                                         *)
(* Every command is one PostgreSQL transaction.  It looks at some columns  *)
(* without locking them and then takes row locks one by one, in one of     *)
(* three modes: X (SELECT FOR UPDATE), N (a plain UPDATE, which gives a    *)
(* column its new sort_order) and K (the foreign key check of a row that   *)
(* names the column).  X excludes everything, N excludes N, K excludes     *)
(* only X.  Several rows locked by one statement come in any order here,   *)
(* which allows more deadlocks than ORDER BY does.                         *)
(*                                                                         *)
(* Home is a column of the system, Bin the closed candidates.              *)
(***************************************************************************)
EXTENDS Naturals, FiniteSets

CONSTANTS
    Columns,         \* keys of custom columns
    Added,           \* those that do not exist yet
    Home, Bin,       \* a system column; the Trash Bin
    Cards,           \* candidates
    Users,           \* requests
    MaxHops,         \* how many replacements a recovery follows, 19 in the code
    None

StagesAssumption ==
    /\ Added \subseteq Columns /\ {Home, Bin, None} \cap Columns = {}
    /\ Cardinality({Home, Bin, None}) = 3
    /\ (Columns \cup {Home, Bin, None}) \cap Cards = {}
    /\ MaxHops \in Nat \ {0} /\ IsFiniteSet(Users)

VARIABLES
    active,          \* the columns with is_active
    replacement,     \* replacement_stage_key
    at,              \* teacher_candidates.status
    origin,          \* where a closed candidate was before
    session,         \* what each request does, on which row, and the lock it waits for
    holds            \* the row locks each request holds, with their modes

vars == <<active, replacement, at, origin, session, holds>>
table == <<active, replacement, at, origin>>

AllColumns == Columns \cup {Home}
Rows == AllColumns \cup {Bin} \cup Cards
NoLock == <<None, "none">>
Idle == [doing |-> "idle", phase |-> "idle", row |-> None, to |-> None, fresh |-> FALSE,
         left |-> {}, wants |-> NoLock]

TypeOK ==
    /\ active \subseteq AllColumns
    /\ replacement \in [Columns -> AllColumns \cup {None}]
    /\ at \in [Cards -> AllColumns \cup {Bin}]
    /\ origin \in [Cards -> AllColumns]
    /\ session \in [Users ->
          [doing : {"idle", "move", "recover", "remove", "edit", "add"},
           phase : {"idle", "form", "card", "target", "column", "checked", "cards",
                    "replacement", "order"},
           row : Rows \cup {None}, to : Rows \cup {None}, fresh : BOOLEAN,
           left : SUBSET Rows, wants : Rows \X {"X", "N", "K"} \cup {NoLock}]]
    /\ holds \in [Users -> SUBSET (Rows \X {"X", "N", "K"})]

Init ==
    /\ active = (Columns \ Added) \cup {Home}
    /\ replacement = [c \in Columns |-> None]
    /\ at \in [Cards -> active]
    /\ origin = [k \in Cards |-> Home]
    /\ session = [u \in Users |-> Idle]
    /\ holds = [u \in Users |-> {}]

-----------------------------------------------------------------------------
(* Row locks and transactions. *)

Excludes(mode, other) ==
    \/ "X" \in {mode, other}
    \/ mode = "N" /\ other = "N"

Blockers(u) ==
    {t \in Users \ {u} : \E lock \in holds[t] :
        lock[1] = session[u].wants[1] /\ Excludes(lock[2], session[u].wants[2])}

Wants(u, phase, row, mode, left) ==
    session' = [session EXCEPT ![u].phase = phase, ![u].wants = <<row, mode>>,
                               ![u].left = left]
Takes(u) == holds' = [holds EXCEPT ![u] = @ \cup {session[u].wants}]
InPhase(u, doings, phase) ==
    session[u].doing \in doings /\ session[u].phase = phase /\ Blockers(u) = {}

\* Commit: the locks go, and every open form on a written row is out of date.
Commits(u, written) ==
    /\ session' = [t \in Users |->
                     IF t = u THEN Idle
                     ELSE [session[t] EXCEPT !.fresh = @ /\ session[t].row \notin written]]
    /\ holds' = [holds EXCEPT ![u] = {}]
GivesUp(u) == Commits(u, {}) /\ UNCHANGED table

-----------------------------------------------------------------------------
(* Moving and recovering a card. *)

\* resolve_active_pipeline_stage_key, with the fallback of restore_closed_candidate.
Answers(c) == IF c \in active THEN c ELSE replacement[c]
Resolve(column) ==
    LET hop[n \in 0..MaxHops] == IF n = 0 THEN column ELSE
            IF hop[n - 1] = None THEN None ELSE Answers(hop[n - 1])
    IN  IF hop[MaxHops] \in active THEN hop[MaxHops] ELSE Home

OpensCard(u, card, to) ==
    /\ session[u] = Idle
    /\ \/ /\ at[card] # to
          /\ session' = [session EXCEPT ![u] = [Idle EXCEPT !.doing = "move", !.phase = "form",
                                                  !.row = card, !.to = to, !.fresh = TRUE]]
       \/ /\ at[card] = Bin /\ to = Home
          /\ session' = [session EXCEPT ![u] = [Idle EXCEPT !.doing = "recover",
                                                  !.phase = "form", !.row = card, !.fresh = TRUE]]
    /\ UNCHANGED <<table, holds>>

\* move_candidate looks whether a custom target is active; restore_closed_candidate
\* follows the replacements.  Neither locks the column.
ChecksTarget(u) ==
    /\ session[u].phase = "form" /\ session[u].doing \in {"move", "recover"}
    /\ LET to == IF session[u].doing = "move" THEN session[u].to
                 ELSE Resolve(origin[session[u].row])
       IN  IF to \in Columns \ active THEN GivesUp(u)
           ELSE /\ session' = [session EXCEPT ![u].phase = "card", ![u].to = to,
                                              ![u].wants = <<session[u].row, "X">>]
                /\ UNCHANGED <<table, holds>>

\* update_candidate_stage: the card is locked and its version compared, ...
LocksCard(u) ==
    /\ InPhase(u, {"move", "recover"}, "card")
    /\ IF session[u].fresh
       THEN Takes(u) /\ Wants(u, "target", session[u].to, "K", {}) /\ UNCHANGED table
       ELSE GivesUp(u)

\* ... and the foreign key check waits for a transaction that has the target locked.
EntersColumn(u) ==
    /\ InPhase(u, {"move", "recover"}, "target")
    /\ at' = [at EXCEPT ![session[u].row] = session[u].to]
    /\ origin' = [origin EXCEPT ![session[u].row] =
                    IF session[u].to = Bin THEN at[session[u].row] ELSE @]
    /\ Commits(u, {session[u].row})
    /\ UNCHANGED <<active, replacement>>

-----------------------------------------------------------------------------
(* Adding, editing and removing a column. *)

OpensColumn(u, column, doing, to) ==
    /\ session[u] = Idle
    /\ doing = "add" <=> column \in Added /\ column \notin active /\ replacement[column] = None
    /\ doing # "add" => column \in active
    /\ \A t \in Users : session[t].doing = "add" => session[t].row # column
    /\ doing = "remove" => column \in Columns /\ to \in active \ {column}
    /\ session' = [session EXCEPT ![u] = [Idle EXCEPT !.doing = doing, !.phase = "form",
                                            !.row = column, !.fresh = TRUE,
                                            !.to = IF doing = "remove" THEN to ELSE None]]
    /\ UNCHANGED <<table, holds>>

\* pipeline_stage_by_key(for_update): only the present version goes on.
AsksColumnShared(u) ==
    /\ session[u].phase = "form" /\ session[u].doing \in {"edit", "remove"}
    /\ Wants(u, "column", session[u].row, "N", {})
    /\ UNCHANGED <<table, holds>>
AsksColumn(u) ==
    /\ session[u].phase = "form" /\ session[u].doing \in {"edit", "remove"}
    /\ Wants(u, "column", session[u].row, "X", {})
    /\ UNCHANGED <<table, holds>>

\* reorder_pipeline_stages writes every active column, its own as the transaction
\* left it; a column that was removed while it waited is passed over.
Reorders(u, columns) ==
    IF columns = {} THEN FALSE
    ELSE \E c \in columns : Wants(u, "order", c, "N", columns \ {c})

LocksColumn(u) ==
    /\ InPhase(u, {"edit", "remove"}, "column")
    /\ IF ~session[u].fresh \/ session[u].row \notin active THEN GivesUp(u)
       ELSE \/ /\ session[u].doing = "edit"
               /\ \/ Commits(u, {session[u].row})
                  \/ session[u].row \in Columns /\ Takes(u) /\ Reorders(u, active)
               /\ UNCHANGED table
            \/ /\ session[u].doing = "remove"
               /\ Takes(u)
               /\ session' = [session EXCEPT ![u].phase = "checked", ![u].wants = NoLock]
               /\ UNCHANGED table

\* archive_pipeline_stage_definition: the destination is looked at without a lock,
\* then the cards of the column are listed and locked, one after the other.
AsksCards(u, cards) ==
    IF cards = {} THEN Wants(u, "replacement", session[u].to, "K", {})
    ELSE \E k \in cards : Wants(u, "cards", k, "X", cards \ {k})

ChecksReplacement(u) ==
    /\ InPhase(u, {"remove"}, "checked")
    /\ IF session[u].to \in active
       THEN /\ AsksCards(u, {k \in Cards : at[k] = session[u].row})
            /\ UNCHANGED <<table, holds>>
       ELSE GivesUp(u)

\* A card that left the column in the meantime is not returned.
LocksCards(u) ==
    /\ InPhase(u, {"remove"}, "cards")
    /\ Takes(u) /\ AsksCards(u, session[u].left)
    /\ UNCHANGED table

\* Its cards and the column itself name the replacement.
WithoutOrder(u) ==
    /\ InPhase(u, {"remove"}, "replacement")
    /\ Takes(u)
    /\ Reorders(u, {session[u].to})
    /\ UNCHANGED table
SharesReplacement(u) ==
    /\ InPhase(u, {"remove"}, "replacement")
    /\ Takes(u)
    /\ Reorders(u, active \ {session[u].row})
    /\ UNCHANGED table

\* create_pipeline_stage: a look at the column it goes after, then the order.
AddsColumn(u) ==
    /\ session[u].phase = "form" /\ session[u].doing = "add"
    /\ Reorders(u, active)
    /\ UNCHANGED <<table, holds>>

MovedCards(u) == {k \in Cards : <<k, "X">> \in holds[u] /\ at[k] = session[u].row}

Removes(u) ==
    /\ session[u].doing = "remove"
    /\ active' = active \ {session[u].row}
    /\ replacement' = [replacement EXCEPT ![session[u].row] = session[u].to]
    /\ at' = [k \in Cards |-> IF k \in MovedCards(u) THEN session[u].to ELSE at[k]]
    /\ Commits(u, MovedCards(u) \cup {session[u].row})
    /\ UNCHANGED origin
Adds(u) ==
    /\ session[u].doing = "add"
    /\ active' = active \cup {session[u].row}
    /\ Commits(u, {})
    /\ UNCHANGED <<replacement, at, origin>>
Edits(u) == session[u].doing = "edit" /\ Commits(u, {session[u].row}) /\ UNCHANGED table

SetsOrder(u) ==
    /\ InPhase(u, {"edit", "add", "remove"}, "order")
    /\ IF session[u].left # {} THEN Takes(u) /\ Reorders(u, session[u].left) /\ UNCHANGED table
       ELSE Removes(u) \/ Adds(u) \/ Edits(u)

-----------------------------------------------------------------------------
\* PostgreSQL's deadlock detector: through the requests it waits for, u waits for itself.
Deadlocked(u) ==
    \A waited \in SUBSET Users :
        /\ Blockers(u) \subseteq waited
        /\ \A t \in waited : Blockers(t) \subseteq waited
        => u \in waited
IsRolledBack(u) == Deadlocked(u) /\ GivesUp(u)

Begins(u) ==
    \/ \E card \in Cards, to \in active \cup {Bin} : OpensCard(u, card, to)
    \/ \E column \in AllColumns, doing \in {"add", "edit", "remove"}, to \in AllColumns :
          /\ doing # "remove" => to = Home
          /\ OpensColumn(u, column, doing, to)

\* Every locking step of a request.
Advances(u) ==
    \/ LocksCard(u) \/ EntersColumn(u)
    \/ LocksColumn(u) \/ ChecksReplacement(u) \/ LocksCards(u) \/ SharesReplacement(u)
    \/ SetsOrder(u)
    \/ IsRolledBack(u)

Step(u) == Begins(u) \/ ChecksTarget(u) \/ AsksColumn(u) \/ AddsColumn(u) \/ Advances(u)

Next == \E u \in Users : Step(u)

Spec == Init /\ [][Next]_vars

-----------------------------------------------------------------------------
(* Properties. *)

\* Following the replacements from any removed column leads to a column that is
\* still on the board: two removals at the same time never send their cards to
\* each other, although neither locks its destination while it looks at it.
ReplacementsResolve ==
    \A c \in Columns : replacement[c] # None /\ c \notin active =>
        \E n \in 1..MaxHops :
            LET hop[i \in 0..n] == IF i = 0 THEN c ELSE
                    IF hop[i - 1] \in Columns \ active THEN replacement[hop[i - 1]]
                    ELSE hop[i - 1]
            IN  hop[n] \in active

\* When a column goes, its destination is on the board at that moment and every
\* card that sat in it has left it.
RemovalLeavesNoCard ==
    [][\A c \in Columns : c \in active /\ c \notin active' =>
          /\ replacement'[c] \in active'
          /\ \A k \in Cards : at'[k] # c]_vars

\* Requests each of which waits for one of them and is waited for by one of them.
Deadlocks ==
    {d \in SUBSET Users \ {{}} :
        \A u \in d : Blockers(u) \cap d # {} /\ \E v \in d : u \in Blockers(v)}

\* A request that moves a card is part of a deadlock only when a column is being
\* removed in it: moves never deadlock among themselves or with edits.
MovesYieldOnlyToRemovals ==
    \A d \in Deadlocks :
        (\E u \in d : session[u].doing \in {"move", "recover"}) =>
            \E u \in d : session[u].doing = "remove"

\* However many requests wait in whatever order of rows, one of those under way waits for
\* nobody, or waits for itself and is found by PostgreSQL.
SomeRequestMoves ==
    (\E u \in Users : session[u] # Idle) =>
        \E u \in Users : session[u] # Idle /\ (Blockers(u) = {} \/ Deadlocked(u))

\* "Candidates currently in this stage will be moved transactionally", says the
\* board when a column is removed: no card is left in a column that is gone.
CardsSitInActiveColumns == \A k \in Cards : at[k] \in active \cup {Bin}
=============================================================================
