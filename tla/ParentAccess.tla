------------------------------ MODULE ParentAccess ------------------------------
(***************************************************************************)
(* How parents come to see a child.  Customer Support hands out an invite  *)
(* for a student, replacing the one before; a parent claims it, by Telegram*)
(* or by the manual form, and the claim finds or creates the parent, links *)
(* the child and opens the account in one transaction.  Meanwhile Customer *)
(* Support edits, closes and reopens parents and links and unlinks their   *)
(* children, comparing a version that claims do not advance (`fresh`: the  *)
(* requests whose version is still the present one).                       *)
(*                                                                         *)
(* Rows are locked as the statements of a transaction reach them, in an    *)
(* order that differs between the commands; what a transaction writes is   *)
(* seen when it commits.                                                   *)
(***************************************************************************)
EXTENDS Naturals, FiniteSets

CONSTANTS
    Requests,
    Students, Parents, Invites,
    Identities,      \* verified Telegram users
    Phones,          \* numbers typed into the manual form
    Staff,           \* staff accounts that may link a Telegram user
    Names,
    None

ParentsAssumption ==
    /\ IsFiniteSet(Requests)
    /\ None \notin Requests \cup Students \cup Parents \cup Invites \cup Identities
                   \cup Phones \cup Staff \cup Names
    /\ Parents \cap Staff = {} /\ Identities \cap Phones = {}
    /\ \A row \in Students :
          row \notin Invites \cup Parents \cup Identities \cup (Parents \X Students)
    /\ \A row \in Invites :
          row \notin Parents \cup Identities \cup (Parents \X Students)

VARIABLES
    invite,          \* account_invites
    parent,          \* parents
    account,         \* whether the parent's account and profile are active
    family,          \* parent_student_links
    telegram,        \* account_telegram_links: the account of each Telegram user
    request,         \* what each request does, how far it is, and what it read
    fresh,           \* Customer Support's requests that hold the present version
    lock             \* the requests that hold each row

vars == <<invite, parent, account, family, telegram, request, fresh, lock>>

Rows == Invites \cup Students \cup Parents \cup Identities \cup (Parents \X Students)
NoParent == [known |-> FALSE, active |-> FALSE, telegram |-> None, phone |-> None, name |-> None]
Idle == [doing |-> "idle", phase |-> "idle", invite |-> None, student |-> None,
         parent |-> None, who |-> None, name |-> None, saw |-> NoParent,
         linked |-> FALSE, active |-> FALSE]
ParentRows == [known : BOOLEAN, active : BOOLEAN, telegram : Identities \cup {None},
               phone : Phones \cup {None}, name : Names \cup {None}]
RequestRows ==
    [doing : {"idle", "claim", "replace", "edit", "link", "unlink"},
     phase : {"idle", "opened", "locked", "found", "named", "linked"},
     invite : Invites \cup {None}, student : Students \cup {None}, parent : Parents \cup {None},
     who : Identities \cup Phones \cup {None}, name : Names \cup {None},
     saw : ParentRows, linked : BOOLEAN, active : BOOLEAN]

TypeOK ==
    /\ invite \in [Invites -> [status : {"none", "pending", "consumed", "revoked"},
                               student : Students \cup {None}]]
    /\ parent \in [Parents -> ParentRows]
    /\ account \in [Parents -> BOOLEAN]
    /\ family \in [Parents \X Students -> {"none", "active", "inactive"}]
    /\ telegram \in [Identities -> Parents \cup Staff \cup {None}]
    /\ request \in [Requests -> RequestRows]
    /\ fresh \subseteq Requests
    /\ lock \in [Rows -> SUBSET Requests]
    /\ \A p \in Parents : account[p] => parent[p].known

Init ==
    /\ invite = [i \in Invites |-> [status |-> "none", student |-> None]]
    /\ parent = [p \in Parents |-> NoParent]
    /\ account = [p \in Parents |-> FALSE]
    /\ family = [pair \in Parents \X Students |-> "none"]
    /\ telegram = [t \in Identities |-> None]
    /\ request = [r \in Requests |-> Idle]
    /\ fresh = {}
    /\ lock = [row \in Rows |-> {}]

Records == <<invite, parent, account, family, telegram>>
Doing(r, what, phase) == request[r].doing = what /\ request[r].phase = phase
Opens(r, what) == request' = [request EXCEPT ![r] = what]
Locks(r, rows, phase) ==
    /\ lock' = [row \in Rows |-> IF row \in rows THEN lock[row] \cup {r} ELSE lock[row]]
    /\ request' = [request EXCEPT ![r].phase = phase]
Ends(r) ==
    /\ request' = [request EXCEPT ![r] = Idle]
    /\ lock' = [row \in Rows |-> lock[row] \ {r}]
Rollback(r) == Ends(r) /\ fresh' = fresh \ {r} /\ UNCHANGED Records

\* get_pending_parent_invite_payload and consume_parent_invite ask the same of an
\* invite; max_uses is 1.
Usable(i) == invite[i].status = "pending"

Pending(s) == {i \in Invites : invite[i].status = "pending" /\ invite[i].student = s}
Pair(r) == <<request[r].parent, request[r].student>>
IsNewLink(r) == family[Pair(r)] = "none" /\ request[r].doing \in {"claim", "link"}

\* A new link shares the student's row with other new links, not with a replacement.
Conflicts(r, row) ==
    {q \in lock[row] \ {r} :
        row \in Students => "replace" \in {request[r].doing, request[q].doing}}

\* What a new link, or a changed one, locks.
LinkRows(r) == {Pair(r)} \cup (IF IsNewLink(r) THEN {request[r].student} ELSE {})

\* The rows that the next statement of r waits for.
Needs(r) ==
    LET q == request[r]
    IN CASE Doing(r, "claim", "opened") -> {q.invite}
         [] Doing(r, "claim", "found") ->
               IF parent[q.parent].known THEN {q.parent} ELSE {q.who} \cap Identities
         [] Doing(r, "claim", "named") -> LinkRows(r)
         [] Doing(r, "replace", "opened") -> {q.student}
         [] Doing(r, "replace", "locked") -> Pending(q.student)
         [] Doing(r, "edit", "opened") -> {q.parent}
         [] q.doing \in {"link", "unlink"} /\ q.phase = "opened" -> LinkRows(r)
         [] q.doing \in {"link", "unlink"} /\ q.phase = "locked" -> {q.parent}
         [] OTHER -> {}
Blockers(r) == UNION {Conflicts(r, row) : row \in Needs(r)}

-----------------------------------------------------------------------------
(* A parent claims an invite. *)

SendsClaim(r, i, who, name) ==
    /\ request[r] = Idle /\ invite[i].status # "none"
    /\ Opens(r, [Idle EXCEPT !.doing = "claim", !.phase = "opened", !.invite = i,
                   !.student = invite[i].student, !.who = who, !.name = name])
    /\ UNCHANGED <<Records, fresh, lock>>

\* claim_parent_invite_code: the invite is locked, or it is not there to be claimed.
LocksInvite(r) ==
    /\ Doing(r, "claim", "opened") /\ Blockers(r) = {}
    /\ IF Usable(request[r].invite)
       THEN Locks(r, {request[r].invite}, "locked") /\ UNCHANGED <<Records, fresh>>
       ELSE Rollback(r)

\* The parent of this Telegram user; without one, the parent ever linked to this
\* student who has the number. A user name typed by hand is looked up and stored as a number
\* is (parent_relationships/repository.py:189) and stands for one; claims by both are left out.
Matches(r) ==
    LET q == request[r] IN
    {p \in Parents :
        /\ parent[p].known
        /\ \/ parent[p].telegram = q.who
           \/ parent[p].phone = q.who /\ family[<<p, q.student>>] # "none"}

\* Without a match a row is inserted, which no one else can name yet.
FindsParent(r) ==
    /\ Doing(r, "claim", "locked")
    /\ \E p \in IF Matches(r) # {} THEN Matches(r)
                ELSE {x \in Parents : ~parent[x].known /\ \A q \in Requests : request[q].parent # x} :
          request' = [request EXCEPT ![r].parent = p, ![r].phase = "found"]
    /\ UNCHANGED <<Records, fresh, lock>>

\* The UPDATE of the matched row waits for it; the INSERT waits for another one of the
\* same Telegram user and then breaks the unique index.
NamesParent(r) ==
    LET p == request[r].parent
        who == request[r].who
    IN /\ Doing(r, "claim", "found") /\ Blockers(r) = {}
       /\ IF ~parent[p].known /\ \E x \in Parents : who \in Identities /\ parent[x].telegram = who
          THEN Rollback(r)
          ELSE /\ Locks(r, {p} \cup ({who} \cap Identities), "named")
               /\ UNCHANGED <<Records, fresh>>

LinksChild(r) ==
    /\ Doing(r, "claim", "named") /\ Blockers(r) = {}
    /\ Locks(r, LinkRows(r), "linked")
    /\ UNCHANGED <<Records, fresh>>

\* save_parent_account: the link of the Telegram user goes to this account, whoever had it.
KeepsFirst(p, who) ==
    telegram' = IF who \in Identities /\ telegram[who] = None
                THEN [telegram EXCEPT ![who] = p] ELSE telegram
TakesIdentity(p, who) ==
    telegram' = IF who \in Identities THEN [telegram EXCEPT ![who] = p] ELSE telegram

\* A Telegram claim makes the parent active (claim_parent_telegram_identity); any claim
\* makes the account and the profile active (save_parent_account).
CommitsClaim(r) ==
    LET q == request[r]
        p == q.parent
        byTelegram == q.who \in Identities
    IN /\ Doing(r, "claim", "linked")
       /\ IF ~Usable(q.invite) THEN Rollback(r)
          ELSE /\ parent' = [parent EXCEPT ![p] =
                    [known |-> TRUE, name |-> q.name,
                     active |-> byTelegram \/ ~@.known \/ @.active,
                     telegram |-> IF byTelegram THEN q.who ELSE @.telegram,
                     phone |-> IF byTelegram THEN @.phone ELSE q.who]]
               /\ account' = [account EXCEPT ![p] = TRUE]
               /\ family' = [family EXCEPT ![Pair(r)] = "active"]
               /\ TakesIdentity(p, q.who)
               /\ invite' = [invite EXCEPT ![q.invite].status = "consumed"]
               /\ Ends(r) /\ UNCHANGED fresh

-----------------------------------------------------------------------------
(* Customer Support. *)

\* Bounded by the invites there are.
Room == {i \in Invites : invite[i].status = "none"}
SendsReplace(r, s) ==
    /\ request[r] = Idle
    /\ Cardinality(Room) > Cardinality({q \in Requests : request[q].doing = "replace"})
    /\ Opens(r, [Idle EXCEPT !.doing = "replace", !.phase = "opened", !.student = s])
    /\ UNCHANGED <<Records, fresh, lock>>

ReadsStudent(r) ==
    /\ Doing(r, "replace", "opened")
    /\ Locks(r, {}, "locked") /\ UNCHANGED <<Records, fresh>>
\* create_parent_invite: the student's row, the pending invites, the new invite.
LocksStudent(r) ==
    /\ Doing(r, "replace", "opened") /\ Blockers(r) = {}
    /\ Locks(r, {request[r].student}, "locked") /\ UNCHANGED <<Records, fresh>>
RevokesPending(r) ==
    /\ Doing(r, "replace", "locked") /\ Blockers(r) = {}
    /\ Locks(r, Pending(request[r].student), "linked") /\ UNCHANGED <<Records, fresh>>
IssuesInvite(r) ==
    LET s == request[r].student IN
    /\ Doing(r, "replace", "linked")
    /\ \E new \in Room :
          invite' = [i \in Invites |->
             IF i = new THEN [status |-> "pending", student |-> s]
             ELSE IF r \in lock[i] THEN [invite[i] EXCEPT !.status = "revoked"] ELSE invite[i]]
    /\ Ends(r) /\ UNCHANGED <<parent, account, family, telegram, fresh>>

\* update_parent and set_parent_lifecycle: everything but what is changed is written back.
OpensEdit(r, p, name, active) ==
    /\ request[r] = Idle /\ parent[p].known
    /\ Opens(r, [Idle EXCEPT !.doing = "edit", !.phase = "opened", !.parent = p,
                   !.name = name, !.active = active, !.saw = parent[p]])
    /\ fresh' = fresh \cup {r}
    /\ UNCHANGED <<Records, lock>>

OpensLink(r, p, s, what) ==
    /\ request[r] = Idle /\ parent[p].known
    /\ Opens(r, [Idle EXCEPT !.doing = what, !.phase = "opened", !.parent = p,
                   !.student = s, !.saw = parent[p], !.linked = family[<<p, s>>] = "active"])
    /\ fresh' = fresh \cup {r}
    /\ UNCHANGED <<Records, lock>>

Bumped(r) == fresh' = {q \in fresh : request[q].parent # request[r].parent}

\* update_parent_record: the account and the profile follow; their sessions end.
CommitsEdit(r) ==
    LET p == request[r].parent IN
    /\ Doing(r, "edit", "opened") /\ Blockers(r) = {}
    /\ IF r \in fresh
       THEN /\ parent' = [parent EXCEPT ![p] = [request[r].saw EXCEPT !.name = request[r].name,
                             !.active = request[r].active, !.telegram = parent[p].telegram]]
            /\ account' = [account EXCEPT ![p] = request[r].active]
            /\ Ends(r) /\ Bumped(r) /\ UNCHANGED <<invite, family, telegram>>
       ELSE Rollback(r)

\* link_parent_child and unlink_parent_child write the link and then the parent's version.
LocksLink(r) ==
    /\ request[r].doing \in {"link", "unlink"} /\ request[r].phase = "opened"
    /\ Blockers(r) = {}
    /\ IF (family[Pair(r)] = "active") = (request[r].doing = "unlink")
       THEN Locks(r, LinkRows(r), "locked") /\ UNCHANGED <<Records, fresh>>
       ELSE Rollback(r)
CommitsLinkOfAnyVersion(r) ==
    /\ request[r].doing \in {"link", "unlink"} /\ request[r].phase = "locked"
    /\ Blockers(r) = {}
    /\ family' = [family EXCEPT ![Pair(r)] =
          IF request[r].doing = "link" THEN "active" ELSE "inactive"]
    /\ Ends(r) /\ Bumped(r) /\ UNCHANGED <<invite, parent, account, telegram>>
CommitsLink(r) ==
    /\ request[r].doing \in {"link", "unlink"} /\ request[r].phase = "locked"
    /\ Blockers(r) = {}
    /\ IF r \in fresh
       THEN /\ family' = [family EXCEPT ![Pair(r)] =
                  IF request[r].doing = "link" THEN "active" ELSE "inactive"]
            /\ Ends(r) /\ Bumped(r) /\ UNCHANGED <<invite, parent, account, telegram>>
       ELSE Rollback(r)

-----------------------------------------------------------------------------
(* Staff link their own Telegram user; PostgreSQL ends a cycle of waiting   *)
(* transactions by aborting one of them.                                    *)

\* link_connection: an identity of another account is refused, other links are revoked.
LinksIdentity(a, t) ==
    /\ telegram[t] \in {a, None}
    /\ telegram' = [x \in Identities |-> IF x = t THEN a
                                         ELSE IF telegram[x] = a THEN None ELSE telegram[x]]
    /\ UNCHANGED <<invite, parent, account, family, request, fresh, lock>>

UnlinksIdentity(a) ==
    /\ telegram' = [t \in Identities |-> IF telegram[t] = a THEN None ELSE telegram[t]]
    /\ UNCHANGED <<invite, parent, account, family, request, fresh, lock>>

\* Through the requests it waits for, r waits for itself.
Deadlocked(r) ==
    \A waited \in SUBSET Requests :
        /\ Blockers(r) \subseteq waited
        /\ \A s \in waited : Blockers(s) \subseteq waited
        => r \in waited
DeadlockAborts(r) == Deadlocked(r) /\ Rollback(r)

-----------------------------------------------------------------------------
Advances(r) ==
    \/ LocksInvite(r) \/ FindsParent(r) \/ NamesParent(r) \/ LinksChild(r) \/ CommitsClaim(r)
    \/ LocksStudent(r) \/ RevokesPending(r) \/ IssuesInvite(r)
    \/ CommitsEdit(r) \/ LocksLink(r) \/ CommitsLink(r)

Next ==
    \/ \E r \in Requests :
          \/ Advances(r) \/ DeadlockAborts(r)
          \/ \E i \in Invites, who \in Identities \cup Phones, name \in Names :
                SendsClaim(r, i, who, name)
          \/ \E s \in Students : SendsReplace(r, s)
          \/ \E p \in Parents :
                \/ \E name \in Names, active \in BOOLEAN : OpensEdit(r, p, name, active)
                \/ \E s \in Students, what \in {"link", "unlink"} : OpensLink(r, p, s, what)
    \/ \E a \in Staff : (\E t \in Identities : LinksIdentity(a, t)) \/ UnlinksIdentity(a)

Spec == Init /\ [][Next]_vars
FairSpec ==
    /\ Spec
    /\ \A r \in Requests : SF_vars(Advances(r)) /\ WF_vars(DeadlockAborts(r))

-----------------------------------------------------------------------------
(* Properties *)

\* However replacements overlap, a student has one invite that can be claimed.
OneLiveInvite == \A s \in Students : Cardinality(Pending(s)) <= 1

\* An invite that was claimed or replaced gives nothing more, however late a claim of
\* it began.
AnswersAreFinal ==
    [][\A i \in Invites : invite[i].status \in {"consumed", "revoked"} =>
                             invite'[i] = invite[i]]_vars

\* A parent's Telegram user on the parent's own row and the link that Telegram logins
\* go by name each other, whatever staff link meanwhile.
TelegramAgrees ==
    \A p \in Parents, t \in Identities : parent[p].telegram = t <=> telegram[t] = p

\* However many requests wait in whatever order of rows, one of those under way waits for
\* nobody, or waits for itself and is found by PostgreSQL.
SomeRequestMoves ==
    (\E r \in Requests : request[r] # Idle) =>
        \E r \in Requests : request[r] # Idle /\ (Blockers(r) = {} \/ Deadlocked(r))

\* Replacements, claims and staff who link a Telegram user may overlap in any way.
FamilySound == TypeOK /\ OneLiveInvite /\ TelegramAgrees /\ SomeRequestMoves

\* A form that Customer Support opened while the parent was active does not reopen a
\* parent closed meanwhile.
ReopenedKnowingly ==
    [][\A p \in Parents : parent[p].known /\ ~parent[p].active /\ parent'[p].active =>
          \E r \in Requests :
             /\ request[r].parent = p /\ request'[r] = Idle
             /\ request[r].doing = "claim" \/ ~request[r].saw.active]_vars

\* A link that Customer Support sent while the child was still linked does not bring the
\* child back after an unlink that came between.
UnlinkStands ==
    [][\A r \in Requests :
          /\ request[r].doing = "link" /\ request'[r] = Idle
          /\ family[Pair(r)] = "inactive" /\ family'[Pair(r)] = "active"
          => ~request[r].linked]_vars

\* Requests that lock, read and write row by row, in any overlap, change access as if each
\* took effect at once: no claim opens a child by an invite that was used, replaced or
\* issued for another one, and a replacement leaves none that it did not see.
Access == INSTANCE FamilyAccess WITH
    known <- {p \in Parents : parent[p].known},
    linked <- {pair \in Parents \X Students : family[pair] = "active"}
ChangesAccessAtOnce == Access!Spec

\* Every request ends: a claim, or the command it deadlocked with, is answered.
RequestEnds == \A r \in Requests : request[r] # Idle ~> request[r] = Idle

\* "This parent changed. Reload and try again.": a change of the parent's data since the
\* form was opened is refused.
ChangedParentIsRefused ==
    [][\A r \in Requests :
          request[r].doing = "edit" /\ request'[r] = Idle /\ parent' # parent
          => request[r].saw = parent[request[r].parent]]_vars

\* An account that Customer Support closed is opened again by Customer Support only.
ClosedParentStaysOut ==
    [][\A p \in Parents : parent[p].known /\ ~account[p] /\ account'[p] =>
          \E r \in Requests : request[r].doing = "edit" /\ request'[r] = Idle]_vars
=============================================================================
