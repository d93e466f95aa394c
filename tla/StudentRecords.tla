----------------------------- MODULE StudentRecords -----------------------------
(***************************************************************************)
(* One student: the record Customer Support keeps, the account behind it   *)
(* and its places in groups, which Academics keeps.                        *)
(*                                                                         *)
(* Customer Support's commands compare a version: each opens the record,   *)
(* reads it without a lock, and its UPDATE goes through only when no other *)
(* command has committed since (`fresh`).  The record and the account are  *)
(* locked by the first UPDATE or FOR UPDATE of a transaction until it ends,*)
(* in an order that depends on the command.  Academics' commands lock      *)
(* nothing of the student: they read a place and then write it.            *)
(***************************************************************************)
EXTENDS Naturals, FiniteSets

CONSTANTS
    Requests,
    Groups, Schools,
    SchoolOf,        \* the school of each group
    Places,          \* legacy enrolment ids
    Own,             \* the password the student chose
    None

RecordsAssumption ==
    /\ SchoolOf \in [Groups -> Schools]
    /\ Own \notin Requests /\ None \notin Requests \cup Groups \cup Schools \cup Places

VARIABLES
    record,          \* students: status and school
    account,         \* accounts: status and the password that opens it
    handed,          \* the temporary password Customer Support was told last
    place,           \* group_students of the student: who sits there, and how
    group,           \* groups.status
    request,         \* what each request does, how far it is, and what it read
    fresh,           \* the requests that read the present version of the record
    lock             \* who holds the record and the account

vars == <<record, account, handed, place, group, request, fresh, lock>>

Empty == [id |-> None, status |-> "none"]
Idle == [doing |-> "idle", phase |-> "idle", saw |-> None, status |-> None, school |-> None,
         from |-> None, to |-> None, id |-> None]
Support == {"edit", "lifecycle", "reset"}
Academic == {"enrol", "status", "move"}

TypeOK ==
    /\ record \in [status : {"active", "disabled", "archived"}, school : Schools]
    /\ account \in [status : {"active", "disabled", "archived"}, secret : Requests \cup {Own}]
    /\ handed \in Requests \cup {None}
    /\ place \in [Groups -> [id : Places, status : {"active", "disqualified", "banned"}]
                              \cup {Empty}]
    /\ group \in [Groups -> {"active", "archived", "purged"}]
    /\ \A r \in Requests :
          /\ request[r].doing \in Support \cup Academic \cup {"idle"}
          /\ request[r].phase \in {"idle", "checked", "locked"}
          /\ request[r].saw \in {"active", "disabled", "archived", None}
          /\ {request[r].from, request[r].to} \subseteq Groups \cup {None}
          /\ request[r].id \in Places \cup {None}
    /\ fresh \subseteq Requests
    /\ lock \in [{"record", "account"} -> Requests \cup {None}]

Init ==
    /\ record \in [status : {"active"}, school : Schools]
    /\ account = [status |-> "active", secret |-> Own]
    /\ handed = None
    /\ place = [g \in Groups |-> Empty]
    /\ group = [g \in Groups |-> "active"]
    /\ request = [r \in Requests |-> Idle]
    /\ fresh = {}
    /\ lock = [row \in {"record", "account"} |-> None]

Sits == {g \in Groups : place[g].status = "active"}
studentVars == <<record, account, handed>>
Academics == <<place, group>>

Doing(r, what, phase) == request[r].doing = what /\ request[r].phase = phase
Free(r, row) == lock[row] \in {r, None}
Ends(r) ==
    /\ request' = [request EXCEPT ![r] = Idle]
    /\ lock' = [row \in DOMAIN lock |-> IF lock[row] = r THEN None ELSE lock[row]]
Rollback(r) == Ends(r) /\ fresh' = fresh \ {r} /\ UNCHANGED <<studentVars, Academics>>
Locks(r, row) ==
    /\ lock' = [lock EXCEPT ![row] = r]
    /\ request' = [request EXCEPT ![r].phase = "locked"]

-----------------------------------------------------------------------------
(* Customer Support. *)

\* update_student: the school may change when the student sits in no group.
OpensEdit(r, status, school) ==
    /\ request[r] = Idle
    /\ school # record.school => Sits = {}
    /\ request' = [request EXCEPT ![r] = [Idle EXCEPT !.doing = "edit", !.phase = "checked",
                     !.saw = record.status, !.status = status, !.school = school]]
    /\ fresh' = fresh \cup {r}
    /\ UNCHANGED <<studentVars, Academics, lock>>

\* set_student_lifecycle: a student who sits in a group is not archived.
OpensLifecycle(r, status) ==
    /\ request[r] = Idle
    /\ status = "archived" => Sits = {}
    /\ request' = [request EXCEPT ![r] = [Idle EXCEPT !.doing = "lifecycle",
                     !.phase = "checked", !.saw = record.status, !.status = status]]
    /\ fresh' = fresh \cup {r}
    /\ UNCHANGED <<studentVars, Academics, lock>>

\* reset_student_access.
OpensReset(r) ==
    /\ request[r] = Idle
    /\ request' = [request EXCEPT ![r] = [Idle EXCEPT !.doing = "reset", !.phase = "checked",
                     !.saw = record.status]]
    /\ fresh' = fresh \cup {r}
    /\ UNCHANGED <<studentVars, Academics, lock>>

\* UPDATE students ... WHERE version: the record is locked, or the version has moved on.
LocksRecord(r) ==
    /\ Doing(r, "edit", "checked") \/ Doing(r, "lifecycle", "checked")
    /\ lock["record"] = None
    /\ IF r \in fresh
       THEN Locks(r, "record") /\ UNCHANGED <<studentVars, Academics, fresh>>
       ELSE Rollback(r)

\* The account and the profile follow the record, and the transaction commits.
WritesRecord(r) ==
    /\ Doing(r, "edit", "locked") \/ Doing(r, "lifecycle", "locked")
    /\ Free(r, "account")
    /\ record' = [status |-> request[r].status,
                  school |-> IF request[r].doing = "edit" THEN request[r].school
                             ELSE record.school]
    /\ account' = [account EXCEPT !.status = request[r].status]
    /\ Ends(r) /\ fresh' = {}
    /\ UNCHANGED <<handed, Academics>>

\* reset_student_password locks the account; only then is the version compared.
LocksAccountAndCommits(r) ==
    /\ Doing(r, "reset", "checked") /\ lock["account"] = None
    /\ Locks(r, "account") /\ account' = [account EXCEPT !.secret = r]
    /\ UNCHANGED <<record, handed, Academics, fresh>>
LocksAccount(r) ==
    /\ Doing(r, "reset", "checked") /\ lock["account"] = None
    /\ Locks(r, "account") /\ UNCHANGED <<studentVars, Academics, fresh>>
BumpsVersion(r) ==
    /\ Doing(r, "reset", "locked") /\ Free(r, "record")
    /\ IF r \in fresh
       THEN /\ account' = [account EXCEPT !.secret = r]
            /\ handed' = r
            /\ Ends(r) /\ fresh' = {}
            /\ UNCHANGED <<record, Academics>>
       ELSE Rollback(r)

\* change_own_password: one locked row, one commit.
ChangesOwnPassword ==
    /\ lock["account"] = None /\ account.status = "active" /\ account.secret # Own
    /\ account' = [account EXCEPT !.secret = Own]
    /\ handed' = None
    /\ UNCHANGED <<record, Academics, request, fresh, lock>>

\* PostgreSQL ends a cycle of waiting transactions by aborting one of them.
WaitsFor(r) ==
    IF request[r].phase # "locked" THEN None
    ELSE IF request[r].doing = "reset" THEN lock["record"] ELSE lock["account"]
Deadlocked(r) == WaitsFor(r) \notin {r, None} /\ WaitsFor(WaitsFor(r)) = r
DeadlockAborts(r) == Deadlocked(r) /\ Rollback(r)

-----------------------------------------------------------------------------
(* Academics. *)

GroupOf(id) == {g \in Groups : place[g].id = id}

\* create_student_with_enrollment finds the student by name in the group's school,
\* whatever the status of the record, and takes the highest enrolment id plus one.
OpensEnrol(r, g, id) ==
    /\ request[r] = Idle
    /\ group[g] = "active" /\ SchoolOf[g] = record.school /\ GroupOf(id) = {}
    /\ request' = [request EXCEPT ![r] = [Idle EXCEPT !.doing = "enrol", !.phase = "checked",
                     !.to = g, !.id = id]]
    /\ UNCHANGED <<studentVars, Academics, fresh, lock>>

OpensStatus(r, id, status) ==
    /\ request[r] = Idle
    /\ \E g \in GroupOf(id) :
          request' = [request EXCEPT ![r] = [Idle EXCEPT !.doing = "status",
                        !.phase = "checked", !.status = status, !.from = g, !.id = id]]
    /\ UNCHANGED <<studentVars, Academics, fresh, lock>>

\* move_enrollment_group stays within the school of the group.
OpensMove(r, id, g) ==
    /\ request[r] = Idle
    /\ group[g] = "active"
    /\ \E h \in GroupOf(id) :
          /\ SchoolOf[h] = SchoolOf[g]
          /\ request' = [request EXCEPT ![r] = [Idle EXCEPT !.doing = "move",
                !.phase = "checked", !.status = place[h].status, !.from = h, !.to = g,
                !.id = id]]
    /\ UNCHANGED <<studentVars, Academics, fresh, lock>>

\* upsert_group_student_enrollment: the student sits in the group again, or a new row
\* is added unless its enrolment id was taken meanwhile.
Enrols(r) ==
    /\ Doing(r, "enrol", "checked")
    /\ LET g == request[r].to IN
       IF group[g] = "purged" \/ (place[g] = Empty /\ GroupOf(request[r].id) # {})
       THEN Rollback(r)
       ELSE /\ place' = [place EXCEPT ![g] =
                   [id |-> IF @ = Empty THEN request[r].id ELSE @.id, status |-> "active"]]
            /\ Ends(r) /\ UNCHANGED <<studentVars, group, fresh>>

\* update_enrollment_status_row names the group the enrolment was read in.
SetsStatus(r) ==
    /\ Doing(r, "status", "checked")
    /\ place' = [place EXCEPT ![request[r].from] =
          IF @ = Empty THEN Empty ELSE [@ EXCEPT !.status = request[r].status]]
    /\ Ends(r) /\ UNCHANGED <<studentVars, group, fresh>>

\* move_enrollment_row: DELETE, then INSERT ... ON CONFLICT; the unique enrolment id
\* refuses a second row for an enrolment that was moved elsewhere meanwhile.
AfterMove(r) ==
    [place EXCEPT ![request[r].from] = Empty,
                  ![request[r].to] = [id |-> request[r].id, status |-> request[r].status]]
Moves(r) ==
    /\ Doing(r, "move", "checked")
    /\ IF \/ group[request[r].to] = "purged"
          \/ GroupOf(request[r].id) \ {request[r].from, request[r].to} # {}
       THEN Rollback(r)
       ELSE /\ place' = AfterMove(r)
            /\ Ends(r) /\ UNCHANGED <<studentVars, group, fresh>>

ArchivesGroup(g) ==
    /\ group[g] = "active"
    /\ group' = [group EXCEPT ![g] = "archived"]
    /\ UNCHANGED <<studentVars, place, request, fresh, lock>>
\* The rows of a purged group go with it.
PurgesGroup(g) ==
    /\ group[g] = "archived"
    /\ group' = [group EXCEPT ![g] = "purged"]
    /\ place' = [place EXCEPT ![g] = Empty]
    /\ UNCHANGED <<studentVars, request, fresh, lock>>

-----------------------------------------------------------------------------
SupportNext(r) ==
    \/ \E status \in {"active", "disabled"}, school \in Schools : OpensEdit(r, status, school)
    \/ \E status \in {"active", "archived"} : OpensLifecycle(r, status)
    \/ OpensReset(r)
    \/ LocksRecord(r) \/ WritesRecord(r) \/ LocksAccount(r) \/ BumpsVersion(r)
    \/ DeadlockAborts(r)
AcademicNext(r) ==
    \/ \E g \in Groups, id \in Places : OpensEnrol(r, g, id) \/ OpensMove(r, id, g)
    \/ \E id \in Places, status \in {"active", "disqualified", "banned"} :
          OpensStatus(r, id, status)
    \/ Enrols(r) \/ SetsStatus(r) \/ Moves(r)

Next ==
    \/ \E r \in Requests : SupportNext(r) \/ AcademicNext(r)
    \/ ChangesOwnPassword
    \/ \E g \in Groups : ArchivesGroup(g) \/ PurgesGroup(g)

Spec == Init /\ [][Next]_vars

\* A request that waits for a row is in the queue of its lock and gets it in turn.
Advances(r) ==
    LocksRecord(r) \/ WritesRecord(r) \/ LocksAccount(r) \/ BumpsVersion(r)
FairSpec ==
    /\ Spec
    /\ \A r \in Requests : SF_vars(Advances(r)) /\ WF_vars(DeadlockAborts(r))

-----------------------------------------------------------------------------
(* Properties. *)

\* The account may sign in exactly while the record is active, whichever of the
\* commands that write both rows ran last.
AccountFollowsRecord == account.status = record.status

\* The temporary password Customer Support was told last opens the account until the
\* student replaces it: a reset that loses its version comparison leaves no trace.
HandedPasswordOpens == handed # None => account.secret = handed

\* An archived student comes back only through a command that was opened on the
\* archived record, never through one that was already under way.
ArchiveIsUndoneKnowingly ==
    [][ record.status = "archived" /\ record'.status # "archived" =>
          \E r \in Requests : request'[r] = Idle /\ request[r].saw = "archived" ]_vars

\* An enrolment is in one group at a time, whatever moves and new enrolments overlap.
OneGroupPerEnrolment == \A id \in Places : Cardinality(GroupOf(id)) <= 1

\* Resets lock the account first, the other commands of Customer Support the record.
NextRow(r) ==
    IF request[r].doing = "reset" <=> request[r].phase = "checked" THEN "account" ELSE "record"

\* However many commands of Customer Support wait for either row, the next row of one of
\* them is free, or two of them wait for each other and are found by PostgreSQL.
SomeRequestMoves ==
    (\E r \in Requests : request[r].doing \in Support) =>
        \E r \in Requests :
            request[r].doing \in Support /\ (Free(r, NextRow(r)) \/ Deadlocked(r))

\* Commands of Customer Support and Academics may overlap in any way.
RecordsSound ==
    /\ TypeOK /\ AccountFollowsRecord /\ HandedPasswordOpens /\ OneGroupPerEnrolment
    /\ SomeRequestMoves

\* A command of Customer Support ends: done, refused, or rolled back.
SupportEnds ==
    \A r \in Requests : (request[r].doing \in Support) ~> (request[r] = Idle)

\* "Academic Department must remove the student from active groups before archiving."
ArchivedSitsNowhere == record.status = "archived" => Sits = {}

\* "School changes are blocked while active enrollments exist."
SitsInOwnSchool == \A g \in Sits : SchoolOf[g] = record.school
=============================================================================
