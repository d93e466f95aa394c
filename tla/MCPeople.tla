---------------------------------- MODULE MCPeople ----------------------------------
(***************************************************************************)
(* A small instance of student records, parents and sign-in sessions.      *)
(*                                                                         *)
(* A behaviour picks one component and lets the others stand still: the    *)
(* reachable states are the sum of those of the components, not their      *)
(* product. Nothing is lost by it: each module already has the steps of    *)
(* others that touch its rows.                                             *)
(***************************************************************************)
EXTENDS ParentAccess, TLC

CONSTANTS
    Groups, Schools, SchoolOf, Places, Browsers, Exchanges, MaxVersion, Own,
    group1, group2, school1, place1, place2, request1, request2, student1,
    student2, parent1, parent2, invite1, invite2, user1, phone1, staff1,
    name1, browser1, browser2, exchange1, exchange2

VARIABLES
    part,             \* the component a behaviour is about
    \* Student
    record, recordsAccount, handed, place, group, recordsRequest,
    recordsFresh, recordsLock,
    \* SignIn
    signInAccount, closings, cookie, exchange, changer

recordsVars ==
    <<record, recordsAccount, handed, place, group, recordsRequest,
      recordsFresh, recordsLock>>
signInVars ==
    <<signInAccount, closings, cookie, exchange, changer>>

MCOneSchool == [g \in Groups |-> school1]
MCSwap(a, b) == a :> b @@ b :> a
\* Values that no component uses together are exchanged together; the first is the identity.
MCSwaps ==
    {MCSwap(request1, request1),
     MCSwap(request1, request2) @@ MCSwap(browser1, browser2),
     MCSwap(place1, place2) @@ MCSwap(student1, student2) @@ MCSwap(exchange1, exchange2),
     MCSwap(group1, group2) @@ MCSwap(parent1, parent2),
     MCSwap(invite1, invite2)}
MCKeep(f) == [v \in UNION {DOMAIN g : g \in MCSwaps} |-> IF v \in DOMAIN f THEN f[v] ELSE v]
MCSymmetry == {MCKeep(f) : f \in MCSwaps}

Student == INSTANCE StudentRecords WITH
    account <- recordsAccount, request <- recordsRequest, fresh <-
    recordsFresh, lock <- recordsLock
SignIn == INSTANCE AccountSessions WITH
    account <- signInAccount

MCInit ==
    /\ part \in {"family", "records", "signIn"}
    /\ Init /\ Student!Init /\ SignIn!Init
    /\ part # "records" => record.school = school1

\* One component moves, all the others stand still.
MCNext ==
    \/ /\ part = "family" /\ Next
       /\ UNCHANGED <<part, recordsVars, signInVars>>
    \/ /\ part = "records" /\ Student!Next
       /\ UNCHANGED <<part, vars, signInVars>>
    \/ /\ part = "signIn" /\ SignIn!Next
       /\ UNCHANGED <<part, vars, recordsVars>>

MCvars == <<part, vars, recordsVars, signInVars>>
MCSpec == MCInit /\ [][MCNext]_MCvars

ASSUME MCAssumption == ParentsAssumption /\ Student!RecordsAssumption /\ SignIn!SessionsAssumption

\* The account of a student follows the record, the password Customer Support read out opens
\* it, and an enrolment sits in one group, however two support requests interleave.
RecordsSound == Student!RecordsSound

\* What was decided stands: an answered or revoked invitation stays so, an archived student
\* and a closed or unlinked parent come back only by a request that had seen them so, and a
\* temporary password is replaced by nobody but who was given it.
DecisionsStand ==
    /\ Student!ArchiveIsUndoneKnowingly
    /\ AnswersAreFinal
    /\ ReopenedKnowingly
    /\ UnlinkStands
    /\ SignIn!TemporaryPasswordIsReplacedByItsHolder

\* A session the service accepts knows the present password, a closed one never serves
\* again, and nothing but the change is served to a temporary password.
SessionsSound == SignIn!SessionsSound
==============================================================================
