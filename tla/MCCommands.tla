--------------------------------- MODULE MCCommands ---------------------------------
(***************************************************************************)
(* Small instances of the components whose commands lock several rows:     *)
(* every command ends.                                                     *)
(*                                                                         *)
(* A behaviour picks one component and lets the others stand still, so     *)
(* only the fairness of that component is asked for.                       *)
(***************************************************************************)
EXTENDS TLC

CONSTANTS
    Tabs, Officers, MaxContracts, MaxLinks, Lessons, Materials, Directors,
    Requests, Students, Parents, Invites, Identities, Phones, Staff, Names,
    Groups, Schools, SchoolOf, Places, Curriculum, Own, None, director1,
    director2, officer1, parent1, lesson1, request1, request2, student1,
    invite1, invite2, user1, name1, school1

VARIABLES
    part,             \* the component a behaviour is about
    \* Contracts
    admission, contract, links, expired, invoiced, fresh, session, holds,
    \* Drafts
    status, written, drafting, based, rewritten, placed, known, staged,
    request, draftsFresh, missed, locks,
    \* Family
    invite, parent, account, family, telegram, familyRequest, familyFresh,
    lock,
    \* Records
    record, recordsAccount, handed, place, group, recordsRequest,
    recordsFresh, recordsLock

contractsVars ==
    <<admission, contract, links, expired, invoiced, fresh, session, holds>>
draftsVars ==
    <<status, written, drafting, based, rewritten, placed, known, staged,
      request, draftsFresh, missed, locks>>
familyVars ==
    <<invite, parent, account, family, telegram, familyRequest, familyFresh,
      lock>>
recordsVars ==
    <<record, recordsAccount, handed, place, group, recordsRequest,
      recordsFresh, recordsLock>>

NoGroup == [g \in Groups |-> school1]

Contracts == INSTANCE AdmissionContracts WITH
    Parents <- Tabs, Staff <- Officers
Drafts == INSTANCE LessonDrafts WITH
    fresh <- draftsFresh
Family == INSTANCE ParentAccess WITH
    request <- familyRequest, fresh <- familyFresh
Records == INSTANCE StudentRecords WITH
    account <- recordsAccount, request <- recordsRequest, fresh <-
    recordsFresh, lock <- recordsLock

MCInit ==
    /\ part \in {"contracts", "drafts", "family", "records"}
    /\ Contracts!Init /\ Drafts!Init /\ Family!Init /\ Records!Init
    /\ part # "drafts" => \A l \in Lessons : status[l] = "absent"

\* One component moves, all the others stand still.
MCNext ==
    \/ /\ part = "contracts" /\ Contracts!Next
       /\ UNCHANGED <<part, draftsVars, familyVars, recordsVars>>
    \/ /\ part = "drafts" /\ Drafts!Next
       /\ UNCHANGED <<part, contractsVars, familyVars, recordsVars>>
    \/ /\ part = "family" /\ Family!Next
       /\ UNCHANGED <<part, contractsVars, draftsVars, recordsVars>>
    \/ /\ part = "records" /\ Records!Next
       /\ UNCHANGED <<part, contractsVars, draftsVars, familyVars>>

MCvars == <<part, contractsVars, draftsVars, familyVars, recordsVars>>
MCSpec == MCInit /\ [][MCNext]_MCvars

ASSUME Contracts!ContractsAssumption /\ Drafts!LessonDraftsAssumption /\ Family!ParentsAssumption
ASSUME Records!RecordsAssumption

\* The fairness each component's own FairSpec states.
MCFairSpec ==
    /\ MCSpec
    /\ \A s \in Officers : SF_contractsVars(part = "contracts" /\ (Contracts!Advances(s)))
    /\ \A p \in Tabs : SF_contractsVars(part = "contracts" /\ (Contracts!ParentAdvances(p)))
    /\ \A d \in Directors :
         /\ SF_draftsVars(part = "drafts" /\ (Drafts!Advances(d)))
         /\ WF_draftsVars(part = "drafts" /\ (Drafts!DeadlockAborts(d)))
    /\ \A r \in Requests :
         /\ SF_familyVars(part = "family" /\ (Family!Advances(r)))
         /\ WF_familyVars(part = "family" /\ (Family!DeadlockAborts(r)))
         /\ SF_recordsVars(part = "records" /\ (Records!Advances(r)))
         /\ WF_recordsVars(part = "records" /\ (Records!DeadlockAborts(r)))

\* Every command that locks rows ends, done, refused or rolled back, although commands of
\* other roles lock the same rows in another order: none leaves a row locked behind it. It
\* takes PostgreSQL's deadlock detector and the order of its lock queues for granted.
CommandsEnd ==
    /\ Contracts!SubmissionEnds
    /\ Drafts!CommandEnds
    /\ Family!RequestEnds
    /\ Records!SupportEnds
==============================================================================
