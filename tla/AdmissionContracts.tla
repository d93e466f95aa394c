-------------------------- MODULE AdmissionContracts ---------------------------
(***************************************************************************)
(* The contract of one admission: Customer Support uploads and sends it,   *)
(* the parent returns a signed copy through a bearer link, Customer        *)
(* Support accepts or rejects the copy, and acceptance issues the first    *)
(* invoice, whose payment the module Settlement follows.                   *)
(*                                                                         *)
(* Every command is one PostgreSQL transaction that locks rows one after   *)
(* the other and writes at its end; a transaction that waits in a cycle    *)
(* is rolled back.  The staff commands lock the admission first.  The      *)
(* parent's submission locks its link, then the contract, and updates the  *)
(* admission last, without looking at its status.                          *)
(*                                                                         *)
(* A contract row is the record of its status, the upload its original     *)
(* comes from, the upload that the signed copy was made from (0: none),    *)
(* and whether superseded_at is set.  A link is a row of                   *)
(* admission_access_tokens: all but the last are revoked.  The rate window *)
(* of a link only refuses requests: a parent may stop at any time.         *)
(***************************************************************************)
EXTENDS Integers, Sequences, FiniteSets

CONSTANTS
    Parents,         \* browser tabs open on the public admission page
    Staff,           \* Customer Support requests
    MaxContracts,    \* bound on contract rows
    MaxLinks         \* bound on issued links

ContractsAssumption ==
    /\ Parents \cap Staff = {} /\ IsFiniteSet(Parents \cup Staff)
    /\ MaxContracts \in Nat \ {0}
    /\ MaxLinks \in Nat \ {0}

VARIABLES
    admission,       \* admissions.status
    contract,        \* the admission_contracts rows, by version
    links,           \* how many links were issued
    expired,         \* the links whose expires_at has passed
    invoiced,        \* the first invoice was issued
    fresh,           \* staff requests whose form shows the present admissions.version
    session,         \* what each request is doing and the row lock it asks for next
    holds            \* the row locks each request holds

vars == <<admission, contract, links, expired, invoiced, fresh, session, holds>>

Sessions == Parents \cup Staff
Rows == {<<"admission", 0>>} \cup ({"contract"} \X (1..MaxContracts))
                             \cup ({"link"} \X (1..MaxLinks))
NoRow == <<"none", 0>>
AdmissionRow == <<"admission", 0>>
LinkRow(k) == <<"link", k>>

Commands == {"upload", "send", "accept", "reject", "link", "cancel", "update"}
Exchange == {"draft", "contract_sent", "contract_submitted"}
AwaitingMoney == {"awaiting_payment", "active", "payment_review"}
Idle == [doing |-> "idle", wants |-> NoRow, link |-> 0, seen |-> 0]

TypeOK ==
    /\ admission \in Exchange \cup AwaitingMoney \cup {"cancelled"}
    /\ contract \in Seq([status : {"draft", "sent", "submitted", "accepted",
                                   "rejected", "superseded"},
                         original : 1..MaxContracts, signed : 0..MaxContracts,
                         superseded : BOOLEAN])
    /\ Len(contract) <= MaxContracts
    /\ links \in 1..MaxLinks
    /\ expired \subseteq 1..MaxLinks
    /\ invoiced \in BOOLEAN
    /\ fresh \subseteq Staff
    /\ session \in [Sessions -> [doing : Commands \cup {"idle", "reading", "submit"},
                                 wants : Rows \cup {NoRow},
                                 link : 0..MaxLinks, seen : 0..MaxContracts]]
    /\ holds \in [Sessions -> SUBSET Rows]

\* create_admission, which issues the first link in the same transaction.
Init ==
    /\ admission = "draft"
    /\ contract = <<>>
    /\ links = 1
    /\ expired = {}
    /\ invoiced = FALSE
    /\ fresh = {}
    /\ session = [s \in Sessions |-> Idle]
    /\ holds = [s \in Sessions |-> {}]

-----------------------------------------------------------------------------
(* Rows and locks. *)

\* get_current_contract_row: the latest row without superseded_at.
Current == {v \in DOMAIN contract : ~contract[v].superseded}
HasContract == Current # {}
CurrentVersion == CHOOSE v \in Current : \A w \in Current : w <= v
ContractRow == <<"contract", CurrentVersion>>

Free(row, s) == \A t \in Sessions \ {s} : row \notin holds[t]
Asks(s, row) == session' = [session EXCEPT ![s].wants = row]
Takes(s) == holds' = [holds EXCEPT ![s] = @ \cup {session[s].wants}]
TakesAndAsks(s, row) == Takes(s) /\ Asks(s, row)

\* Commit or rollback: every lock goes.
Ends(s) ==
    /\ session' = [session EXCEPT ![s] = Idle]
    /\ holds' = [holds EXCEPT ![s] = {}]

\* version = version + 1: a form that was opened before does not fit any more.
Bumps(status) == admission' = status /\ fresh' = {}

Writes(s, status) == Ends(s) /\ Bumps(status)
GivesUp(s) == Ends(s) /\ UNCHANGED <<admission, contract, links, expired, invoiced, fresh>>

-----------------------------------------------------------------------------
(* Customer Support. *)

\* The bounds keep room for what the requests under way may add.
UnderWay(doings) == Cardinality({s \in Sessions : session[s].doing \in doings})
RoomForContract == Len(contract) + UnderWay({"upload", "submit"}) < MaxContracts
RoomForLink == links + UnderWay({"send", "link"}) < MaxLinks

OpensForm(s, command) ==
    /\ session[s].doing = "idle"
    /\ command = "upload" => RoomForContract
    /\ command \in {"send", "link"} => RoomForLink
    /\ session' = [session EXCEPT ![s] = [Idle EXCEPT !.doing = command,
                                                      !.wants = AdmissionRow]]
    /\ fresh' = fresh \cup {s}
    /\ UNCHANGED <<admission, contract, links, expired, invoiced, holds>>

\* ensure_contract_can_be_sent
CanExchange == admission \in Exchange

NewContract(original) ==
    [status |-> "draft", original |-> original, signed |-> 0, superseded |-> FALSE]

\* insert_contract
Uploads(s) ==
    /\ contract' =
         Append([v \in DOMAIN contract |->
                   IF v \in Current THEN [contract[v] EXCEPT !.status = "superseded",
                                                             !.superseded = TRUE]
                   ELSE contract[v]],
                NewContract(Len(contract) + 1))
    /\ Ends(s)
    /\ UNCHANGED <<admission, links, expired, invoiced, fresh>>

\* Once the admission row is locked: each command goes on to the contract row or
\* the link row, is refused, or is done.
NeedsContract(s) ==
    IF HasContract THEN /\ TakesAndAsks(s, ContractRow)
                        /\ UNCHANGED <<admission, contract, links, expired, invoiced, fresh>>
    ELSE GivesUp(s)

AddContract(s) ==
    /\ session[s].doing = "upload"
    /\ IF ~CanExchange THEN GivesUp(s)
       ELSE IF HasContract THEN NeedsContract(s) ELSE Uploads(s)

SendContract(s) ==
    /\ session[s].doing = "send"
    /\ IF CanExchange THEN NeedsContract(s) ELSE GivesUp(s)

ReviewContract(s) ==
    /\ session[s].doing \in {"accept", "reject"}
    /\ NeedsContract(s)

IssueLink(s) ==
    /\ session[s].doing = "link"
    /\ TakesAndAsks(s, LinkRow(links))
    /\ UNCHANGED <<admission, contract, links, expired, invoiced, fresh>>

\* The WHERE clauses of the repository's cancel_admission and update_admission,
\* whose 'expired' no code sets.
Cancellable(s) == s \in fresh /\ admission \notin {"active", "cancelled"}
Editable(s) == s \in fresh /\ admission \notin {"active", "cancelled"}

CancelAdmission(s) ==
    /\ session[s].doing = "cancel"
    /\ IF Cancellable(s)
       THEN /\ Writes(s, "cancelled")
            /\ UNCHANGED <<contract, links, expired, invoiced>>
       ELSE GivesUp(s)

UpdateAdmission(s) ==
    /\ session[s].doing = "update"
    /\ IF Editable(s)
       THEN /\ Writes(s, admission)
            /\ UNCHANGED <<contract, links, expired, invoiced>>
       ELSE GivesUp(s)

LocksAdmission(s) ==
    /\ s \in Staff /\ session[s].wants = AdmissionRow /\ Free(AdmissionRow, s)
    /\ \/ AddContract(s) \/ SendContract(s) \/ ReviewContract(s)
       \/ IssueLink(s) \/ CancelAdmission(s) \/ UpdateAdmission(s)

\* Once the contract row is locked.
SendLocksContract(s) ==
    /\ session[s].doing = "send"
    /\ TakesAndAsks(s, LinkRow(links))
    /\ UNCHANGED <<admission, contract, links, expired, invoiced, fresh>>

UploadLocksContract(s) == session[s].doing = "upload" /\ Uploads(s)

\* ensure_contract_can_be_reviewed
Reviewable(v) == contract[v].status = "submitted"

\* The repository's review_contract.
Judges(s, v, judgement, status) ==
    /\ contract' = [contract EXCEPT ![v].status = judgement]
    /\ Writes(s, status)
    /\ UNCHANGED <<links, expired>>

\* issue_invoice, which leaves an invoice of the period as it is.
IssuesFirstInvoice == invoiced' = TRUE

Reviews(s) ==
    /\ session[s].doing \in {"accept", "reject"}
    /\ LET v == session[s].wants[2] IN
       \/ ~Reviewable(v) /\ GivesUp(s)
       \/ /\ Reviewable(v) /\ session[s].doing = "accept"
          /\ Judges(s, v, "accepted", "awaiting_payment") /\ IssuesFirstInvoice
       \/ /\ Reviewable(v) /\ session[s].doing = "reject"
          /\ Judges(s, v, "rejected", "contract_sent") /\ UNCHANGED invoiced

LocksContract(s) ==
    /\ s \in Staff /\ session[s].wants[1] = "contract" /\ Free(session[s].wants, s)
    /\ SendLocksContract(s) \/ UploadLocksContract(s) \/ Reviews(s)

\* insert_access_token: the active link is revoked and a new one is issued.
KeepsLink == UNCHANGED links
NewLink == links' = links + 1

MarkContractSent(s) ==
    /\ contract' = [contract EXCEPT ![CurrentVersion].status = "sent"]
    /\ Writes(s, "contract_sent")

\* A contract gets a new link in the transaction that sends it.
ReplacesLink(s) ==
    /\ s \in Staff /\ session[s].wants[1] = "link" /\ Free(session[s].wants, s)
    /\ NewLink
    /\ \/ session[s].doing = "send" /\ MarkContractSent(s)
       \/ session[s].doing = "link" /\ Ends(s) /\ UNCHANGED <<admission, contract, fresh>>
    /\ UNCHANGED <<expired, invoiced>>

-----------------------------------------------------------------------------
(* The parent. *)

\* get_public_admission and get_public_contract_document: the page shows the
\* current contract and offers the form when it was sent or rejected.  Reading
\* also touches the link, so the link's row must be free.
Readable(k) == k = links /\ k \notin expired
OffersForm == HasContract /\ contract[CurrentVersion].status \in {"sent", "rejected"}
ReadsContract(p) ==
    /\ session[p].doing \in {"idle", "reading"}
    /\ Readable(links) /\ Free(LinkRow(links), p)
    /\ OffersForm
    /\ session' = [session EXCEPT ![p] = [doing |-> "reading", wants |-> NoRow, link |-> links,
                                          seen |-> contract[CurrentVersion].original]]
    /\ UNCHANGED <<admission, contract, links, expired, invoiced, fresh, holds>>

\* The signed copy is in the object store; its transaction starts.
Submits(p) ==
    /\ session[p].doing = "reading" /\ session[p].link \notin expired /\ RoomForContract
    /\ session' = [session EXCEPT ![p].doing = "submit",
                                  ![p].wants = LinkRow(session[p].link)]
    /\ UNCHANGED <<admission, contract, links, expired, invoiced, fresh, holds>>

\* touch_admission_access_token and get_admission_by_token_hash.
TouchesLink(p) ==
    /\ session[p].doing = "submit" /\ session[p].wants[1] = "link"
    /\ Free(session[p].wants, p)
    /\ IF session[p].link = links /\ HasContract
       THEN /\ TakesAndAsks(p, ContractRow)
            /\ UNCHANGED <<admission, contract, links, expired, invoiced, fresh>>
       ELSE GivesUp(p)

\* ensure_contract_can_be_submitted, on the locked row; a row that was superseded
\* while the transaction waited for it is not returned.
Submittable(v) == ~contract[v].superseded /\ contract[v].status \in {"sent", "rejected"}

SubmissionLocksContract(p) ==
    /\ session[p].doing = "submit" /\ session[p].wants[1] = "contract"
    /\ Free(session[p].wants, p)
    /\ IF Submittable(session[p].wants[2])
       THEN /\ TakesAndAsks(p, AdmissionRow)
            /\ UNCHANGED <<admission, contract, links, expired, invoiced, fresh>>
       ELSE GivesUp(p)

\* submit_signed_contract: a rejected row stays as it was judged and a new version
\* takes its original.
WithCopy(v, copy) ==
    LET submitted == [contract[v] EXCEPT !.status = "submitted", !.signed = copy]
    IN  IF contract[v].status = "rejected"
        THEN Append([contract EXCEPT ![v].superseded = TRUE], submitted)
        ELSE [contract EXCEPT ![v] = submitted]

\* The admission's status is written whatever it was.
SavesSignedCopy(p) ==
    /\ session[p].doing = "submit" /\ session[p].wants = AdmissionRow
    /\ Free(AdmissionRow, p)
    /\ contract' = WithCopy(CurrentVersion, session[p].seen)
    /\ Writes(p, "contract_submitted")
    /\ UNCHANGED <<links, expired, invoiced>>

\* A parent may close the page, and the rate window may refuse a request.
Leaves(p) == session[p].doing = "reading" /\ GivesUp(p)

-----------------------------------------------------------------------------
(* The world. *)

\* Whom s waits for, and the sets of requests that wait for each other.
Blocker(s) == CHOOSE t \in Sessions \ {s} : session[s].wants \in holds[t]
Waiting == {s \in Sessions : session[s].wants # NoRow /\ ~Free(session[s].wants, s)}
Deadlocks == {c \in SUBSET Waiting : c # {} /\ {Blocker(s) : s \in c} = c}

\* PostgreSQL's deadlock detector.
Deadlocked(s) == \E c \in Deadlocks : s \in c
IsRolledBack(s) == Deadlocked(s) /\ GivesUp(s)

Expires ==
    /\ links \notin expired
    /\ expired' = expired \cup {links}
    /\ UNCHANGED <<admission, contract, links, invoiced, fresh, session, holds>>

\* activate_paid_admission, when the first invoice is settled.
AcceptedByContract == HasContract /\ contract[CurrentVersion].status = "accepted"
ActivatePaidAdmission ==
    /\ invoiced /\ admission # "active" /\ AcceptedByContract
    /\ \A s \in Sessions : AdmissionRow \notin holds[s]
    /\ Bumps("active")
    /\ UNCHANGED <<contract, links, expired, invoiced, session, holds>>

\* set_admission_payment_review, when the payment is reversed.
SetAdmissionPaymentReview ==
    /\ admission = "active"
    /\ \A s \in Sessions : AdmissionRow \notin holds[s]
    /\ \E status \in {"awaiting_payment", "payment_review"} : Bumps(status)
    /\ UNCHANGED <<contract, links, expired, invoiced, session, holds>>

StaffStep ==
    \E s \in Staff :
        \/ \E command \in Commands : OpensForm(s, command)
        \/ LocksAdmission(s)
        \/ LocksContract(s)
        \/ ReplacesLink(s)

ParentStep ==
    \E p \in Parents :
        \/ ReadsContract(p)
        \/ Submits(p)
        \/ TouchesLink(p)
        \/ SubmissionLocksContract(p)
        \/ SavesSignedCopy(p)
        \/ Leaves(p)

WorldStep ==
    \/ \E s \in Sessions : IsRolledBack(s)
    \/ Expires
    \/ ActivatePaidAdmission
    \/ SetAdmissionPaymentReview

Next == StaffStep \/ ParentStep \/ WorldStep

Spec == Init /\ [][Next]_vars

\* PostgreSQL serves the waiters of a row in their order, so a transaction that
\* has begun gets its next row, is refused, or is rolled back.
Advances(s) ==
    LocksAdmission(s) \/ LocksContract(s) \/ ReplacesLink(s) \/ IsRolledBack(s)
ParentAdvances(p) ==
    TouchesLink(p) \/ SubmissionLocksContract(p) \/ SavesSignedCopy(p) \/ IsRolledBack(p)
FairSpec ==
    /\ Spec
    /\ \A s \in Staff : SF_vars(Advances(s))
    /\ \A p \in Parents : SF_vars(ParentAdvances(p))

-----------------------------------------------------------------------------
(* Properties. *)

\* An admission waits for money, is active or is under payment review, and has a
\* first invoice, only when its current contract is accepted on a signed copy.
PaymentNeedsAcceptedContract ==
    admission \in AwaitingMoney \/ invoiced =>
        AcceptedByContract /\ contract[CurrentVersion].signed # 0

\* An accepted contract is never superseded, changed or judged again, whatever
\* uploads, sends and submissions were under way when it was accepted.
AcceptedIsFinal ==
    [][\A v \in DOMAIN contract :
          contract[v].status = "accepted" => contract'[v] = contract[v]]_vars

\* Replacing the link takes effect at once: no submission that came through an
\* earlier link is saved after a new one was issued.
ReplacedLinkIsDead ==
    [][\A p \in Parents : session[p].wants = AdmissionRow /\ contract' # contract
                               /\ holds[p] # {} /\ holds'[p] = {}
          => session[p].link = links]_vars

\* The staff commands take admission, contract and link in this order and parents
\* take link, contract and admission: a deadlock always has one of each.
DeadlockNeedsBothSides ==
    \A c \in Deadlocks : c \cap Staff # {} /\ c \cap Parents # {}

\* However many requests wait for rows, the row one of them asks for is free, or it is in a
\* circle and found by PostgreSQL.
SomeRequestMoves ==
    (\E s \in Sessions : session[s].wants # NoRow) =>
        \E s \in Sessions :
            session[s].wants # NoRow /\ (Free(session[s].wants, s) \/ Deadlocked(s))

\* A submission ends: it is saved, refused, or rolled back by the deadlock
\* detector, whatever Customer Support does to the same rows.
SubmissionEnds ==
    \A p \in Parents : session[p].doing = "submit" ~> session[p].doing # "submit"

\* The signed copy of a contract row was made from the original of that row, though
\* the submission names no version: a new original is sent with a new link.
SignedCopyIsOfTheOriginal ==
    \A v \in DOMAIN contract :
        contract[v].signed \in {0, contract[v].original}

\* The exchange of the contract is sound whatever the parent and Customer Support send at
\* the same time.
ContractsSound ==
    /\ TypeOK
    /\ PaymentNeedsAcceptedContract
    /\ DeadlockNeedsBothSides /\ SomeRequestMoves
    /\ SignedCopyIsOfTheOriginal

\* A cancelled admission stays cancelled.
CancelledStaysCancelled ==
    [][admission = "cancelled" => admission' = "cancelled"]_vars

=============================================================================
