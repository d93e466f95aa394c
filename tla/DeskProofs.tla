----------------------------- MODULE DeskProofs -----------------------------
(***************************************************************************)
(* Theorems about the components of MCDesk, for any parents, staff         *)
(* requests, tickets, people and Telegram users, any page size, and any    *)
(* bounds on contracts and links.                                          *)
(*                                                                         *)
(* Whoever commands on an admission takes its row first, so of the staff   *)
(* requests at most one is on its way, and what it looked at stays until   *)
(* it ends. A parent's submission takes its link, then the contract it     *)
(* will answer, and every command that replaces one of these two takes     *)
(* that row as well: so a submission that goes on past a lock still        *)
(* answers what it read.                                                   *)
(*                                                                         *)
(* A request on a ticket holds its row from the reading to the writing, so *)
(* what it has read is still there, and what a command makes of the row    *)
(* follows from that. The walk through the queue shows a ticket that keeps *)
(* still when the cursor passes its place, since the cursor only moves     *)
(* forward. Of the people with one Telegram user only the first of the     *)
(* household has a job, so nobody else can send the message.               *)
(***************************************************************************)
EXTENDS MCDesk, Integers, FiniteSets, FiniteSetTheorems, SequenceTheorems, NaturalsInduction,
    WellFoundedInduction, TLAPS

Last == Len(contract)
LastRow == <<"contract", Last>>
Version == [status : {"draft", "sent", "submitted", "accepted", "rejected", "superseded"},
            original : 1..MaxContracts, signed : 0..MaxContracts, superseded : BOOLEAN]
SessionRows ==
    [doing : Commands \cup {"idle", "reading", "submit"}, wants : Rows \cup {NoRow},
     link : 0..MaxLinks, seen : 0..MaxContracts]

\* The last version is the current one; what is signed or judged has a copy.
VersionsSound ==
    \A v \in 1..Last :
        /\ contract[v].superseded <=> v < Last
        /\ v < Last => contract[v].status \in {"superseded", "rejected"}
        /\ contract[v].status \in {"submitted", "accepted"} => contract[v].signed # 0
        /\ contract[v].signed \in {0, contract[v].original}

\* Money is awaited exactly for an accepted contract.
Accepted == Last > 0 /\ contract[Last].status = "accepted"
MoneySound ==
    /\ admission \in AwaitingMoney \/ invoiced => Accepted
    /\ Accepted => admission \notin Exchange

\* A staff command takes the admission first; what it looked at since stays.
StaffStands(s) ==
    LET q == session[s] IN
    /\ q.doing \in Commands \cup {"idle"}
    /\ q.doing = "idle" => q = Idle /\ holds[s] = {}
    /\ q.doing # "idle" =>
          \/ q.wants = AdmissionRow /\ holds[s] = {}
          \/ /\ q.wants = LastRow /\ holds[s] = {AdmissionRow} /\ Last > 0
             /\ q.doing \in {"upload", "send", "accept", "reject"}
             /\ q.doing \in {"upload", "send"} => CanExchange
          \/ q.wants = LinkRow(links) /\ holds[s] = {AdmissionRow} /\ q.doing = "link"
          \/ /\ q.wants = LinkRow(links) /\ holds[s] = {AdmissionRow, LastRow} /\ Last > 0
             /\ q.doing = "send" /\ CanExchange

\* A submission takes the present link first, then the current contract, last the
\* admission.
ParentStands(p) ==
    LET q == session[p] IN
    /\ q.doing \in {"idle", "reading", "submit"}
    /\ q.doing = "idle" => q = Idle /\ holds[p] = {}
    /\ q.doing # "idle" => q.link \in 1..links /\ q.seen # 0
    /\ q.doing = "reading" => q.wants = NoRow /\ holds[p] = {}
    /\ q.doing = "submit" =>
          \/ q.wants = LinkRow(q.link) /\ holds[p] = {}
          \/ /\ q.wants[1] = "contract" /\ q.wants[2] \in 1..Last
             /\ q.wants = <<"contract", q.wants[2]>>
             /\ q.link = links /\ holds[p] = {LinkRow(links)}
          \/ /\ q.wants = AdmissionRow /\ q.link = links /\ holds[p] = {LinkRow(links), LastRow}
             /\ Last > 0 /\ contract[Last].status \in {"sent", "rejected"}
    /\ q.doing # "idle" /\ q.link = links =>
          Last > 0 /\ (contract[Last].original = q.seen \/ contract[Last].status = "draft")

Stands(s) == IF s \in Staff THEN StaffStands(s) ELSE ParentStands(s)

OneHolder == \A s, t \in Sessions : s # t => holds[s] \cap holds[t] = {}

Busy(doings) == {s \in Sessions : session[s].doing \in doings}
RoomKept ==
    /\ Last + UnderWay({"upload", "submit"}) <= MaxContracts
    /\ links + UnderWay({"send", "link"}) <= MaxLinks

ContractsInv ==
    /\ TypeOK
    /\ VersionsSound /\ MoneySound /\ OneHolder /\ RoomKept
    /\ \A s \in Sessions : Stands(s)

-----------------------------------------------------------------------------
(* Lemmas. *)

LEMMA TypeFacts ==
    ASSUME ContractsAssumption, TypeOK
    PROVE  /\ contract \in Seq(Version) /\ Last \in Nat /\ DOMAIN contract = 1..Last
           /\ \A v \in 1..Last : contract[v] \in Version
           /\ Last <= MaxContracts /\ links \in 1..MaxLinks
           /\ MaxContracts \in Nat /\ MaxLinks \in Nat
           /\ session \in [Sessions -> SessionRows] /\ holds \in [Sessions -> SUBSET Rows]
           /\ fresh \subseteq Staff /\ invoiced \in BOOLEAN /\ expired \subseteq 1..MaxLinks
           /\ Parents \cap Staff = {} /\ Sessions = Parents \cup Staff
           /\ IsFiniteSet(Sessions)
  <1>1. contract \in Seq(Version)
    BY DEF TypeOK, Version
  <1>2. /\ Last \in Nat /\ DOMAIN contract = 1..Last /\ \A v \in 1..Last : contract[v] \in Version
    BY <1>1 DEF Last
  <1>3. /\ Last <= MaxContracts /\ links \in 1..MaxLinks
        /\ fresh \subseteq Staff /\ invoiced \in BOOLEAN /\ expired \subseteq 1..MaxLinks
        /\ session \in [Sessions -> SessionRows] /\ holds \in [Sessions -> SUBSET Rows]
    BY DEF TypeOK, SessionRows, Last
  <1>4. /\ MaxContracts \in Nat /\ MaxLinks \in Nat /\ Parents \cap Staff = {}
        /\ Sessions = Parents \cup Staff /\ IsFiniteSet(Sessions)
    BY Zenon DEF ContractsAssumption, Sessions
  <1> QED BY <1>1, <1>2, <1>3, <1>4

\* The current version is the last one.
LEMMA CurrentIsLast ==
    ASSUME ContractsAssumption, TypeOK, VersionsSound
    PROVE  /\ HasContract <=> Last > 0
           /\ Last > 0 => /\ Current = {Last} /\ CurrentVersion = Last /\ ContractRow = LastRow
                          /\ LastRow \in Rows
  <1>1. Last \in Nat /\ DOMAIN contract = 1..Last /\ Last <= MaxContracts
    BY TypeFacts
  <1>2. \A v \in 1..Last : contract[v].superseded <=> v < Last
    BY DEF VersionsSound
  <1>3. Current = {v \in 1..Last : v = Last}
    BY <1>1, <1>2 DEF Current
  <1>4. CASE Last = 0
    BY <1>1, <1>3, <1>4 DEF HasContract
  <1>5. CASE Last > 0
    <2>1. Current = {Last}
      BY <1>1, <1>3, <1>5
    <2>2. CurrentVersion = Last
      BY <1>1, <2>1 DEF CurrentVersion
    <2>3. LastRow \in Rows
      BY <1>1, <1>5, TypeFacts DEF LastRow, Rows
    <2> QED BY <1>5, <2>1, <2>2, <2>3 DEF HasContract, ContractRow, LastRow
  <1> QED BY <1>1, <1>4, <1>5

\* Rows of different tables differ.
LEMMA RowsApart ==
    /\ AdmissionRow # NoRow /\ AdmissionRow[1] = "admission" /\ NoRow[1] = "none"
    /\ LastRow # AdmissionRow /\ LastRow # NoRow /\ LastRow[1] = "contract" /\ LastRow[2] = Last
    /\ \A k : /\ LinkRow(k) # AdmissionRow /\ LinkRow(k) # LastRow /\ LinkRow(k) # NoRow
              /\ LinkRow(k)[1] = "link" /\ LinkRow(k)[2] = k
    /\ \A j, k : LinkRow(j) = LinkRow(k) => j = k
    /\ AdmissionRow \in Rows
    /\ \A k \in 1..MaxLinks : LinkRow(k) \in Rows
  BY DEF AdmissionRow, NoRow, LastRow, LinkRow, Rows

\* How many requests are under way, when one of them changes what it does.
LEMMA UnderWaySteps ==
    ASSUME IsFiniteSet(Sessions), NEW doings, NEW s \in Sessions,
           session \in [Sessions -> SessionRows], NEW new \in SessionRows,
           session' = [session EXCEPT ![s] = new]
    PROVE  /\ UnderWay(doings) \in Nat /\ UnderWay(doings)' \in Nat
           /\ (session[s].doing \in doings <=> new.doing \in doings) =>
                 UnderWay(doings)' = UnderWay(doings)
           /\ session[s].doing \notin doings => UnderWay(doings)' <= UnderWay(doings) + 1
           /\ session[s].doing \in doings /\ new.doing \notin doings =>
                 UnderWay(doings)' = UnderWay(doings) - 1
           /\ new.doing \notin doings => UnderWay(doings)' <= UnderWay(doings)
  <1> DEFINE B == {t \in Sessions : session[t].doing \in doings}
             C == {t \in Sessions : session'[t].doing \in doings}
  <1>1. UnderWay(doings) = Cardinality(B) /\ UnderWay(doings)' = Cardinality(C)
    BY DEF UnderWay
  <1>2. IsFiniteSet(B)
    BY FS_Subset
  <1>3. IsFiniteSet(C)
    BY FS_Subset
  <1>4. Cardinality(B) \in Nat /\ Cardinality(C) \in Nat
    BY <1>2, <1>3, FS_CardinalityType
  <1>5. \A t \in Sessions : session'[t] = IF t = s THEN new ELSE session[t]
    OBVIOUS
  <1>6. CASE session[s].doing \in doings <=> new.doing \in doings
    <2>1. B = C
      BY <1>5, <1>6
    <2>2. session[s].doing \in doings /\ new.doing \notin doings => FALSE
      BY <1>6
    <2> HIDE DEF B, C
    <2> QED BY <1>1, <1>4, <1>6, <2>1, <2>2
  <1>7. CASE session[s].doing \in doings /\ new.doing \notin doings
    <2>1. s \in B /\ C = B \ {s}
      BY <1>5, <1>7
    <2> HIDE DEF B, C
    <2>2. Cardinality(C) = Cardinality(B) - 1
      BY <1>2, <2>1, FS_RemoveElement
    <2> QED BY <1>1, <1>4, <1>7, <2>2
  <1>8. CASE session[s].doing \notin doings /\ new.doing \in doings
    <2>1. s \notin B /\ C = B \cup {s}
      BY <1>5, <1>8
    <2> HIDE DEF B, C
    <2>2. Cardinality(C) = Cardinality(B) + 1
      BY <1>2, <2>1, FS_AddElement
    <2> QED BY <1>1, <1>4, <1>8, <2>2
  <1> QED BY <1>6, <1>7, <1>8

-----------------------------------------------------------------------------
(* Steps of one request. *)

Statuses == Exchange \cup AwaitingMoney \cup {"cancelled"}

LEMMA StepKeeps ==
    ASSUME ContractsAssumption, ContractsInv, NEW s \in Sessions,
           session' \in [Sessions -> SessionRows], holds' \in [Sessions -> SUBSET Rows],
           \A t \in Sessions \ {s} :
              holds'[t] = holds[t] /\ holds'[s] \cap holds[t] = {} /\ Stands(t)',
           Stands(s)',
           admission' \in Statuses, contract' \in Seq(Version), Last' <= MaxContracts,
           links' \in 1..MaxLinks, expired' \subseteq 1..MaxLinks, invoiced' \in BOOLEAN,
           fresh' \subseteq Staff, VersionsSound', MoneySound', RoomKept'
    PROVE  ContractsInv'
  <1>1. TypeOK'
    BY DEF TypeOK, Statuses, Version, SessionRows, Last
  <1>2. OneHolder'
    <2> SUFFICES ASSUME NEW a \in Sessions, NEW b \in Sessions, a # b
                 PROVE  holds'[a] \cap holds'[b] = {}
      BY DEF OneHolder
    <2>1. holds[a] \cap holds[b] = {}
      BY DEF ContractsInv, OneHolder
    <2> QED BY <2>1
  <1>3. \A t \in Sessions : Stands(t)'
    OBVIOUS
  <1> QED BY <1>1, <1>2, <1>3 DEF ContractsInv

\* A step that changes nothing of the admission, its contracts and its links.
LEMMA QuietKeeps ==
    ASSUME ContractsAssumption, ContractsInv, NEW s \in Sessions, NEW new \in SessionRows,
           session' = [session EXCEPT ![s] = new],
           holds' \in [Sessions -> SUBSET Rows],
           \A t \in Sessions \ {s} : holds'[t] = holds[t] /\ holds'[s] \cap holds[t] = {},
           UNCHANGED <<admission, contract, links, expired, invoiced>>, fresh' \subseteq Staff,
           Stands(s)',
           new.doing \in {"upload", "submit"} =>
              session[s].doing \in {"upload", "submit"} \/ RoomForContract,
           new.doing \in {"send", "link"} =>
              session[s].doing \in {"send", "link"} \/ RoomForLink
    PROVE  ContractsInv'
  <1>1. TypeOK /\ VersionsSound /\ MoneySound /\ RoomKept /\ \A t \in Sessions : Stands(t)
    BY DEF ContractsInv
  <1>2. /\ session \in [Sessions -> SessionRows] /\ IsFiniteSet(Sessions)
        /\ Last \in Nat /\ links \in 1..MaxLinks /\ MaxContracts \in Nat /\ MaxLinks \in Nat
    BY <1>1, TypeFacts
  <1>3. session' \in [Sessions -> SessionRows] /\ \A t \in Sessions \ {s} : session'[t] = session[t]
    BY <1>2
  <1>4. ASSUME NEW t \in Sessions \ {s} PROVE Stands(t)'
    <2>1. Stands(t) /\ session'[t] = session[t] /\ holds'[t] = holds[t]
      BY <1>1, <1>3
    <2> QED BY <2>1 DEF Stands, StaffStands, ParentStands, LastRow, Last, CanExchange
  <1>5. RoomKept'
    <2>1. Last' = Last
      BY DEF Last
    <2>2. \A doings :
             /\ UnderWay(doings) \in Nat /\ UnderWay(doings)' \in Nat
             /\ (session[s].doing \in doings <=> new.doing \in doings) =>
                   UnderWay(doings)' = UnderWay(doings)
             /\ session[s].doing \notin doings => UnderWay(doings)' <= UnderWay(doings) + 1
             /\ session[s].doing \in doings /\ new.doing \notin doings =>
                   UnderWay(doings)' = UnderWay(doings) - 1
             /\ new.doing \notin doings => UnderWay(doings)' <= UnderWay(doings)
      BY <1>2, UnderWaySteps, Zenon
    <2>3. /\ UnderWay({"upload", "submit"})' \in Nat /\ UnderWay({"upload", "submit"}) \in Nat
          /\ \/ UnderWay({"upload", "submit"})' <= UnderWay({"upload", "submit"})
             \/ /\ UnderWay({"upload", "submit"})' <= UnderWay({"upload", "submit"}) + 1
                /\ RoomForContract
      BY <2>2
    <2>6. /\ UnderWay({"send", "link"})' \in Nat /\ UnderWay({"send", "link"}) \in Nat
          /\ \/ UnderWay({"send", "link"})' <= UnderWay({"send", "link"})
             \/ /\ UnderWay({"send", "link"})' <= UnderWay({"send", "link"}) + 1 /\ RoomForLink
      BY <2>2
    <2>4. Last + UnderWay({"upload", "submit"})' <= MaxContracts
      BY <1>1, <1>2, <2>3 DEF RoomKept, RoomForContract, Last
    <2>5. links + UnderWay({"send", "link"})' <= MaxLinks
      BY <1>1, <1>2, <2>6 DEF RoomKept, RoomForLink
    <2> QED BY <2>1, <2>4, <2>5 DEF RoomKept
  <1>6. VersionsSound' /\ MoneySound'
    BY <1>1 DEF VersionsSound, MoneySound, Accepted, Last
  <1>7. /\ admission' \in Statuses /\ contract' \in Seq(Version) /\ Last' <= MaxContracts
        /\ links' \in 1..MaxLinks /\ expired' \subseteq 1..MaxLinks /\ invoiced' \in BOOLEAN
    BY <1>1, TypeFacts DEF TypeOK, Statuses, Last
  <1> QED BY <1>3, <1>4, <1>5, <1>6, <1>7, StepKeeps

LEMMA GivesUpKeeps ==
    ASSUME ContractsAssumption, ContractsInv, NEW s \in Sessions, GivesUp(s)
    PROVE  ContractsInv'
  <1>1. /\ session' = [session EXCEPT ![s] = Idle] /\ holds' = [holds EXCEPT ![s] = {}]
        /\ UNCHANGED <<admission, contract, links, expired, invoiced, fresh>>
    BY DEF GivesUp, Ends
  <1>2. /\ holds \in [Sessions -> SUBSET Rows] /\ session \in [Sessions -> SessionRows]
        /\ fresh \subseteq Staff /\ Idle \in SessionRows
        /\ MaxLinks \in Nat /\ MaxContracts \in Nat
    BY TypeFacts DEF ContractsInv, Idle, SessionRows
  <1>3. /\ holds' \in [Sessions -> SUBSET Rows] /\ holds'[s] = {} /\ session'[s] = Idle
        /\ \A t \in Sessions \ {s} : holds'[t] = holds[t]
    BY <1>1, <1>2
  <1>4. Stands(s)'
    BY <1>3 DEF Stands, StaffStands, ParentStands, Idle
  <1>5. Idle.doing = "idle"
    BY DEF Idle
  <1> QED BY <1>1, <1>2, <1>3, <1>4, <1>5, QuietKeeps

\* A request locks the row it asked for and asks for the next one.
LEMMA TakesKeeps ==
    ASSUME ContractsAssumption, ContractsInv, NEW s \in Sessions, NEW row \in Rows,
           Free(session[s].wants, s), session[s].wants \in Rows, TakesAndAsks(s, row),
           UNCHANGED <<admission, contract, links, expired, invoiced, fresh>>, Stands(s)'
    PROVE  ContractsInv'
  <1> DEFINE new == [session[s] EXCEPT !.wants = row]
  <1>1. /\ holds \in [Sessions -> SUBSET Rows] /\ session \in [Sessions -> SessionRows]
        /\ fresh \subseteq Staff
    BY TypeFacts DEF ContractsInv
  <1>2. session[s] \in SessionRows
    BY <1>1
  <1>3. new \in SessionRows /\ new.doing = session[s].doing
    BY <1>2 DEF SessionRows
  <1>4. /\ session' = [session EXCEPT ![s] = new]
        /\ holds' = [holds EXCEPT ![s] = holds[s] \cup {session[s].wants}]
    BY <1>1, <1>2 DEF TakesAndAsks, Takes, Asks, SessionRows
  <1> HIDE DEF new
  <1>5. holds' \in [Sessions -> SUBSET Rows]
    BY <1>1, <1>4
  <1>6. \A t \in Sessions \ {s} : holds'[t] = holds[t] /\ holds'[s] \cap holds[t] = {}
    <2>1. \A t \in Sessions \ {s} : holds[s] \cap holds[t] = {}
      BY DEF ContractsInv, OneHolder
    <2> QED BY <1>1, <1>4, <2>1 DEF Free
  <1> QED BY <1>1, <1>3, <1>4, <1>5, <1>6, QuietKeeps

\* What a request asks for and holds after it took a row.
LEMMA TakesDoes ==
    ASSUME ContractsAssumption, ContractsInv, NEW s \in Sessions, NEW row, TakesAndAsks(s, row)
    PROVE  /\ session'[s].doing = session[s].doing /\ session'[s].wants = row
           /\ session'[s].link = session[s].link /\ session'[s].seen = session[s].seen
           /\ holds'[s] = holds[s] \cup {session[s].wants}
  <1>1. /\ holds \in [Sessions -> SUBSET Rows] /\ session \in [Sessions -> SessionRows]
        /\ session[s] \in SessionRows
    BY TypeFacts DEF ContractsInv
  <1> QED BY <1>1 DEF TakesAndAsks, Takes, Asks, SessionRows

LEMMA OpensFormKeeps ==
    ASSUME ContractsAssumption, ContractsInv, NEW s \in Staff, NEW command \in Commands,
           OpensForm(s, command)
    PROVE  ContractsInv'
  <1> DEFINE new == [Idle EXCEPT !.doing = command, !.wants = AdmissionRow]
  <1>1. /\ session' = [session EXCEPT ![s] = new] /\ session[s].doing = "idle"
        /\ command = "upload" => RoomForContract
        /\ command \in {"send", "link"} => RoomForLink
        /\ fresh' = fresh \cup {s}
        /\ UNCHANGED <<admission, contract, links, expired, invoiced, holds>>
    BY DEF OpensForm
  <1>2. /\ s \in Sessions /\ fresh \subseteq Staff /\ session \in [Sessions -> SessionRows]
        /\ holds \in [Sessions -> SUBSET Rows] /\ MaxLinks \in Nat /\ MaxContracts \in Nat
    BY TypeFacts DEF ContractsInv, Sessions
  <1>3. new \in SessionRows
    <2>1. Idle \in SessionRows
      BY <1>2 DEF Idle, SessionRows
    <2>2. AdmissionRow \in Rows
      BY RowsApart
    <2> QED BY <2>1, <2>2 DEF SessionRows
  <1>4. new.doing = command /\ new.wants = AdmissionRow
    BY DEF Idle
  <1> HIDE DEF new
  <1>5. holds[s] = {}
    BY <1>1, <1>2 DEF ContractsInv, Stands, StaffStands
  <1>6. Stands(s)'
    BY <1>1, <1>2, <1>4, <1>5 DEF Stands, StaffStands, Commands
  <1>7. command # "submit"
    BY DEF Commands
  <1>8. \A t \in Sessions \ {s} : holds'[t] = holds[t] /\ holds'[s] \cap holds[t] = {}
    BY <1>1, <1>5
  <1> QED BY <1>1, <1>2, <1>3, <1>4, <1>6, <1>7, <1>8, QuietKeeps

-----------------------------------------------------------------------------
(* Steps that write, which nobody does while another holds the admission. *)

LEMMA SomeoneUnderWay ==
    ASSUME ContractsAssumption, ContractsInv, NEW s \in Sessions, NEW doings,
           session[s].doing \in doings, "idle" \notin doings, Ends(s)
    PROVE  /\ UnderWay(doings) \in Nat /\ UnderWay(doings) >= 1
           /\ UnderWay(doings)' = UnderWay(doings) - 1
  <1>1. /\ session \in [Sessions -> SessionRows] /\ IsFiniteSet(Sessions)
        /\ MaxLinks \in Nat /\ MaxContracts \in Nat
    BY TypeFacts DEF ContractsInv
  <1>2. Idle \in SessionRows /\ Idle.doing = "idle"
    BY <1>1 DEF Idle, SessionRows
  <1>3. session' = [session EXCEPT ![s] = Idle]
    BY DEF Ends
  <1>4. /\ UnderWay(doings) \in Nat /\ UnderWay(doings)' \in Nat
        /\ (session[s].doing \in doings <=> Idle.doing \in doings) =>
              UnderWay(doings)' = UnderWay(doings)
        /\ session[s].doing \notin doings => UnderWay(doings)' <= UnderWay(doings) + 1
        /\ session[s].doing \in doings /\ Idle.doing \notin doings =>
              UnderWay(doings)' = UnderWay(doings) - 1
        /\ Idle.doing \notin doings => UnderWay(doings)' <= UnderWay(doings)
    BY <1>1, <1>2, <1>3, UnderWaySteps, Zenon
  <1> QED BY <1>2, <1>4

LEMMA FewerUnderWay ==
    ASSUME ContractsAssumption, ContractsInv, NEW s \in Sessions, NEW doings,
           "idle" \notin doings, Ends(s)
    PROVE  /\ UnderWay(doings) \in Nat /\ UnderWay(doings)' \in Nat
           /\ UnderWay(doings)' <= UnderWay(doings)
  <1>1. /\ session \in [Sessions -> SessionRows] /\ IsFiniteSet(Sessions)
        /\ MaxLinks \in Nat /\ MaxContracts \in Nat
    BY TypeFacts DEF ContractsInv
  <1>2. Idle \in SessionRows /\ Idle.doing = "idle"
    BY <1>1 DEF Idle, SessionRows
  <1>3. session' = [session EXCEPT ![s] = Idle]
    BY DEF Ends
  <1>4. /\ UnderWay(doings) \in Nat /\ UnderWay(doings)' \in Nat
        /\ (session[s].doing \in doings <=> Idle.doing \in doings) =>
              UnderWay(doings)' = UnderWay(doings)
        /\ session[s].doing \notin doings => UnderWay(doings)' <= UnderWay(doings) + 1
        /\ session[s].doing \in doings /\ Idle.doing \notin doings =>
              UnderWay(doings)' = UnderWay(doings) - 1
        /\ Idle.doing \notin doings => UnderWay(doings)' <= UnderWay(doings)
    BY <1>1, <1>2, <1>3, UnderWaySteps, Zenon
  <1> QED BY <1>2, <1>4

LEMMA WriteKeeps ==
    ASSUME ContractsAssumption, ContractsInv, NEW s \in Sessions, Ends(s),
           \A t \in Sessions \ {s} : AdmissionRow \notin holds[t],
           admission' \in Statuses, contract' \in Seq(Version),
           Last' = Last \/ (Last' = Last + 1 /\ session[s].doing \in {"upload", "submit"}),
           links' = links \/ (links' = links + 1 /\ session[s].doing \in {"send", "link"}),
           expired' = expired, invoiced' \in BOOLEAN, fresh' \subseteq Staff,
           VersionsSound', MoneySound',
           \A p \in Parents \ {s} : ParentStands(p)'
    PROVE  ContractsInv'
  <1>1. /\ session \in [Sessions -> SessionRows] /\ holds \in [Sessions -> SUBSET Rows]
        /\ Parents \cap Staff = {} /\ Sessions = Parents \cup Staff
        /\ Last \in Nat /\ links \in 1..MaxLinks /\ MaxContracts \in Nat /\ MaxLinks \in Nat
        /\ expired \subseteq 1..MaxLinks
    BY TypeFacts DEF ContractsInv
  <1>2. Idle \in SessionRows
    BY <1>1 DEF Idle, SessionRows
  <1>3. /\ session' \in [Sessions -> SessionRows] /\ session'[s] = Idle
        /\ holds' \in [Sessions -> SUBSET Rows] /\ holds'[s] = {}
        /\ \A t \in Sessions \ {s} : session'[t] = session[t] /\ holds'[t] = holds[t]
    BY <1>1, <1>2 DEF Ends
  <1>4. Stands(s)'
    BY <1>3 DEF Stands, StaffStands, ParentStands, Idle
  <1>5. ASSUME NEW t \in Sessions \ {s} PROVE Stands(t)'
    <2>1. CASE t \in Staff
      <3>1. StaffStands(t) /\ AdmissionRow \notin holds[t]
        BY <2>1 DEF ContractsInv, Stands
      <3>2. session[t].doing # "idle" => session[t].wants = AdmissionRow /\ holds[t] = {}
        BY <3>1 DEF StaffStands
      <3> QED BY <1>3, <2>1, <3>1, <3>2 DEF Stands, StaffStands
    <2>2. CASE t \notin Staff
      BY <1>1, <2>2 DEF Stands
    <2> QED BY <2>1, <2>2
  <1>6. /\ Last + UnderWay({"upload", "submit"}) <= MaxContracts
        /\ links + UnderWay({"send", "link"}) <= MaxLinks
    BY DEF ContractsInv, RoomKept
  <1>7. Last' + UnderWay({"upload", "submit"})' <= MaxContracts /\ Last' <= MaxContracts
    <2>1. /\ UnderWay({"upload", "submit"}) \in Nat /\ UnderWay({"upload", "submit"})' \in Nat
          /\ UnderWay({"upload", "submit"})' <= UnderWay({"upload", "submit"})
      BY FewerUnderWay
    <2>2. session[s].doing \in {"upload", "submit"} =>
             UnderWay({"upload", "submit"})' = UnderWay({"upload", "submit"}) - 1
      BY SomeoneUnderWay
    <2> QED BY <1>1, <1>6, <2>1, <2>2
  <1>8. links' + UnderWay({"send", "link"})' <= MaxLinks /\ links' \in 1..MaxLinks
    <2>1. /\ UnderWay({"send", "link"}) \in Nat /\ UnderWay({"send", "link"})' \in Nat
          /\ UnderWay({"send", "link"})' <= UnderWay({"send", "link"})
      BY FewerUnderWay
    <2>2. session[s].doing \in {"send", "link"} =>
             UnderWay({"send", "link"})' = UnderWay({"send", "link"}) - 1
      BY SomeoneUnderWay
    <2> QED BY <1>1, <1>6, <2>1, <2>2
  <1>9. RoomKept'
    BY <1>7, <1>8 DEF RoomKept
  <1> QED BY <1>1, <1>3, <1>4, <1>5, <1>7, <1>8, <1>9, StepKeeps

\* A new version takes the place of the last one.
LEMMA UploadsKeeps ==
    ASSUME ContractsAssumption, ContractsInv, NEW s \in Staff, session[s].doing = "upload",
           Uploads(s), CanExchange,
           \A t \in Sessions \ {s} : AdmissionRow \notin holds[t] /\ LastRow \notin holds[t]
    PROVE  ContractsInv'
  <1>1. /\ s \in Sessions /\ Last \in Nat /\ DOMAIN contract = 1..Last
        /\ \A v \in 1..Last : contract[v] \in Version
        /\ MaxContracts \in Nat /\ fresh \subseteq Staff /\ invoiced \in BOOLEAN
        /\ Parents \cap Staff = {} /\ Sessions = Parents \cup Staff
        /\ TypeOK /\ VersionsSound /\ MoneySound
    BY TypeFacts DEF ContractsInv, Sessions
  <1>2. Ends(s) /\ UNCHANGED <<admission, links, expired, invoiced, fresh>>
    BY DEF Uploads
  <1>3. Last + 1 <= MaxContracts
    <2>1. UnderWay({"upload", "submit"}) \in Nat /\ UnderWay({"upload", "submit"}) >= 1
      BY <1>1, <1>2, SomeoneUnderWay
    <2> QED BY <1>1, <2>1 DEF ContractsInv, RoomKept
  <1> DEFINE older == [v \in 1..Last |->
                         IF v \in Current THEN [contract[v] EXCEPT !.status = "superseded",
                                                                   !.superseded = TRUE]
                         ELSE contract[v]]
             new == NewContract(Last + 1)
  <1>4. contract' = Append(older, new)
    BY <1>1 DEF Uploads, Last
  <1>5. /\ new \in Version /\ new.status = "draft" /\ new.original = Last + 1
        /\ new.signed = 0 /\ ~new.superseded
    BY <1>1, <1>3 DEF NewContract, Version
  <1>6. \A v \in 1..Last :
           /\ older[v] \in Version /\ older[v].original = contract[v].original
           /\ older[v].signed = contract[v].signed /\ older[v].superseded
           /\ older[v].status \in {"superseded", "rejected"}
    <2> SUFFICES ASSUME NEW v \in 1..Last
                 PROVE  /\ older[v] \in Version /\ older[v].original = contract[v].original
                        /\ older[v].signed = contract[v].signed /\ older[v].superseded
                        /\ older[v].status \in {"superseded", "rejected"}
      OBVIOUS
    <2>1. contract[v] \in Version
      BY <1>1
    <2>2. CASE v \in Current
      <3>1. older[v] = [contract[v] EXCEPT !.status = "superseded", !.superseded = TRUE]
        BY <2>2
      <3> HIDE DEF older
      <3> QED BY <2>1, <3>1 DEF Version
    <2>3. CASE v \notin Current
      <3>1. older[v] = contract[v]
        BY <2>3
      <3>2. contract[v].superseded /\ v < Last
        BY <1>1, <2>3 DEF Current, VersionsSound
      <3> HIDE DEF older
      <3> QED BY <1>1, <2>1, <3>1, <3>2 DEF VersionsSound
    <2> QED BY <2>2, <2>3
  <1>7. older \in Seq(Version) /\ Len(older) = Last
    <2>1. older = [v \in 1..Last |-> older[v]]
      OBVIOUS
    <2> HIDE DEF older
    <2>2. older \in [1..Last -> Version]
      BY <1>6, <2>1
    <2> QED BY <1>1, <2>2, SeqDef, LenProperties
  <1> HIDE DEF older, new
  <1>8. /\ contract' \in Seq(Version) /\ Last' = Last + 1
        /\ \A v \in 1..Last : contract'[v] = older[v]
        /\ contract'[Last + 1] = new
    BY <1>1, <1>4, <1>5, <1>7 DEF Last
  <1>9. VersionsSound'
    <2> SUFFICES ASSUME NEW v \in 1..(Last + 1)
                 PROVE  /\ contract'[v].superseded <=> v < Last + 1
                        /\ v < Last + 1 => contract'[v].status \in {"superseded", "rejected"}
                        /\ contract'[v].status \in {"submitted", "accepted"} =>
                              contract'[v].signed # 0
                        /\ contract'[v].signed \in {0, contract'[v].original}
      BY <1>8 DEF VersionsSound
    <2>1. CASE v \in 1..Last
      BY <1>1, <1>6, <1>8, <2>1 DEF VersionsSound
    <2>2. CASE v = Last + 1
      BY <1>1, <1>5, <1>8, <2>2
    <2> QED BY <1>1, <2>1, <2>2
  <1>10. MoneySound'
    <2>1. ~Accepted /\ admission \in Exchange
      BY <1>1 DEF MoneySound, CanExchange
    <2>2. ~Accepted'
      BY <1>5, <1>8 DEF Accepted
    <2>3. ~(admission \in AwaitingMoney \/ invoiced)
      BY <1>1, <2>1 DEF MoneySound
    <2> QED BY <1>2, <2>2, <2>3 DEF MoneySound
  <1>11. ASSUME NEW p \in Parents \ {s} PROVE ParentStands(p)'
    <2>1. ParentStands(p) /\ LastRow \notin holds[p]
      BY <1>1 DEF ContractsInv, Stands
    <2>2. session'[p] = session[p] /\ holds'[p] = holds[p]
      BY <1>1, <1>2, TypeFacts DEF Ends
    <2>3. contract'[Last'].status = "draft" /\ Last' > 0 /\ Last' = Last + 1
      BY <1>1, <1>5, <1>8
    <2> HIDE DEF Last
    <2> QED BY <1>1, <1>2, <2>1, <2>2, <2>3 DEF ParentStands
  <1>12. admission' \in Statuses
    BY <1>1, <1>2 DEF TypeOK, Statuses
  <1>13. \A t \in Sessions \ {s} : AdmissionRow \notin holds[t]
    OBVIOUS
  <1> QED BY <1>1, <1>2, <1>8, <1>9, <1>10, <1>11, <1>12, <1>13, WriteKeeps

-----------------------------------------------------------------------------
(* Customer Support's steps. *)

\* A staff command that wants a row of one kind has come so far.
LEMMA StaffWants ==
    ASSUME ContractsInv, NEW s \in Staff
    PROVE  /\ s \in Sessions /\ session[s].doing # "submit"
           /\ session[s].wants = AdmissionRow => session[s].doing # "idle" /\ holds[s] = {}
           /\ session[s].wants[1] = "contract" =>
                 /\ session[s].wants = LastRow /\ holds[s] = {AdmissionRow} /\ Last > 0
                 /\ session[s].doing \in {"upload", "send", "accept", "reject"}
                 /\ session[s].doing \in {"upload", "send"} => CanExchange
           /\ session[s].wants[1] = "link" =>
                 /\ session[s].wants = LinkRow(links)
                 /\ \/ session[s].doing = "link" /\ holds[s] = {AdmissionRow}
                    \/ /\ session[s].doing = "send" /\ holds[s] = {AdmissionRow, LastRow}
                       /\ Last > 0 /\ CanExchange
  <1>1. StaffStands(s) /\ s \in Sessions
    BY DEF ContractsInv, Stands, Sessions
  <1>2. Idle.wants = NoRow
    BY DEF Idle
  <1> QED BY <1>1, <1>2, RowsApart DEF StaffStands, Commands

\* Nobody else holds what a request holds.
LEMMA HeldAlone ==
    ASSUME ContractsInv, NEW s \in Sessions, NEW row \in holds[s]
    PROVE  \A t \in Sessions \ {s} : row \notin holds[t]
  BY DEF ContractsInv, OneHolder

\* A step that writes the status of the admission and nothing else.
LEMMA StatusKeeps ==
    ASSUME ContractsAssumption, ContractsInv, NEW s \in Sessions, Ends(s),
           \A t \in Sessions \ {s} : AdmissionRow \notin holds[t],
           admission' \in Statuses, UNCHANGED <<contract, links, expired, invoiced>>,
           fresh' \subseteq Staff, MoneySound'
    PROVE  ContractsInv'
  <1>1. /\ contract \in Seq(Version) /\ invoiced \in BOOLEAN /\ VersionsSound
        /\ session \in [Sessions -> SessionRows] /\ holds \in [Sessions -> SUBSET Rows]
        /\ Parents \cap Staff = {} /\ Sessions = Parents \cup Staff
    BY TypeFacts DEF ContractsInv
  <1>2. VersionsSound' /\ Last' = Last
    BY <1>1 DEF VersionsSound, Last
  <1>3. ASSUME NEW p \in Parents \ {s} PROVE ParentStands(p)'
    <2>1. ParentStands(p)
      BY <1>1 DEF ContractsInv, Stands
    <2>2. session'[p] = session[p] /\ holds'[p] = holds[p]
      BY <1>1 DEF Ends
    <2> QED BY <1>2, <2>1, <2>2 DEF ParentStands, LastRow
  <1> QED BY <1>1, <1>2, <1>3, WriteKeeps

LEMMA NeedsContractKeeps ==
    ASSUME ContractsAssumption, ContractsInv, NEW s \in Staff,
           session[s].wants = AdmissionRow, Free(AdmissionRow, s),
           session[s].doing \in {"upload", "send", "accept", "reject"},
           session[s].doing \in {"upload", "send"} => CanExchange,
           NeedsContract(s)
    PROVE  ContractsInv'
  <1>1. s \in Sessions /\ holds[s] = {}
    BY StaffWants
  <1>2. CASE ~HasContract
    BY <1>1, <1>2, GivesUpKeeps DEF NeedsContract
  <1>3. CASE HasContract
    <2>1. Last > 0 /\ ContractRow = LastRow /\ LastRow \in Rows
      BY <1>3, CurrentIsLast DEF ContractsInv
    <2>2. /\ TakesAndAsks(s, LastRow)
          /\ UNCHANGED <<admission, contract, links, expired, invoiced, fresh>>
      BY <1>3, <2>1 DEF NeedsContract
    <2>3. /\ session'[s].doing = session[s].doing /\ session'[s].wants = LastRow
          /\ holds'[s] = {AdmissionRow}
      BY <1>1, <2>2, TakesDoes
    <2>4. LastRow' = LastRow /\ Last' = Last
      BY <2>2 DEF LastRow, Last
    <2>5. Stands(s)'
      BY <2>1, <2>2, <2>3, <2>4 DEF Stands, StaffStands, CanExchange, Commands
    <2> QED BY <1>1, <2>1, <2>2, <2>5, RowsApart, TakesKeeps
  <1> QED BY <1>2, <1>3

LEMMA LocksAdmissionKeeps ==
    ASSUME ContractsAssumption, ContractsInv, NEW s \in Staff, LocksAdmission(s)
    PROVE  ContractsInv'
  <1>1. /\ s \in Sessions /\ session[s].wants = AdmissionRow /\ Free(AdmissionRow, s)
        /\ holds[s] = {}
    BY StaffWants DEF LocksAdmission
  <1>2. /\ \A t \in Sessions \ {s} : AdmissionRow \notin holds[t]
        /\ AdmissionRow \in Rows
    BY <1>1, RowsApart DEF Free
  <1>3. CASE AddContract(s)
    <2>1. session[s].doing = "upload"
      BY <1>3 DEF AddContract
    <2>2. CASE ~CanExchange
      BY <1>1, <1>3, <2>2, GivesUpKeeps DEF AddContract
    <2>3. CASE CanExchange /\ HasContract
      BY <1>1, <1>3, <2>1, <2>3, NeedsContractKeeps DEF AddContract
    <2>4. CASE CanExchange /\ ~HasContract
      <3>1. Uploads(s)
        BY <1>3, <2>4 DEF AddContract
      <3>2. Last = 0 /\ holds \in [Sessions -> SUBSET Rows]
        BY <2>4, CurrentIsLast, TypeFacts DEF ContractsInv
      <3>3. LastRow \notin Rows
        BY <3>2 DEF LastRow, Rows
      <3>4. \A t \in Sessions \ {s} : AdmissionRow \notin holds[t] /\ LastRow \notin holds[t]
        BY <1>2, <3>2, <3>3
      <3> QED BY <2>1, <2>4, <3>1, <3>4, UploadsKeeps
    <2> QED BY <2>2, <2>3, <2>4
  <1>4. CASE SendContract(s)
    <2>1. CASE CanExchange
      BY <1>1, <1>4, <2>1, NeedsContractKeeps DEF SendContract
    <2>2. CASE ~CanExchange
      BY <1>1, <1>4, <2>2, GivesUpKeeps DEF SendContract
    <2> QED BY <2>1, <2>2
  <1>5. CASE ReviewContract(s)
    BY <1>1, <1>5, NeedsContractKeeps DEF ReviewContract
  <1>6. CASE IssueLink(s)
    <2>1. /\ session[s].doing = "link" /\ TakesAndAsks(s, LinkRow(links))
          /\ UNCHANGED <<admission, contract, links, expired, invoiced, fresh>>
      BY <1>6 DEF IssueLink
    <2>2. LinkRow(links) \in Rows
      BY RowsApart, TypeFacts DEF ContractsInv
    <2>3. /\ session'[s].doing = "link" /\ session'[s].wants = LinkRow(links)
          /\ holds'[s] = {AdmissionRow}
      BY <1>1, <2>1, TakesDoes
    <2>4. Stands(s)'
      BY <2>1, <2>3 DEF Stands, StaffStands, Commands
    <2> QED BY <1>1, <1>2, <2>1, <2>2, <2>4, TakesKeeps
  <1>7. CASE CancelAdmission(s)
    <2>1. CASE Cancellable(s)
      <3>1. /\ Ends(s) /\ admission' = "cancelled" /\ fresh' = {}
            /\ UNCHANGED <<contract, links, expired, invoiced>>
        BY <1>7, <2>1 DEF CancelAdmission, Writes, Bumps
      <3>2. MoneySound' /\ admission' \in Statuses
        BY <3>1 DEF ContractsInv, MoneySound, Accepted, Last, Statuses, Exchange, AwaitingMoney
      <3> QED BY <1>1, <1>2, <3>1, <3>2, StatusKeeps
    <2>2. CASE ~Cancellable(s)
      BY <1>1, <1>7, <2>2, GivesUpKeeps DEF CancelAdmission
    <2> QED BY <2>1, <2>2
  <1>8. CASE UpdateAdmission(s)
    <2>1. CASE Editable(s)
      <3>1. /\ Ends(s) /\ admission' = admission /\ fresh' = {}
            /\ UNCHANGED <<contract, links, expired, invoiced>>
        BY <1>8, <2>1 DEF UpdateAdmission, Writes, Bumps
      <3>2. MoneySound' /\ admission' \in Statuses
        BY <3>1 DEF ContractsInv, TypeOK, MoneySound, Accepted, Last, Statuses
      <3> QED BY <1>1, <1>2, <3>1, <3>2, StatusKeeps
    <2>2. CASE ~Editable(s)
      BY <1>1, <1>8, <2>2, GivesUpKeeps DEF UpdateAdmission
    <2> QED BY <2>1, <2>2
  <1> QED BY <1>3, <1>4, <1>5, <1>6, <1>7, <1>8, Zenon DEF LocksAdmission

\* The last version changes and stays the current one.
LEMMA LastChanges ==
    ASSUME ContractsAssumption, TypeOK, VersionsSound, Last > 0, NEW new \in Version,
           contract' = [contract EXCEPT ![Last] = new], ~new.superseded,
           new.status \in {"submitted", "accepted"} => new.signed # 0,
           new.signed \in {0, new.original}
    PROVE  /\ contract' \in Seq(Version) /\ Last' = Last /\ contract'[Last] = new
           /\ VersionsSound'
           /\ \A v \in 1..Last : v # Last => contract'[v] = contract[v]
  <1>1. contract \in Seq(Version) /\ Last \in Nat /\ DOMAIN contract = 1..Last
    BY TypeFacts
  <1>2. contract' \in Seq(Version) /\ Last' = Last
    BY <1>1 DEF Last
  <1>3. contract'[Last] = new /\ \A v \in 1..Last : v # Last => contract'[v] = contract[v]
    BY <1>1
  <1>4. VersionsSound'
    BY <1>1, <1>2, <1>3 DEF VersionsSound
  <1> QED BY <1>2, <1>3, <1>4

LEMMA ReviewsKeeps ==
    ASSUME ContractsAssumption, ContractsInv, NEW s \in Staff,
           session[s].wants[1] = "contract", Free(session[s].wants, s), Reviews(s)
    PROVE  ContractsInv'
  <1>1. /\ s \in Sessions /\ session[s].wants = LastRow /\ holds[s] = {AdmissionRow} /\ Last > 0
        /\ session[s].wants[2] = Last
    BY StaffWants, RowsApart
  <1>2. /\ TypeOK /\ VersionsSound /\ MoneySound
        /\ \A v \in 1..Last : contract[v] \in Version
        /\ Last \in Nat /\ contract \in Seq(Version)
        /\ session \in [Sessions -> SessionRows] /\ holds \in [Sessions -> SUBSET Rows]
        /\ Parents \cap Staff = {} /\ Sessions = Parents \cup Staff /\ invoiced \in BOOLEAN
    BY TypeFacts DEF ContractsInv
  <1>3. CASE ~Reviewable(Last) /\ GivesUp(s)
    BY <1>1, <1>3, GivesUpKeeps
  <1>4. ASSUME NEW judgement \in {"accepted", "rejected"}, Reviewable(Last), Ends(s),
               contract' = [contract EXCEPT ![Last].status = judgement],
               admission' = IF judgement = "accepted" THEN "awaiting_payment"
                            ELSE "contract_sent",
               invoiced' = (judgement = "accepted" \/ invoiced),
               fresh' = {}, UNCHANGED <<links, expired>>
        PROVE  ContractsInv'
    <2> DEFINE new == [contract[Last] EXCEPT !.status = judgement]
    <2>1. contract[Last] \in Version /\ contract[Last].status = "submitted"
      BY <1>1, <1>2, <1>4 DEF Reviewable
    <2>2. /\ contract[Last].signed # 0 /\ contract[Last].signed \in {0, contract[Last].original}
          /\ ~contract[Last].superseded
      BY <1>1, <1>2, <2>1 DEF VersionsSound
    <2>3. /\ new \in Version /\ new.status = judgement /\ ~new.superseded /\ new.signed # 0
          /\ new.signed \in {0, new.original} /\ new.original = contract[Last].original
      BY <2>1, <2>2 DEF Version
    <2>4. contract' = [contract EXCEPT ![Last] = new]
      BY <1>4
    <2> HIDE DEF new
    <2>5. /\ contract' \in Seq(Version) /\ Last' = Last /\ contract'[Last] = new /\ VersionsSound'
      BY <1>1, <1>2, <2>3, <2>4, LastChanges
    <2>6. MoneySound'
      <3>1. ~(admission \in AwaitingMoney \/ invoiced)
        BY <1>2, <2>1 DEF MoneySound, Accepted
      <3>2. Accepted' <=> judgement = "accepted"
        BY <1>1, <2>3, <2>5 DEF Accepted
      <3> QED BY <1>4, <3>1, <3>2 DEF MoneySound, AwaitingMoney, Exchange
    <2>7. ASSUME NEW p \in Parents \ {s} PROVE ParentStands(p)'
      <3>1. ParentStands(p) /\ LastRow \notin holds[p]
        BY <1>1, <1>2 DEF ContractsInv, Stands, Free
      <3>2. session'[p] = session[p] /\ holds'[p] = holds[p]
        BY <1>2, <1>4 DEF Ends
      <3>3. contract'[Last'].original = contract[Last].original /\ contract[Last].status # "draft"
        BY <2>1, <2>3, <2>5
      <3> HIDE DEF Last
      <3> QED BY <1>4, <2>5, <3>1, <3>2, <3>3 DEF ParentStands
    <2>8. /\ \A t \in Sessions \ {s} : AdmissionRow \notin holds[t]
          /\ admission' \in Statuses /\ invoiced' \in BOOLEAN
      BY <1>1, <1>2, <1>4, HeldAlone DEF Statuses, Exchange, AwaitingMoney
    <2> QED BY <1>1, <1>4, <2>5, <2>6, <2>7, <2>8, WriteKeeps
  <1>5. CASE Reviewable(Last) /\ Judges(s, Last, "accepted", "awaiting_payment")
               /\ IssuesFirstInvoice
    BY <1>4, <1>5 DEF Judges, Writes, Bumps, IssuesFirstInvoice
  <1>6. CASE Reviewable(Last) /\ Judges(s, Last, "rejected", "contract_sent")
               /\ UNCHANGED invoiced
    BY <1>2, <1>4, <1>6 DEF Judges, Writes, Bumps
  <1> QED BY <1>1, <1>3, <1>5, <1>6 DEF Reviews

LEMMA LocksContractKeeps ==
    ASSUME ContractsAssumption, ContractsInv, NEW s \in Staff, LocksContract(s)
    PROVE  ContractsInv'
  <1>1. /\ s \in Sessions /\ session[s].wants = LastRow /\ holds[s] = {AdmissionRow} /\ Last > 0
        /\ session[s].doing \in {"upload", "send"} => CanExchange
        /\ session[s].wants[1] = "contract" /\ Free(LastRow, s)
    BY StaffWants DEF LocksContract
  <1>2. LastRow \in Rows
    BY <1>1, CurrentIsLast DEF ContractsInv
  <1>3. CASE SendLocksContract(s)
    <2>1. /\ session[s].doing = "send" /\ TakesAndAsks(s, LinkRow(links))
          /\ UNCHANGED <<admission, contract, links, expired, invoiced, fresh>>
      BY <1>3 DEF SendLocksContract
    <2>2. LinkRow(links) \in Rows
      BY RowsApart, TypeFacts DEF ContractsInv
    <2>3. /\ session'[s].doing = "send" /\ session'[s].wants = LinkRow(links)
          /\ holds'[s] = {AdmissionRow, LastRow}
      BY <1>1, <2>1, TakesDoes
    <2>4. LastRow' = LastRow /\ Last' = Last
      BY <2>1 DEF LastRow, Last
    <2>5. Stands(s)'
      BY <1>1, <2>1, <2>3, <2>4 DEF Stands, StaffStands, CanExchange, Commands
    <2> QED BY <1>1, <1>2, <2>1, <2>2, <2>5, TakesKeeps
  <1>4. CASE UploadLocksContract(s)
    <2>1. \A t \in Sessions \ {s} : AdmissionRow \notin holds[t]
      BY <1>1, HeldAlone
    <2>2. \A t \in Sessions \ {s} : LastRow \notin holds[t]
      BY <1>1 DEF Free
    <2> QED BY <1>1, <1>4, <2>1, <2>2, UploadsKeeps DEF UploadLocksContract
  <1>5. CASE Reviews(s)
    BY <1>1, <1>5, ReviewsKeeps
  <1> QED BY <1>3, <1>4, <1>5 DEF LocksContract

\* Who came through an earlier link holds nothing, and the new link is nobody's.
LEMMA ReplacesLinkKeeps ==
    ASSUME ContractsAssumption, ContractsInv, NEW s \in Staff, ReplacesLink(s)
    PROVE  ContractsInv'
  <1>1. /\ s \in Sessions /\ session[s].wants = LinkRow(links) /\ Free(LinkRow(links), s)
        /\ AdmissionRow \in holds[s]
    BY StaffWants DEF ReplacesLink
  <1>2. /\ TypeOK /\ VersionsSound /\ MoneySound
        /\ \A v \in 1..Last : contract[v] \in Version
        /\ Last \in Nat /\ contract \in Seq(Version) /\ links \in Nat
        /\ session \in [Sessions -> SessionRows] /\ holds \in [Sessions -> SUBSET Rows]
        /\ Parents \cap Staff = {} /\ Sessions = Parents \cup Staff /\ invoiced \in BOOLEAN
        /\ fresh \subseteq Staff
    BY TypeFacts DEF ContractsInv
  <1>3. \A t \in Sessions \ {s} : AdmissionRow \notin holds[t]
    BY <1>1, HeldAlone
  <1>4. links' = links + 1 /\ UNCHANGED <<expired, invoiced>>
    BY DEF ReplacesLink, NewLink
  <1>5. ASSUME Ends(s), NEW p \in Parents \ {s},
               Last' = Last,
               Last > 0 => contract'[Last].original = contract[Last].original
        PROVE  ParentStands(p)'
    <2>1. ParentStands(p) /\ LinkRow(links) \notin holds[p]
      BY <1>1, <1>2 DEF ContractsInv, Stands, Free
    <2>2. session'[p] = session[p] /\ holds'[p] = holds[p]
      BY <1>2, <1>5 DEF Ends
    <2>3. /\ session[p].doing = "submit" =>
                session[p].wants = LinkRow(session[p].link) /\ holds[p] = {}
          /\ session[p].doing # "idle" => session[p].link \in 1..links
      BY <2>1 DEF ParentStands
    <2>4. session[p].doing # "idle" => session[p].link \in 1..(links + 1)
                                       /\ session[p].link # links + 1
      BY <1>2, <2>3
    <2> HIDE DEF Last
    <2> QED BY <1>4, <1>5, <2>1, <2>2, <2>3, <2>4 DEF ParentStands
  <1>6. CASE session[s].doing = "link" /\ Ends(s) /\ UNCHANGED <<admission, contract, fresh>>
    <2>1. Last' = Last /\ (Last > 0 => contract'[Last].original = contract[Last].original)
      BY <1>6 DEF Last
    <2>2. VersionsSound' /\ MoneySound'
      BY <1>2, <1>4, <1>6 DEF VersionsSound, MoneySound, Accepted, Last
    <2>3. \A p \in Parents \ {s} : ParentStands(p)'
      BY <1>5, <1>6, <2>1
    <2>4. admission' \in Statuses /\ contract' \in Seq(Version)
      BY <1>2, <1>6 DEF TypeOK, Statuses
    <2> QED BY <1>1, <1>2, <1>3, <1>4, <1>6, <2>1, <2>2, <2>3, <2>4, WriteKeeps
  <1>7. CASE session[s].doing = "send" /\ MarkContractSent(s)
    <2> DEFINE new == [contract[Last] EXCEPT !.status = "sent"]
    <2>1. Last > 0 /\ CanExchange
      BY <1>7, StaffWants DEF ReplacesLink
    <2>2. CurrentVersion = Last
      BY <1>2, <2>1, CurrentIsLast
    <2>3. /\ Ends(s) /\ admission' = "contract_sent" /\ fresh' = {}
          /\ contract' = [contract EXCEPT ![Last] = new]
      BY <1>7, <2>2 DEF MarkContractSent, Writes, Bumps
    <2>4. /\ contract[Last] \in Version /\ ~contract[Last].superseded
          /\ contract[Last].signed \in {0, contract[Last].original}
      BY <1>2, <2>1 DEF VersionsSound
    <2>5. /\ new \in Version /\ new.status = "sent" /\ ~new.superseded
          /\ new.signed \in {0, new.original} /\ new.original = contract[Last].original
      BY <2>4 DEF Version
    <2> HIDE DEF new
    <2>6. /\ contract' \in Seq(Version) /\ Last' = Last /\ contract'[Last] = new /\ VersionsSound'
      BY <1>2, <2>1, <2>3, <2>5, LastChanges
    <2>7. MoneySound'
      <3>1. ~(admission \in AwaitingMoney \/ invoiced)
        BY <1>2, <2>1 DEF MoneySound, CanExchange
      <3>2. ~Accepted'
        BY <2>5, <2>6 DEF Accepted
      <3> QED BY <1>4, <2>3, <3>1, <3>2 DEF MoneySound, AwaitingMoney
    <2>8. \A p \in Parents \ {s} : ParentStands(p)'
      BY <1>5, <2>3, <2>5, <2>6
    <2>9. admission' \in Statuses
      BY <2>3 DEF Statuses, Exchange
    <2> QED BY <1>1, <1>2, <1>3, <1>4, <1>7, <2>3, <2>6, <2>7, <2>8, <2>9, WriteKeeps
  <1> QED BY <1>6, <1>7 DEF ReplacesLink

-----------------------------------------------------------------------------
(* The parent's steps. *)

\* A parent that wants a row of one kind has come so far.
LEMMA ParentWants ==
    ASSUME ContractsAssumption, ContractsInv, NEW p \in Parents
    PROVE  /\ p \in Sessions /\ p \notin Staff /\ ParentStands(p)
           /\ session[p].doing = "submit" /\ session[p].wants[1] = "link" =>
                 session[p].wants = LinkRow(session[p].link) /\ holds[p] = {}
           /\ session[p].doing = "submit" /\ session[p].wants[1] = "contract" =>
                 /\ session[p].wants[2] \in 1..Last /\ session[p].link = links
                 /\ session[p].wants = <<"contract", session[p].wants[2]>>
                 /\ holds[p] = {LinkRow(links)}
           /\ session[p].wants = AdmissionRow =>
                 /\ session[p].doing = "submit" /\ session[p].link = links
                 /\ holds[p] = {LinkRow(links), LastRow}
                 /\ Last > 0 /\ contract[Last].status \in {"sent", "rejected"}
  <1>1. p \in Sessions /\ p \notin Staff
    BY Zenon DEF Sessions, ContractsAssumption
  <1>2. ParentStands(p)
    BY <1>1 DEF ContractsInv, Stands
  <1>3. Idle.wants = NoRow
    BY DEF Idle
  <1>4. AdmissionRow[1] # "contract" /\ AdmissionRow[1] # "link" /\ AdmissionRow # NoRow
    BY RowsApart
  <1>5. session[p].wants = AdmissionRow =>
           /\ session[p].doing = "submit" /\ session[p].link = links
           /\ holds[p] = {LinkRow(links), LastRow}
           /\ Last > 0 /\ contract[Last].status \in {"sent", "rejected"}
    BY <1>2, <1>3, <1>4, RowsApart DEF ParentStands
  <1> QED BY <1>1, <1>2, <1>4, <1>5, RowsApart DEF ParentStands

LEMMA ReadsKeeps ==
    ASSUME ContractsAssumption, ContractsInv, NEW p \in Parents, ReadsContract(p)
    PROVE  ContractsInv'
  <1> DEFINE new == [doing |-> "reading", wants |-> NoRow, link |-> links,
                     seen |-> contract[CurrentVersion].original]
  <1>1. /\ p \in Sessions /\ p \notin Staff /\ holds[p] = {}
    BY ParentWants DEF ReadsContract, ParentStands
  <1>2. /\ session' = [session EXCEPT ![p] = new]
        /\ UNCHANGED <<admission, contract, links, expired, invoiced, fresh, holds>>
        /\ HasContract
    BY DEF ReadsContract, OffersForm
  <1>3. /\ Last > 0 /\ CurrentVersion = Last /\ contract[Last] \in Version
        /\ links \in 1..MaxLinks /\ MaxLinks \in Nat /\ MaxContracts \in Nat
        /\ session \in [Sessions -> SessionRows] /\ holds \in [Sessions -> SUBSET Rows]
        /\ fresh \subseteq Staff
    BY <1>2, CurrentIsLast, TypeFacts DEF ContractsInv
  <1>4. /\ new \in SessionRows /\ new.doing = "reading" /\ new.link = links /\ new.wants = NoRow
        /\ new.seen = contract[Last].original /\ new.seen # 0
    BY <1>3 DEF SessionRows, Version
  <1> HIDE DEF new
  <1>5. session'[p] = new /\ holds'[p] = {} /\ Last' = Last
    BY <1>1, <1>2, <1>3 DEF Last
  <1>6. ParentStands(p)'
    BY <1>2, <1>3, <1>4, <1>5 DEF ParentStands
  <1>7. Stands(p)'
    BY <1>1, <1>6 DEF Stands
  <1>8. \A t \in Sessions \ {p} : holds'[t] = holds[t] /\ holds'[p] \cap holds[t] = {}
    BY <1>2, <1>5
  <1> QED BY <1>1, <1>2, <1>3, <1>4, <1>7, <1>8, QuietKeeps

LEMMA SubmitsKeeps ==
    ASSUME ContractsAssumption, ContractsInv, NEW p \in Parents, Submits(p)
    PROVE  ContractsInv'
  <1> DEFINE new == [session[p] EXCEPT !.doing = "submit", !.wants = LinkRow(session[p].link)]
  <1>1. /\ p \in Sessions /\ p \notin Staff /\ holds[p] = {} /\ ParentStands(p)
        /\ session[p].link \in 1..links
    BY ParentWants DEF Submits, ParentStands
  <1>2. /\ session' = [session EXCEPT ![p].doing = "submit",
                                      ![p].wants = LinkRow(session[p].link)]
        /\ UNCHANGED <<admission, contract, links, expired, invoiced, fresh, holds>>
        /\ RoomForContract /\ session[p].doing = "reading"
    BY DEF Submits
  <1>3. /\ links \in 1..MaxLinks /\ MaxLinks \in Nat
        /\ session \in [Sessions -> SessionRows] /\ holds \in [Sessions -> SUBSET Rows]
        /\ fresh \subseteq Staff
    BY TypeFacts DEF ContractsInv
  <1>4. session[p] \in SessionRows /\ LinkRow(session[p].link) \in Rows
    BY <1>1, <1>3, RowsApart
  <1>5. /\ new \in SessionRows /\ new.doing = "submit" /\ new.wants = LinkRow(session[p].link)
        /\ new.link = session[p].link /\ new.seen = session[p].seen
    BY <1>4 DEF SessionRows
  <1>6. session' = [session EXCEPT ![p] = new]
    BY <1>2, <1>3, <1>4 DEF SessionRows
  <1> HIDE DEF new
  <1>7. session'[p] = new /\ holds'[p] = {} /\ Last' = Last
    BY <1>1, <1>2, <1>3, <1>6 DEF Last
  <1>8. ParentStands(p)'
    BY <1>1, <1>2, <1>5, <1>7 DEF ParentStands
  <1>9. Stands(p)'
    BY <1>1, <1>8 DEF Stands
  <1>10. \A t \in Sessions \ {p} : holds'[t] = holds[t] /\ holds'[p] \cap holds[t] = {}
    BY <1>2, <1>7
  <1> QED BY <1>1, <1>2, <1>3, <1>5, <1>6, <1>9, <1>10, QuietKeeps

LEMMA TouchesLinkKeeps ==
    ASSUME ContractsAssumption, ContractsInv, NEW p \in Parents, TouchesLink(p)
    PROVE  ContractsInv'
  <1>1. /\ p \in Sessions /\ p \notin Staff /\ ParentStands(p) /\ session[p].doing = "submit"
        /\ session[p].wants = LinkRow(session[p].link) /\ holds[p] = {}
        /\ Free(session[p].wants, p)
    BY ParentWants DEF TouchesLink
  <1>2. CASE session[p].link = links /\ HasContract
    <2>1. Last > 0 /\ ContractRow = LastRow /\ LastRow \in Rows /\ Last \in Nat
      BY <1>2, CurrentIsLast, TypeFacts DEF ContractsInv
    <2>2. /\ TakesAndAsks(p, LastRow)
          /\ UNCHANGED <<admission, contract, links, expired, invoiced, fresh>>
      BY <1>2, <2>1 DEF TouchesLink
    <2>3. /\ session'[p].doing = "submit" /\ session'[p].wants = LastRow
          /\ session'[p].link = links /\ session'[p].seen = session[p].seen
          /\ holds'[p] = {LinkRow(links)}
      BY <1>1, <1>2, <2>2, TakesDoes
    <2>4. Last' = Last /\ links \in 1..MaxLinks
      BY <2>2, TypeFacts DEF Last, ContractsInv
    <2>5. LastRow = <<"contract", Last>> /\ LastRow[1] = "contract" /\ LastRow[2] = Last
          /\ Last \in 1..Last
      BY <2>1 DEF LastRow
    <2>6. ParentStands(p)'
      BY <1>1, <1>2, <2>1, <2>2, <2>3, <2>4, <2>5 DEF ParentStands
    <2>7. Stands(p)' /\ LinkRow(links) \in Rows
      BY <1>1, <2>4, <2>6, RowsApart DEF Stands
    <2> QED BY <1>1, <1>2, <2>1, <2>2, <2>7, TakesKeeps
  <1>3. CASE ~(session[p].link = links /\ HasContract)
    BY <1>1, <1>3, GivesUpKeeps DEF TouchesLink
  <1> QED BY <1>2, <1>3

LEMMA SubmissionLocksKeeps ==
    ASSUME ContractsAssumption, ContractsInv, NEW p \in Parents, SubmissionLocksContract(p)
    PROVE  ContractsInv'
  <1>1. /\ p \in Sessions /\ p \notin Staff /\ ParentStands(p) /\ session[p].doing = "submit"
        /\ session[p].wants[2] \in 1..Last /\ session[p].link = links
        /\ session[p].wants = <<"contract", session[p].wants[2]>>
        /\ holds[p] = {LinkRow(links)} /\ Free(session[p].wants, p)
    BY ParentWants DEF SubmissionLocksContract
  <1>2. CASE Submittable(session[p].wants[2])
    <2>1. session[p].wants[2] = Last /\ Last > 0 /\ contract[Last].status \in {"sent", "rejected"}
      BY <1>1, <1>2, TypeFacts DEF ContractsInv, VersionsSound, Submittable
    <2>2. session[p].wants = LastRow /\ LastRow \in Rows /\ AdmissionRow \in Rows
      BY <1>1, <2>1, CurrentIsLast, RowsApart DEF ContractsInv, LastRow
    <2>3. /\ TakesAndAsks(p, AdmissionRow)
          /\ UNCHANGED <<admission, contract, links, expired, invoiced, fresh>>
      BY <1>2 DEF SubmissionLocksContract
    <2>4. /\ session'[p].doing = "submit" /\ session'[p].wants = AdmissionRow
          /\ session'[p].link = links /\ session'[p].seen = session[p].seen
          /\ holds'[p] = {LinkRow(links), LastRow}
      BY <1>1, <2>2, <2>3, TakesDoes
    <2>5. Last' = Last /\ LastRow' = LastRow
      BY <2>3 DEF Last, LastRow
    <2>6. ParentStands(p)'
      BY <1>1, <2>1, <2>3, <2>4, <2>5 DEF ParentStands
    <2>7. Stands(p)'
      BY <1>1, <2>6 DEF Stands
    <2> QED BY <1>1, <2>2, <2>3, <2>7, TakesKeeps
  <1>3. CASE ~Submittable(session[p].wants[2])
    BY <1>1, <1>3, GivesUpKeeps DEF SubmissionLocksContract
  <1> QED BY <1>2, <1>3

\* A saved copy becomes the last version, of the original the parent saw.
LEMMA SavesKeeps ==
    ASSUME ContractsAssumption, ContractsInv, NEW p \in Parents, SavesSignedCopy(p)
    PROVE  ContractsInv'
  <1>1. /\ p \in Sessions /\ session[p].doing = "submit" /\ session[p].link = links
        /\ holds[p] = {LinkRow(links), LastRow} /\ ParentStands(p)
        /\ Last > 0 /\ contract[Last].status \in {"sent", "rejected"}
    BY ParentWants DEF SavesSignedCopy
  <1>2. /\ TypeOK /\ VersionsSound /\ MoneySound
        /\ \A v \in 1..Last : contract[v] \in Version
        /\ Last \in Nat /\ contract \in Seq(Version) /\ DOMAIN contract = 1..Last
        /\ session \in [Sessions -> SessionRows] /\ holds \in [Sessions -> SUBSET Rows]
        /\ Parents \cap Staff = {} /\ Sessions = Parents \cup Staff /\ invoiced \in BOOLEAN
    BY TypeFacts DEF ContractsInv
  <1>3. /\ CurrentVersion = Last /\ Ends(p) /\ admission' = "contract_submitted" /\ fresh' = {}
        /\ contract' = WithCopy(Last, session[p].seen)
        /\ UNCHANGED <<links, expired, invoiced>>
    BY <1>1, <1>2, CurrentIsLast DEF SavesSignedCopy, Writes, Bumps
  <1>4. /\ contract[Last].original = session[p].seen /\ session[p].seen # 0
        /\ ~contract[Last].superseded /\ contract[Last] \in Version
    BY <1>1, <1>2 DEF ParentStands, VersionsSound
  <1> DEFINE new == [contract[Last] EXCEPT !.status = "submitted", !.signed = session[p].seen]
             old == [contract[Last] EXCEPT !.superseded = TRUE]
  <1>5. /\ new \in Version /\ new.status = "submitted" /\ new.original = session[p].seen
        /\ new.signed = session[p].seen /\ ~new.superseded
    <2>1. session[p] \in SessionRows
      BY <1>1, <1>2
    <2>2. session[p].seen \in 0..MaxContracts
      BY <2>1 DEF SessionRows
    <2> QED BY <1>4, <2>2 DEF Version
  <1>6. /\ old \in Version /\ old.status = contract[Last].status /\ old.superseded
        /\ old.original = contract[Last].original /\ old.signed = contract[Last].signed
    BY <1>4 DEF Version
  <1>7. /\ contract[Last].status = "rejected" =>
              contract' = Append([contract EXCEPT ![Last] = old], new)
        /\ contract[Last].status # "rejected" => contract' = [contract EXCEPT ![Last] = new]
    BY <1>3 DEF WithCopy
  <1> HIDE DEF new, old
  <1>8. /\ contract' \in Seq(Version) /\ (Last' = Last \/ Last' = Last + 1)
        /\ Last' > 0 /\ contract'[Last'] = new /\ VersionsSound'
    <2>1. CASE contract[Last].status # "rejected"
      <3>1. contract' = [contract EXCEPT ![Last] = new]
        BY <1>7, <2>1
      <3>2. new.signed # 0 /\ new.signed \in {0, new.original}
        BY <1>4, <1>5
      <3> HIDE DEF Last
      <3>3. /\ contract' \in Seq(Version) /\ Last' = Last /\ contract'[Last] = new
            /\ VersionsSound'
        BY <1>1, <1>2, <1>5, <3>1, <3>2, LastChanges
      <3> QED BY <1>1, <3>3
    <2>2. CASE contract[Last].status = "rejected"
      <3> DEFINE base == [contract EXCEPT ![Last] = old]
      <3>1. contract' = Append(base, new)
        BY <1>7, <2>2
      <3>2. /\ base \in Seq(Version) /\ Len(base) = Last /\ base[Last] = old
            /\ \A v \in 1..Last : v # Last => base[v] = contract[v]
        <4>1. base \in [1..Last -> Version] /\ base[Last] = old
              /\ \A v \in 1..Last : v # Last => base[v] = contract[v]
          <5> HIDE DEF Last
          <5> QED BY <1>1, <1>2, <1>6
        <4> HIDE DEF base, Last
        <4> QED BY <1>2, <4>1, SeqDef, LenProperties
      <3> HIDE DEF base
      <3>3. /\ contract' \in Seq(Version) /\ Last' = Last + 1
            /\ contract'[Last + 1] = new
            /\ \A v \in 1..Last : contract'[v] = base[v]
        <4>1. /\ contract' \in Seq(Version) /\ Len(contract') = Len(base) + 1
              /\ \A v \in 1..Len(base) : contract'[v] = base[v]
              /\ contract'[Len(base) + 1] = new
          BY <1>5, <3>1, <3>2, AppendProperties
        <4>2. Last' = Len(contract')
          BY DEF Last
        <4> HIDE DEF Last
        <4> QED BY <3>2, <4>1, <4>2
      <3>4. ASSUME NEW v \in 1..(Last + 1)
            PROVE  /\ contract'[v].superseded <=> v < Last + 1
                   /\ v < Last + 1 => contract'[v].status \in {"superseded", "rejected"}
                   /\ contract'[v].status \in {"submitted", "accepted"} => contract'[v].signed # 0
                   /\ contract'[v].signed \in {0, contract'[v].original}
        <4>1. CASE v = Last + 1
          BY <1>2, <1>4, <1>5, <3>3, <4>1
        <4>2. CASE v = Last
          <5>1. contract'[v] = old /\ v < Last + 1
            BY <1>1, <1>2, <3>2, <3>3, <4>2
          <5>2. contract[Last].signed \in {0, contract[Last].original}
            BY <1>1, <1>2 DEF VersionsSound
          <5> QED BY <1>6, <2>2, <5>1, <5>2
        <4>3. CASE v \in 1..Last /\ v # Last
          <5>1. contract'[v] = contract[v] /\ v < Last /\ v < Last + 1
            BY <1>1, <1>2, <3>2, <3>3, <4>3
          <5>2. /\ contract[v].superseded /\ contract[v].status \in {"superseded", "rejected"}
                /\ contract[v].status \in {"submitted", "accepted"} => contract[v].signed # 0
                /\ contract[v].signed \in {0, contract[v].original}
            BY <1>2, <4>3, <5>1 DEF VersionsSound
          <5> QED BY <5>1, <5>2
        <4> QED BY <1>1, <1>2, <4>1, <4>2, <4>3
      <3>5. VersionsSound'
        BY <3>3, <3>4 DEF VersionsSound
      <3> QED BY <1>1, <1>2, <3>3, <3>5
    <2> QED BY <2>1, <2>2
  <1>9. MoneySound'
    <2>1. ~(admission \in AwaitingMoney \/ invoiced)
      BY <1>1, <1>2 DEF MoneySound, Accepted
    <2>2. ~Accepted'
      BY <1>5, <1>8 DEF Accepted
    <2> QED BY <1>3, <2>1, <2>2 DEF MoneySound, AwaitingMoney
  <1>10. ASSUME NEW q \in Parents \ {p} PROVE ParentStands(q)'
    <2>1. ParentStands(q) /\ holds[p] \cap holds[q] = {}
      BY <1>1, <1>2 DEF ContractsInv, Stands, OneHolder
    <2>2. session'[q] = session[q] /\ holds'[q] = holds[q]
      BY <1>2, <1>3 DEF Ends
    <2>3. LinkRow(links) \notin holds[q]
      BY <1>1, <2>1
    <2>4. contract'[Last'].original = contract[Last].original /\ contract[Last].status # "draft"
      BY <1>1, <1>4, <1>5, <1>8
    <2> HIDE DEF Last
    <2> QED BY <1>3, <1>8, <2>1, <2>2, <2>3, <2>4 DEF ParentStands
  <1>11. /\ \A t \in Sessions \ {p} : AdmissionRow \notin holds[t]
         /\ admission' \in Statuses
    BY <1>3 DEF SavesSignedCopy, Free, Statuses, Exchange
  <1> HIDE DEF Last
  <1> QED BY <1>1, <1>2, <1>3, <1>8, <1>9, <1>10, <1>11, WriteKeeps

-----------------------------------------------------------------------------
(* Steps of nobody in particular. *)

LEMMA WorldKeeps ==
    ASSUME ContractsAssumption, ContractsInv,
           UNCHANGED <<contract, links, invoiced, session, holds>>,
           admission' \in Statuses, expired' \subseteq 1..MaxLinks, fresh' \subseteq Staff,
           MoneySound',
           admission' = admission \/ \A s \in Sessions : AdmissionRow \notin holds[s]
    PROVE  ContractsInv'
  <1>1. /\ TypeOK /\ VersionsSound /\ OneHolder /\ RoomKept
        /\ \A s \in Sessions : Stands(s)
    BY DEF ContractsInv
  <1>2. TypeOK'
    BY <1>1 DEF TypeOK, Statuses
  <1>3. VersionsSound' /\ OneHolder' /\ RoomKept'
    BY <1>1 DEF VersionsSound, OneHolder, RoomKept, UnderWay, Last
  <1>4. ASSUME NEW s \in Sessions PROVE Stands(s)'
    <2>1. CASE s \in Staff /\ admission' = admission
      BY <1>1, <2>1 DEF Stands, StaffStands, LastRow, Last, CanExchange
    <2>2. CASE s \in Staff /\ AdmissionRow \notin holds[s]
      BY <1>1, <2>2 DEF Stands, StaffStands
    <2>3. CASE s \notin Staff
      BY <1>1, <2>3 DEF Stands, ParentStands, LastRow, Last
    <2> QED BY <2>1, <2>2, <2>3
  <1> QED BY <1>2, <1>3, <1>4 DEF ContractsInv

LEMMA WorldStepKeeps ==
    ASSUME ContractsAssumption, ContractsInv, WorldStep
    PROVE  ContractsInv'
  <1>1. /\ TypeOK /\ VersionsSound /\ MoneySound /\ links \in 1..MaxLinks /\ MaxLinks \in Nat
        /\ expired \subseteq 1..MaxLinks /\ fresh \subseteq Staff /\ admission \in Statuses
    BY TypeFacts DEF ContractsInv, TypeOK, Statuses
  <1>2. CASE \E s \in Sessions : IsRolledBack(s)
    BY <1>2, GivesUpKeeps DEF IsRolledBack
  <1>3. CASE Expires
    <2>1. MoneySound' /\ expired' \subseteq 1..MaxLinks
      BY <1>1, <1>3 DEF Expires, MoneySound, Accepted, Last
    <2> QED BY <1>1, <1>3, <2>1, WorldKeeps DEF Expires
  <1>4. AcceptedByContract <=> Accepted
    BY <1>1, CurrentIsLast DEF AcceptedByContract, Accepted
  <1>5. CASE ActivatePaidAdmission
    <2>1. MoneySound' /\ admission' \in Statuses
      BY <1>1, <1>4, <1>5 DEF ActivatePaidAdmission, Bumps, MoneySound, Accepted, Last,
         Statuses,
                              Exchange, AwaitingMoney
    <2> QED BY <1>1, <1>5, <2>1, WorldKeeps DEF ActivatePaidAdmission, Bumps
  <1>6. CASE SetAdmissionPaymentReview
    <2>1. admission = "active"
      BY <1>6 DEF SetAdmissionPaymentReview
    <2>2. Accepted
      BY <1>1, <2>1 DEF MoneySound, AwaitingMoney
    <2>3. MoneySound' /\ admission' \in Statuses
      BY <1>6, <2>2 DEF SetAdmissionPaymentReview, Bumps, MoneySound, Accepted, Last, Statuses,
                        Exchange, AwaitingMoney
    <2> QED BY <1>1, <1>6, <2>3, WorldKeeps DEF SetAdmissionPaymentReview, Bumps
  <1> QED BY <1>2, <1>3, <1>5, <1>6 DEF WorldStep

-----------------------------------------------------------------------------
(* The invariant. *)

LEMMA NextKeeps == ContractsAssumption /\ ContractsInv /\ [Next]_vars => ContractsInv'
  <1> SUFFICES ASSUME ContractsAssumption, ContractsInv, [Next]_vars PROVE ContractsInv'
    OBVIOUS
  <1>1. CASE StaffStep
    BY <1>1, OpensFormKeeps, LocksAdmissionKeeps, LocksContractKeeps, ReplacesLinkKeeps
       DEF StaffStep
  <1>2. CASE ParentStep
    <2>1. ASSUME NEW p \in Parents, Leaves(p) PROVE ContractsInv'
      BY <2>1, ParentWants, GivesUpKeeps DEF Leaves
    <2> QED BY <1>2, <2>1, ReadsKeeps, SubmitsKeeps, TouchesLinkKeeps, SubmissionLocksKeeps,
               SavesKeeps DEF ParentStep
  <1>3. CASE WorldStep
    BY <1>3, WorldStepKeeps
  <1>4. CASE UNCHANGED vars
    <2>1. UNCHANGED <<contract, links, invoiced, session, holds, admission, expired, fresh>>
      BY <1>4 DEF vars
    <2>2. /\ admission \in Statuses /\ expired \subseteq 1..MaxLinks /\ fresh \subseteq Staff
      BY TypeFacts DEF ContractsInv, TypeOK, Statuses
    <2>3. MoneySound'
      BY <2>1 DEF ContractsInv, MoneySound, Accepted, Last
    <2> QED BY <2>1, <2>2, <2>3, WorldKeeps
  <1> QED BY <1>1, <1>2, <1>3, <1>4 DEF Next

LEMMA InitSound == ContractsAssumption /\ Init => ContractsInv
  <1> SUFFICES ASSUME ContractsAssumption, Init PROVE ContractsInv
    OBVIOUS
  <1>1. /\ MaxContracts \in Nat \ {0} /\ MaxLinks \in Nat \ {0} /\ Parents \cap Staff = {}
    BY Zenon DEF ContractsAssumption
  <1>2. /\ admission = "draft" /\ contract = <<>> /\ links = 1 /\ expired = {}
        /\ invoiced = FALSE /\ fresh = {}
        /\ session = [s \in Sessions |-> Idle] /\ holds = [s \in Sessions |-> {}]
    BY DEF Init
  <1>3. Idle \in SessionRows /\ Idle.doing = "idle"
    BY <1>1 DEF Idle, SessionRows
  <1>4. Last = 0 /\ contract \in Seq(Version)
    BY <1>2 DEF Last
  <1>5. TypeOK
    <2>1. session \in [Sessions -> SessionRows]
      BY <1>2, <1>3
    <2>2. holds \in [Sessions -> SUBSET Rows]
      BY <1>2
    <2>3. admission \in Exchange \cup AwaitingMoney \cup {"cancelled"}
      BY <1>2 DEF Exchange
    <2>4. Len(contract) <= MaxContracts /\ links \in 1..MaxLinks
      BY <1>1, <1>2, <1>4 DEF Last
    <2>5. expired \subseteq 1..MaxLinks /\ fresh \subseteq Staff /\ invoiced \in BOOLEAN
      BY <1>2
    <2> QED BY <1>4, <2>1, <2>2, <2>3, <2>4, <2>5 DEF TypeOK, Version, SessionRows
  <1>6. UnderWay({"upload", "submit"}) = 0 /\ UnderWay({"send", "link"}) = 0
    <2>1. \A s \in Sessions : session[s].doing = "idle"
      BY <1>2, <1>3
    <2>2. /\ {s \in Sessions : session[s].doing \in {"upload", "submit"}} = {}
          /\ {s \in Sessions : session[s].doing \in {"send", "link"}} = {}
      BY <2>1
    <2> QED BY <2>2, FS_EmptySet DEF UnderWay
  <1>7. VersionsSound /\ MoneySound /\ OneHolder /\ RoomKept
    BY <1>1, <1>2, <1>4, <1>6 DEF VersionsSound, MoneySound, Accepted, OneHolder, RoomKept,
                                  AwaitingMoney
  <1>8. \A s \in Sessions : Stands(s)
    BY <1>2, <1>3 DEF Stands, StaffStands, ParentStands
  <1> QED BY <1>5, <1>7, <1>8 DEF ContractsInv

LEMMA ContractsInvariance ==
    ASSUME ContractsAssumption
    PROVE  Spec => []ContractsInv
  <1>1. Init => ContractsInv
    BY InitSound
  <1>2. ContractsInv /\ [Next]_vars => ContractsInv'
    BY NextKeeps
  <1> QED BY <1>1, <1>2, PTL DEF Spec

-----------------------------------------------------------------------------
(* Waiting for rows. *)

\* A set that a function maps onto itself.
Circle(c, f) ==
    c # {} /\ (\A s \in c : f[s] \in c) /\ \A t \in c : \E s \in c : t = f[s]

\* Following a function within a finite set ends in a circle: a smallest set it leads
\* from into itself.
LEMMA SomeCircle ==
    ASSUME NEW S, IsFiniteSet(S), S # {}, NEW f \in [S -> S]
    PROVE  \E c \in SUBSET S : Circle(c, f)
  <1> DEFINE Closed == {d \in SUBSET S : d # {} /\ \A s \in d : f[s] \in d}
             less == StrictSubsetOrdering(S)
  <1>1. Closed \subseteq SUBSET S /\ Closed # {}
    <2>1. S \in Closed
      OBVIOUS
    <2> QED BY <2>1
  <1>2. IsWellFoundedOn(less, SUBSET S)
    BY FS_StrictSubsetOrderingWellFounded, FS_FiniteSubsetsOfFinite
  <1>3. PICK c \in Closed : \A e \in Closed : <<e, c>> \notin less
    <2> HIDE DEF Closed, less
    <2> QED BY <1>1, <1>2, WFMin
  <1>4. \A e \in Closed : e \subseteq c => e = c
    BY <1>1, <1>3 DEF StrictSubsetOrdering
  <1> DEFINE image == {f[s] : s \in c}
  <1>5. image \subseteq c /\ c # {}
    BY <1>3
  <1>6. image \in Closed
    <2>1. image # {} /\ image \in SUBSET S
      BY <1>3, <1>5
    <2>2. \A t \in image : f[t] \in image
      BY <1>5
    <2> HIDE DEF image
    <2> QED BY <2>1, <2>2
  <1>7. image = c
    BY <1>4, <1>5, <1>6
  <1>8. Circle(c, f)
    <2>1. \A s \in c : f[s] \in c
      BY <1>3
    <2>2. \A t \in c : \E s \in c : t = f[s]
      BY <1>7
    <2> QED BY <1>5, <2>1, <2>2 DEF Circle
  <1> QED BY <1>3, <1>8

\* Whoever holds a row wants another: of the requests that wait, one is in a circle.
LEMMA NobodyIsForgotten ==
    ASSUME ContractsAssumption, ContractsInv
    PROVE  SomeRequestMoves
  <1> DEFINE busy == {s \in Sessions : session[s].wants # NoRow}
             waits == [s \in busy |-> Blocker(s)]
  <1> SUFFICES ASSUME busy # {}, \A s \in busy : ~Free(session[s].wants, s)
               PROVE  \E s \in busy : Deadlocked(s)
    BY DEF SomeRequestMoves
  <1>1. IsFiniteSet(busy) /\ busy = Waiting
    <2>1. IsFiniteSet(Sessions)
      BY TypeFacts DEF ContractsInv
    <2> QED BY <2>1, FS_Subset DEF Waiting
  <1>2. ASSUME NEW s \in busy PROVE Blocker(s) \in busy
    <2>1. \E t \in Sessions \ {s} : session[s].wants \in holds[t]
      BY DEF Free
    <2>2. Blocker(s) \in Sessions /\ holds[Blocker(s)] # {}
      BY <2>1 DEF Blocker
    <2>3. PICK t : t = Blocker(s)
      OBVIOUS
    <2>4. t \in Sessions /\ holds[t] # {} /\ Stands(t)
      BY <2>2, <2>3 DEF ContractsInv
    <2>5. session[t].wants # NoRow
      BY <2>4, RowsApart DEF Stands, StaffStands, ParentStands
    <2> QED BY <2>3, <2>4, <2>5
  <1>3. waits \in [busy -> busy]
    BY <1>2
  <1>4. \A s \in busy : waits[s] = Blocker(s)
    OBVIOUS
  <1> HIDE DEF waits, busy
  <1>5. PICK c \in SUBSET busy : Circle(c, waits)
    BY <1>1, <1>3, SomeCircle
  <1>6. {Blocker(s) : s \in c} = c
    <2>1. \A s \in c : waits[s] = Blocker(s)
      BY <1>4, <1>5
    <2>2. \A t \in c : \E s \in c : t = Blocker(s)
      BY <1>5, <2>1 DEF Circle
    <2>3. \A s \in c : Blocker(s) \in c
      BY <1>5, <2>1 DEF Circle
    <2>4. \A t : t \in c <=> \E s \in c : t = Blocker(s)
      BY <2>2, <2>3
    <2> QED BY <2>4, Zenon
  <1>7. c \in Deadlocks
    BY <1>1, <1>5, <1>6 DEF Deadlocks, Circle
  <1>8. PICK s \in c : TRUE
    BY <1>5 DEF Circle
  <1> QED BY <1>5, <1>7, <1>8 DEF Deadlocked

-----------------------------------------------------------------------------
(* The results. *)

\* Money is only awaited for an accepted contract, a signed copy is of the original it is
\* stored with, a deadlock takes both sides, and of the requests that wait one goes on or is
\* found in a deadlock, for any parents, staff and bounds.
THEOREM ExchangeKeepsContractsSound ==
    ASSUME ContractsAssumption
    PROVE  Spec => []ContractsSound
  <1>1. ASSUME ContractsInv PROVE ContractsSound
    <2>1. /\ TypeOK /\ VersionsSound /\ MoneySound /\ DOMAIN contract = 1..Last
          /\ Last \in Nat /\ Sessions = Parents \cup Staff
      BY <1>1, TypeFacts DEF ContractsInv
    <2>2. PaymentNeedsAcceptedContract
      BY <2>1, CurrentIsLast DEF PaymentNeedsAcceptedContract, AcceptedByContract, MoneySound,
                                 Accepted, VersionsSound
    <2>3. SignedCopyIsOfTheOriginal
      BY <2>1 DEF SignedCopyIsOfTheOriginal, VersionsSound
    <2>4. ASSUME NEW c \in Deadlocks PROVE c \cap Staff # {} /\ c \cap Parents # {}
      <3>1. c \subseteq Sessions /\ \A s \in c : Blocker(s) \in c
        BY <2>4 DEF Deadlocks, Waiting
      <3>2. \A s \in c : Blocker(s) # s /\ holds[Blocker(s)] # {}
        <4> SUFFICES ASSUME NEW s \in c PROVE Blocker(s) # s /\ holds[Blocker(s)] # {}
          OBVIOUS
        <4>1. \E t \in Sessions \ {s} : session[s].wants \in holds[t]
          BY <2>4 DEF Deadlocks, Waiting, Free
        <4> QED BY <4>1 DEF Blocker
      <3>3. PICK s \in c : TRUE
        BY <2>4 DEF Deadlocks
      <3>4. PICK a \in c : holds[a] # {}
        BY <3>1, <3>2, <3>3
      <3>5. PICK b \in c : b # a /\ holds[b] # {}
        BY <3>1, <3>2, <3>4
      <3>6. /\ a \in Sessions /\ b \in Sessions /\ holds[a] \cap holds[b] = {}
            /\ Stands(a) /\ Stands(b)
        BY <1>1, <3>1, <3>5 DEF ContractsInv, OneHolder
      <3>7. CASE c \cap Parents = {}
        <4>1. a \in Staff /\ b \in Staff
          BY <2>1, <3>6, <3>7
        <4>2. AdmissionRow \in holds[a] /\ AdmissionRow \in holds[b]
          BY <3>4, <3>5, <3>6, <4>1 DEF Stands, StaffStands
        <4> QED BY <3>6, <4>2
      <3>8. CASE c \cap Staff = {}
        <4>1. a \notin Staff /\ b \notin Staff
          BY <3>8
        <4>2. LinkRow(links) \in holds[a] /\ LinkRow(links) \in holds[b]
          BY <3>4, <3>5, <3>6, <4>1 DEF Stands, ParentStands
        <4> QED BY <3>6, <4>2
      <3> QED BY <3>7, <3>8
    <2>5. SomeRequestMoves
      BY <1>1, NobodyIsForgotten
    <2> QED BY <2>1, <2>2, <2>3, <2>4, <2>5 DEF ContractsSound, DeadlockNeedsBothSides
  <1> QED BY <1>1, ContractsInvariance, PTL

\* No command that was under way judges, replaces or supersedes an accepted contract.
THEOREM AcceptedContractsStay ==
    ASSUME ContractsAssumption
    PROVE  Spec => AcceptedIsFinal
  <1>1. ASSUME ContractsInv, [Next]_vars, NEW v \in DOMAIN contract,
               contract[v].status = "accepted"
        PROVE  contract'[v] = contract[v]
    <2>1. /\ v \in 1..Last /\ Last \in Nat /\ contract \in Seq(Version)
          /\ VersionsSound /\ MoneySound /\ TypeOK
      BY <1>1, TypeFacts DEF ContractsInv
    <2>2. v = Last /\ Last > 0 /\ ~CanExchange /\ HasContract /\ CurrentVersion = Last
      <3>1. v = Last /\ Last > 0
        BY <1>1, <2>1 DEF VersionsSound
      <3> QED BY <1>1, <2>1, <3>1, CurrentIsLast DEF MoneySound, Accepted, CanExchange
    <2>3. ASSUME NEW s \in Staff, LocksAdmission(s) PROVE contract' = contract
      BY <2>2, <2>3 DEF LocksAdmission, AddContract, SendContract, ReviewContract, IssueLink,
                        CancelAdmission, UpdateAdmission, NeedsContract, GivesUp
    <2>4. ASSUME NEW s \in Staff, LocksContract(s) PROVE contract' = contract
      <3>1. /\ session[s].doing # "upload" /\ session[s].wants[2] = Last
        BY <1>1, <2>2, <2>4, StaffWants, RowsApart DEF LocksContract
      <3>2. ~Reviewable(Last)
        BY <1>1, <2>2 DEF Reviewable
      <3> QED BY <2>4, <3>1, <3>2 DEF LocksContract, SendLocksContract, UploadLocksContract,
                                      Reviews, GivesUp
    <2>5. ASSUME NEW s \in Staff, ReplacesLink(s) PROVE contract' = contract
      BY <1>1, <2>2, <2>5, StaffWants DEF ReplacesLink
    <2>6. ASSUME NEW s \in Staff, NEW command \in Commands, OpensForm(s, command)
          PROVE  contract' = contract
      BY <2>6 DEF OpensForm
    <2>7. ASSUME NEW p \in Parents,
                 \/ ReadsContract(p) \/ Submits(p) \/ TouchesLink(p)
                 \/ SubmissionLocksContract(p) \/ Leaves(p)
          PROVE  contract' = contract
      BY <2>7 DEF ReadsContract, Submits, TouchesLink, SubmissionLocksContract, Leaves, GivesUp
    <2>8. ASSUME NEW p \in Parents, SavesSignedCopy(p) PROVE FALSE
      BY <1>1, <2>2, <2>8, ParentWants DEF SavesSignedCopy
    <2>9. WorldStep => contract' = contract
      BY DEF WorldStep, IsRolledBack, GivesUp, Expires, ActivatePaidAdmission,
             SetAdmissionPaymentReview
    <2>10. UNCHANGED vars => contract' = contract
      BY DEF vars
    <2>11. contract' = contract
      BY <1>1, <2>3, <2>4, <2>5, <2>6, <2>7, <2>8, <2>9, <2>10 DEF Next, StaffStep, ParentStep
    <2> QED BY <2>11
  <1>2. ContractsInv /\ [Next]_vars =>
           [\A v \in DOMAIN contract :
              contract[v].status = "accepted" => contract'[v] = contract[v]]_vars
    BY <1>1
  <1> QED BY <1>2, ContractsInvariance, PTL DEF AcceptedIsFinal, Spec

\* A submission that reaches the admission holds the present link.
THEOREM OnlyThePresentLinkSubmits ==
    ASSUME ContractsAssumption
    PROVE  Spec => ReplacedLinkIsDead
  <1>1. ContractsInv /\ [Next]_vars =>
           [\A p \in Parents : session[p].wants = AdmissionRow /\ contract' # contract
                                  /\ holds[p] # {} /\ holds'[p] = {}
              => session[p].link = links]_vars
    BY ParentWants
  <1> QED BY <1>1, ContractsInvariance, PTL DEF ReplacedLinkIsDead, Spec
-----------------------------------------------------------------------------
(* Support tickets.                                                         *)

\* A row counts its deadline from its creation, its waits have passed and follow an answer.
Near(due, target, waited, pauses) ==
    /\ target <= due
    /\ 2 * due <= 2 * (target + waited * Second) + Second * pauses
    /\ 2 * (target + waited * Second) <= 2 * due + Second * pauses
CountsFromCreation(k) ==
    LET due == Desk!Deadlines(k.created, k.priority)
    IN  /\ k.target = Desk!Targets(k.priority) /\ k.due[1] = due[1]
        /\ Near(k.due[2], due[2], k.waited, k.pauses)
WaitsPassed(k, now) ==
    /\ k.answered # None => k.answered <= now
    /\ k.waited <= now /\ k.pauses <= now
    /\ k.waiting # None => /\ k.answered # None /\ k.answered <= k.waiting /\ k.waiting <= now
                           /\ k.waited <= k.waiting /\ k.pauses <= k.waiting
RowSound(k, now) == k \in Desk!Rows /\ CountsFromCreation(k) /\ WaitsPassed(k, now)

\* A request under way holds the row of its ticket, so what it read is still there.
Doings == {"ask", "reply", "update", "assign", "priority", "wait", "resume"}
Brings(doing) ==
    CASE doing = "reply" -> Operators
      [] doing = "update" -> Desk!Statuses
      [] doing = "assign" -> Operators \cup {None}
      [] doing = "priority" -> Priorities
      [] OTHER -> {None}
Under(q) ==
    /\ q.doing \in Doings /\ q.on \in Tickets /\ q.with \in Brings(q.doing)
    /\ ticket[q.on] # None /\ q.seen = ticket[q.on]
RequestRows ==
    [doing : Doings \cup {"idle"}, on : Tickets \cup {None}, seen : Desk!Rows \cup {None},
     with : Desk!Statuses \cup Priorities \cup Operators \cup {None}]
OneAtATime ==
    \A r, q \in Requests : r # q => request[r].on = None \/ request[r].on # request[q].on

IInv ==
    /\ clock \in 0 .. MaxTime /\ touched \in Tickets \cup {None}
    /\ ticket \in [Tickets -> Desk!Rows \cup {None}]
    /\ \A t \in Desk!Created : RowSound(ticket[t], clock)
    /\ request \in [Requests -> RequestRows]
    /\ \A r \in Requests : request[r] = Desk!Idle \/ Under(request[r])
    /\ OneAtATime

\* What a command may make of a row.
Follows(k, row) ==
    /\ k.answered # None => row.answered = k.answered
    /\ row.said \in {k.said, k.said + 1}
    /\ k.answered = None /\ row.answered # None => row.said = k.said + 1 /\ row.status # "new"
    /\ k.status = "resolved" => /\ row.status = "resolved" /\ row.said = k.said
                                /\ row.due = k.due /\ row.waiting = k.waiting

-----------------------------------------------------------------------------
(* Rows. *)

LEMMA Pairs == \A a, b, c : [<<a, b>> EXCEPT ![2] = c] = <<a, c>>
  OBVIOUS

LEMMA RowFields ==
    ASSUME NEW k \in Desk!Rows
    PROVE  /\ k.status \in Desk!Statuses /\ k.staff \in Operators \cup {None} /\ k.priority \in Priorities
           /\ k.created \in 0 .. MaxTime /\ k.target \in Nat \X Nat /\ k.due \in Nat \X Nat
           /\ k.answered \in Desk!Times /\ k.waiting \in Desk!Times /\ k.waited \in 0 .. MaxTime
           /\ k.pauses \in 0 .. MaxTime /\ k.resolved \in Desk!Times /\ k.said \in 1 .. MaxMessages
  BY DEF Desk!Rows

LEMMA StateSound ==
    ASSUME NEW now, NEW k, RowSound(k, now), NEW status \in Desk!Statuses,
           NEW staff \in Operators \cup {None}, NEW at \in Desk!Times
    PROVE  /\ RowSound(Desk!State(k, status, staff, at), now)
           /\ Desk!State(k, status, staff, at).status = status
           /\ Desk!State(k, status, staff, at).said = k.said
           /\ Desk!State(k, status, staff, at).due = k.due
           /\ Desk!State(k, status, staff, at).answered = k.answered
           /\ Desk!State(k, status, staff, at).waiting = k.waiting
  BY DEF RowSound, Desk!State, Desk!Rows, CountsFromCreation, WaitsPassed

LEMMA SaidSound ==
    ASSUME Desk!TicketsAssumption, NEW now, NEW k, RowSound(k, now), k.said # MaxMessages
    PROVE  /\ RowSound(Desk!Said(k), now)
           /\ Desk!Said(k).status = k.status /\ Desk!Said(k).said = k.said + 1
           /\ Desk!Said(k).due = k.due /\ Desk!Said(k).answered = k.answered
           /\ Desk!Said(k).waiting = k.waiting
  <1>1. k.said + 1 \in 1 .. MaxMessages
    BY RowFields DEF RowSound, Desk!TicketsAssumption
  <1> QED BY <1>1 DEF RowSound, Desk!Said, Desk!Rows, CountsFromCreation, WaitsPassed

LEMMA FirstAnswerSound ==
    ASSUME Desk!TicketsAssumption, NEW now \in 0 .. MaxTime, NEW k, RowSound(k, now)
    PROVE  /\ RowSound(Desk!FirstAnswer(k, now), now)
           /\ Desk!FirstAnswer(k, now).said = k.said /\ Desk!FirstAnswer(k, now).due = k.due
           /\ Desk!FirstAnswer(k, now).waiting = k.waiting
           /\ Desk!FirstAnswer(k, now).answered # None
           /\ k.answered # None => Desk!FirstAnswer(k, now).answered = k.answered
  <1>1. now \in Desk!Times /\ now <= now /\ now # None
    BY DEF Desk!Times, Desk!TicketsAssumption
  <1>2. k.waiting # None => k.answered # None
    BY DEF RowSound, WaitsPassed
  <1> QED BY <1>1, <1>2 DEF RowSound, Desk!FirstAnswer, Desk!Rows, CountsFromCreation,
       WaitsPassed

LEMMA MinuteType == ASSUME Desk!TicketsAssumption PROVE Desk!Minute \in Nat \ {0}
  BY DEF Desk!TicketsAssumption, Desk!Minute

\* The nearest second is half a second off at most, and not longer than the ticks counted.
LEMMA NearestSecond ==
    ASSUME Desk!TicketsAssumption, NEW length \in Nat
    PROVE  LET r == Desk!InSeconds(length)
           IN  /\ r \in Nat /\ r <= length
               /\ 2 * (r * Second) <= 2 * length + Second
               /\ 2 * length <= 2 * (r * Second) + Second
               /\ length = 0 => r = 0
  <1> DEFINE h == Second \div 2
             r == (length + h) \div Second
             x == r * Second
  <1>1. Second \in Nat \ {0}
    BY DEF Desk!TicketsAssumption
  <1>2. h \in Nat /\ 2 * h <= Second /\ Second <= 2 * h + 1 /\ h < Second
    BY <1>1
  <1> HIDE DEF h
  <1>3. r \in Nat /\ r * Second <= length + h /\ length + h < (r + 1) * Second
    BY <1>1, <1>2
  <1> HIDE DEF r
  <1>4. x \in Nat /\ (r + 1) * Second = x + Second
    BY <1>1, <1>3
  <1>5. 2 * x <= 2 * length + Second /\ 2 * length <= 2 * x + Second
    <2> HIDE DEF x
    <2>1. x <= length + h /\ length + h < x + Second
      BY <1>3, <1>4 DEF x
    <2> QED BY <1>1, <1>2, <1>4, <2>1
  <1>6. r <= length
    <2> SUFFICES ASSUME length + 1 <= r PROVE FALSE
      BY <1>3
    <2>1. (length + 1) * Second <= r * Second
      <3> DEFINE e == r - (length + 1)
      <3>1. e \in Nat /\ r = length + 1 + e
        BY <1>3
      <3> HIDE DEF e
      <3>2. r * Second = (length + 1) * Second + e * Second /\ e * Second \in Nat
        BY <1>1, <3>1
      <3>3. (length + 1) * Second \in Nat
        BY <1>1
      <3> QED BY <3>2, <3>3
    <2>2. (length + 1) * Second = length * Second + Second /\ length <= length * Second
      BY <1>1
    <2>3. length * Second \in Nat /\ r * Second \in Nat
      BY <1>1, <1>3
    <2> QED BY <1>1, <1>2, <1>3, <2>1, <2>2, <2>3
  <1>7. length = 0 => r = 0
    BY <1>3, <1>6
  <1> QED BY <1>3, <1>5, <1>6, <1>7 DEF Desk!InSeconds, r, h, x

\* A deadline that moves by a wait stays near what is counted.
LEMMA NearMoves ==
    ASSUME Desk!TicketsAssumption, NEW due \in Nat, NEW target \in Nat, NEW waited \in Nat,
           NEW pauses \in Nat, NEW length \in Nat, Near(due, target, waited, pauses)
    PROVE  Near(due + length, target, waited + Desk!InSeconds(length),
                IF length = 0 THEN pauses ELSE pauses + 1)
  <1> DEFINE r == Desk!InSeconds(length)
             x == r * Second
             y == waited * Second
             z == Second * pauses
  <1>1. Second \in Nat \ {0} /\ r \in Nat
    BY NearestSecond DEF Desk!TicketsAssumption
  <1>2. 2 * x <= 2 * length + Second /\ 2 * length <= 2 * x + Second /\ (length = 0 => r = 0)
    BY NearestSecond
  <1> HIDE DEF r
  <1>3. /\ x \in Nat /\ y \in Nat /\ z \in Nat
        /\ (waited + r) * Second = y + x /\ Second * (pauses + 1) = z + Second
        /\ r = 0 => x = 0
    BY <1>1
  <1>4. target <= due /\ 2 * due <= 2 * (target + y) + z /\ 2 * (target + y) <= 2 * due + z
    BY DEF Near
  <1> DEFINE w == (waited + r) * Second
             v == Second * (pauses + 1)
  <1>5. w = y + x /\ v = z + Second
    BY <1>3
  <1> HIDE DEF x, y, z, w, v
  <1>6. CASE length = 0
    <2>1. /\ target <= due + length /\ 2 * (due + length) <= 2 * (target + w) + z
          /\ 2 * (target + w) <= 2 * (due + length) + z
      BY <1>1, <1>2, <1>3, <1>4, <1>5, <1>6
    <2> QED BY <2>1, <1>6 DEF Near, r, w, z
  <1>7. CASE length # 0
    <2>1. /\ target <= due + length /\ 2 * (due + length) <= 2 * (target + w) + v
          /\ 2 * (target + w) <= 2 * (due + length) + v
      BY <1>1, <1>2, <1>3, <1>4, <1>5
    <2> QED BY <2>1, <1>7 DEF Near, r, w, v
  <1> QED BY <1>6, <1>7

LEMMA ResumedSound ==
    ASSUME Desk!TicketsAssumption, NEW now \in 0 .. MaxTime, NEW k, RowSound(k, now)
    PROVE  /\ RowSound(Desk!Resumed(k, now), now)
           /\ Desk!Resumed(k, now).status = k.status /\ Desk!Resumed(k, now).said = k.said
           /\ Desk!Resumed(k, now).answered = k.answered
           /\ Desk!Resumed(k, now).waiting = None
  <1>1. CASE k.waiting = None
    BY <1>1 DEF Desk!Resumed
  <1>2. CASE k.waiting # None
    <2> DEFINE d == now - k.waiting
               r == Desk!InSeconds(d)
               n == IF d = 0 THEN k.pauses ELSE k.pauses + 1
               m == Desk!Resumed(k, now)
    <2>0. /\ now \in Nat /\ MaxTime \in Nat /\ k.waiting \in 0 .. MaxTime
          /\ k.waited \in 0 .. MaxTime /\ k.pauses \in 0 .. MaxTime
      BY <1>2, RowFields DEF RowSound, Desk!Times, Desk!TicketsAssumption
    <2>1. d \in Nat /\ k.waited + d <= now /\ n \in 0 .. MaxTime /\ n <= now
      BY <2>0, <1>2 DEF RowSound, WaitsPassed
    <2>2. r \in Nat /\ r <= d
      BY <2>1, NearestSecond
    <2>3. k.waited + r \in 0 .. MaxTime /\ k.waited + r <= now
      <3> HIDE DEF d, r
      <3> QED BY <2>0, <2>1, <2>2
    <2>4. k.due \in Nat \X Nat /\ k \in Desk!Rows /\ k.due[2] + d \in Nat
      BY <2>1, RowFields DEF RowSound
    <2>5. m = [k EXCEPT !.due[2] = @ + d, !.waited = @ + r, !.pauses = IF d = 0 THEN @ ELSE @ + 1,
                        !.waiting = None]
      BY <1>2 DEF Desk!Resumed
    <2>6. [k.due EXCEPT ![2] = @ + d] = <<k.due[1], k.due[2] + d>>
      BY <2>4
    <2>7. m = [k EXCEPT !.due = <<k.due[1], k.due[2] + d>>, !.waited = k.waited + r, !.pauses = n,
                        !.waiting = None]
      BY <2>4, <2>5, <2>6 DEF Desk!Rows
    <2> HIDE DEF d, r, n, m
    <2>8. m \in Desk!Rows
      <3>1. <<k.due[1], k.due[2] + d>> \in Nat \X Nat /\ None \in Desk!Times
        BY <2>4 DEF Desk!Times
      <3> QED BY <2>1, <2>3, <2>4, <2>7, <3>1 DEF Desk!Rows
    <2>9. /\ m.status = k.status /\ m.said = k.said /\ m.answered = k.answered /\ m.waiting = None
          /\ m.waited = k.waited + r /\ m.pauses = n /\ m.due = <<k.due[1], k.due[2] + d>>
          /\ m.created = k.created /\ m.priority = k.priority /\ m.target = k.target
      BY <2>4, <2>7 DEF Desk!Rows
    <2>10. CountsFromCreation(m)
      <3> DEFINE target == Desk!Deadlines(k.created, k.priority)[2]
      <3>1. /\ k.due[1] = Desk!Deadlines(k.created, k.priority)[1]
            /\ Near(k.due[2], target, k.waited, k.pauses) /\ k.target = Desk!Targets(k.priority)
        BY DEF RowSound, CountsFromCreation
      <3>2. target \in Nat
        <4>1. k.created \in Nat /\ Resolve[k.priority] \in Nat /\ Desk!Minute \in Nat
          BY <2>4, RowFields, MinuteType DEF Desk!TicketsAssumption
        <4>2. k.created + Resolve[k.priority] * Desk!Minute \in Nat
          BY <4>1
        <4> QED BY <4>2 DEF Desk!Deadlines
      <3> HIDE DEF target
      <3>3. k.due[2] \in Nat /\ k.waited \in Nat /\ k.pauses \in Nat
        BY <2>0, <2>4
      <3>4. Near(k.due[2] + d, target, k.waited + r, n)
        BY <2>1, <3>1, <3>2, <3>3, NearMoves DEF r, n
      <3>5. m.due[1] = k.due[1] /\ m.due[2] = k.due[2] + d
        BY <2>9
      <3> QED BY <2>9, <3>1, <3>4, <3>5 DEF CountsFromCreation, target
    <2>11. WaitsPassed(m, now)
      BY <2>1, <2>3, <2>9 DEF WaitsPassed, RowSound
    <2> QED BY <2>8, <2>9, <2>10, <2>11 DEF RowSound, m
  <1> QED BY <1>1, <1>2

Reprioritised(k, p) ==
    [k EXCEPT !.priority = p, !.target = Desk!Targets(p),
              !.due = <<Desk!Deadlines(k.created, p)[1], Desk!Deadlines(k.created, p)[2] +
              k.waited * Second>>]

LEMMA PrioritySound ==
    ASSUME Desk!TicketsAssumption, NEW now, NEW k, RowSound(k, now), NEW p \in Priorities
    PROVE  LET row == Reprioritised(k, p)
           IN  /\ RowSound(row, now)
               /\ row.status = k.status /\ row.said = k.said /\ row.answered = k.answered
               /\ row.waiting = k.waiting
  <1> DEFINE row == Reprioritised(k, p)
  <1>1. k \in Desk!Rows /\ k.created \in Nat /\ k.waited \in Nat /\ k.pauses \in Nat
    BY RowFields DEF RowSound, Desk!TicketsAssumption
  <1>2. Answer[p] \in Nat /\ Resolve[p] \in Nat /\ Desk!Minute \in Nat /\ Second \in Nat
    BY MinuteType DEF Desk!TicketsAssumption
  <1>3. /\ k.created + Answer[p] * Desk!Minute \in Nat
        /\ k.created + Resolve[p] * Desk!Minute \in Nat
        /\ k.waited * Second \in Nat /\ Second * k.pauses \in Nat
    BY <1>1, <1>2
  <1>4. /\ Desk!Targets(p) \in Nat \X Nat
        /\ <<Desk!Deadlines(k.created, p)[1], Desk!Deadlines(k.created, p)[2] + k.waited * Second>>
            \in Nat \X Nat
    BY <1>1, <1>2, <1>3 DEF Desk!Targets, Desk!Deadlines
  <1>5. row \in Desk!Rows
    BY <1>1, <1>4 DEF Desk!Rows, Reprioritised
  <1>6. /\ row.status = k.status /\ row.said = k.said /\ row.answered = k.answered
        /\ row.waiting = k.waiting /\ row.waited = k.waited /\ row.pauses = k.pauses
        /\ row.created = k.created
        /\ row.priority = p /\ row.target = Desk!Targets(p)
        /\ row.due = <<Desk!Deadlines(k.created, p)[1], Desk!Deadlines(k.created, p)[2]
                       + k.waited * Second>>
    BY <1>1 DEF Desk!Rows, Reprioritised
  <1> HIDE DEF row
  <1>7. CountsFromCreation(row)
    <2> DEFINE target == Desk!Deadlines(k.created, p)[2]
               w == k.waited * Second
               z == Second * k.pauses
    <2>1. target \in Nat /\ w \in Nat /\ z \in Nat
      BY <1>3 DEF Desk!Deadlines
    <2>2. row.due[1] = Desk!Deadlines(k.created, p)[1] /\ row.due[2] = target + w
      BY <1>6
    <2> HIDE DEF target, w, z
    <2>3. /\ target <= target + w /\ 2 * (target + w) <= 2 * (target + w) + z
      BY <2>1
    <2>4. Near(target + w, target, k.waited, k.pauses)
      BY <2>3 DEF Near, w, z
    <2> QED BY <1>6, <2>2, <2>4 DEF CountsFromCreation, target
  <1>8. WaitsPassed(row, now)
    BY <1>6 DEF WaitsPassed, RowSound
  <1> QED BY <1>5, <1>6, <1>7, <1>8 DEF RowSound, row

LEMMA WaitSound ==
    ASSUME Desk!TicketsAssumption, NEW now \in 0 .. MaxTime, NEW k, RowSound(k, now),
           k.answered # None, NEW row,
           row = [k EXCEPT !.waiting = IF @ = None THEN now ELSE @]
    PROVE  /\ RowSound(row, now)
           /\ row.status = k.status /\ row.said = k.said /\ row.answered = k.answered
  <1>1. now \in Desk!Times /\ now <= now /\ now # None
    BY DEF Desk!Times, Desk!TicketsAssumption
  <1> QED BY <1>1 DEF RowSound, Desk!Rows, CountsFromCreation, WaitsPassed

\* Time passes.
LEMMA LaterSound ==
    ASSUME Desk!TicketsAssumption, NEW now \in 0 .. MaxTime, NEW k, RowSound(k, now)
    PROVE  RowSound(k, now + 1)
  <1>1. /\ k.answered # None => k.answered \in Nat
        /\ k.waiting # None => k.waiting \in Nat
        /\ k.waited \in Nat /\ k.pauses \in Nat /\ now \in Nat
    BY RowFields DEF RowSound, Desk!Times, Desk!TicketsAssumption
  <1> QED BY <1>1 DEF RowSound, WaitsPassed

-----------------------------------------------------------------------------
(* Steps. *)

LEMMA IInvInit == ASSUME Desk!TicketsAssumption, Desk!Init PROVE IInv
  <1>1. /\ clock \in 0 .. MaxTime /\ touched \in Tickets \cup {None}
        /\ ticket \in [Tickets -> Desk!Rows \cup {None}] /\ Desk!Created = {}
    BY DEF Desk!Init, Desk!TicketsAssumption, Desk!Created
  <1>2. Desk!Idle \in RequestRows
    BY DEF Desk!Idle, RequestRows
  <1>3. \A r \in Requests : request[r] = Desk!Idle /\ request[r].on = None
    BY DEF Desk!Init, Desk!Idle
  <1>4. request \in [Requests -> RequestRows]
    BY <1>2 DEF Desk!Init
  <1> QED BY <1>1, <1>3, <1>4 DEF IInv, OneAtATime

\* Whoever is under way on a ticket is the only one, so the others keep what they read.
LEMMA EndsKeep ==
    ASSUME Desk!TicketsAssumption, IInv, NEW r \in Requests, Under(request[r]), Desk!Commits(r),
           UNCHANGED clock, touched' \in Tickets \cup {None},
           NEW row, RowSound(row, clock),
           ticket' = ticket \/ ticket' = [ticket EXCEPT ![request[r].on] = row]
    PROVE  IInv'
  <1>1. request' \in [Requests -> RequestRows] /\ request'[r] = Desk!Idle
        /\ \A q \in Requests \ {r} : request'[q] = request[q]
    <2>1. Desk!Idle \in RequestRows
      BY DEF Desk!Idle, RequestRows
    <2> QED BY <2>1 DEF IInv, Desk!Commits
  <1>2. \A t \in Tickets \ {request[r].on} : ticket'[t] = ticket[t]
    BY DEF IInv
  <1>3. /\ request[r].on \in Tickets /\ row \in Desk!Rows /\ row # None
        /\ ticket[request[r].on] \in Desk!Rows
        /\ ticket'[request[r].on] \in {ticket[request[r].on], row}
    BY DEF IInv, Under, RowSound, Desk!TicketsAssumption
  <1>4. ticket' \in [Tickets -> Desk!Rows \cup {None}]
    BY <1>3 DEF IInv
  <1>5. Desk!Created' = Desk!Created
    BY <1>2, <1>3 DEF Desk!Created, Under
  <1>6. \A t \in Desk!Created' : RowSound(ticket'[t], clock')
    <2> SUFFICES ASSUME NEW t \in Desk!Created PROVE RowSound(ticket'[t], clock)
      BY <1>5
    <2>1. RowSound(ticket[t], clock) /\ t \in Tickets
      BY DEF IInv, Desk!Created
    <2>2. CASE t = request[r].on
      BY <2>1, <2>2, <1>3
    <2>3. CASE t # request[r].on
      BY <2>1, <2>3, <1>2
    <2> QED BY <2>2, <2>3
  <1>7. \A q \in Requests : request'[q] = Desk!Idle \/ Under(request[q])'
    <2> SUFFICES ASSUME NEW q \in Requests, q # r, request[q] # Desk!Idle
                 PROVE  Under(request[q])'
      BY <1>1
    <2>1. Under(request[q]) /\ request'[q] = request[q]
      BY <1>1 DEF IInv
    <2>2. request[q].on # request[r].on /\ request[q].on \in Tickets
      BY <1>3, <2>1 DEF IInv, OneAtATime, Under, Desk!TicketsAssumption
    <2> QED BY <1>2, <2>1, <2>2 DEF Under
  <1>8. OneAtATime'
    BY <1>1 DEF IInv, OneAtATime, Desk!Idle
  <1>9. clock' \in 0 .. MaxTime
    BY DEF IInv
  <1> QED BY <1>1, <1>4, <1>6, <1>7, <1>8, <1>9 DEF IInv

\* A command is refused, or makes of the row what its callers count on.
Outcome(r, row) ==
    /\ RowSound(row, clock) /\ Follows(ticket[request[r].on], row)
    /\ Desk!Writes(r, row)

LEMMA OwnRow ==
    ASSUME IInv, NEW r \in Requests, request[r].doing # "idle"
    PROVE  /\ Under(request[r]) /\ Desk!Seen(r) = ticket[request[r].on]
           /\ RowSound(ticket[request[r].on], clock) /\ clock \in 0 .. MaxTime
  BY DEF IInv, Under, Desk!Seen, Desk!Created, Desk!Idle

LEMMA RequesterOutcome ==
    ASSUME Desk!TicketsAssumption, IInv, NEW r \in Requests, Desk!RequesterReplies(r)
    PROVE  Desk!Refuses(r) \/ \E row : Outcome(r, row)
  <1> DEFINE k == ticket[request[r].on]
             m == Desk!Resumed(k, clock)
             row == Desk!State(Desk!Said(m), k.status, k.staff, None)
  <1>1. Desk!Seen(r) = k /\ RowSound(k, clock) /\ clock \in 0 .. MaxTime
    BY OwnRow DEF Desk!RequesterReplies, Desk!Does
  <1>2. CASE k.status = "resolved" \/ m.said = MaxMessages
    BY <1>1, <1>2 DEF Desk!RequesterReplies, Desk!Resolved
  <1>3. CASE k.status # "resolved" /\ m.said # MaxMessages
    <2>1. Desk!Writes(r, row)
      BY <1>1, <1>3 DEF Desk!RequesterReplies, Desk!Resolved
    <2> HIDE DEF k
    <2>2. /\ RowSound(m, clock) /\ m.said = k.said /\ m.answered = k.answered
      BY <1>1, ResumedSound
    <2> HIDE DEF m
    <2>3. RowSound(Desk!Said(m), clock) /\ Desk!Said(m).said = k.said + 1 /\ Desk!Said(m).answered = k.answered
      BY <1>3, <2>2, SaidSound
    <2>4. k.status \in Desk!Statuses /\ k.staff \in Operators \cup {None} /\ None \in Desk!Times
      BY <1>1, RowFields DEF RowSound, Desk!Times
    <2> DEFINE n == Desk!Said(m)
    <2> HIDE DEF n
    <2>5. /\ RowSound(row, clock) /\ row.status = k.status /\ row.said = n.said
          /\ row.due = n.due /\ row.answered = n.answered /\ row.waiting = n.waiting
      <3>1. RowSound(n, clock)
        BY <2>3 DEF n
      <3>2. PICK status \in Desk!Statuses, staff \in Operators \cup {None} : status = k.status /\ staff = k.staff
        BY <2>4
      <3>3. row = Desk!State(n, status, staff, None)
        BY <3>2 DEF n
      <3> HIDE DEF row
      <3> QED BY <2>4, <3>1, <3>2, <3>3, StateSound
    <2>6. Follows(k, row)
      BY <1>3, <2>3, <2>5 DEF Follows, n
    <2> QED BY <2>1, <2>5, <2>6 DEF Outcome, k
  <1> QED BY <1>2, <1>3

LEMMA StaffOutcome ==
    ASSUME Desk!TicketsAssumption, IInv, NEW r \in Requests, Desk!StaffReplies(r)
    PROVE  Desk!Refuses(r) \/ \E row : Outcome(r, row)
  <1> DEFINE k == ticket[request[r].on]
             status == IF k.status = "new" THEN "in_progress" ELSE k.status
             staff == IF k.staff = None THEN request[r].with ELSE k.staff
             row == Desk!State(Desk!FirstAnswer(Desk!Said(k), clock), status, staff, None)
  <1>1. /\ Desk!Seen(r) = k /\ RowSound(k, clock) /\ clock \in 0 .. MaxTime
        /\ request[r].with \in Operators
    BY OwnRow DEF Desk!StaffReplies, Desk!Does, Under, Brings
  <1>2. CASE k.status = "resolved" \/ k.said = MaxMessages
    BY <1>1, <1>2 DEF Desk!StaffReplies, Desk!Resolved
  <1>3. CASE k.status # "resolved" /\ k.said # MaxMessages
    <2>1. Desk!Writes(r, row)
      BY <1>1, <1>3 DEF Desk!StaffReplies, Desk!Resolved
    <2> HIDE DEF k
    <2>2. /\ RowSound(Desk!Said(k), clock) /\ Desk!Said(k).said = k.said + 1
          /\ Desk!Said(k).answered = k.answered
      BY <1>1, <1>3, SaidSound
    <2> DEFINE m == Desk!FirstAnswer(Desk!Said(k), clock)
    <2>3. /\ RowSound(m, clock) /\ m.said = k.said + 1
          /\ k.answered # None => m.answered = k.answered
      BY <1>1, <2>2, FirstAnswerSound
    <2>4. status \in Desk!Statuses /\ status # "new" /\ staff \in Operators \cup {None} /\ None \in Desk!Times
      BY <1>1, RowFields DEF RowSound, Desk!Times, Desk!Statuses
    <2> HIDE DEF m, status, staff
    <2>5. /\ RowSound(row, clock) /\ row.said = m.said /\ row.answered = m.answered
          /\ row.status = status
      BY <2>3, <2>4, StateSound DEF m
    <2>6. Follows(k, row)
      BY <1>3, <2>3, <2>4, <2>5 DEF Follows
    <2> QED BY <2>1, <2>5, <2>6 DEF Outcome, k
  <1> QED BY <1>2, <1>3

LEMMA UpdateOutcome ==
    ASSUME Desk!TicketsAssumption, IInv, NEW r \in Requests, request[r].doing # "idle",
           NEW status \in Desk!Statuses, NEW staff \in Operators \cup {None}, Desk!Updates(r,
           status, staff)
    PROVE  Desk!Refuses(r) \/ \E row : Outcome(r, row)
  <1> DEFINE k == ticket[request[r].on]
             at == IF status = "resolved" THEN clock ELSE None
             row == Desk!State(k, status, staff, at)
  <1>1. Desk!Seen(r) = k /\ RowSound(k, clock) /\ clock \in 0 .. MaxTime
    BY OwnRow
  <1>2. CASE k.status = "resolved" /\ status # "resolved"
    BY <1>1, <1>2 DEF Desk!Updates, Desk!Resolved
  <1>3. CASE ~(k.status = "resolved" /\ status # "resolved")
    <2>1. Desk!Writes(r, row)
      BY <1>1, <1>3 DEF Desk!Updates, Desk!Resolved
    <2> HIDE DEF k
    <2>2. at \in Desk!Times
      BY <1>1 DEF Desk!Times
    <2> HIDE DEF at
    <2>3. /\ RowSound(row, clock) /\ row.status = status /\ row.said = k.said
          /\ row.due = k.due /\ row.answered = k.answered /\ row.waiting = k.waiting
      BY <1>1, <2>2, StateSound
    <2>4. Follows(k, row)
      BY <1>3, <2>3 DEF Follows
    <2> QED BY <2>1, <2>3, <2>4 DEF Outcome, k
  <1> QED BY <1>2, <1>3

LEMMA PriorityOutcome ==
    ASSUME Desk!TicketsAssumption, IInv, NEW r \in Requests, Desk!ChangesPriority(r)
    PROVE  Desk!Refuses(r) \/ \E row : Outcome(r, row)
  <1> DEFINE k == ticket[request[r].on]
             p == request[r].with
  <1>1. /\ Desk!Seen(r) = k /\ RowSound(k, clock) /\ p \in Priorities
    BY OwnRow DEF Desk!ChangesPriority, Desk!Does, Under, Brings
  <1>2. CASE k.status = "resolved"
    BY <1>1, <1>2 DEF Desk!ChangesPriority, Desk!Resolved
  <1>3. CASE k.status # "resolved"
    <2>1. Desk!Writes(r, Reprioritised(k, p))
      BY <1>1, <1>3 DEF Desk!ChangesPriority, Desk!Resolved, Reprioritised
    <2> HIDE DEF k, p
    <2>2. PICK m : m = Reprioritised(k, p)
      OBVIOUS
    <2>3. /\ RowSound(m, clock) /\ m.status = k.status /\ m.said = k.said
          /\ m.answered = k.answered /\ m.waiting = k.waiting
      BY <1>1, <2>2, PrioritySound
    <2>4. Follows(k, m)
      BY <1>3, <2>3 DEF Follows
    <2> QED BY <2>1, <2>2, <2>3, <2>4 DEF Outcome, k
  <1> QED BY <1>2, <1>3

LEMMA WaitOutcome ==
    ASSUME Desk!TicketsAssumption, IInv, NEW r \in Requests, Desk!WaitsForRequester(r) \/ Desk!StopsWaiting(r)
    PROVE  Desk!Refuses(r) \/ \E row : Outcome(r, row)
  <1> DEFINE k == ticket[request[r].on]
  <1>1. Desk!Seen(r) = k /\ RowSound(k, clock) /\ clock \in 0 .. MaxTime
    BY OwnRow DEF Desk!WaitsForRequester, Desk!StopsWaiting, Desk!Does
  <1>2. CASE k.status = "resolved" \/ (Desk!WaitsForRequester(r) /\ k.answered = None)
    BY <1>1, <1>2 DEF Desk!WaitsForRequester, Desk!StopsWaiting, Desk!Resolved
  <1>3. CASE Desk!WaitsForRequester(r) /\ k.status # "resolved" /\ k.answered # None
    <2> DEFINE row == [k EXCEPT !.waiting = IF @ = None THEN clock ELSE @]
    <2>1. Desk!Writes(r, row)
      BY <1>1, <1>3 DEF Desk!WaitsForRequester, Desk!Resolved
    <2> HIDE DEF k
    <2>2. PICK m : m = row
      OBVIOUS
    <2>3. /\ RowSound(m, clock) /\ m.said = k.said /\ m.answered = k.answered
      BY <1>1, <1>3, <2>2, WaitSound
    <2>4. Follows(k, m)
      BY <1>3, <2>3 DEF Follows
    <2> QED BY <2>1, <2>2, <2>3, <2>4 DEF Outcome, k
  <1>4. CASE Desk!StopsWaiting(r) /\ k.status # "resolved"
    <2> DEFINE m == Desk!Resumed(k, clock)
    <2>1. Desk!Writes(r, m)
      BY <1>1, <1>4 DEF Desk!StopsWaiting, Desk!Resolved
    <2> HIDE DEF k
    <2>3. /\ RowSound(m, clock) /\ m.said = k.said /\ m.answered = k.answered
      BY <1>1, ResumedSound
    <2> HIDE DEF m
    <2>4. Follows(k, m)
      BY <1>4, <2>3 DEF Follows
    <2> QED BY <2>1, <2>3, <2>4 DEF Outcome, k
  <1> QED BY <1>2, <1>3, <1>4

LEMMA CommandOutcome ==
    ASSUME Desk!TicketsAssumption, IInv, NEW r \in Requests, Desk!Commands(r)
    PROVE  /\ request[r].doing # "idle"
           /\ Desk!Refuses(r) \/ \E row : Outcome(r, row)
  <1>0. request[r].doing # "idle"
    BY DEF Desk!Commands, Desk!RequesterReplies, Desk!StaffReplies, Desk!ChangesStatus,
       Desk!Assigns, Desk!ChangesPriority,
           Desk!WaitsForRequester, Desk!StopsWaiting, Desk!Does
  <1>1. CASE Desk!RequesterReplies(r) \/ Desk!StaffReplies(r) \/ Desk!ChangesPriority(r)
             \/ Desk!WaitsForRequester(r) \/ Desk!StopsWaiting(r)
    BY <1>0, <1>1, RequesterOutcome, StaffOutcome, PriorityOutcome, WaitOutcome
  <1>2. CASE Desk!ChangesStatus(r) \/ Desk!Assigns(r)
    <2>1. Desk!Seen(r).status \in Desk!Statuses /\ Desk!Seen(r).staff \in Operators \cup {None}
      BY <1>0, OwnRow, RowFields DEF RowSound
    <2>2. /\ Desk!ChangesStatus(r) => request[r].with \in Desk!Statuses
          /\ Desk!Assigns(r) => request[r].with \in Operators \cup {None}
      BY <1>0, OwnRow DEF Desk!ChangesStatus, Desk!Assigns, Desk!Does, Under, Brings
    <2> QED BY <1>0, <1>2, <2>1, <2>2, UpdateOutcome DEF Desk!ChangesStatus, Desk!Assigns
  <1> QED BY <1>0, <1>1, <1>2 DEF Desk!Commands

LEMMA CommandKeeps ==
    ASSUME Desk!TicketsAssumption, IInv, NEW r \in Requests, Desk!Commands(r)
    PROVE  IInv'
  <1>1. Under(request[r]) /\ RowSound(ticket[request[r].on], clock)
    BY CommandOutcome, OwnRow
  <1>2. CASE Desk!Refuses(r)
    BY <1>1, <1>2, EndsKeep DEF Desk!Refuses
  <1>3. ASSUME NEW row, Outcome(r, row) PROVE IInv'
    <2>1. touched' \in Tickets \cup {None}
      BY <1>1, <1>3 DEF Outcome, Desk!Writes, Under
    <2> QED BY <1>1, <1>3, <2>1, EndsKeep DEF Outcome, Desk!Writes
  <1> QED BY <1>2, <1>3, CommandOutcome

LEMMA AsksKeep ==
    ASSUME Desk!TicketsAssumption, IInv, NEW r \in Requests, NEW t \in Tickets,
           NEW doing \in Doings, NEW with \in Brings(doing), Desk!LocksRow(r, t, doing, with)
    PROVE  IInv'
  <1> DEFINE q == [doing |-> doing, on |-> t, seen |-> ticket[t], with |-> with]
  <1>1. /\ request' = [request EXCEPT ![r] = q] /\ touched' = None
        /\ UNCHANGED <<ticket, clock>> /\ ticket[t] # None /\ ~Desk!Locked(t)
    BY DEF Desk!LocksRow, Desk!Created
  <1>2. with \in Desk!Statuses \cup Priorities \cup Operators \cup {None}
    BY DEF Brings, Doings
  <1>3. q \in RequestRows /\ q.on = t
    BY <1>1, <1>2 DEF RequestRows, IInv
  <1>4. Under(q)
    BY <1>1 DEF Under
  <1> HIDE DEF q
  <1>5. request' \in [Requests -> RequestRows]
        /\ \A p \in Requests : request'[p] = IF p = r THEN q ELSE request[p]
    BY <1>1, <1>3 DEF IInv
  <1>6. \A p \in Requests : request'[p] = Desk!Idle \/ Under(request[p])'
    <2> SUFFICES ASSUME NEW p \in Requests, request'[p] # Desk!Idle PROVE Under(request[p])'
      OBVIOUS
    <2>1. Under(request'[p])
      BY <1>4, <1>5 DEF IInv
    <2> QED BY <1>1, <2>1 DEF Under
  <1>7. OneAtATime'
    <2> SUFFICES ASSUME NEW p \in Requests, NEW s \in Requests, p # s
                 PROVE  request'[p].on = None \/ request'[p].on # request'[s].on
      BY DEF OneAtATime
    <2>1. request[p].on # t /\ request[s].on # t
      BY <1>1 DEF Desk!Locked
    <2> QED BY <1>3, <1>5, <2>1 DEF IInv, OneAtATime
  <1>8. Desk!Created' = Desk!Created /\ touched' \in Tickets \cup {None}
    BY <1>1 DEF Desk!Created
  <1> QED BY <1>1, <1>5, <1>6, <1>7, <1>8 DEF IInv

LEMMA CreationKeeps ==
    ASSUME Desk!TicketsAssumption, IInv, NEW t \in Tickets, Desk!CreatesTicket(t)
    PROVE  IInv'
  <1> DEFINE row ==
          [status |-> "new", staff |-> None, priority |-> "normal", created |-> clock,
           target |-> Desk!Targets("normal"), due |-> Desk!Deadlines(clock, "normal"),
           answered |-> None, waiting |-> None, waited |-> 0, pauses |-> 0, resolved |-> None,
           said |-> 1]
  <1>1. /\ ticket[t] = None /\ ticket' = [ticket EXCEPT ![t] = row] /\ touched' = t
        /\ UNCHANGED <<clock, request>>
    BY DEF Desk!CreatesTicket
  <1>2. /\ clock \in 0 .. MaxTime /\ clock \in Nat /\ 0 \in 0 .. MaxTime /\ 1 \in 1 .. MaxMessages
        /\ "normal" \in Priorities /\ "new" \in Desk!Statuses /\ None \in Desk!Times
    BY DEF IInv, Desk!TicketsAssumption, Desk!Statuses, Desk!Times
  <1>3. /\ Answer["normal"] \in Nat /\ Resolve["normal"] \in Nat /\ Desk!Minute \in Nat
        /\ Second \in Nat
    BY <1>2, MinuteType DEF Desk!TicketsAssumption
  <1>4. /\ clock + Answer["normal"] * Desk!Minute \in Nat
        /\ clock + Resolve["normal"] * Desk!Minute \in Nat
    BY <1>2, <1>3
  <1>5. Desk!Targets("normal") \in Nat \X Nat /\ Desk!Deadlines(clock, "normal") \in Nat \X Nat
    BY <1>3, <1>4 DEF Desk!Targets, Desk!Deadlines
  <1>6. row \in Desk!Rows
    BY <1>2, <1>5 DEF Desk!Rows
  <1>7. CountsFromCreation(row)
    <2> DEFINE target == Desk!Deadlines(clock, "normal")[2]
    <2>1. target \in Nat
      BY <1>4 DEF Desk!Deadlines
    <2>2. 0 * Second = 0 /\ Second * 0 = 0
      BY <1>3
    <2> HIDE DEF target
    <2>3. Near(target, target, 0, 0)
      BY <2>1, <2>2 DEF Near
    <2> QED BY <2>3 DEF CountsFromCreation, target
  <1>8. WaitsPassed(row, clock)
    BY <1>2 DEF WaitsPassed
  <1> HIDE DEF row
  <1>9. RowSound(row, clock) /\ row # None
    BY <1>6, <1>7, <1>8 DEF RowSound, Desk!TicketsAssumption
  <1>10. ticket' \in [Tickets -> Desk!Rows \cup {None}]
         /\ \A s \in Tickets : ticket'[s] = IF s = t THEN row ELSE ticket[s]
    BY <1>1, <1>6 DEF IInv
  <1>11. \A s \in Desk!Created' : RowSound(ticket'[s], clock')
    BY <1>1, <1>9, <1>10 DEF Desk!Created, IInv
  <1>12. \A r \in Requests : request'[r] = Desk!Idle \/ Under(request[r])'
    <2> SUFFICES ASSUME NEW r \in Requests, request[r] # Desk!Idle PROVE Under(request[r])'
      BY <1>1
    <2>1. Under(request[r]) /\ request[r].on # t
      BY <1>1 DEF IInv, Under
    <2> QED BY <1>1, <1>10, <2>1 DEF Under
  <1>13. OneAtATime' /\ request' \in [Requests -> RequestRows] /\ touched' \in Tickets \cup {None}
    BY <1>1 DEF IInv, OneAtATime
  <1> QED BY <1>1, <1>2, <1>10, <1>11, <1>12, <1>13 DEF IInv

LEMMA TickKeeps ==
    ASSUME Desk!TicketsAssumption, IInv, Desk!Tick
    PROVE  IInv'
  <1>1. clock' = clock + 1 /\ clock' \in 0 .. MaxTime /\ UNCHANGED <<ticket, request>>
        /\ touched' \in Tickets \cup {None}
    BY DEF Desk!Tick, IInv, Desk!TicketsAssumption
  <1>2. Desk!Created' = Desk!Created
    BY <1>1 DEF Desk!Created
  <1>3. \A t \in Desk!Created : RowSound(ticket[t], clock + 1)
    BY LaterSound DEF IInv
  <1>4. \A r \in Requests : request'[r] = Desk!Idle \/ Under(request[r])'
    BY <1>1 DEF IInv, Under
  <1>5. OneAtATime'
    BY <1>1 DEF IInv, OneAtATime
  <1> QED BY <1>1, <1>2, <1>3, <1>4, <1>5 DEF IInv

LEMMA IInvStep == ASSUME Desk!TicketsAssumption, IInv, [Desk!Next]_(Desk!vars) PROVE IInv'
  <1>1. ASSUME NEW r \in Requests, Desk!Asks(r) PROVE IInv'
    <2>1. PICK t \in Tickets, doing \in Doings : \E with \in Brings(doing) :
                                                    Desk!LocksRow(r, t, doing, with)
      BY <1>1 DEF Desk!Asks, Doings, Brings
    <2> QED BY <2>1, AsksKeep
  <1>2. CASE UNCHANGED Desk!vars
    <2>1. Desk!Created' = Desk!Created
      BY <1>2 DEF Desk!vars, Desk!Created
    <2>2. \A r \in Requests : request'[r] = Desk!Idle \/ Under(request[r])'
      BY <1>2 DEF Desk!vars, IInv, Under
    <2>3. OneAtATime'
      BY <1>2 DEF Desk!vars, IInv, OneAtATime
    <2> QED BY <1>2, <2>1, <2>2, <2>3 DEF IInv, Desk!vars
  <1> QED BY <1>1, <1>2, CommandKeeps, CreationKeeps, TickKeeps DEF Desk!Next

LEMMA Invariance == ASSUME Desk!TicketsAssumption PROVE Desk!Spec => []IInv
  BY IInvInit, IInvStep, PTL DEF Desk!Spec

-----------------------------------------------------------------------------
(* What a ticket shows. *)

\* A quarter rounded down to minutes is at most a quarter, and less than a minute below it.
LEMMA QuarterAtMost ==
    ASSUME Desk!TicketsAssumption, NEW m \in Nat
    PROVE  /\ Desk!FilteredQuarter(m) \in Nat /\ 4 * Desk!FilteredQuarter(m) <= m * Desk!Minute
           /\ m * Desk!Minute <= 4 * Desk!FilteredQuarter(m) + 3 * Desk!Minute
  <1> DEFINE d == m \div 4
             e == m - 4 * d
             l == Desk!Minute
  <1>1. d \in Nat /\ e \in Nat /\ e <= 3 /\ m = 4 * d + e /\ l \in Nat
    BY MinuteType
  <1> HIDE DEF d, e, l
  <1>2. d * l \in Nat /\ e * l \in Nat
    BY <1>1
  <1>3. (4 * d + e) * l = 4 * (d * l) + e * l
    BY <1>1
  <1>4. m * l = 4 * (d * l) + e * l
    BY <1>1, <1>3
  <1>5. e * l <= 3 * l
    <2>1. e = 0 \/ e = 1 \/ e = 2 \/ e = 3
      BY <1>1
    <2> QED BY <1>1, <2>1
  <1> DEFINE x == d * l
             y == e * l
  <1>6. x \in Nat /\ y \in Nat /\ m * l = 4 * x + y /\ y <= 3 * l
    BY <1>2, <1>4, <1>5
  <1>7. Desk!FilteredQuarter(m) = x
    BY DEF Desk!FilteredQuarter, d, l
  <1> DEFINE z == m * l
  <1>8. z = 4 * x + y
    BY <1>6
  <1> HIDE DEF x, y, z
  <1>9. 4 * x <= z /\ z <= 4 * x + 3 * l
    BY <1>1, <1>6, <1>8
  <1> QED BY <1>6, <1>7, <1>9 DEF z, l

\* A time cut to its second is that time or less than a second before it.
LEMMA CutBelow ==
    ASSUME Desk!TicketsAssumption, NEW time \in Nat
    PROVE  /\ Desk!CutToSecond(time) \in Nat /\ Desk!CutToSecond(time) <= time
           /\ time < Desk!CutToSecond(time) + Second
  <1> DEFINE q == time \div Second
  <1>1. Second \in Nat \ {0}
    BY DEF Desk!TicketsAssumption
  <1>2. q \in Nat /\ q * Second <= time /\ time < (q + 1) * Second
    BY <1>1
  <1> HIDE DEF q
  <1>3. (q + 1) * Second = q * Second + Second /\ q * Second \in Nat
    BY <1>1, <1>2
  <1>4. q * Second <= time /\ time < q * Second + Second
    BY <1>2, <1>3
  <1> QED BY <1>3, <1>4 DEF Desk!CutToSecond, q

\* What the filter and the page may tell of one ticket at one instant.
Close(k, now) ==
    LET filtered == Desk!FilteredState(k, now)
        shown == Desk!ShownState(k, now)
    IN  \/ filtered = shown
        \/ /\ filtered = "on_track" /\ shown = "due_soon"
           /\ Desk!FilteredState(k, now + Desk!Minute) # "on_track"
        \/ /\ filtered = "breached" /\ shown = "met"
           /\ k.due[2] < k.resolved /\ k.resolved < k.due[2] + Second

LEMMA ResolvedClose ==
    ASSUME Desk!TicketsAssumption, NEW now \in Nat, NEW k, RowSound(k, now), k.status = "resolved"
    PROVE  Close(k, now)
  <1> DEFINE cut == Desk!CutToSecond(k.resolved)
             b == k.due[2]
  <1>1. Desk!FilteredState(k, now) = IF k.resolved # None /\ k.resolved <= b
                                     THEN "met" ELSE "breached"
    BY DEF Desk!FilteredState
  <1>2. Desk!ShownState(k, now) = IF k.resolved # None /\ cut <= b THEN "met" ELSE "breached"
    BY DEF Desk!ShownState
  <1>3. CASE k.resolved = None
    BY <1>1, <1>2, <1>3 DEF Close
  <1>4. CASE k.resolved # None
    <2>1. k.resolved \in Nat /\ b \in Nat /\ Second \in Nat
      BY <1>4, RowFields DEF RowSound, Desk!Times, Desk!TicketsAssumption
    <2>2. cut \in Nat /\ cut <= k.resolved /\ k.resolved < cut + Second
      BY <2>1, CutBelow
    <2> HIDE DEF cut
    <2>3. CASE k.resolved <= b \/ ~ (cut <= b)
      <3>1. Desk!FilteredState(k, now) = Desk!ShownState(k, now)
        BY <1>1, <1>2, <1>4, <2>1, <2>2, <2>3
      <3> QED BY <3>1 DEF Close
    <2>4. CASE ~ (k.resolved <= b) /\ cut <= b
      <3>1. Desk!FilteredState(k, now) = "breached" /\ Desk!ShownState(k, now) = "met"
        BY <1>1, <1>2, <1>4, <2>4
      <3>2. b < k.resolved /\ k.resolved < b + Second
        BY <2>1, <2>2, <2>4
      <3> QED BY <3>1, <3>2 DEF Close
    <2> QED BY <2>3, <2>4
  <1> QED BY <1>3, <1>4

\* Both deadlines behave alike: a quarter rounded to minutes against an exact one.
Told(left, quarter) == IF left <= quarter THEN "due_soon" ELSE "on_track"

LEMMA OpenClose ==
    ASSUME Desk!TicketsAssumption, NEW now \in Nat, NEW k, RowSound(k, now),
           k.status # "resolved", ~ (k.waiting # None /\ k.answered # None)
    PROVE  Close(k, now)
  <1> DEFINE a == k.due[1]
             b == k.due[2]
             l == Desk!Minute
             m == k.target[1] * l
             n == k.target[2] * l
             f == Desk!FilteredQuarter(k.target[1])
             g == Desk!FilteredQuarter(k.target[2])
  <1>1. k.target[1] \in Nat /\ k.target[2] \in Nat /\ a \in Nat /\ b \in Nat /\ l \in Nat \ {0}
    BY RowFields, MinuteType DEF RowSound
  <1>2. /\ f \in Nat /\ g \in Nat /\ 4 * f <= m /\ 4 * g <= n
        /\ m <= 4 * f + 3 * l /\ n <= 4 * g + 3 * l
    BY <1>1, QuarterAtMost
  <1>3. a <= b
    <2>1. k.priority \in Priorities /\ k.created \in Nat
      BY RowFields DEF RowSound, Desk!TicketsAssumption
    <2>2. /\ Answer[k.priority] \in Nat /\ Resolve[k.priority] \in Nat
          /\ Answer[k.priority] <= Resolve[k.priority]
      BY <2>1 DEF Desk!TicketsAssumption
    <2> DEFINE x == Answer[k.priority]
               y == Resolve[k.priority]
    <2>3. a = k.created + x * l /\ k.created + y * l <= b
      BY DEF RowSound, CountsFromCreation, Near, Desk!Deadlines
    <2> HIDE DEF x, y, a, b, l
    <2>4. x * l <= y * l /\ x * l \in Nat /\ y * l \in Nat
      <3>1. y - x \in Nat /\ l \in Nat /\ x \in Nat
        BY <1>1, <2>2 DEF x, y
      <3>2. (y - x) * l \in Nat /\ x * l \in Nat
        BY <3>1
      <3>3. y * l = x * l + (y - x) * l
        BY <2>2, <1>1 DEF x, y
      <3> QED BY <3>2, <3>3
    <2> QED BY <1>1, <2>1, <2>3, <2>4
  <1>4. m \in Nat /\ n \in Nat
    BY <1>1
  <1>5. CASE k.answered = None
    <2>1. \A t \in Nat : Desk!FilteredState(k, t) =
             IF t >= a \/ t >= b THEN "breached" ELSE Told(a - t, f)
      BY <1>1, <1>2, <1>5 DEF Desk!FilteredState, Told
    <2>2. Desk!ShownState(k, now) = IF now >= a THEN "breached"
                                    ELSE IF 4 * (a - now) <= m THEN "due_soon" ELSE "on_track"
      BY <1>1, <1>4, <1>5 DEF Desk!ShownState
    <2>3. now + l \in Nat
      BY <1>1
    <2>4. /\ Desk!FilteredState(k, now) = IF now >= a \/ now >= b THEN "breached" ELSE Told(a - now, f)
          /\ Desk!FilteredState(k, now + l) =
                IF now + l >= a \/ now + l >= b THEN "breached" ELSE Told(a - (now + l), f)
      BY <2>1, <2>3
    <2> HIDE DEF a, b, m, n, f, g, l
    <2>5. \/ Desk!FilteredState(k, now) = Desk!ShownState(k, now)
          \/ /\ Desk!FilteredState(k, now) = "on_track" /\ Desk!ShownState(k, now) = "due_soon"
             /\ Desk!FilteredState(k, now + l) # "on_track"
      BY <1>1, <1>2, <1>3, <1>4, <2>2, <2>4 DEF Told
    <2> QED BY <2>5 DEF Close, l
  <1>6. CASE k.answered # None
    <2>1. \A t \in Nat : Desk!FilteredState(k, t) = IF t >= b THEN "breached" ELSE Told(b - t, g)
      BY <1>1, <1>2, <1>6 DEF Desk!FilteredState, Told
    <2>2. Desk!ShownState(k, now) = IF now >= b THEN "breached"
                                    ELSE IF 4 * (b - now) <= n THEN "due_soon" ELSE "on_track"
      BY <1>1, <1>4, <1>6 DEF Desk!ShownState
    <2>3. now + l \in Nat
      BY <1>1
    <2>4. /\ Desk!FilteredState(k, now) = IF now >= b THEN "breached" ELSE Told(b - now, g)
          /\ Desk!FilteredState(k, now + l) =
                IF now + l >= b THEN "breached" ELSE Told(b - (now + l), g)
      BY <2>1, <2>3
    <2> HIDE DEF a, b, m, n, f, g, l
    <2>5. \/ Desk!FilteredState(k, now) = Desk!ShownState(k, now)
          \/ /\ Desk!FilteredState(k, now) = "on_track" /\ Desk!ShownState(k, now) = "due_soon"
             /\ Desk!FilteredState(k, now + l) # "on_track"
      BY <1>1, <1>2, <1>4, <2>2, <2>4 DEF Told
    <2> QED BY <2>5 DEF Close, l
  <1> QED BY <1>5, <1>6

LEMMA QueueIsClose ==
    ASSUME Desk!TicketsAssumption, NEW now \in Nat, NEW k, RowSound(k, now)
    PROVE  Close(k, now)
  <1>1. CASE k.status # "resolved" /\ k.waiting # None /\ k.answered # None
    BY <1>1 DEF Desk!FilteredState, Desk!ShownState, Close
  <1> QED BY <1>1, ResolvedClose, OpenClose

-----------------------------------------------------------------------------
(* The theorems.                                                            *)

\* However priorities, waits, replies and resolutions of any number of requests interleave,
\* a deadline is the creation plus the policy plus the waits, half a second of rounding for
\* each; the filter of the queue and the page differ for less than a minute before due_soon
\* and by less than a second at the deadline; and only an answered ticket is paused.
THEOREM DeskKeepsDeadlines ==
    ASSUME Desk!TicketsAssumption
    PROVE  Desk!Spec => [](Desk!TypeOK /\ Desk!DeadlineCountsFromCreation /\ Desk!FilterIsCloseToThePage
                      /\ Desk!PauseFollowsAnAnswer)
  <1>1. ASSUME IInv
        PROVE  Desk!TypeOK /\ Desk!DeadlineCountsFromCreation /\ Desk!FilterIsCloseToThePage
               /\ Desk!PauseFollowsAnAnswer
    <2>1. Desk!TypeOK
      BY <1>1 DEF IInv, Desk!TypeOK, RequestRows, Doings
    <2>2. Desk!DeadlineCountsFromCreation
      BY <1>1 DEF IInv, Desk!DeadlineCountsFromCreation, RowSound, CountsFromCreation, Near
    <2>3. Desk!FilterIsCloseToThePage
      <3>1. clock \in Nat
        BY <1>1 DEF IInv
      <3> QED BY <1>1, <3>1, QueueIsClose DEF IInv, Close, Desk!FilterIsCloseToThePage
    <2>4. Desk!PauseFollowsAnAnswer
      BY <1>1 DEF IInv, Desk!PauseFollowsAnAnswer, RowSound, WaitsPassed
    <2> QED BY <2>1, <2>2, <2>3, <2>4
  <1> QED BY <1>1, Invariance, PTL

\* Whatever writes a ticket that is there makes of it what Follows says.
LEMMA TicketsFollow ==
    ASSUME Desk!TicketsAssumption, IInv, [Desk!Next]_(Desk!vars), NEW t \in Desk!Created
    PROVE  ticket'[t] = ticket[t] \/ Follows(ticket[t], ticket'[t])
  <1>1. t \in Tickets /\ ticket[t] # None
    BY DEF Desk!Created
  <1>2. ASSUME NEW r \in Requests, Desk!Commands(r)
        PROVE  ticket'[t] = ticket[t] \/ Follows(ticket[t], ticket'[t])
    <2>1. CASE Desk!Refuses(r)
      BY <2>1 DEF Desk!Refuses
    <2>2. ASSUME NEW row, Outcome(r, row)
          PROVE  ticket'[t] = ticket[t] \/ Follows(ticket[t], ticket'[t])
      <3>1. /\ ticket' = [ticket EXCEPT ![request[r].on] = row]
            /\ Follows(ticket[request[r].on], row)
        BY <2>2 DEF Outcome, Desk!Writes
      <3>2. CASE t = request[r].on
        <4>1. ticket'[t] = row
          BY <1>1, <3>1, <3>2 DEF IInv
        <4> QED BY <3>1, <3>2, <4>1
      <3>3. CASE t # request[r].on
        BY <1>1, <3>1, <3>3 DEF IInv
      <3> QED BY <3>2, <3>3
    <2> QED BY <1>2, <2>1, <2>2, CommandOutcome
  <1>3. ASSUME NEW r \in Requests, Desk!Asks(r) PROVE ticket' = ticket
    BY <1>3 DEF Desk!Asks, Desk!LocksRow
  <1>4. ASSUME NEW s \in Tickets, Desk!CreatesTicket(s) PROVE ticket'[t] = ticket[t]
    BY <1>1, <1>4 DEF Desk!CreatesTicket, IInv
  <1>5. Desk!Tick \/ UNCHANGED Desk!vars => ticket' = ticket
    BY DEF Desk!Tick, Desk!vars
  <1> QED BY <1>2, <1>3, <1>4, <1>5 DEF Desk!Next

\* A resolved ticket gains no message, keeps its deadlines and is not reopened.
THEOREM ResolvedForGood ==
    ASSUME Desk!TicketsAssumption
    PROVE  Desk!Spec => Desk!ResolvedStaysResolved
  <1>1. IInv /\ [Desk!Next]_(Desk!vars) =>
          [\A t \in Desk!Created : ticket[t].status = "resolved" =>
             /\ ticket'[t].status = "resolved"
             /\ ticket'[t].said = ticket[t].said /\ ticket'[t].due = ticket[t].due
             /\ ticket'[t].waiting = ticket[t].waiting]_(Desk!vars)
    BY TicketsFollow DEF Follows
  <1> QED BY <1>1, Invariance, PTL DEF Desk!ResolvedStaysResolved, Desk!Spec

\* Two replies at once count as two, and the earlier one is the answer.
THEOREM RepliesCount ==
    ASSUME Desk!TicketsAssumption
    PROVE  Desk!Spec => Desk!EachReplyCounts
  <1>1. IInv /\ [Desk!Next]_(Desk!vars) =>
          [\A t \in Desk!Created :
             /\ ticket[t].answered # None => ticket'[t].answered = ticket[t].answered
             /\ ticket'[t].said \in {ticket[t].said, ticket[t].said + 1}
             /\ ticket[t].answered = None /\ ticket'[t].answered # None =>
                   ticket'[t].said = ticket[t].said + 1 /\ ticket'[t].status # "new"]_(Desk!vars)
    BY TicketsFollow DEF Follows
  <1> QED BY <1>1, Invariance, PTL DEF Desk!EachReplyCounts, Desk!Spec
-----------------------------------------------------------------------------
(* The pages of the queue.                                                 *)

LEMMA LeastNatural ==
    ASSUME NEW S \in SUBSET Nat, S # {}
    PROVE  \E x \in S : \A y \in S : x <= y
  <1>1. IsWellFoundedOn(OpToRel(<, Nat), Nat)
    BY NatLessThanWellFounded
  <1>2. PICK x \in S : \A y \in S : ~ (<<y, x>> \in OpToRel(<, Nat))
    BY <1>1, WFMin
  <1>3. \A y \in S : ~ y < x
    BY <1>2 DEF OpToRel
  <1> QED BY <1>3

LEMMA GreatestNatural ==
    ASSUME NEW S \in SUBSET Nat, S # {}, NEW b \in Nat, \A y \in S : y <= b
    PROVE  \E x \in S : \A y \in S : y <= x
  <1> DEFINE D == {b - y : y \in S}
  <1>1. \A y \in S : b - y \in Nat
    OBVIOUS
  <1>2. D \in SUBSET Nat /\ D # {}
    BY <1>1
  <1>3. PICK d \in D : \A e \in D : d <= e
    BY <1>2, LeastNatural
  <1>4. PICK x \in S : d = b - x
    BY <1>3
  <1>5. \A y \in S : b - x <= b - y
    BY <1>3, <1>4
  <1> QED BY <1>5

\* Places in the order of the queue.
LEMMA PlacesAre ==
    ASSUME NEW p \in Pages!Places
    PROVE  p[1] \in Nat /\ p[2] \in Nat /\ p[3] \in Nat /\ p = <<p[1], p[2], p[3]>> /\ p # Pages!Absent /\ p # Pages!Start
  <1>1. Pages!Ranks = {0, 1, 2, 3}
    <2>1. DOMAIN Pages!Rank = {"new", "escalated", "in_progress", "resolved"}
      BY DEF Pages!Rank
    <2>2. Pages!Rank["new"] = 0 /\ Pages!Rank["escalated"] = 1 /\ Pages!Rank["in_progress"] = 2 /\ Pages!Rank["resolved"] = 3
      BY DEF Pages!Rank
    <2> QED BY <2>1, <2>2 DEF Pages!Ranks
  <1>2. PICK a \in Pages!Ranks, b \in 0 .. MaxQueueTime, c \in Pages!Numbers : p = <<a, b, c>>
    BY DEF Pages!Places
  <1>3. a \in Nat /\ b \in Nat /\ c \in Nat /\ a # 4
    BY <1>1 DEF Pages!Numbers
  <1>4. p # Pages!Absent
    BY <1>2, <1>3 DEF Pages!Absent
  <1>5. p # Pages!Start
    BY <1>2 DEF Pages!Start
  <1> QED BY <1>2, <1>3, <1>4, <1>5

LEMMA Order ==
    ASSUME NEW p \in Pages!Places, NEW q \in Pages!Places, NEW r \in Pages!Places
    PROVE  /\ ~ Pages!Before(p, p)
           /\ Pages!Before(p, q) /\ Pages!Before(q, r) => Pages!Before(p, r)
           /\ Pages!Before(p, q) \/ Pages!Before(q, p) \/ p[3] = q[3]
  BY PlacesAre DEF Pages!Before

\* Where the tickets are, and what the walk has shown of those that keep still.
Shown(n) == IF walking /\ Pages!Follows(place[n]) THEN 0 ELSE 1
QueueIInv ==
    /\ Pages!TypeOK
    /\ \A n \in Pages!Created : place[n][3] = n
    /\ steady \subseteq Pages!Created
    /\ \A n \in steady : listed[n] = Shown(n)

LEMMA CreatedPlaces ==
    ASSUME QueueIInv, NEW n \in Pages!Created
    PROVE  n \in Pages!Numbers /\ place[n] \in Pages!Places /\ place[n][3] = n
  BY DEF QueueIInv, Pages!TypeOK, Pages!Created

LEMMA CreatedOrder ==
    ASSUME QueueIInv, NEW m \in Pages!Created, NEW n \in Pages!Created, NEW k \in Pages!Created
    PROVE  /\ ~ Pages!Before(place[n], place[n])
           /\ Pages!Before(place[m], place[n]) /\ Pages!Before(place[n], place[k]) => Pages!Before(place[m], place[k])
           /\ m # n => Pages!Before(place[m], place[n]) \/ Pages!Before(place[n], place[m])
  BY CreatedPlaces, Order

\* How many come before ticket n among those still to be shown.
Preceding(n) == {m \in Pages!Rest : Pages!Before(place[m], place[n])}
Position(n) == Cardinality(Preceding(n))

LEMMA Positions ==
    ASSUME Pages!QueueAssumption, QueueIInv, NEW n \in Pages!Rest
    PROVE  /\ IsFiniteSet(Preceding(n)) /\ Position(n) \in Nat
           /\ n \in Pages!Page <=> Position(n) < PageSize
  <1>1. IsFiniteSet(Pages!Numbers)
    BY FS_Interval DEF Pages!Numbers, Pages!QueueAssumption
  <1>2. Preceding(n) \subseteq Pages!Numbers
    BY DEF Preceding, Pages!Rest, Pages!Created
  <1>3. IsFiniteSet(Preceding(n))
    BY <1>1, <1>2, FS_Subset
  <1>4. Position(n) \in Nat
    BY <1>3, FS_CardinalityType DEF Position
  <1> QED BY <1>3, <1>4 DEF Pages!Page, Position, Preceding, Pages!Cardinality, Cardinality

LEMMA PositionsGrow ==
    ASSUME Pages!QueueAssumption, QueueIInv, NEW m \in Pages!Rest, NEW n \in Pages!Rest, Pages!Before(place[m], place[n])
    PROVE  Position(m) < Position(n)
  <1>1. Pages!Rest \subseteq Pages!Created
    BY DEF Pages!Rest
  <1>2. Preceding(m) \subseteq Preceding(n)
    BY <1>1, CreatedOrder DEF Preceding
  <1>3. m \in Preceding(n) /\ m \notin Preceding(m)
    BY <1>1, CreatedOrder DEF Preceding
  <1>4. IsFiniteSet(Preceding(m)) /\ IsFiniteSet(Preceding(n))
    BY Positions
  <1>5. Position(m) <= Position(n) /\ Position(m) # Position(n)
    BY <1>2, <1>3, <1>4, FS_Subset DEF Position
  <1> QED BY <1>5, Positions

\* A page has a last ticket when any ticket is left to show.
LEMMA PageEnds ==
    ASSUME Pages!QueueAssumption, QueueIInv, Pages!Rest # {}
    PROVE  \E l \in Pages!Page : \A m \in Pages!Page \ {l} : Pages!Before(place[m], place[l])
  <1> DEFINE R == {Position(n) : n \in Pages!Rest}
             P == {Position(n) : n \in Pages!Page}
  <1>1. Pages!Page \subseteq Pages!Rest
    BY DEF Pages!Page
  <1>2. R \in SUBSET Nat /\ R # {} /\ P \in SUBSET Nat /\ PageSize \in Nat \ {0}
    BY <1>1, Positions DEF Pages!QueueAssumption
  <1>3. PICK n \in Pages!Rest : \A m \in Pages!Rest : Position(n) <= Position(m)
    <2>1. PICK x \in R : \A y \in R : x <= y
      BY <1>2, LeastNatural
    <2> QED BY <2>1
  <1>4. Preceding(n) = {}
    <2>1. ASSUME NEW m \in Preceding(n) PROVE FALSE
      <3>1. m \in Pages!Rest /\ Pages!Before(place[m], place[n])
        BY DEF Preceding
      <3>2. Position(m) < Position(n)
        BY <3>1, PositionsGrow
      <3> QED BY <1>3, <3>1, <3>2, Positions
    <2> QED BY <2>1
  <1>5. n \in Pages!Page
    <2>1. Position(n) = 0
      BY <1>4, FS_EmptySet DEF Position
    <2> QED BY <1>2, <2>1, Positions
  <1>6. \A y \in P : y <= PageSize
    BY <1>1, <1>2, Positions
  <1>7. PICK l \in Pages!Page : \A m \in Pages!Page : Position(m) <= Position(l)
    <2>1. PICK x \in P : \A y \in P : y <= x
      BY <1>2, <1>5, <1>6, GreatestNatural
    <2> QED BY <2>1
  <1>8. ASSUME NEW m \in Pages!Page \ {l} PROVE Pages!Before(place[m], place[l])
    <2>1. m \in Pages!Created /\ l \in Pages!Created /\ m \in Pages!Rest /\ l \in Pages!Rest
      BY <1>1 DEF Pages!Rest
    <2>2. CASE Pages!Before(place[l], place[m])
      <3>1. Position(l) < Position(m)
        BY <2>1, <2>2, PositionsGrow
      <3> QED BY <1>7, <2>1, <3>1, Positions
    <2> QED BY <2>1, <2>2, CreatedOrder
  <1> QED BY <1>8

\* A ticket of the rest that the page leaves out comes after all of the page.
LEMMA LeftOut ==
    ASSUME Pages!QueueAssumption, QueueIInv, NEW l \in Pages!Page, NEW n \in Pages!Rest \ Pages!Page
    PROVE  Pages!Before(place[l], place[n])
  <1>1. l \in Pages!Rest /\ l \in Pages!Created /\ n \in Pages!Created /\ l # n
    BY DEF Pages!Page, Pages!Rest
  <1>2. ~ Pages!Before(place[n], place[l])
    <2>1. SUFFICES ASSUME Pages!Before(place[n], place[l]) PROVE FALSE
      OBVIOUS
    <2>2. Position(n) < Position(l)
      BY <1>1, <2>1, PositionsGrow
    <2> QED BY <1>1, <2>2, Positions DEF Pages!QueueAssumption
  <1> QED BY <1>1, <1>2, CreatedOrder

LEMMA ReadKeeps ==
    ASSUME Pages!QueueAssumption, QueueIInv, Pages!ReadsPage
    PROVE  QueueIInv'
  <1>1. /\ place \in [Pages!Numbers -> Pages!Places \cup {Pages!Absent}] /\ listed \in [Pages!Numbers -> 0 .. 2]
        /\ cursor \in Pages!Places \cup {Pages!Start} /\ walking /\ steady \subseteq Pages!Numbers /\ pagesClock \in 0 .. MaxQueueTime
    BY DEF QueueIInv, Pages!TypeOK, Pages!ReadsPage
  <1>2. /\ UNCHANGED <<place, pagesClock, steady>> /\ Pages!Created' = Pages!Created
        /\ \A n \in Pages!Numbers : listed'[n] = IF n \in Pages!Page /\ listed[n] < 2 THEN listed[n] + 1 ELSE listed[n]
    BY DEF Pages!ReadsPage, Pages!Created
  <1>3. listed' \in [Pages!Numbers -> 0 .. 2]
    <2>1. \A n \in Pages!Numbers : listed'[n] \in 0 .. 2
      BY <1>1, <1>2
    <2> QED BY <2>1 DEF Pages!ReadsPage
  <1>4. ASSUME NEW n \in steady
        PROVE  listed[n] = Shown(n) /\ n \in Pages!Created /\ n \in Pages!Numbers /\ (n \in Pages!Rest <=> Pages!Follows(place[n]))
    BY DEF QueueIInv, Pages!Rest, Pages!Created
  <1>5. Pages!Page \subseteq Pages!Rest /\ Pages!Rest \subseteq Pages!Created
    BY DEF Pages!Page, Pages!Rest
  <1>6. CASE Pages!Rest \ Pages!Page = {}
    <2>1. walking' = FALSE /\ cursor' = cursor
      BY <1>6 DEF Pages!ReadsPage
    <2>2. ASSUME NEW n \in steady PROVE listed'[n] = 1
      BY <1>1, <1>2, <1>4, <1>5, <1>6 DEF Shown
    <2>3. Pages!TypeOK'
      BY <1>1, <1>2, <1>3, <2>1 DEF Pages!TypeOK
    <2>4. \A n \in steady' : listed'[n] = Shown(n)'
      BY <1>2, <2>1, <2>2 DEF Shown
    <2> QED BY <1>2, <2>3, <2>4 DEF QueueIInv
  <1>7. CASE Pages!Rest \ Pages!Page # {}
    <2>1. PICK l \in Pages!Page : cursor' = place[l] /\ \A m \in Pages!Page \ {l} : Pages!Before(place[m], place[l])
      <3>1. \E l \in Pages!Page : \A m \in Pages!Page \ {l} : Pages!Before(place[m], place[l])
        BY <1>7, PageEnds
      <3> QED BY <1>7, <3>1 DEF Pages!ReadsPage
    <2>2. walking' /\ l \in Pages!Created /\ l \in Pages!Rest /\ place[l] \in Pages!Places /\ cursor' \in Pages!Places /\ cursor' # Pages!Start
      BY <1>1, <1>5, <1>7, <2>1, CreatedPlaces, PlacesAre DEF Pages!ReadsPage
    <2>3. ASSUME NEW n \in steady
          PROVE  listed'[n] = IF Pages!Before(place[l], place[n]) THEN 0 ELSE 1
      <3>1. CASE n \in Pages!Page
        <4>1. listed'[n] = 1
          BY <1>1, <1>2, <1>4, <1>5, <3>1 DEF Shown
        <4>2. ~ Pages!Before(place[l], place[n])
          BY <1>4, <2>1, <2>2, <3>1, CreatedOrder
        <4> QED BY <4>1, <4>2
      <3>2. CASE n \in Pages!Rest \ Pages!Page
        <4>1. listed'[n] = 0 /\ Pages!Before(place[l], place[n])
          BY <1>1, <1>2, <1>4, <3>2, LeftOut DEF Shown
        <4> QED BY <4>1
      <3>3. CASE n \notin Pages!Rest
        <4>1. listed'[n] = 1
          BY <1>1, <1>2, <1>4, <1>5, <3>3 DEF Shown
        <4>2. cursor \in Pages!Places /\ ~ Pages!Before(cursor, place[n]) /\ Pages!Before(cursor, place[l])
          BY <1>1, <1>4, <2>2, <3>3 DEF Pages!Follows, Pages!Rest
        <4>3. place[n] \in Pages!Places
          BY <1>4, CreatedPlaces
        <4>4. ~ Pages!Before(place[l], place[n])
          BY <2>2, <4>2, <4>3, Order
        <4> QED BY <4>1, <4>4
      <3> QED BY <3>1, <3>2, <3>3
    <2>4. Pages!TypeOK'
      BY <1>1, <1>2, <1>3, <2>2 DEF Pages!TypeOK
    <2>5. \A n \in steady' : listed'[n] = Shown(n)'
      BY <1>2, <2>1, <2>2, <2>3 DEF Shown, Pages!Follows
    <2> QED BY <1>2, <2>4, <2>5 DEF QueueIInv
  <1> QED BY <1>6, <1>7

LEMMA StartKeeps ==
    ASSUME Pages!QueueAssumption, QueueIInv, Pages!StartsWalk
    PROVE  QueueIInv'
  <1>1. /\ place' = place /\ pagesClock' = pagesClock /\ walking' /\ cursor' = Pages!Start /\ steady' = Pages!Created
        /\ Pages!Created' = Pages!Created /\ listed' = [n \in Pages!Numbers |-> 0]
    BY DEF Pages!StartsWalk, Pages!Created
  <1>2. Pages!TypeOK'
    BY <1>1 DEF QueueIInv, Pages!TypeOK, Pages!Created
  <1>3. \A n \in steady' : listed'[n] = 0 /\ Shown(n)' = 0
    BY <1>1 DEF Shown, Pages!Follows, Pages!Created
  <1> QED BY <1>1, <1>2, <1>3 DEF QueueIInv

\* A write moves one ticket, which then no longer keeps still.
LEMMA QueueWriteKeeps ==
    ASSUME Pages!QueueAssumption, QueueIInv, NEW n \in Pages!Numbers, Pages!CreatesTicket(n) \/ Pages!ChangesTicket(n)
    PROVE  QueueIInv'
  <1>1. PICK p \in Pages!Places : place' = [place EXCEPT ![n] = p] /\ p[3] = n
    <2>1. pagesClock \in 0 .. MaxQueueTime
      BY DEF QueueIInv, Pages!TypeOK
    <2>2. Pages!Rank.new \in Pages!Ranks
      BY DEF Pages!Ranks, Pages!Rank
    <2>3. \A a \in Pages!Ranks : <<a, pagesClock, n>> \in Pages!Places /\ <<a, pagesClock, n>>[3] = n
      BY <2>1 DEF Pages!Places
    <2>4. \E a \in Pages!Ranks : place' = [place EXCEPT ![n] = <<a, pagesClock, n>>]
      BY <2>2 DEF Pages!CreatesTicket, Pages!ChangesTicket
    <2> QED BY <2>3, <2>4
  <1>2. steady' = steady \ {n} /\ UNCHANGED <<pagesClock, cursor, walking, listed>>
    BY DEF Pages!CreatesTicket, Pages!ChangesTicket, Pages!WritesTicket
  <1>3. p # Pages!Absent
    BY PlacesAre
  <1>4. place \in [Pages!Numbers -> Pages!Places \cup {Pages!Absent}]
    BY DEF QueueIInv, Pages!TypeOK
  <1>5. /\ place' \in [Pages!Numbers -> Pages!Places \cup {Pages!Absent}] /\ place'[n] = p
        /\ \A m \in Pages!Numbers : m # n => place'[m] = place[m]
    BY <1>1, <1>4
  <1>6. Pages!Created' = Pages!Created \cup {n}
    BY <1>3, <1>5 DEF Pages!Created
  <1>7. Pages!TypeOK'
    BY <1>2, <1>5 DEF QueueIInv, Pages!TypeOK
  <1>8. \A m \in Pages!Created' : place'[m][3] = m
    BY <1>1, <1>5, <1>6 DEF QueueIInv, Pages!Created
  <1>9. ASSUME NEW m \in steady' PROVE listed'[m] = Shown(m)'
    <2>1. m \in steady /\ place'[m] = place[m]
      BY <1>2, <1>5 DEF QueueIInv, Pages!TypeOK
    <2> QED BY <1>2, <2>1 DEF QueueIInv, Shown, Pages!Follows
  <1> QED BY <1>2, <1>6, <1>7, <1>8, <1>9 DEF QueueIInv

\* A ticket that keeps still while the queue is walked page by page is shown once, whatever
\* moves around it and however many tickets share a rank and an instant.
THEOREM WalkShowsSteadyTicketsOnce ==
    ASSUME Pages!QueueAssumption
    PROVE  Pages!Spec => [](Pages!TypeOK /\ Pages!SteadyTicketsAreShownOnce)
  <1>1. Pages!Init => QueueIInv
    <2>1. ASSUME Pages!Init PROVE Pages!Created = {} /\ Pages!TypeOK
      <3>1. 0 \in 0 .. MaxQueueTime /\ 0 \in 0 .. 2
        BY DEF Pages!QueueAssumption
      <3>2. Pages!Created = {}
        BY <2>1 DEF Pages!Init, Pages!Created
      <3> QED BY <2>1, <3>1, <3>2 DEF Pages!Init, Pages!TypeOK
    <2> QED BY <2>1 DEF Pages!Init, QueueIInv
  <1>2. QueueIInv /\ [Pages!Next]_(Pages!vars) => QueueIInv'
    <2>1. ASSUME QueueIInv, Pages!Tick PROVE QueueIInv'
      BY <2>1 DEF Pages!Tick, QueueIInv, Pages!TypeOK, Pages!Created, Shown, Pages!Follows,
         Pages!QueueAssumption
    <2>2. ASSUME QueueIInv, UNCHANGED Pages!vars PROVE QueueIInv'
      BY <2>2 DEF Pages!vars, QueueIInv, Pages!TypeOK, Pages!Created, Shown, Pages!Follows
    <2> QED BY <2>1, <2>2, ReadKeeps, StartKeeps, QueueWriteKeeps DEF Pages!Next
  <1>3. QueueIInv => Pages!TypeOK /\ Pages!SteadyTicketsAreShownOnce
    BY DEF QueueIInv, Shown, Pages!SteadyTicketsAreShownOnce
  <1> QED BY <1>1, <1>2, <1>3, PTL DEF Pages!Spec
-----------------------------------------------------------------------------
(* Billing notifications while households and links stay.                   *)

States == {"none", "queued", "sending", "sent", "done", "dead"}
NoticeStatuses == {"none", "pending", "sent", "skipped", "failed"}
Deliveries == [status : NoticeStatuses, chat : Chats \cup {Notices!NoChat}]
SendJobs == [state : States, attempts : 0 .. MaxAttempts, sees : Chats \cup {Notices!NoChat}]

\* What the delivery d of a person and its job j know of each other.
Matches(d, j) ==
    /\ d \in Deliveries /\ j \in SendJobs
    /\ j.state # "none" => d.status # "none"
    /\ j.state = "queued" => j.attempts < MaxAttempts
    /\ j.state \in {"sending", "sent"} => j.sees = d.chat /\ d.chat \in Chats
Received(d, j, received) ==
    /\ j.state = "sent" => received[d.chat] > 0
    /\ d.status = "sent" => d.chat \in Chats /\ received[d.chat] > 0
Around ==
    /\ payable \in BOOLEAN /\ household \subseteq People
    /\ chat \in [People -> Chats \cup {Notices!NoChat}] /\ messages \in [Chats -> 0 .. MaxSends]
NoticeIInv ==
    /\ Around
    /\ delivery \in [People -> Deliveries] /\ job \in [People -> SendJobs]
    /\ \A p \in People : Matches(delivery[p], job[p]) /\ Received(delivery[p], job[p], messages)

LEMMA OneMoves ==
    ASSUME NoticeIInv, NEW p \in People, NEW d, NEW j,
           delivery' = [delivery EXCEPT ![p] = d], job' = [job EXCEPT ![p] = j],
           Matches(d, j), Received(d, j, messages'), Around',
           \A c \in Chats : messages'[c] >= messages[c]
    PROVE  NoticeIInv'
  <1>1. delivery' \in [People -> Deliveries] /\ job' \in [People -> SendJobs]
    BY DEF NoticeIInv, Matches
  <1>2. ASSUME NEW q \in People
        PROVE  Matches(delivery'[q], job'[q]) /\ Received(delivery'[q], job'[q], messages')
    <2>1. CASE q = p
      BY <2>1 DEF NoticeIInv
    <2>2. CASE q # p
      <3>1. delivery'[q] = delivery[q] /\ job'[q] = job[q]
        BY <2>2 DEF NoticeIInv
      <3>2. Matches(delivery[q], job[q]) /\ Received(delivery[q], job[q], messages)
        BY DEF NoticeIInv
      <3>3. \A c \in Chats : messages'[c] \in Int /\ messages[c] \in Int
        BY DEF NoticeIInv, Around
      <3> QED BY <3>1, <3>2, <3>3 DEF Received, Matches
    <2> QED BY <2>1, <2>2
  <1> QED BY <1>1, <1>2 DEF NoticeIInv

LEMMA AnnouncedMatches ==
    ASSUME Notices!NotificationsAssumption, NoticeIInv, NEW p \in People
    PROVE  /\ Matches(Notices!AnnouncedRow(p), Notices!AnnouncedJob(p))
           /\ Received(Notices!AnnouncedRow(p), Notices!AnnouncedJob(p), messages)
  <1> DEFINE d == delivery[p]
             j == job[p]
  <1>1. /\ d \in Deliveries /\ j \in SendJobs /\ chat[p] \in Chats \cup {Notices!NoChat}
        /\ Matches(d, j) /\ Received(d, j, messages)
    BY DEF NoticeIInv, Around
  <1>2. Notices!AnnouncedRow(p) \in Deliveries /\ Notices!AnnouncedRow(p).status # "none"
    BY <1>1 DEF Notices!AnnouncedRow, Notices!Told, Deliveries, NoticeStatuses
  <1>3. d.status # "none" => Notices!AnnouncedRow(p).chat = d.chat
    BY <1>1 DEF Notices!AnnouncedRow, Deliveries
  <1>4. Notices!AnnouncedRow(p).status = "sent" => d.status = "sent" /\ Notices!AnnouncedRow(p).chat = d.chat
    BY <1>1 DEF Notices!AnnouncedRow, Deliveries
  <1>5. /\ Notices!AnnouncedJob(p) \in SendJobs
        /\ Notices!AnnouncedJob(p) = j \/ (Notices!AnnouncedJob(p).state = "queued" /\ Notices!AnnouncedJob(p).attempts = 0)
    BY <1>1 DEF Notices!AnnouncedJob, Notices!NoSendJob, SendJobs, States,
       Notices!NotificationsAssumption
  <1>6. 0 < MaxAttempts
    BY DEF Notices!NotificationsAssumption
  <1> HIDE DEF d, j
  <1> QED BY <1>1, <1>2, <1>3, <1>4, <1>5, <1>6 DEF Matches, Received

LEMMA AnnouncesKeep ==
    ASSUME Notices!NotificationsAssumption, NoticeIInv, Notices!Announces
    PROVE  NoticeIInv'
  <1>1. \A p \in People :
            /\ delivery'[p] = (IF p \in household THEN Notices!AnnouncedRow(p) ELSE delivery[p])
            /\ job'[p] = (IF p \in household THEN Notices!AnnouncedJob(p) ELSE job[p])
    BY DEF Notices!Announces
  <1>2. \A p \in People : Matches(delivery'[p], job'[p]) /\ Received(delivery'[p], job'[p], messages)
    BY <1>1, AnnouncedMatches DEF NoticeIInv
  <1>3. /\ delivery' = [p \in People |-> delivery'[p]] /\ job' = [p \in People |-> job'[p]]
    BY DEF Notices!Announces
  <1>4. delivery' \in [People -> Deliveries] /\ job' \in [People -> SendJobs]
    BY <1>2, <1>3 DEF Matches
  <1>5. Around' /\ messages' = messages
    BY DEF Notices!Announces, NoticeIInv, Around
  <1> QED BY <1>2, <1>4, <1>5 DEF NoticeIInv

\* A step of the job of one person.
LEMMA JobKeeps ==
    ASSUME Notices!NotificationsAssumption, NoticeIInv, NEW p \in People, Notices!JobSteps(p)
    PROVE  NoticeIInv'
  <1> DEFINE d == delivery[p]
             j == job[p]
  <1>1. /\ d \in Deliveries /\ j \in SendJobs
        /\ Matches(d, j) /\ Received(d, j, messages)
    BY DEF NoticeIInv
  <1>2. \A c \in Chats : messages[c] \in 0 .. MaxSends
    BY DEF NoticeIInv, Around
  <1>3. UNCHANGED messages => \A c \in Chats : messages'[c] >= messages[c]
    BY <1>2
  <1>4. UNCHANGED <<payable, household, chat, messages>> => Around'
    BY DEF Around, NoticeIInv
  <1>5. ASSUME NEW s \in NoticeStatuses, Notices!Ends(p, s)
        PROVE  /\ delivery' = [delivery EXCEPT ![p] = [d EXCEPT !.status = s]]
               /\ UNCHANGED <<payable, household, chat>>
    BY <1>5 DEF Notices!Ends, NoticeIInv
  <1>6. ASSUME NEW s \in NoticeStatuses
        PROVE  /\ [d EXCEPT !.status = s] \in Deliveries /\ [d EXCEPT !.status = s].status = s
               /\ [d EXCEPT !.status = s].chat = d.chat
    BY <1>1 DEF Deliveries
  <1>7. ASSUME NEW s \in States
        PROVE  /\ [j EXCEPT !.state = s] \in SendJobs /\ [j EXCEPT !.state = s].state = s
               /\ [j EXCEPT !.state = s].attempts = j.attempts /\ [j EXCEPT !.state = s].sees = j.sees
    BY <1>1 DEF SendJobs
  <1>8. delivery = [delivery EXCEPT ![p] = d]
    BY DEF NoticeIInv
  <1>9. /\ Notices!Again(p) \in {"queued", "dead"}
        /\ Notices!Again(p) = "queued" => j.attempts < MaxAttempts
        /\ Notices!Again(p) \in States
    BY DEF Notices!Again, States
  <1>10. CASE Notices!FindsSettled(p)
    <2>1. job' = [job EXCEPT ![p] = [j EXCEPT !.state = "done"]] /\ UNCHANGED <<payable, household, chat, messages, delivery>>
      BY <1>10 DEF Notices!FindsSettled, NoticeIInv
    <2>2. Matches(d, [j EXCEPT !.state = "done"]) /\ Received(d, [j EXCEPT !.state = "done"], messages')
      BY <1>1, <1>7, <1>10, <2>1 DEF Notices!FindsSettled, Matches, Received, States
    <2> HIDE DEF d, j
    <2> QED BY <2>1, <2>2, <1>3, <1>4, <1>8, OneMoves
  <1>11. CASE Notices!Skips(p)
    <2> DEFINE d2 == [d EXCEPT !.status = "skipped"]
               j2 == [j EXCEPT !.state = "done"]
    <2>1. /\ job' = [job EXCEPT ![p] = j2] /\ UNCHANGED messages /\ Notices!Ends(p, "skipped")
          /\ j.state = "queued" /\ d.status # "none"
      BY <1>11 DEF Notices!Skips, NoticeIInv
    <2>2. delivery' = [delivery EXCEPT ![p] = d2] /\ UNCHANGED <<payable, household, chat>>
      BY <2>1, <1>5 DEF NoticeStatuses
    <2>3. /\ d2 \in Deliveries /\ d2.status = "skipped" /\ d2.chat = d.chat
          /\ j2 \in SendJobs /\ j2.state = "done"
      BY <1>6, <1>7 DEF NoticeStatuses, States
    <2> HIDE DEF d2, j2
    <2>4. Matches(d2, j2) /\ Received(d2, j2, messages')
      BY <2>3 DEF Matches, Received
    <2> HIDE DEF d, j
    <2> QED BY <2>1, <2>2, <2>4, <1>3, <1>4, OneMoves
  <1>12. CASE Notices!Decides(p)
    <2> DEFINE j2 == [state |-> "sending", attempts |-> j.attempts + 1, sees |-> d.chat]
    <2>1. /\ job' = [job EXCEPT ![p] = j2] /\ UNCHANGED <<payable, household, chat, messages, delivery>>
          /\ j.state = "queued" /\ d.status \in {"pending", "failed"} /\ d.chat # Notices!NoChat
      BY <1>12 DEF Notices!Decides, NoticeIInv
    <2>2. j.attempts + 1 \in 0 .. MaxAttempts /\ d.chat \in Chats
      BY <1>1, <2>1 DEF Matches, SendJobs, Deliveries, Notices!NotificationsAssumption
    <2>3. j2 \in SendJobs /\ j2.state = "sending" /\ j2.sees = d.chat
      BY <2>2 DEF SendJobs, States
    <2> HIDE DEF j2
    <2>4. Matches(d, j2) /\ Received(d, j2, messages')
      BY <1>1, <2>1, <2>2, <2>3 DEF Matches, Received
    <2> HIDE DEF d, j
    <2> QED BY <2>1, <2>4, <1>3, <1>4, <1>8, OneMoves
  <1>13. CASE Notices!Sends(p)
    <2> DEFINE c == d.chat
               j2 == [j EXCEPT !.state = "sent"]
    <2>1. /\ job' = [job EXCEPT ![p] = j2] /\ UNCHANGED <<payable, household, chat, delivery>>
          /\ j.state = "sending"
      BY <1>13 DEF Notices!Sends, NoticeIInv
    <2>2. j.sees = c /\ c \in Chats
      BY <1>1, <2>1 DEF Matches
    <2>3. messages[c] < MaxSends /\ messages' = [messages EXCEPT ![c] = @ + 1]
      BY <1>13, <2>2 DEF Notices!Sends
    <2> HIDE DEF c
    <2>4. /\ \A x \in Chats : messages'[x] = IF x = c THEN messages[x] + 1 ELSE messages[x]
          /\ messages' = [x \in Chats |-> messages'[x]]
      BY <2>2, <2>3 DEF NoticeIInv, Around
    <2>5. \A x \in Chats : messages'[x] \in 0 .. MaxSends /\ messages'[x] >= messages[x]
      BY <1>2, <2>3, <2>4 DEF Notices!NotificationsAssumption
    <2>6. messages'[c] > 0
      BY <1>2, <2>2, <2>4
    <2>7. messages' \in [Chats -> 0 .. MaxSends]
      BY <2>4, <2>5
    <2>8. Around'
      BY <2>1, <2>7 DEF NoticeIInv, Around
    <2>9. j2 \in SendJobs /\ j2.state = "sent" /\ j2.sees = j.sees
      BY <1>7 DEF States
    <2> HIDE DEF j2
    <2>10. Matches(d, j2)
      BY <1>1, <2>1, <2>2, <2>9 DEF Matches, c
    <2>11. Received(d, j2, messages')
      BY <2>2, <2>6 DEF Received, c
    <2> HIDE DEF d, j
    <2> QED BY <2>1, <2>5, <2>8, <2>10, <2>11, <1>8, OneMoves
  <1>14. CASE Notices!Fails(p)
    <2> DEFINE d2 == [d EXCEPT !.status = "failed"]
               j2 == [j EXCEPT !.state = Notices!Again(p)]
    <2>1. /\ job' = [job EXCEPT ![p] = j2] /\ UNCHANGED messages /\ Notices!Ends(p, "failed")
      BY <1>14 DEF Notices!Fails, NoticeIInv
    <2>2. delivery' = [delivery EXCEPT ![p] = d2] /\ UNCHANGED <<payable, household, chat>>
      BY <2>1, <1>5 DEF NoticeStatuses
    <2>3. /\ d2 \in Deliveries /\ d2.status = "failed" /\ d2.chat = d.chat
          /\ j2 \in SendJobs /\ j2.state = Notices!Again(p) /\ j2.attempts = j.attempts
      BY <1>6, <1>7, <1>9 DEF NoticeStatuses
    <2> HIDE DEF d2, j2
    <2>4. Matches(d2, j2) /\ Received(d2, j2, messages')
      BY <1>9, <2>3 DEF Matches, Received
    <2> HIDE DEF d, j
    <2> QED BY <2>1, <2>2, <2>4, <1>3, <1>4, OneMoves
  <1>15. CASE Notices!Records(p)
    <2> DEFINE d2 == [d EXCEPT !.status = "sent"]
               j2 == [j EXCEPT !.state = "done"]
    <2>1. /\ job' = [job EXCEPT ![p] = j2] /\ UNCHANGED messages /\ Notices!Ends(p, "sent")
          /\ j.state = "sent"
      BY <1>15 DEF Notices!Records, NoticeIInv
    <2>2. delivery' = [delivery EXCEPT ![p] = d2] /\ UNCHANGED <<payable, household, chat>>
      BY <2>1, <1>5 DEF NoticeStatuses
    <2>3. /\ d2 \in Deliveries /\ d2.status = "sent" /\ d2.chat = d.chat
          /\ j2 \in SendJobs /\ j2.state = "done"
      BY <1>6, <1>7 DEF NoticeStatuses, States
    <2> HIDE DEF d2, j2
    <2>4. Matches(d2, j2) /\ Received(d2, j2, messages')
      BY <1>1, <2>1, <2>3 DEF Matches, Received
    <2> HIDE DEF d, j
    <2> QED BY <2>1, <2>2, <2>4, <1>3, <1>4, OneMoves
  <1>16. CASE Notices!Crashes(p)
    <2> DEFINE j2 == [j EXCEPT !.state = Notices!Again(p)]
    <2>1. /\ job' = [job EXCEPT ![p] = j2] /\ UNCHANGED <<payable, household, chat, messages, delivery>>
          /\ j.state \in {"sending", "sent"}
      BY <1>16 DEF Notices!Crashes, NoticeIInv
    <2>2. j2 \in SendJobs /\ j2.state = Notices!Again(p) /\ j2.attempts = j.attempts
      BY <1>7, <1>9
    <2> HIDE DEF j2
    <2>3. Matches(d, j2) /\ Received(d, j2, messages')
      BY <1>1, <1>9, <2>1, <2>2 DEF Matches, Received
    <2> HIDE DEF d, j
    <2> QED BY <2>1, <2>3, <1>3, <1>4, <1>8, OneMoves
  <1> QED BY <1>10, <1>11, <1>12, <1>13, <1>14, <1>15, <1>16 DEF Notices!JobSteps

LEMMA AroundKeeps ==
    ASSUME NoticeIInv, Notices!InvoiceIsPaid \/ (\E p \in People : Notices!HouseholdChanges(p) \/ Notices!LinkChanges(p))
    PROVE  NoticeIInv'
  <1>1. UNCHANGED <<delivery, job, messages>>
    BY DEF Notices!InvoiceIsPaid, Notices!HouseholdChanges, Notices!LinkChanges
  <1>2. CASE Notices!InvoiceIsPaid
    BY <1>1, <1>2 DEF Notices!InvoiceIsPaid, NoticeIInv, Around
  <1>3. ASSUME NEW p \in People, Notices!HouseholdChanges(p)
        PROVE  NoticeIInv'
    BY <1>1, <1>3 DEF Notices!HouseholdChanges, NoticeIInv, Around
  <1>4. ASSUME NEW p \in People, Notices!LinkChanges(p)
        PROVE  NoticeIInv'
    <2>1. chat' \in [People -> Chats \cup {Notices!NoChat}] /\ UNCHANGED <<payable, household>>
      BY <1>4 DEF Notices!LinkChanges, NoticeIInv, Around
    <2> QED BY <1>1, <2>1 DEF NoticeIInv, Around
  <1> QED BY <1>2, <1>3, <1>4

LEMMA Start ==
    ASSUME Notices!NotificationsAssumption, Notices!Init
    PROVE  NoticeIInv
  <1>1. 0 \in 0 .. MaxAttempts /\ 0 \in 0 .. MaxSends
    BY DEF Notices!NotificationsAssumption
  <1>2. Notices!NoDelivery \in Deliveries /\ Notices!NoSendJob \in SendJobs
    BY <1>1 DEF Notices!NoDelivery, Notices!NoSendJob, Deliveries, SendJobs, NoticeStatuses,
       States
  <1>3. Matches(Notices!NoDelivery, Notices!NoSendJob) /\ Received(Notices!NoDelivery, Notices!NoSendJob, messages)
    BY <1>2 DEF Matches, Received, Notices!NoDelivery, Notices!NoSendJob
  <1>4. Around
    BY <1>1 DEF Notices!Init, Around
  <1> QED BY <1>2, <1>3, <1>4 DEF Notices!Init, NoticeIInv

LEMMA NoticeInvariance ==
    ASSUME Notices!NotificationsAssumption
    PROVE  Notices!Spec => []NoticeIInv
  <1>1. Notices!Init => NoticeIInv
    BY Start
  <1>2. NoticeIInv /\ [Notices!Next]_(Notices!vars) => NoticeIInv'
    <2>1. ASSUME NoticeIInv, Notices!Next PROVE NoticeIInv'
      BY <2>1, AnnouncesKeep, AroundKeeps, JobKeeps DEF Notices!Next
    <2>2. ASSUME NoticeIInv, UNCHANGED Notices!vars PROVE NoticeIInv'
      BY <2>2 DEF Notices!vars, NoticeIInv, Around
    <2> QED BY <2>1, <2>2
  <1> QED BY <1>1, <1>2, PTL DEF Notices!Spec

\* A person who has a job was the first of the household with its Telegram user, which
\* received a message only if the job of that person says so.
IsSent(p, c) == job[p].state \in {"sent", "done"} /\ chat[p] = c
Single ==
    /\ \A p \in People : delivery[p].status # "none" => delivery[p].chat = chat[p]
    /\ \A p \in People : job[p].state # "none" => p \in household /\ Notices!Told(p)
    /\ \A c \in Chats :
        messages[c] = 0 \/ (messages[c] = 1 /\ \E p \in People : IsSent(p, c))
Fixed == UNCHANGED <<household, chat>>

LEMMA OneEach ==
    ASSUME Notices!NotificationsAssumption, NoticeIInv, Single, NEW p \in People, NEW q \in People,
           job[p].state # "none", job[q].state # "none", chat[p] = chat[q]
    PROVE  p = q
  <1>1. p \in household /\ q \in household /\ Notices!Earlier(p) = {} /\ Notices!Earlier(q) = {}
    BY DEF Single, Notices!Told
  <1>2. p \in Nat /\ q \in Nat
    BY DEF Notices!NotificationsAssumption
  <1>3. ~ q < p /\ ~ p < q
    BY <1>1 DEF Notices!Earlier
  <1> QED BY <1>2, <1>3

LEMMA StaysSingle ==
    ASSUME Notices!NotificationsAssumption, NoticeIInv, Single, Fixed, UNCHANGED messages,
           \A p \in People : delivery'[p].status # "none" => delivery'[p].chat = chat[p],
           \A p \in People : job'[p].state # "none" => p \in household /\ Notices!Told(p),
           \A p \in People : job[p].state \in {"sent", "done"} => job'[p].state \in {"sent",
           "done"}
    PROVE  Single'
  <1>1. \A p \in People : Notices!Told(p)' <=> Notices!Told(p)
    BY DEF Notices!Told, Notices!Earlier, Fixed
  <1>2. \A p \in People, c \in Chats : IsSent(p, c) => IsSent(p, c)'
    BY DEF IsSent, Fixed
  <1>3. \A c \in Chats : messages'[c] = messages[c]
    OBVIOUS
  <1>4. \A p \in People : job'[p].state # "none" => p \in household' /\ Notices!Told(p)'
    BY <1>1 DEF Fixed
  <1>5. \A p \in People : delivery'[p].status # "none" => delivery'[p].chat = chat'[p]
    BY DEF Fixed
  <1>6. \A c \in Chats : messages'[c] = 0 \/ (messages'[c] = 1 /\ \E p \in People : IsSent(p, c)')
    BY <1>2, <1>3 DEF Single
  <1> QED BY <1>4, <1>5, <1>6 DEF Single

LEMMA AnnouncesSingle ==
    ASSUME Notices!NotificationsAssumption, NoticeIInv, Single, Notices!Announces
    PROVE  Single'
  <1>1. \A p \in People :
            /\ delivery'[p] = (IF p \in household THEN Notices!AnnouncedRow(p) ELSE delivery[p])
            /\ job'[p] = (IF p \in household THEN Notices!AnnouncedJob(p) ELSE job[p])
    BY DEF Notices!Announces
  <1>2. UNCHANGED messages /\ Fixed
    BY DEF Notices!Announces, Fixed
  <1>3. ASSUME NEW p \in People
        PROVE  delivery'[p].status # "none" => delivery'[p].chat = chat[p]
    <2>1. delivery[p] \in Deliveries /\ (delivery[p].status # "none" => delivery[p].chat = chat[p])
      BY DEF NoticeIInv, Single
    <2>2. Notices!AnnouncedRow(p).chat = chat[p]
      BY <2>1 DEF Notices!AnnouncedRow, Deliveries
    <2> QED BY <1>1, <2>1, <2>2
  <1>4. ASSUME NEW p \in People
        PROVE  /\ job'[p].state # "none" => p \in household /\ Notices!Told(p)
               /\ job[p].state \in {"sent", "done"} => job'[p].state \in {"sent", "done"}
    <2>1. job[p].state # "none" => p \in household /\ Notices!Told(p)
      BY DEF Single
    <2>2. Notices!AnnouncedJob(p) = job[p] \/ (Notices!Told(p) /\ job[p].state = "none")
      BY DEF Notices!AnnouncedJob
    <2> QED BY <1>1, <2>1, <2>2
  <1> QED BY <1>2, <1>3, <1>4, StaysSingle

LEMMA JobSingle ==
    ASSUME Notices!NotificationsAssumption, NoticeIInv, Single, NEW p \in People, Notices!JobSteps(p)
    PROVE  Single'
  <1>1. /\ delivery[p] \in Deliveries /\ job[p] \in SendJobs
        /\ Matches(delivery[p], job[p])
        /\ delivery \in [People -> Deliveries] /\ job \in [People -> SendJobs]
    BY DEF NoticeIInv
  <1>2. Fixed
    BY DEF Fixed, Notices!JobSteps, Notices!FindsSettled, Notices!Skips, Notices!Decides,
       Notices!Sends, Notices!Fails, Notices!Records, Notices!Crashes, Notices!Ends
  <1>3. /\ job[p].state # "none"
        /\ \A q \in People : q # p => job'[q] = job[q] /\ delivery'[q] = delivery[q]
        /\ \A q \in People : delivery'[q].chat = delivery[q].chat
    <2>1. CASE Notices!FindsSettled(p)
      BY <1>1, <2>1 DEF Notices!FindsSettled
    <2>2. CASE Notices!Skips(p)
      BY <1>1, <2>2 DEF Notices!Skips, Notices!Ends, Deliveries
    <2>3. CASE Notices!Decides(p)
      BY <1>1, <2>3 DEF Notices!Decides
    <2>4. CASE Notices!Sends(p)
      BY <1>1, <2>4 DEF Notices!Sends
    <2>5. CASE Notices!Fails(p)
      BY <1>1, <2>5 DEF Notices!Fails, Notices!Ends, Deliveries
    <2>6. CASE Notices!Records(p)
      BY <1>1, <2>6 DEF Notices!Records, Notices!Ends, Deliveries
    <2>7. CASE Notices!Crashes(p)
      BY <2>7 DEF Notices!Crashes
    <2> QED BY <2>1, <2>2, <2>3, <2>4, <2>5, <2>6, <2>7 DEF Notices!JobSteps
  <1>4. p \in household /\ Notices!Told(p) /\ delivery[p].chat = chat[p]
    BY <1>1, <1>3 DEF Single, Matches
  <1>5. /\ \A q \in People : delivery'[q].status # "none" => delivery'[q].chat = chat[q]
        /\ \A q \in People : job'[q].state # "none" => q \in household /\ Notices!Told(q)
    BY <1>3, <1>4 DEF Single
  <1>6. CASE ~ Notices!Sends(p)
    <2>1. UNCHANGED messages
      BY <1>6 DEF Notices!JobSteps, Notices!FindsSettled, Notices!Skips, Notices!Decides,
         Notices!Fails, Notices!Records, Notices!Crashes
    <2>2. job[p].state \in {"sent", "done"} => job'[p].state \in {"sent", "done"}
      <3>1. Notices!FindsSettled(p) \/ Notices!Records(p) => job'[p].state = "done"
        BY <1>1 DEF Notices!FindsSettled, Notices!Records, SendJobs
      <3>2. Notices!Skips(p) \/ Notices!Decides(p) \/ Notices!Fails(p) => job[p].state \in {"queued", "sending"}
        BY DEF Notices!Skips, Notices!Decides, Notices!Fails
      <3> QED BY <1>6, <3>1, <3>2 DEF Notices!JobSteps, Notices!Crashes
    <2> QED BY <1>2, <1>3, <1>5, <2>1, <2>2, StaysSingle
  <1>7. CASE Notices!Sends(p)
    <2>1. PICK c \in Chats : c = chat[p] /\ job[p].sees = c /\ job[p].state = "sending"
      BY <1>1, <1>4, <1>7 DEF Notices!Sends, Matches
    <2>2. job'[p].state = "sent" /\ messages' = [messages EXCEPT ![c] = @ + 1]
      BY <1>1, <1>7, <2>1 DEF Notices!Sends, SendJobs
    <2>3. ~ \E q \in People : IsSent(q, c)
      <3>1. ASSUME NEW q \in People, IsSent(q, c) PROVE q = p
        BY <1>3, <2>1, <3>1, OneEach DEF IsSent
      <3> QED BY <2>1, <3>1 DEF IsSent
    <2>4. messages[c] = 0
      BY <2>1, <2>3 DEF Single
    <2>5. IsSent(p, c)'
      BY <1>2, <2>1, <2>2 DEF IsSent, Fixed
    <2>6. messages'[c] = 1 /\ \A x \in Chats : x # c => messages'[x] = messages[x]
      BY <2>1, <2>2, <2>4 DEF NoticeIInv, Around
    <2>7. \A x \in Chats, q \in People : x # c /\ IsSent(q, x) => IsSent(q, x)'
      BY <1>2, <1>3, <2>1 DEF IsSent, Fixed
    <2>8. \A x \in Chats : messages'[x] = 0 \/ (messages'[x] = 1 /\ \E q \in People : IsSent(q, x)')
      BY <2>1, <2>5, <2>6, <2>7 DEF Single
    <2>9. \A q \in People : (Notices!Told(q)' <=> Notices!Told(q)) /\ chat'[q] = chat[q]
      BY <1>2 DEF Notices!Told, Notices!Earlier, Fixed
    <2>10. household' = household
      BY <1>2 DEF Fixed
    <2> QED BY <1>5, <2>8, <2>9, <2>10 DEF Single
  <1> QED BY <1>6, <1>7

\* A Telegram user gets one message of a stage, for any household and any number of
\* announcements and retries.
THEOREM ToldOnce ==
    ASSUME Notices!NotificationsAssumption
    PROVE  Notices!Spec => [](Notices!TypeOK /\ Notices!OneMessageEach)
  <1>1. Notices!Init => Single
    BY DEF Notices!Init, Single, Notices!NoDelivery, Notices!NoSendJob
  <1>2. NoticeIInv /\ Single /\ [Notices!Next]_(Notices!vars) => Single'
    <2>1. ASSUME NoticeIInv, Single, Notices!InvoiceIsPaid \/ UNCHANGED Notices!vars PROVE Single'
      <3>1. Fixed /\ UNCHANGED <<messages, delivery, job>>
        BY <2>1 DEF Notices!InvoiceIsPaid, Notices!vars, Fixed
      <3>2. \A p \in People : delivery'[p].status # "none" => delivery'[p].chat = chat[p]
        BY <2>1, <3>1 DEF Single
      <3>3. \A p \in People : job'[p].state # "none" => p \in household /\ Notices!Told(p)
        BY <2>1, <3>1 DEF Single
      <3> QED BY <2>1, <3>1, <3>2, <3>3, StaysSingle
    <2> QED BY <2>1, AnnouncesSingle, JobSingle DEF Notices!Next, Notices!HouseholdChanges,
         Notices!LinkChanges
  <1>3. NoticeIInv /\ Single => Notices!TypeOK /\ Notices!OneMessageEach
    BY DEF NoticeIInv, Around, Notices!TypeOK, Single, Notices!OneMessageEach, Deliveries,
       SendJobs, States, NoticeStatuses
  <1> QED BY <1>1, <1>2, <1>3, NoticeInvariance, PTL DEF Notices!Spec
-----------------------------------------------------------------------------
(* Billing notifications when households and links change and workers crash. *)

MoveStates == {"none", "queued", "sending", "sent", "done", "dead"}
MoveStatuses == {"none", "pending", "sent", "skipped", "failed"}
MoveDeliveries == [status : MoveStatuses, chat : Chats \cup {Moves!NoChat}]
MoveSendJobs == [state : MoveStates, attempts : 0 .. MaxAttempts, sees : Chats \cup {Moves!NoChat}]

\* What the delivery d of a person and its job j know of each other.
MoveMatches(d, j) ==
    /\ d \in MoveDeliveries /\ j \in MoveSendJobs
    /\ j.state # "none" => d.status # "none"
    /\ j.state = "queued" => j.attempts < MaxAttempts
    /\ j.state \in {"sending", "sent"} => j.sees = d.chat /\ d.chat \in Chats
MoveReceived(d, j, received) ==
    /\ j.state = "sent" => received[d.chat] > 0
    /\ d.status = "sent" => d.chat \in Chats /\ received[d.chat] > 0
MoveAround ==
    /\ movesPayable \in BOOLEAN /\ movesHousehold \subseteq TwoPeople
    /\ movesChat \in [TwoPeople -> Chats \cup {Moves!NoChat}] /\ movesMessages \in [Chats -> 0 .. MaxSends]
MoveIInv ==
    /\ MoveAround
    /\ movesDelivery \in [TwoPeople -> MoveDeliveries] /\ movesJob \in [TwoPeople -> MoveSendJobs]
    /\ \A p \in TwoPeople : MoveMatches(movesDelivery[p], movesJob[p]) /\ MoveReceived(movesDelivery[p], movesJob[p], movesMessages)

LEMMA MoveOneMoves ==
    ASSUME MoveIInv, NEW p \in TwoPeople, NEW d, NEW j,
           movesDelivery' = [movesDelivery EXCEPT ![p] = d], movesJob' = [movesJob EXCEPT ![p] =
           j],
           MoveMatches(d, j), MoveReceived(d, j, movesMessages'), MoveAround',
           \A c \in Chats : movesMessages'[c] >= movesMessages[c]
    PROVE  MoveIInv'
  <1>1. movesDelivery' \in [TwoPeople -> MoveDeliveries] /\ movesJob' \in [TwoPeople -> MoveSendJobs]
    BY DEF MoveIInv, MoveMatches
  <1>2. ASSUME NEW q \in TwoPeople
        PROVE  MoveMatches(movesDelivery'[q], movesJob'[q]) /\ MoveReceived(movesDelivery'[q], movesJob'[q], movesMessages')
    <2>1. CASE q = p
      BY <2>1 DEF MoveIInv
    <2>2. CASE q # p
      <3>1. movesDelivery'[q] = movesDelivery[q] /\ movesJob'[q] = movesJob[q]
        BY <2>2 DEF MoveIInv
      <3>2. MoveMatches(movesDelivery[q], movesJob[q]) /\ MoveReceived(movesDelivery[q], movesJob[q], movesMessages)
        BY DEF MoveIInv
      <3>3. \A c \in Chats : movesMessages'[c] \in Int /\ movesMessages[c] \in Int
        BY DEF MoveIInv, MoveAround
      <3> QED BY <3>1, <3>2, <3>3 DEF MoveReceived, MoveMatches
    <2> QED BY <2>1, <2>2
  <1> QED BY <1>1, <1>2 DEF MoveIInv

LEMMA MoveAnnouncedMatches ==
    ASSUME Moves!NotificationsAssumption, MoveIInv, NEW p \in TwoPeople
    PROVE  /\ MoveMatches(Moves!AnnouncedRow(p), Moves!AnnouncedJob(p))
           /\ MoveReceived(Moves!AnnouncedRow(p), Moves!AnnouncedJob(p), movesMessages)
  <1> DEFINE d == movesDelivery[p]
             j == movesJob[p]
  <1>1. /\ d \in MoveDeliveries /\ j \in MoveSendJobs /\ movesChat[p] \in Chats \cup {Moves!NoChat}
        /\ MoveMatches(d, j) /\ MoveReceived(d, j, movesMessages)
    BY DEF MoveIInv, MoveAround
  <1>2. Moves!AnnouncedRow(p) \in MoveDeliveries /\ Moves!AnnouncedRow(p).status # "none"
    BY <1>1 DEF Moves!AnnouncedRow, Moves!Told, MoveDeliveries, MoveStatuses
  <1>3. d.status # "none" => Moves!AnnouncedRow(p).chat = d.chat
    BY <1>1 DEF Moves!AnnouncedRow, MoveDeliveries
  <1>4. Moves!AnnouncedRow(p).status = "sent" => d.status = "sent" /\ Moves!AnnouncedRow(p).chat = d.chat
    BY <1>1 DEF Moves!AnnouncedRow, MoveDeliveries
  <1>5. /\ Moves!AnnouncedJob(p) \in MoveSendJobs
        /\ Moves!AnnouncedJob(p) = j \/ (Moves!AnnouncedJob(p).state = "queued" /\ Moves!AnnouncedJob(p).attempts = 0)
    BY <1>1 DEF Moves!AnnouncedJob, Moves!NoSendJob, MoveSendJobs, MoveStates,
       Moves!NotificationsAssumption
  <1>6. 0 < MaxAttempts
    BY DEF Moves!NotificationsAssumption
  <1> HIDE DEF d, j
  <1> QED BY <1>1, <1>2, <1>3, <1>4, <1>5, <1>6 DEF MoveMatches, MoveReceived

LEMMA MoveAnnouncesKeep ==
    ASSUME Moves!NotificationsAssumption, MoveIInv, Moves!Announces
    PROVE  MoveIInv'
  <1>1. \A p \in TwoPeople :
            /\ movesDelivery'[p] = (IF p \in movesHousehold THEN Moves!AnnouncedRow(p) ELSE movesDelivery[p])
            /\ movesJob'[p] = (IF p \in movesHousehold THEN Moves!AnnouncedJob(p) ELSE movesJob[p])
    BY DEF Moves!Announces
  <1>2. \A p \in TwoPeople : MoveMatches(movesDelivery'[p], movesJob'[p]) /\ MoveReceived(movesDelivery'[p], movesJob'[p], movesMessages)
    BY <1>1, MoveAnnouncedMatches DEF MoveIInv
  <1>3. /\ movesDelivery' = [p \in TwoPeople |-> movesDelivery'[p]] /\ movesJob' = [p \in TwoPeople |-> movesJob'[p]]
    BY DEF Moves!Announces
  <1>4. movesDelivery' \in [TwoPeople -> MoveDeliveries] /\ movesJob' \in [TwoPeople -> MoveSendJobs]
    BY <1>2, <1>3 DEF MoveMatches
  <1>5. MoveAround' /\ movesMessages' = movesMessages
    BY DEF Moves!Announces, MoveIInv, MoveAround
  <1> QED BY <1>2, <1>4, <1>5 DEF MoveIInv

\* A step of the job of one person.
LEMMA MoveJobKeeps ==
    ASSUME Moves!NotificationsAssumption, MoveIInv, NEW p \in TwoPeople, Moves!JobSteps(p)
    PROVE  MoveIInv'
  <1> DEFINE d == movesDelivery[p]
             j == movesJob[p]
  <1>1. /\ d \in MoveDeliveries /\ j \in MoveSendJobs
        /\ MoveMatches(d, j) /\ MoveReceived(d, j, movesMessages)
    BY DEF MoveIInv
  <1>2. \A c \in Chats : movesMessages[c] \in 0 .. MaxSends
    BY DEF MoveIInv, MoveAround
  <1>3. UNCHANGED movesMessages => \A c \in Chats : movesMessages'[c] >= movesMessages[c]
    BY <1>2
  <1>4. UNCHANGED <<movesPayable, movesHousehold, movesChat, movesMessages>> => MoveAround'
    BY DEF MoveAround, MoveIInv
  <1>5. ASSUME NEW s \in MoveStatuses, Moves!Ends(p, s)
        PROVE  /\ movesDelivery' = [movesDelivery EXCEPT ![p] = [d EXCEPT !.status = s]]
               /\ UNCHANGED <<movesPayable, movesHousehold, movesChat>>
    BY <1>5 DEF Moves!Ends, MoveIInv
  <1>6. ASSUME NEW s \in MoveStatuses
        PROVE  /\ [d EXCEPT !.status = s] \in MoveDeliveries /\ [d EXCEPT !.status = s].status = s
               /\ [d EXCEPT !.status = s].chat = d.chat
    BY <1>1 DEF MoveDeliveries
  <1>7. ASSUME NEW s \in MoveStates
        PROVE  /\ [j EXCEPT !.state = s] \in MoveSendJobs /\ [j EXCEPT !.state = s].state = s
               /\ [j EXCEPT !.state = s].attempts = j.attempts /\ [j EXCEPT !.state = s].sees = j.sees
    BY <1>1 DEF MoveSendJobs
  <1>8. movesDelivery = [movesDelivery EXCEPT ![p] = d]
    BY DEF MoveIInv
  <1>9. /\ Moves!Again(p) \in {"queued", "dead"}
        /\ Moves!Again(p) = "queued" => j.attempts < MaxAttempts
        /\ Moves!Again(p) \in MoveStates
    BY DEF Moves!Again, MoveStates
  <1>10. CASE Moves!FindsSettled(p)
    <2>1. movesJob' = [movesJob EXCEPT ![p] = [j EXCEPT !.state = "done"]] /\ UNCHANGED <<movesPayable, movesHousehold, movesChat, movesMessages, movesDelivery>>
      BY <1>10 DEF Moves!FindsSettled, MoveIInv
    <2>2. MoveMatches(d, [j EXCEPT !.state = "done"]) /\ MoveReceived(d, [j EXCEPT !.state = "done"], movesMessages')
      BY <1>1, <1>7, <1>10, <2>1 DEF Moves!FindsSettled, MoveMatches, MoveReceived, MoveStates
    <2> HIDE DEF d, j
    <2> QED BY <2>1, <2>2, <1>3, <1>4, <1>8, MoveOneMoves
  <1>11. CASE Moves!Skips(p)
    <2> DEFINE d2 == [d EXCEPT !.status = "skipped"]
               j2 == [j EXCEPT !.state = "done"]
    <2>1. /\ movesJob' = [movesJob EXCEPT ![p] = j2] /\ UNCHANGED movesMessages /\ Moves!Ends(p, "skipped")
          /\ j.state = "queued" /\ d.status # "none"
      BY <1>11 DEF Moves!Skips, MoveIInv
    <2>2. movesDelivery' = [movesDelivery EXCEPT ![p] = d2] /\ UNCHANGED <<movesPayable, movesHousehold, movesChat>>
      BY <2>1, <1>5 DEF MoveStatuses
    <2>3. /\ d2 \in MoveDeliveries /\ d2.status = "skipped" /\ d2.chat = d.chat
          /\ j2 \in MoveSendJobs /\ j2.state = "done"
      BY <1>6, <1>7 DEF MoveStatuses, MoveStates
    <2> HIDE DEF d2, j2
    <2>4. MoveMatches(d2, j2) /\ MoveReceived(d2, j2, movesMessages')
      BY <2>3 DEF MoveMatches, MoveReceived
    <2> HIDE DEF d, j
    <2> QED BY <2>1, <2>2, <2>4, <1>3, <1>4, MoveOneMoves
  <1>12. CASE Moves!Decides(p)
    <2> DEFINE j2 == [state |-> "sending", attempts |-> j.attempts + 1, sees |-> d.chat]
    <2>1. /\ movesJob' = [movesJob EXCEPT ![p] = j2] /\ UNCHANGED <<movesPayable, movesHousehold, movesChat, movesMessages, movesDelivery>>
          /\ j.state = "queued" /\ d.status \in {"pending", "failed"} /\ d.chat # Moves!NoChat
      BY <1>12 DEF Moves!Decides, MoveIInv
    <2>2. j.attempts + 1 \in 0 .. MaxAttempts /\ d.chat \in Chats
      BY <1>1, <2>1 DEF MoveMatches, MoveSendJobs, MoveDeliveries, Moves!NotificationsAssumption
    <2>3. j2 \in MoveSendJobs /\ j2.state = "sending" /\ j2.sees = d.chat
      BY <2>2 DEF MoveSendJobs, MoveStates
    <2> HIDE DEF j2
    <2>4. MoveMatches(d, j2) /\ MoveReceived(d, j2, movesMessages')
      BY <1>1, <2>1, <2>2, <2>3 DEF MoveMatches, MoveReceived
    <2> HIDE DEF d, j
    <2> QED BY <2>1, <2>4, <1>3, <1>4, <1>8, MoveOneMoves
  <1>13. CASE Moves!Sends(p)
    <2> DEFINE c == d.chat
               j2 == [j EXCEPT !.state = "sent"]
    <2>1. /\ movesJob' = [movesJob EXCEPT ![p] = j2] /\ UNCHANGED <<movesPayable, movesHousehold, movesChat, movesDelivery>>
          /\ j.state = "sending"
      BY <1>13 DEF Moves!Sends, MoveIInv
    <2>2. j.sees = c /\ c \in Chats
      BY <1>1, <2>1 DEF MoveMatches
    <2>3. movesMessages[c] < MaxSends /\ movesMessages' = [movesMessages EXCEPT ![c] = @ + 1]
      BY <1>13, <2>2 DEF Moves!Sends
    <2> HIDE DEF c
    <2>4. /\ \A x \in Chats : movesMessages'[x] = IF x = c THEN movesMessages[x] + 1 ELSE movesMessages[x]
          /\ movesMessages' = [x \in Chats |-> movesMessages'[x]]
      BY <2>2, <2>3 DEF MoveIInv, MoveAround
    <2>5. \A x \in Chats : movesMessages'[x] \in 0 .. MaxSends /\ movesMessages'[x] >= movesMessages[x]
      BY <1>2, <2>3, <2>4 DEF Moves!NotificationsAssumption
    <2>6. movesMessages'[c] > 0
      BY <1>2, <2>2, <2>4
    <2>7. movesMessages' \in [Chats -> 0 .. MaxSends]
      BY <2>4, <2>5
    <2>8. MoveAround'
      BY <2>1, <2>7 DEF MoveIInv, MoveAround
    <2>9. j2 \in MoveSendJobs /\ j2.state = "sent" /\ j2.sees = j.sees
      BY <1>7 DEF MoveStates
    <2> HIDE DEF j2
    <2>10. MoveMatches(d, j2)
      BY <1>1, <2>1, <2>2, <2>9 DEF MoveMatches, c
    <2>11. MoveReceived(d, j2, movesMessages')
      BY <2>2, <2>6 DEF MoveReceived, c
    <2> HIDE DEF d, j
    <2> QED BY <2>1, <2>5, <2>8, <2>10, <2>11, <1>8, MoveOneMoves
  <1>14. CASE Moves!Fails(p)
    <2> DEFINE d2 == [d EXCEPT !.status = "failed"]
               j2 == [j EXCEPT !.state = Moves!Again(p)]
    <2>1. /\ movesJob' = [movesJob EXCEPT ![p] = j2] /\ UNCHANGED movesMessages /\ Moves!Ends(p, "failed")
      BY <1>14 DEF Moves!Fails, MoveIInv
    <2>2. movesDelivery' = [movesDelivery EXCEPT ![p] = d2] /\ UNCHANGED <<movesPayable, movesHousehold, movesChat>>
      BY <2>1, <1>5 DEF MoveStatuses
    <2>3. /\ d2 \in MoveDeliveries /\ d2.status = "failed" /\ d2.chat = d.chat
          /\ j2 \in MoveSendJobs /\ j2.state = Moves!Again(p) /\ j2.attempts = j.attempts
      BY <1>6, <1>7, <1>9 DEF MoveStatuses
    <2> HIDE DEF d2, j2
    <2>4. MoveMatches(d2, j2) /\ MoveReceived(d2, j2, movesMessages')
      BY <1>9, <2>3 DEF MoveMatches, MoveReceived
    <2> HIDE DEF d, j
    <2> QED BY <2>1, <2>2, <2>4, <1>3, <1>4, MoveOneMoves
  <1>15. CASE Moves!Records(p)
    <2> DEFINE d2 == [d EXCEPT !.status = "sent"]
               j2 == [j EXCEPT !.state = "done"]
    <2>1. /\ movesJob' = [movesJob EXCEPT ![p] = j2] /\ UNCHANGED movesMessages /\ Moves!Ends(p, "sent")
          /\ j.state = "sent"
      BY <1>15 DEF Moves!Records, MoveIInv
    <2>2. movesDelivery' = [movesDelivery EXCEPT ![p] = d2] /\ UNCHANGED <<movesPayable, movesHousehold, movesChat>>
      BY <2>1, <1>5 DEF MoveStatuses
    <2>3. /\ d2 \in MoveDeliveries /\ d2.status = "sent" /\ d2.chat = d.chat
          /\ j2 \in MoveSendJobs /\ j2.state = "done"
      BY <1>6, <1>7 DEF MoveStatuses, MoveStates
    <2> HIDE DEF d2, j2
    <2>4. MoveMatches(d2, j2) /\ MoveReceived(d2, j2, movesMessages')
      BY <1>1, <2>1, <2>3 DEF MoveMatches, MoveReceived
    <2> HIDE DEF d, j
    <2> QED BY <2>1, <2>2, <2>4, <1>3, <1>4, MoveOneMoves
  <1>16. CASE Moves!Crashes(p)
    <2> DEFINE j2 == [j EXCEPT !.state = Moves!Again(p)]
    <2>1. /\ movesJob' = [movesJob EXCEPT ![p] = j2] /\ UNCHANGED <<movesPayable, movesHousehold, movesChat, movesMessages, movesDelivery>>
          /\ j.state \in {"sending", "sent"}
      BY <1>16 DEF Moves!Crashes, MoveIInv
    <2>2. j2 \in MoveSendJobs /\ j2.state = Moves!Again(p) /\ j2.attempts = j.attempts
      BY <1>7, <1>9
    <2> HIDE DEF j2
    <2>3. MoveMatches(d, j2) /\ MoveReceived(d, j2, movesMessages')
      BY <1>1, <1>9, <2>1, <2>2 DEF MoveMatches, MoveReceived
    <2> HIDE DEF d, j
    <2> QED BY <2>1, <2>3, <1>3, <1>4, <1>8, MoveOneMoves
  <1> QED BY <1>10, <1>11, <1>12, <1>13, <1>14, <1>15, <1>16 DEF Moves!JobSteps

LEMMA MoveAroundKeeps ==
    ASSUME MoveIInv, Moves!InvoiceIsPaid \/ (\E p \in TwoPeople : Moves!HouseholdChanges(p) \/ Moves!LinkChanges(p))
    PROVE  MoveIInv'
  <1>1. UNCHANGED <<movesDelivery, movesJob, movesMessages>>
    BY DEF Moves!InvoiceIsPaid, Moves!HouseholdChanges, Moves!LinkChanges
  <1>2. CASE Moves!InvoiceIsPaid
    BY <1>1, <1>2 DEF Moves!InvoiceIsPaid, MoveIInv, MoveAround
  <1>3. ASSUME NEW p \in TwoPeople, Moves!HouseholdChanges(p)
        PROVE  MoveIInv'
    BY <1>1, <1>3 DEF Moves!HouseholdChanges, MoveIInv, MoveAround
  <1>4. ASSUME NEW p \in TwoPeople, Moves!LinkChanges(p)
        PROVE  MoveIInv'
    <2>1. movesChat' \in [TwoPeople -> Chats \cup {Moves!NoChat}] /\ UNCHANGED <<movesPayable, movesHousehold>>
      BY <1>4 DEF Moves!LinkChanges, MoveIInv, MoveAround
    <2> QED BY <1>1, <2>1 DEF MoveIInv, MoveAround
  <1> QED BY <1>2, <1>3, <1>4

LEMMA MoveStart ==
    ASSUME Moves!NotificationsAssumption, Moves!Init
    PROVE  MoveIInv
  <1>1. 0 \in 0 .. MaxAttempts /\ 0 \in 0 .. MaxSends
    BY DEF Moves!NotificationsAssumption
  <1>2. Moves!NoDelivery \in MoveDeliveries /\ Moves!NoSendJob \in MoveSendJobs
    BY <1>1 DEF Moves!NoDelivery, Moves!NoSendJob, MoveDeliveries, MoveSendJobs, MoveStatuses,
       MoveStates
  <1>3. MoveMatches(Moves!NoDelivery, Moves!NoSendJob) /\ MoveReceived(Moves!NoDelivery, Moves!NoSendJob, movesMessages)
    BY <1>2 DEF MoveMatches, MoveReceived, Moves!NoDelivery, Moves!NoSendJob
  <1>4. MoveAround
    BY <1>1 DEF Moves!Init, MoveAround
  <1> QED BY <1>2, <1>3, <1>4 DEF Moves!Init, MoveIInv

LEMMA MoveInvariance ==
    ASSUME Moves!NotificationsAssumption
    PROVE  Moves!Spec => []MoveIInv
  <1>1. Moves!Init => MoveIInv
    BY MoveStart
  <1>2. MoveIInv /\ [Moves!Next]_(Moves!vars) => MoveIInv'
    <2>1. ASSUME MoveIInv, Moves!Next PROVE MoveIInv'
      BY <2>1, MoveAnnouncesKeep, MoveAroundKeeps, MoveJobKeeps DEF Moves!Next
    <2>2. ASSUME MoveIInv, UNCHANGED Moves!vars PROVE MoveIInv'
      BY <2>2 DEF Moves!vars, MoveIInv, MoveAround
    <2> QED BY <2>1, <2>2
  <1> QED BY <1>1, <1>2, PTL DEF Moves!Spec

\* What is recorded as sent was received by the Telegram user the delivery names, although
\* jobs are retried, workers crash and the links of the household change.
THEOREM SentWereReceived ==
    ASSUME Moves!NotificationsAssumption
    PROVE  Moves!Spec => [](Moves!TypeOK /\ Moves!SentWasReceived)
  <1>1. MoveIInv => Moves!TypeOK /\ Moves!SentWasReceived
    BY DEF MoveIInv, MoveAround, Moves!TypeOK, Moves!SentWasReceived, MoveReceived,
       MoveDeliveries, MoveSendJobs, MoveStates, MoveStatuses
  <1> QED BY <1>1, MoveInvariance, PTL

-----------------------------------------------------------------------------
(* The components side by side.                                             *)

\* Whichever component moves, each of them takes a step of its own or stands still.
LEMMA EachComponent ==
    MCSpec => Spec /\ Desk!Spec /\ Pages!Spec /\ Notices!Spec /\ Moves!Spec
  <1>1. MCInit => Init /\ Desk!Init /\ Pages!Init /\ Notices!Init /\ Moves!Init
    BY DEF MCInit
  <1>2. ASSUME [MCNext]_MCvars
        PROVE  /\ [Next]_vars /\ [Desk!Next]_(Desk!vars) /\ [Pages!Next]_(Pages!vars)
               /\ [Notices!Next]_(Notices!vars) /\ [Moves!Next]_(Moves!vars)
    <2>1. vars' = vars \/ Next
      BY <1>2 DEF MCNext, MCvars
    <2>2. UNCHANGED ticketsVars \/ Desk!Next
      BY <1>2 DEF MCNext, MCvars
    <2>3. UNCHANGED pagesVars \/ Pages!Next
      BY <1>2 DEF MCNext, MCvars
    <2>4. UNCHANGED noticesVars \/ Notices!Next
      BY <1>2 DEF MCNext, MCvars
    <2>5. UNCHANGED movesVars \/ Moves!Next
      BY <1>2 DEF MCNext, MCvars
    <2>6. /\ UNCHANGED ticketsVars => UNCHANGED Desk!vars
          /\ UNCHANGED pagesVars => UNCHANGED Pages!vars
          /\ UNCHANGED noticesVars => UNCHANGED Notices!vars
          /\ UNCHANGED movesVars => UNCHANGED Moves!vars
      BY DEF ticketsVars, Desk!vars, pagesVars, Pages!vars, noticesVars, Notices!vars, movesVars,
             Moves!vars
    <2> QED BY <2>1, <2>2, <2>3, <2>4, <2>5, <2>6
  <1> QED BY <1>1, <1>2, PTL DEF MCSpec, Spec, Desk!Spec, Pages!Spec, Notices!Spec, Moves!Spec

\* At the desk the deadline of a ticket counts from its creation, filter and page differ by no
\* more than their conversions round, the clock pauses only after an answer, and the queue
\* read page by page shows every ticket that keeps still exactly once.
THEOREM DeskKeepsTicketsSound == MCSpec => []TicketsSound
  <1>1. Desk!TicketsAssumption /\ Pages!QueueAssumption
    BY MCAssumption
  <1>2. Desk!Spec => [](Desk!TypeOK /\ Desk!DeadlineCountsFromCreation
                        /\ Desk!FilterIsCloseToThePage /\ Desk!PauseFollowsAnAnswer)
    BY <1>1, DeskKeepsDeadlines
  <1>3. Pages!Spec => [](Pages!TypeOK /\ Pages!SteadyTicketsAreShownOnce)
    BY <1>1, WalkShowsSteadyTicketsOnce
  <1> QED BY <1>2, <1>3, EachComponent, PTL DEF TicketsSound

\* A Telegram user is told of a stage once while no worker crashes, and what is recorded as
\* sent was received whatever changes and crashes meanwhile.
THEOREM DeskKeepsNoticesSound == MCSpec => []NoticesSound
  <1>1. Notices!NotificationsAssumption /\ Moves!NotificationsAssumption
    BY MCAssumption
  <1>2. Notices!Spec => [](Notices!TypeOK /\ Notices!OneMessageEach)
    BY <1>1, ToldOnce
  <1>3. Moves!Spec => [](Moves!TypeOK /\ Moves!SentWasReceived)
    BY <1>1, SentWereReceived
  <1> QED BY <1>2, <1>3, EachComponent, PTL DEF NoticesSound

\* What was decided at the desk stands: resolutions, replies, accepted contracts and replaced
\* links.
THEOREM DeskKeepsDecisions == MCSpec => DeskDecisionsStand
  <1>1. ContractsAssumption /\ Desk!TicketsAssumption
    BY MCAssumption
  <1>2. Spec => AcceptedIsFinal /\ ReplacedLinkIsDead
    BY <1>1, AcceptedContractsStay, OnlyThePresentLinkSubmits
  <1>3. Desk!Spec => Desk!ResolvedStaysResolved /\ Desk!EachReplyCounts
    BY <1>1, ResolvedForGood, RepliesCount
  <1> QED BY <1>2, <1>3, EachComponent DEF DeskDecisionsStand
=============================================================================
