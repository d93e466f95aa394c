---------------------------- MODULE PeopleProofs ----------------------------
(***************************************************************************)
(* Theorems about the three components of MCPeople, for any number of      *)
(* students, parents, invites, Telegram users, groups, browsers and        *)
(* requests.                                                               *)
(*                                                                         *)
(* Parents and student records lock the rows they decide on, or compare    *)
(* the version of the form with that of the row: what such a request saw   *)
(* is still so when it writes. A session is looked at by its version       *)
(* alone, which is enough since every change of the password and every     *)
(* closing moves it.                                                       *)
(***************************************************************************)
EXTENDS MCPeople, Integers, FiniteSets, FiniteSetTheorems, WellFoundedInduction, TLAPS

Does(r, what) == request[r].doing = what
At(r, phases) == request[r].phase \in phases

\* What a request names is there.
Named(r) ==
    /\ Does(r, "idle") => request[r] = Idle
    /\ Does(r, "claim") =>
          /\ At(r, {"opened", "locked", "found", "named", "linked"})
          /\ request[r].invite \in Invites /\ request[r].student \in Students
          /\ request[r].who \in Identities \cup Phones
          /\ At(r, {"opened", "locked"}) => request[r].parent = None
          /\ At(r, {"found", "named", "linked"}) => request[r].parent \in Parents
    /\ Does(r, "replace") =>
          /\ At(r, {"opened", "locked", "linked"})
          /\ request[r].student \in Students /\ request[r].parent = None
    /\ Does(r, "edit") \/ Does(r, "link") \/ Does(r, "unlink") =>
          /\ At(r, {"opened", "locked"})
          /\ request[r].parent \in Parents /\ parent[request[r].parent].known
          /\ request[r].saw.known
    /\ Does(r, "edit") => At(r, {"opened"})
    /\ Does(r, "link") \/ Does(r, "unlink") => request[r].student \in Students

\* What a request locked is as it was when it locked it.
Holds(r, row) == r \in lock[row]
Held(r) ==
    /\ At(r, {"idle", "opened"}) => \A row \in Rows : ~Holds(r, row)
    /\ Does(r, "claim") /\ ~At(r, {"opened"}) =>
          Holds(r, request[r].invite) /\ Usable(request[r].invite)
    /\ Does(r, "replace") /\ ~At(r, {"opened"}) => Holds(r, request[r].student)
    /\ Does(r, "replace") => \A i \in Invites : Holds(r, i) => i \in Pending(request[r].student)
    /\ Doing(r, "replace", "linked") => \A i \in Pending(request[r].student) : Holds(r, i)

\* An invite has one holder; the row of a student one, if it is a replacement.
OneHolder ==
    \A r, q \in Requests : r # q =>
        /\ \A i \in Invites : ~(Holds(r, i) /\ Holds(q, i))
        /\ \A s \in Students : Holds(r, s) /\ Holds(q, s) => ~Does(r, "replace")

\* A parent that is not there yet is named by one request.
NewApart ==
    \A r, q \in Requests : r # q /\ request[r].parent = request[q].parent =>
        request[r].parent = None \/ parent[request[r].parent].known

\* The parent that a claim by Telegram found is the one of the user.
FoundByUser(r) ==
    Does(r, "claim") /\ request[r].parent # None /\ request[r].who \in Identities =>
        \/ ~parent[request[r].parent].known
        \/ parent[request[r].parent].telegram = request[r].who

\* A claim is about to insert a parent with its Telegram user.
Inserting(r) ==
    /\ Does(r, "claim") /\ At(r, {"named", "linked"})
    /\ request[r].who \in Identities /\ ~parent[request[r].parent].known
InsertsAlone ==
    /\ \A r \in Requests : Inserting(r) =>
          /\ Holds(r, request[r].who)
          /\ \A p \in Parents : parent[p].telegram # request[r].who
    /\ \A r, q \in Requests :
          Inserting(r) /\ Inserting(q) /\ request[r].who = request[q].who => r = q

\* What a request of the present version saw still holds.
SawTrue(r) ==
    r \in fresh =>
        /\ Does(r, "edit") /\ request[r].saw.active => parent[request[r].parent].active
        /\ Does(r, "link") /\ request[r].linked => family[Pair(r)] = "active"

InvitesNamed == \A i \in Invites : invite[i].status # "none" => invite[i].student \in Students
OnePending ==
    \A i, j \in Invites : Usable(i) /\ Usable(j) /\ invite[i].student = invite[j].student => i = j
NotThereYet == \A p \in Parents : ~parent[p].known => parent[p] = NoParent

IInv ==
    /\ TypeOK
    /\ \A r \in Requests : Named(r) /\ Held(r) /\ FoundByUser(r) /\ SawTrue(r)
    /\ OneHolder /\ NewApart /\ InsertsAlone
    /\ InvitesNamed /\ OnePending /\ NotThereYet /\ TelegramAgrees

-----------------------------------------------------------------------------
(* Steps of one request that write no record. *)

\* The other requests are left as they are; they may lose the present version.
Frame(r) ==
    /\ request' \in [Requests -> RequestRows] /\ lock' \in [Rows -> SUBSET Requests]
    /\ fresh' \subseteq Requests
    /\ \A q \in Requests \ {r} :
          /\ request'[q] = request[q] /\ (q \in fresh' => q \in fresh)
          /\ \A row \in Rows : q \in lock'[row] <=> q \in lock[row]

\* What is to be shown of the request that moves.
KeepsOwn(r) ==
    /\ Named(r)' /\ Held(r)' /\ FoundByUser(r)' /\ SawTrue(r)'
    /\ \A q \in Requests \ {r} :
          /\ \A i \in Invites : r \in lock'[i] => q \notin lock[i]
          /\ \A s \in Students : r \in lock'[s] /\ q \in lock[s] =>
                request'[r].doing # "replace" /\ ~Does(q, "replace")
          /\ request'[r].parent = request[q].parent =>
                request'[r].parent = None \/ parent[request'[r].parent].known
          /\ Inserting(r)' /\ Inserting(q) => request'[r].who # request[q].who
    /\ Inserting(r)' =>
          /\ r \in lock'[request'[r].who]
          /\ \A p \in Parents : parent[p].telegram # request'[r].who

LEMMA RowsOf ==
    ASSUME ParentsAssumption
    PROVE  /\ Invites \subseteq Rows /\ Students \subseteq Rows
           /\ Parents \subseteq Rows /\ Identities \subseteq Rows
           /\ Parents \X Students \subseteq Rows
           /\ Invites \cap Students = {} /\ Identities \cap Students = {}
           /\ Invites \cap Identities = {} /\ Invites \cap Parents = {}
           /\ Students \cap Parents = {}
           /\ Invites \cap (Parents \X Students) = {}
           /\ Students \cap (Parents \X Students) = {}
           /\ None \notin Requests \cup Students \cup Parents \cup Invites \cup Identities
           /\ None \notin Phones \cup Staff \cup Names
           /\ Parents \cap Staff = {} /\ Identities \cap Phones = {}
  BY DEF ParentsAssumption, Rows

LEMMA StepKeeps ==
    ASSUME ParentsAssumption, IInv, UNCHANGED Records,
           NEW r \in Requests, Frame(r), KeepsOwn(r)
    PROVE  IInv'
  <1>0. UNCHANGED <<invite, parent, account, family, telegram>>
    BY DEF Records
  <1>1. TypeOK'
    BY <1>0 DEF IInv, TypeOK, Frame
  <1>2. ASSUME NEW q \in Requests \ {r}
        PROVE  /\ Named(q)' /\ Held(q)' /\ FoundByUser(q)' /\ SawTrue(q)'
               /\ Inserting(q)' <=> Inserting(q)
    <2>1. /\ request'[q] = request[q] /\ (q \in fresh' => q \in fresh)
          /\ \A row \in Rows : q \in lock'[row] <=> q \in lock[row]
      BY DEF Frame
    <2>2. Named(q) /\ Held(q) /\ FoundByUser(q) /\ SawTrue(q)
      BY DEF IInv
    <2>3. Named(q)' /\ FoundByUser(q)' /\ SawTrue(q)' /\ (Inserting(q)' <=> Inserting(q))
      BY <1>0, <2>1, <2>2 DEF Named, FoundByUser, SawTrue, Inserting, Does, At, Pair
    <2>4. Held(q)'
      <3>1. Named(q)
        BY <2>2
      <3>2. \A s : Pending(s)' = Pending(s)
        BY <1>0 DEF Pending
      <3>3. \A i : Usable(i)' <=> Usable(i)
        BY <1>0 DEF Usable
      <3>4. /\ Does(q, "claim") => request[q].invite \in Rows
            /\ Does(q, "replace") => request[q].student \in Rows
            /\ Invites \subseteq Rows
        BY <3>1, RowsOf DEF Named
      <3>5. \A i \in Invites : q \in lock'[i] <=> q \in lock[i]
        BY <2>1, <3>4
      <3>6. At(q, {"idle", "opened"}) => \A row \in Rows : q \notin lock'[row]
        BY <2>1, <2>2 DEF Held, Holds
      <3>7. Does(q, "claim") /\ ~At(q, {"opened"}) =>
               q \in lock'[request[q].invite] /\ Usable(request[q].invite)
        BY <2>1, <2>2, <3>4 DEF Held, Holds
      <3>8. Does(q, "replace") /\ ~At(q, {"opened"}) => q \in lock'[request[q].student]
        BY <2>1, <2>2, <3>4 DEF Held, Holds
      <3>9. /\ Does(q, "replace") =>
                  \A i \in Invites : q \in lock'[i] => i \in Pending(request[q].student)
            /\ Doing(q, "replace", "linked") =>
                  \A i \in Pending(request[q].student) : q \in lock'[i]
        BY <2>2, <3>5 DEF Held, Holds, Pending
      <3> HIDE DEF Pending, Usable
      <3> QED BY <2>1, <3>2, <3>3, <3>6, <3>7, <3>8, <3>9 DEF Held, Does, At, Holds, Doing
    <2> QED BY <2>3, <2>4
  <1>3. \A q \in Requests : Named(q)' /\ Held(q)' /\ FoundByUser(q)' /\ SawTrue(q)'
    BY <1>2 DEF KeepsOwn
  <1>4. OneHolder'
    <2> SUFFICES ASSUME NEW a \in Requests, NEW b \in Requests, a # b
                 PROVE  /\ \A i \in Invites : ~(a \in lock'[i] /\ b \in lock'[i])
                        /\ \A s \in Students : a \in lock'[s] /\ b \in lock'[s] =>
                              request'[a].doing # "replace"
      BY DEF OneHolder, Holds, Does
    <2>1. \A x \in Requests \ {r} :
              /\ request'[x] = request[x]
              /\ \A i \in Invites : x \in lock'[i] <=> x \in lock[i]
              /\ \A s \in Students : x \in lock'[s] <=> x \in lock[s]
      BY RowsOf DEF Frame
    <2>2. CASE a # r /\ b # r
      BY <2>1, <2>2 DEF IInv, OneHolder, Holds, Does
    <2>3. CASE a = r
      BY <2>1, <2>3 DEF KeepsOwn
    <2>4. CASE b = r
      BY <2>1, <2>4 DEF KeepsOwn, Does
    <2> QED BY <2>2, <2>3, <2>4
  <1>5. NewApart'
    <2> SUFFICES ASSUME NEW a \in Requests, NEW b \in Requests, a # b,
                        request'[a].parent = request'[b].parent
                 PROVE  request'[a].parent = None \/ parent[request'[a].parent].known
      BY <1>0 DEF NewApart
    <2>1. \A x \in Requests \ {r} : request'[x] = request[x]
      BY DEF Frame
    <2>2. CASE a # r /\ b # r
      BY <2>1, <2>2 DEF IInv, NewApart
    <2>3. CASE a = r
      BY <2>1, <2>3 DEF KeepsOwn
    <2>4. CASE b = r
      BY <2>1, <2>4 DEF KeepsOwn
    <2> QED BY <2>2, <2>3, <2>4
  <1>6. InsertsAlone'
    <2>1. ASSUME NEW a \in Requests, Inserting(a)'
          PROVE  /\ a \in lock'[request'[a].who]
                 /\ \A p \in Parents : parent'[p].telegram # request'[a].who
      <3>1. CASE a = r
        BY <1>0, <2>1, <3>1 DEF KeepsOwn
      <3>2. CASE a # r
        <4>1. Inserting(a) /\ request'[a] = request[a] /\ request[a].who \in Rows
          BY <1>2, <2>1, <3>2, RowsOf DEF Frame, Inserting
        <4>2. /\ a \in lock[request[a].who]
              /\ \A p \in Parents : parent[p].telegram # request[a].who
          BY <4>1 DEF IInv, InsertsAlone, Holds
        <4> QED BY <1>0, <3>2, <4>1, <4>2 DEF Frame
      <3> QED BY <3>1, <3>2
    <2>2. ASSUME NEW a \in Requests, NEW b \in Requests, Inserting(a)', Inserting(b)',
                 request'[a].who = request'[b].who
          PROVE  a = b
      <3>1. \A x \in Requests \ {r} : request'[x] = request[x]
        BY DEF Frame
      <3>2. CASE a # r /\ b # r
        BY <1>2, <2>2, <3>1, <3>2 DEF IInv, InsertsAlone
      <3>3. CASE a = r /\ b # r
        BY <1>2, <2>2, <3>1, <3>3 DEF KeepsOwn
      <3>4. CASE b = r /\ a # r
        BY <1>2, <2>2, <3>1, <3>4 DEF KeepsOwn
      <3> QED BY <3>2, <3>3, <3>4
    <2> QED BY <2>1, <2>2 DEF InsertsAlone, Holds
  <1>7. InvitesNamed' /\ OnePending' /\ NotThereYet' /\ TelegramAgrees'
    BY <1>0 DEF IInv, InvitesNamed, OnePending, Usable, NotThereYet, TelegramAgrees
  <1> QED BY <1>1, <1>3, <1>4, <1>5, <1>6, <1>7 DEF IInv

\* What is free for r, nobody else locked; a student's row may be shared by new links.
Free(r, row) ==
    \A q \in Requests \ {r} : Holds(q, row) =>
        row \in Students /\ ~Does(r, "replace") /\ ~Does(q, "replace")

LEMMA NeedsFree ==
    ASSUME NEW r \in Requests, Blockers(r) = {}, NEW row \in Needs(r)
    PROVE  Free(r, row)
  <1>1. Conflicts(r, row) = {}
    BY DEF Blockers
  <1> QED BY <1>1 DEF Conflicts, Free, Holds, Does

\* The transaction ends and nothing was written.
LEMMA RollbackKeeps ==
    ASSUME ParentsAssumption, IInv, NEW r \in Requests, Rollback(r)
    PROVE  IInv'
  <1>1. /\ request' = [request EXCEPT ![r] = Idle]
        /\ lock' = [row \in Rows |-> lock[row] \ {r}]
        /\ fresh' = fresh \ {r} /\ UNCHANGED Records
    BY DEF Rollback, Ends
  <1>2. Idle \in RequestRows
    BY DEF Idle, RequestRows, ParentRows, NoParent
  <1>3. /\ request \in [Requests -> RequestRows] /\ lock \in [Rows -> SUBSET Requests]
        /\ fresh \subseteq Requests
    BY DEF IInv, TypeOK
  <1>4. Frame(r)
    BY <1>1, <1>2, <1>3 DEF Frame
  <1>5. /\ request'[r] = Idle /\ r \notin fresh'
        /\ \A row \in Rows : r \notin lock'[row]
    BY <1>1, <1>3
  <1>6. Named(r)' /\ FoundByUser(r)' /\ SawTrue(r)' /\ ~Inserting(r)'
    BY <1>5 DEF Named, FoundByUser, SawTrue, Inserting, Does, At, Idle
  <1>7. Held(r)'
    BY <1>5, RowsOf DEF Held, Holds, Does, At, Doing, Idle
  <1>8. KeepsOwn(r)
    <2>1. \A i \in Invites : r \notin lock'[i]
      BY <1>5, RowsOf
    <2>2. \A s \in Students : r \notin lock'[s]
      BY <1>5, RowsOf
    <2>3. request'[r].parent = None
      BY <1>5 DEF Idle
    <2> QED BY <1>6, <1>7, <2>1, <2>2, <2>3 DEF KeepsOwn
  <1> QED BY <1>1, <1>4, <1>8, StepKeeps

\* A request is sent: it holds nothing yet and names no parent that is not there.
LEMMA OpensKeeps ==
    ASSUME ParentsAssumption, IInv, NEW r \in Requests, NEW new \in RequestRows,
           request[r] = Idle, Opens(r, new), new.phase = "opened",
           UNCHANGED <<Records, lock>>, fresh' \subseteq fresh \cup {r},
           new.parent = None \/ parent[new.parent].known,
           Named(r)', SawTrue(r)', new.doing = "claim" => new.parent = None
    PROVE  IInv'
  <1>1. request' = [request EXCEPT ![r] = new] /\ lock' = lock /\ UNCHANGED Records
    BY DEF Opens
  <1>2. /\ request \in [Requests -> RequestRows] /\ lock \in [Rows -> SUBSET Requests]
        /\ fresh \subseteq Requests
    BY DEF IInv, TypeOK
  <1>3. Frame(r)
    BY <1>1, <1>2 DEF Frame
  <1>4. request'[r] = new /\ \A row \in Rows : r \notin lock'[row]
    <2>1. Held(r)
      BY DEF IInv
    <2> QED BY <1>1, <1>2, <2>1 DEF Held, At, Idle, Holds
  <1>5. FoundByUser(r)' /\ ~Inserting(r)'
    BY <1>4 DEF FoundByUser, Inserting, Does, At
  <1>6. Held(r)'
    BY <1>4, RowsOf DEF Held, Holds, Does, At, Doing
  <1>7. KeepsOwn(r)
    <2>1. \A i \in Invites : r \notin lock'[i]
      BY <1>4, RowsOf
    <2>2. \A s \in Students : r \notin lock'[s]
      BY <1>4, RowsOf
    <2>3. request'[r].parent = None \/ parent[request'[r].parent].known
      BY <1>4
    <2> QED BY <1>5, <1>6, <2>1, <2>2, <2>3 DEF KeepsOwn
  <1> QED BY <1>1, <1>3, <1>7, StepKeeps

\* A statement locks rows that it found free.
LEMMA LocksKeeps ==
    ASSUME ParentsAssumption, IInv, NEW r \in Requests, NEW rows, NEW phase,
           Locks(r, rows, phase), UNCHANGED <<Records, fresh>>,
           phase \in {"locked", "found", "named", "linked"},
           \A row \in rows \cap (Invites \cup Students) : Free(r, row),
           Named(r)', Held(r)',
           Inserting(r)' /\ ~Inserting(r) =>
              /\ request[r].who \in rows
              /\ \A p \in Parents : parent[p].telegram # request[r].who
              /\ \A q \in Requests \ {r} : ~Holds(q, request[r].who)
    PROVE  IInv'
  <1>1. /\ lock' = [row \in Rows |-> IF row \in rows THEN lock[row] \cup {r} ELSE lock[row]]
        /\ request' = [request EXCEPT ![r].phase = phase]
        /\ UNCHANGED <<invite, parent, account, family, telegram, fresh>>
    BY DEF Locks, Records
  <1>2. /\ request \in [Requests -> RequestRows] /\ lock \in [Rows -> SUBSET Requests]
        /\ fresh \subseteq Requests
    BY DEF IInv, TypeOK
  <1>3. /\ request'[r] = [request[r] EXCEPT !.phase = phase]
        /\ request'[r] \in RequestRows
        /\ \A q \in Requests \ {r} : request'[q] = request[q]
    BY <1>1, <1>2 DEF RequestRows
  <1>4. Frame(r)
    BY <1>1, <1>2, <1>3 DEF Frame
  <1>5. request[r] \in RequestRows
    BY <1>2
  <1>6. /\ request'[r].doing = request[r].doing /\ request'[r].parent = request[r].parent
        /\ request'[r].who = request[r].who /\ request'[r].saw = request[r].saw
        /\ request'[r].linked = request[r].linked /\ request'[r].student = request[r].student
    BY <1>3, <1>5 DEF RequestRows
  <1>7. FoundByUser(r)' /\ SawTrue(r)'
    <2>1. FoundByUser(r) /\ SawTrue(r)
      BY DEF IInv
    <2> QED BY <1>1, <1>6, <2>1 DEF FoundByUser, SawTrue, Does, Pair
  <1>8. ASSUME NEW q \in Requests \ {r}
        PROVE  /\ \A i \in Invites : r \in lock'[i] => q \notin lock[i]
               /\ \A s \in Students : r \in lock'[s] /\ q \in lock[s] =>
                     request'[r].doing # "replace" /\ ~Does(q, "replace")
    <2>1. ASSUME NEW i \in Invites, r \in lock'[i], q \in lock[i] PROVE FALSE
      <3>1. CASE i \in rows
        BY <2>1, <3>1, RowsOf DEF Free, Holds
      <3>2. CASE i \notin rows
        BY <1>1, <2>1, <3>2, RowsOf DEF IInv, OneHolder, Holds
      <3> QED BY <3>1, <3>2
    <2>2. ASSUME NEW s \in Students, r \in lock'[s], q \in lock[s]
          PROVE  request'[r].doing # "replace" /\ ~Does(q, "replace")
      <3>1. CASE s \in rows
        BY <1>6, <2>2, <3>1 DEF Free, Holds, Does
      <3>2. CASE s \notin rows
        BY <1>1, <1>6, <2>2, <3>2, RowsOf DEF IInv, OneHolder, Holds, Does
      <3> QED BY <3>1, <3>2
    <2> QED BY <2>1, <2>2
  <1>9. ASSUME NEW q \in Requests \ {r}
        PROVE  /\ request'[r].parent = request[q].parent =>
                     request'[r].parent = None \/ parent[request'[r].parent].known
               /\ Inserting(r)' /\ Inserting(q) => request'[r].who # request[q].who
    <2>1. request'[r].parent = request[q].parent =>
             request'[r].parent = None \/ parent[request'[r].parent].known
      BY <1>6 DEF IInv, NewApart
    <2>2. ASSUME Inserting(r)', Inserting(q), request'[r].who = request[q].who PROVE FALSE
      <3>1. Inserting(r) => FALSE
        BY <1>6, <2>2 DEF IInv, InsertsAlone
      <3>2. Holds(q, request[q].who)
        BY <2>2 DEF IInv, InsertsAlone
      <3> QED BY <1>6, <2>2, <3>1, <3>2
    <2> QED BY <2>1, <2>2
  <1>10. Inserting(r)' =>
            /\ r \in lock'[request'[r].who]
            /\ \A p \in Parents : parent[p].telegram # request'[r].who
    <2> SUFFICES ASSUME Inserting(r)'
                 PROVE  /\ r \in lock'[request[r].who]
                        /\ \A p \in Parents : parent[p].telegram # request[r].who
      BY <1>6
    <2>1. request[r].who \in Rows
      BY <1>6, RowsOf DEF Inserting
    <2>2. CASE Inserting(r)
      BY <1>1, <2>1, <2>2 DEF IInv, InsertsAlone, Holds
    <2>3. CASE ~Inserting(r)
      BY <1>1, <2>1, <2>3
    <2> QED BY <2>2, <2>3
  <1>11. KeepsOwn(r)
    BY <1>7, <1>8, <1>9, <1>10 DEF KeepsOwn
  <1> QED BY <1>1, <1>4, <1>11, StepKeeps DEF Records

-----------------------------------------------------------------------------
(* Each of those steps. *)

LEMMA SendsClaimKeeps ==
    ASSUME ParentsAssumption, IInv, NEW r \in Requests, NEW i \in Invites,
           NEW who \in Identities \cup Phones, NEW name \in Names, SendsClaim(r, i, who, name)
    PROVE  IInv'
  <1> DEFINE new == [Idle EXCEPT !.doing = "claim", !.phase = "opened", !.invite = i,
                        !.student = invite[i].student, !.who = who, !.name = name]
  <1>1. /\ request[r] = Idle /\ invite[i].status # "none" /\ Opens(r, new)
        /\ UNCHANGED <<Records, fresh, lock>>
    BY DEF SendsClaim
  <1>2. invite[i].student \in Students
    BY <1>1 DEF IInv, InvitesNamed
  <1>3. new \in RequestRows
    BY <1>2 DEF Idle, RequestRows, ParentRows, NoParent
  <1>4. /\ new.doing = "claim" /\ new.phase = "opened" /\ new.parent = None
        /\ new.invite = i /\ new.student \in Students /\ new.who = who
    BY <1>2 DEF Idle
  <1> HIDE DEF new
  <1>5. request'[r] = new
    BY <1>1 DEF Opens, IInv, TypeOK
  <1>6. Named(r)' /\ SawTrue(r)'
    BY <1>4, <1>5 DEF Named, SawTrue, Does, At
  <1>7. fresh' \subseteq fresh \cup {r} /\ UNCHANGED <<Records, lock>>
    BY <1>1
  <1> QED BY <1>1, <1>3, <1>4, <1>6, <1>7, OpensKeeps

LEMMA SendsReplaceKeeps ==
    ASSUME ParentsAssumption, IInv, NEW r \in Requests, NEW s \in Students, SendsReplace(r, s)
    PROVE  IInv'
  <1> DEFINE new == [Idle EXCEPT !.doing = "replace", !.phase = "opened", !.student = s]
  <1>1. request[r] = Idle /\ Opens(r, new) /\ UNCHANGED <<Records, fresh, lock>>
    BY DEF SendsReplace
  <1>3. new \in RequestRows
    BY DEF Idle, RequestRows, ParentRows, NoParent
  <1>4. /\ new.doing = "replace" /\ new.phase = "opened" /\ new.parent = None /\ new.student = s
    BY DEF Idle
  <1> HIDE DEF new
  <1>5. request'[r] = new
    BY <1>1 DEF Opens, IInv, TypeOK
  <1>6. Named(r)' /\ SawTrue(r)'
    BY <1>4, <1>5 DEF Named, SawTrue, Does, At
  <1>7. fresh' \subseteq fresh \cup {r} /\ UNCHANGED <<Records, lock>>
    BY <1>1
  <1> QED BY <1>1, <1>3, <1>4, <1>6, <1>7, OpensKeeps

LEMMA OpensEditKeeps ==
    ASSUME ParentsAssumption, IInv, NEW r \in Requests, NEW p \in Parents, NEW name \in Names,
           NEW active \in BOOLEAN, OpensEdit(r, p, name, active)
    PROVE  IInv'
  <1> DEFINE new == [Idle EXCEPT !.doing = "edit", !.phase = "opened", !.parent = p,
                        !.name = name, !.active = active, !.saw = parent[p]]
  <1>1. /\ request[r] = Idle /\ parent[p].known /\ Opens(r, new)
        /\ fresh' = fresh \cup {r} /\ UNCHANGED <<Records, lock>>
    BY DEF OpensEdit
  <1>2. parent[p] \in ParentRows
    BY DEF IInv, TypeOK
  <1>3. new \in RequestRows
    BY <1>2 DEF Idle, RequestRows
  <1>4. /\ new.doing = "edit" /\ new.phase = "opened" /\ new.parent = p /\ new.saw = parent[p]
    BY DEF Idle
  <1> HIDE DEF new
  <1>5. request'[r] = new
    BY <1>1 DEF Opens, IInv, TypeOK
  <1>6. parent' = parent
    BY <1>1 DEF Records
  <1>7. Named(r)' /\ SawTrue(r)'
    BY <1>1, <1>4, <1>5, <1>6 DEF Named, SawTrue, Does, At
  <1>8. new.parent = None \/ parent[new.parent].known
    BY <1>1, <1>4
  <1>9. fresh' \subseteq fresh \cup {r} /\ (new.doing = "claim" => new.parent = None)
    BY <1>1, <1>4
  <1> QED BY <1>1, <1>3, <1>4, <1>7, <1>8, <1>9, OpensKeeps

LEMMA OpensLinkKeeps ==
    ASSUME ParentsAssumption, IInv, NEW r \in Requests, NEW p \in Parents, NEW s \in Students,
           NEW what \in {"link", "unlink"}, OpensLink(r, p, s, what)
    PROVE  IInv'
  <1> DEFINE new == [Idle EXCEPT !.doing = what, !.phase = "opened", !.parent = p,
                        !.student = s, !.saw = parent[p], !.linked = family[<<p, s>>] =
                        "active"]
  <1>1. /\ request[r] = Idle /\ parent[p].known /\ Opens(r, new)
        /\ fresh' = fresh \cup {r} /\ UNCHANGED <<Records, lock>>
    BY DEF OpensLink
  <1>2. parent[p] \in ParentRows
    BY DEF IInv, TypeOK
  <1>3. new \in RequestRows
    BY <1>2 DEF Idle, RequestRows
  <1>4. /\ new.doing = what /\ new.phase = "opened" /\ new.parent = p /\ new.saw = parent[p]
        /\ new.student = s /\ new.linked = (family[<<p, s>>] = "active")
    BY DEF Idle
  <1> HIDE DEF new
  <1>5. request'[r] = new
    BY <1>1 DEF Opens, IInv, TypeOK
  <1>6. parent' = parent /\ family' = family
    BY <1>1 DEF Records
  <1>7. Named(r)' /\ SawTrue(r)'
    BY <1>1, <1>4, <1>5, <1>6 DEF Named, SawTrue, Does, At, Pair
  <1>8. new.parent = None \/ parent[new.parent].known
    BY <1>1, <1>4
  <1>9. fresh' \subseteq fresh \cup {r} /\ (new.doing = "claim" => new.parent = None)
    BY <1>1, <1>4
  <1> QED BY <1>1, <1>3, <1>4, <1>7, <1>8, <1>9, OpensKeeps

\* What Locks does to the request and its rows.
LEMMA LocksDoes ==
    ASSUME IInv, NEW r \in Requests, NEW rows, NEW phase, Locks(r, rows, phase)
    PROVE  /\ request'[r].doing = request[r].doing /\ request'[r].phase = phase
           /\ request'[r].invite = request[r].invite /\ request'[r].student = request[r].student
           /\ request'[r].parent = request[r].parent /\ request'[r].who = request[r].who
           /\ request'[r].saw = request[r].saw
           /\ \A row \in Rows : r \in lock'[row] <=> row \in rows \/ r \in lock[row]
  <1>1. request[r] \in RequestRows /\ request \in [Requests -> RequestRows]
    BY DEF IInv, TypeOK
  <1>2. request'[r] = [request[r] EXCEPT !.phase = phase]
    BY <1>1 DEF Locks
  <1> QED BY <1>1, <1>2 DEF Locks, RequestRows

LEMMA LocksInviteKeeps ==
    ASSUME ParentsAssumption, IInv, NEW r \in Requests, LocksInvite(r)
    PROVE  IInv'
  <1> DEFINE rows == {request[r].invite}
  <1>1. Doing(r, "claim", "opened") /\ Blockers(r) = {}
    BY DEF LocksInvite
  <1>2. CASE Rollback(r)
    BY <1>2, RollbackKeeps
  <1>3. CASE ~Rollback(r)
    <2>1. Usable(request[r].invite) /\ Locks(r, rows, "locked") /\ UNCHANGED <<Records, fresh>>
      BY <1>3 DEF LocksInvite
    <2>2. Needs(r) = rows
      BY <1>1 DEF Needs, Doing
    <2>3. \A row \in rows \cap (Invites \cup Students) : Free(r, row)
      BY <1>1, <2>2, NeedsFree
    <2>4. Named(r) /\ request[r].invite \in Rows
      BY <1>1, RowsOf DEF IInv, Named, Doing, Does
    <2>5. /\ request'[r].doing = "claim" /\ request'[r].phase = "locked"
          /\ request'[r].invite = request[r].invite /\ r \in lock'[request[r].invite]
          /\ request'[r].student = request[r].student
          /\ request'[r].parent = request[r].parent /\ request'[r].who = request[r].who
      BY <1>1, <2>1, <2>4, LocksDoes DEF Doing
    <2>6. Named(r)' /\ ~Inserting(r)'
      BY <1>1, <2>4, <2>5 DEF Named, Inserting, Does, At, Doing
    <2>7. Held(r)'
      BY <2>1, <2>5 DEF Held, Does, At, Doing, Holds, Usable, Records
    <2> HIDE DEF rows
    <2> QED BY <2>1, <2>3, <2>6, <2>7, LocksKeeps
  <1> QED BY <1>2, <1>3

LEMMA FindsParentKeeps ==
    ASSUME ParentsAssumption, IInv, NEW r \in Requests, FindsParent(r)
    PROVE  IInv'
  <1>1. PICK p \in Parents :
            /\ \/ p \in Matches(r)
               \/ ~parent[p].known /\ \A q \in Requests : request[q].parent # p
            /\ request' = [request EXCEPT ![r].parent = p, ![r].phase = "found"]
    BY DEF FindsParent, Matches
  <1>2. Doing(r, "claim", "locked") /\ UNCHANGED <<Records, fresh, lock>>
    BY DEF FindsParent
  <1>3. request[r] \in RequestRows /\ request \in [Requests -> RequestRows]
        /\ lock \in [Rows -> SUBSET Requests] /\ fresh \subseteq Requests
    BY DEF IInv, TypeOK
  <1>4. request'[r] = [request[r] EXCEPT !.parent = p, !.phase = "found"]
    BY <1>1, <1>3
  <1>5. /\ request'[r].doing = "claim" /\ request'[r].phase = "found"
        /\ request'[r].invite = request[r].invite /\ request'[r].student = request[r].student
        /\ request'[r].parent = p /\ request'[r].who = request[r].who
        /\ request'[r] \in RequestRows
    BY <1>2, <1>3, <1>4 DEF RequestRows, Doing
  <1>6. Frame(r)
    BY <1>1, <1>2, <1>3, <1>5 DEF Frame
  <1>7. UNCHANGED <<invite, parent, account, family, telegram>>
    BY <1>2 DEF Records
  <1>8. Named(r) /\ Held(r)
    BY DEF IInv
  <1>9. Named(r)' /\ SawTrue(r)' /\ ~Inserting(r)'
    BY <1>2, <1>5, <1>8 DEF Named, SawTrue, Inserting, Does, At, Doing
  <1>10. Held(r)'
    BY <1>2, <1>5, <1>7, <1>8 DEF Held, Usable, Holds, Does, At, Doing
  <1>11. FoundByUser(r)'
    <2>1. parent[p] \in ParentRows
      BY DEF IInv, TypeOK
    <2>2. ASSUME request[r].who \in Identities, parent[p].known
          PROVE  parent[p].telegram = request[r].who
      BY <1>1, <2>1, <2>2, RowsOf DEF Matches, ParentRows
    <2> QED BY <1>5, <1>7, <2>2 DEF FoundByUser
  <1>12. KeepsOwn(r)
    <2>1. ASSUME NEW q \in Requests \ {r}
          PROVE  /\ \A i \in Invites : r \in lock'[i] => q \notin lock[i]
                 /\ \A s \in Students : r \in lock'[s] /\ q \in lock[s] =>
                       request'[r].doing # "replace" /\ ~Does(q, "replace")
                 /\ request'[r].parent = request[q].parent => parent[request'[r].parent].known
      BY <1>1, <1>2, <1>5 DEF IInv, OneHolder, Holds, Does, Doing, Matches
    <2> QED BY <1>9, <1>10, <1>11, <2>1 DEF KeepsOwn
  <1> QED BY <1>2, <1>6, <1>12, StepKeeps

LEMMA NamesParentKeeps ==
    ASSUME ParentsAssumption, IInv, NEW r \in Requests, NamesParent(r)
    PROVE  IInv'
  <1> DEFINE p == request[r].parent
             who == request[r].who
             rows == {p} \cup ({who} \cap Identities)
  <1>1. Doing(r, "claim", "found") /\ Blockers(r) = {}
    BY DEF NamesParent
  <1>2. CASE Rollback(r)
    BY <1>2, RollbackKeeps
  <1>3. CASE ~Rollback(r)
    <2>1. /\ Locks(r, rows, "named") /\ UNCHANGED <<Records, fresh>>
          /\ parent[p].known \/ ~\E x \in Parents : who \in Identities /\ parent[x].telegram = who
      BY <1>3 DEF NamesParent
    <2>2. Needs(r) = IF parent[p].known THEN {p} ELSE {who} \cap Identities
      BY <1>1 DEF Needs, Doing
    <2>3. Named(r) /\ p \in Parents /\ Held(r) /\ request[r].invite \in Rows
      BY <1>1, RowsOf DEF IInv, Named, Doing, Does, At
    <2>4. rows \cap (Invites \cup Students) = {}
      BY <2>3, RowsOf
    <2>5. /\ request'[r].doing = "claim" /\ request'[r].phase = "named"
          /\ request'[r].invite = request[r].invite /\ request'[r].student = request[r].student
          /\ request'[r].parent = p /\ request'[r].who = who
      BY <1>1, <2>1, LocksDoes DEF Doing
    <2>6. r \in lock'[request[r].invite] /\ Usable(request[r].invite)
      <3>1. r \in lock[request[r].invite] /\ Usable(request[r].invite)
        BY <1>1, <2>3 DEF Held, Doing, Does, At, Holds
      <3> QED BY <2>1, <2>3, <3>1, LocksDoes
    <2>7. UNCHANGED <<invite, parent>>
      BY <2>1 DEF Records
    <2>8. Named(r)'
      BY <1>1, <2>3, <2>5 DEF Named, Does, At, Doing
    <2>9. Held(r)'
      BY <2>5, <2>6, <2>7 DEF Held, Does, At, Doing, Holds, Usable
    <2>10. ASSUME Inserting(r)'
           PROVE  /\ who \in rows /\ \A x \in Parents : parent[x].telegram # who
                  /\ \A q \in Requests \ {r} : ~Holds(q, who)
      <3>1. who \in Identities /\ ~parent[p].known
        BY <2>5, <2>7, <2>10 DEF Inserting
      <3>2. who \in Needs(r) /\ who \notin Students
        BY <2>2, <3>1, RowsOf
      <3>3. Free(r, who)
        BY <1>1, <3>2, NeedsFree
      <3> QED BY <2>1, <3>1, <3>2, <3>3 DEF Free
    <2> HIDE DEF p, who, rows
    <2>11. \A row \in rows \cap (Invites \cup Students) : Free(r, row)
      BY <2>4
    <2>12. Inserting(r)' /\ ~Inserting(r) =>
              /\ request[r].who \in rows
              /\ \A x \in Parents : parent[x].telegram # request[r].who
              /\ \A q \in Requests \ {r} : ~Holds(q, request[r].who)
      BY <2>10 DEF who
    <2> QED BY <2>1, <2>8, <2>9, <2>11, <2>12, LocksKeeps
  <1> QED BY <1>2, <1>3

LEMMA LinksChildKeeps ==
    ASSUME ParentsAssumption, IInv, NEW r \in Requests, LinksChild(r)
    PROVE  IInv'
  <1> DEFINE rows == LinkRows(r)
  <1>1. /\ Doing(r, "claim", "named") /\ Blockers(r) = {}
        /\ Locks(r, rows, "linked") /\ UNCHANGED <<Records, fresh>>
    BY DEF LinksChild
  <1>2. Needs(r) = rows
    BY <1>1 DEF Needs, Doing
  <1>3. \A row \in rows \cap (Invites \cup Students) : Free(r, row)
    BY <1>1, <1>2, NeedsFree
  <1>4. Named(r) /\ Held(r) /\ request[r].invite \in Rows
    BY <1>1, RowsOf DEF IInv, Named, Doing, Does
  <1>5. /\ request'[r].doing = "claim" /\ request'[r].phase = "linked"
        /\ request'[r].invite = request[r].invite /\ request'[r].student = request[r].student
        /\ request'[r].parent = request[r].parent /\ request'[r].who = request[r].who
    BY <1>1, LocksDoes DEF Doing
  <1>6. r \in lock'[request[r].invite] /\ Usable(request[r].invite)
    <2>1. r \in lock[request[r].invite] /\ Usable(request[r].invite)
      BY <1>1, <1>4 DEF Held, Doing, Does, At, Holds
    <2> QED BY <1>1, <1>4, <2>1, LocksDoes
  <1>7. UNCHANGED <<invite, parent>>
    BY <1>1 DEF Records
  <1>8. Named(r)' /\ (Inserting(r)' => Inserting(r))
    BY <1>1, <1>4, <1>5, <1>7 DEF Named, Inserting, Does, At, Doing
  <1>9. Held(r)'
    BY <1>5, <1>6, <1>7 DEF Held, Does, At, Doing, Holds, Usable
  <1> HIDE DEF rows
  <1> QED BY <1>1, <1>3, <1>8, <1>9, LocksKeeps

LEMMA LocksStudentKeeps ==
    ASSUME ParentsAssumption, IInv, NEW r \in Requests, LocksStudent(r)
    PROVE  IInv'
  <1> DEFINE rows == {request[r].student}
  <1>1. /\ Doing(r, "replace", "opened") /\ Blockers(r) = {}
        /\ Locks(r, rows, "locked") /\ UNCHANGED <<Records, fresh>>
    BY DEF LocksStudent
  <1>2. Needs(r) = rows
    BY <1>1 DEF Needs, Doing
  <1>3. \A row \in rows \cap (Invites \cup Students) : Free(r, row)
    BY <1>1, <1>2, NeedsFree
  <1>4. Named(r) /\ Held(r) /\ request[r].student \in Rows
    BY <1>1, RowsOf DEF IInv, Named, Doing, Does
  <1>5. /\ request'[r].doing = "replace" /\ request'[r].phase = "locked"
        /\ request'[r].student = request[r].student /\ request'[r].parent = request[r].parent
    BY <1>1, LocksDoes DEF Doing
  <1>6. r \in lock'[request[r].student] /\ \A i \in Invites : r \notin lock'[i]
    <2>1. request[r].student \in Students /\ \A i \in Invites : r \notin lock[i]
      BY <1>1, <1>4, RowsOf DEF Held, Named, Doing, Does, At, Holds
    <2> QED BY <1>1, <1>4, <2>1, LocksDoes, RowsOf
  <1>7. Named(r)' /\ ~Inserting(r)'
    BY <1>1, <1>4, <1>5 DEF Named, Inserting, Does, At, Doing
  <1>8. Held(r)'
    BY <1>5, <1>6 DEF Held, Does, At, Doing, Holds
  <1> HIDE DEF rows
  <1> QED BY <1>1, <1>3, <1>7, <1>8, LocksKeeps

LEMMA RevokesPendingKeeps ==
    ASSUME ParentsAssumption, IInv, NEW r \in Requests, RevokesPending(r)
    PROVE  IInv'
  <1> DEFINE rows == Pending(request[r].student)
  <1>1. /\ Doing(r, "replace", "locked") /\ Blockers(r) = {}
        /\ Locks(r, rows, "linked") /\ UNCHANGED <<Records, fresh>>
    BY DEF RevokesPending
  <1>2. Needs(r) = rows
    BY <1>1 DEF Needs, Doing
  <1>3. \A row \in rows \cap (Invites \cup Students) : Free(r, row)
    BY <1>1, <1>2, NeedsFree
  <1>4. Named(r) /\ Held(r) /\ request[r].student \in Rows
    BY <1>1, RowsOf DEF IInv, Named, Doing, Does
  <1>5. /\ request'[r].doing = "replace" /\ request'[r].phase = "linked"
        /\ request'[r].student = request[r].student /\ request'[r].parent = request[r].parent
        /\ \A row \in Rows : r \in lock'[row] <=> row \in rows \/ r \in lock[row]
    BY <1>1, LocksDoes DEF Doing
  <1>6. rows \subseteq Invites /\ rows' = rows
    BY <1>1, <1>5 DEF Pending, Records
  <1>7. Named(r)' /\ ~Inserting(r)'
    BY <1>1, <1>4, <1>5 DEF Named, Inserting, Does, At, Doing
  <1>8. /\ r \in lock'[request[r].student]
        /\ \A i \in Invites : r \in lock'[i] <=> i \in rows
    <2>1. r \in lock[request[r].student] /\ \A i \in Invites : r \in lock[i] => i \in rows
      BY <1>1, <1>4 DEF Held, Doing, Does, At, Holds
    <2> QED BY <1>4, <1>5, <2>1, RowsOf
  <1> HIDE DEF rows
  <1>9. \A i \in Invites :
           i \in rows <=> invite'[i].status = "pending" /\ invite'[i].student = request'[r].student
    BY <1>1, <1>5 DEF Pending, Records, rows
  <1>10. Held(r)'
    BY <1>5, <1>6, <1>8, <1>9 DEF Held, Does, At, Doing, Holds, Pending
  <1> QED BY <1>1, <1>3, <1>7, <1>10, LocksKeeps

LEMMA LocksLinkKeeps ==
    ASSUME ParentsAssumption, IInv, NEW r \in Requests, LocksLink(r)
    PROVE  IInv'
  <1> DEFINE rows == LinkRows(r)
  <1>1. /\ request[r].doing \in {"link", "unlink"} /\ request[r].phase = "opened"
        /\ Blockers(r) = {}
    BY DEF LocksLink
  <1>2. CASE Rollback(r)
    BY <1>2, RollbackKeeps
  <1>3. CASE ~Rollback(r)
    <2>1. Locks(r, rows, "locked") /\ UNCHANGED <<Records, fresh>>
      BY <1>3 DEF LocksLink
    <2>2. Needs(r) = rows
      BY <1>1 DEF Needs, Doing
    <2>3. \A row \in rows \cap (Invites \cup Students) : Free(r, row)
      BY <1>1, <2>2, NeedsFree
    <2>4. Named(r)
      BY DEF IInv
    <2>5. /\ request'[r].doing = request[r].doing /\ request'[r].phase = "locked"
          /\ request'[r].student = request[r].student
          /\ request'[r].parent = request[r].parent /\ request'[r].saw = request[r].saw
      BY <2>1, LocksDoes
    <2>6. parent' = parent
      BY <2>1 DEF Records
    <2>7. Named(r)' /\ ~Inserting(r)'
      BY <1>1, <2>4, <2>5, <2>6 DEF Named, Inserting, Does, At
    <2>8. Held(r)'
      BY <1>1, <2>5 DEF Held, Does, At, Doing
    <2> HIDE DEF rows
    <2> QED BY <2>1, <2>3, <2>7, <2>8, LocksKeeps
  <1> QED BY <1>2, <1>3

-----------------------------------------------------------------------------
(* Steps that write records when a transaction ends. *)

\* What the end of r leaves to each other request.
Spared(q) ==
    /\ Does(q, "claim") /\ ~At(q, {"opened"}) => invite'[request[q].invite].status = "pending"
    /\ Does(q, "replace") => \A i \in Invites : Holds(q, i) => invite'[i] = invite[i]
    /\ Doing(q, "replace", "linked") =>
          \A i \in Invites :
             invite'[i].status = "pending" /\ invite'[i].student = request[q].student =>
                Holds(q, i)
    /\ Does(q, "claim") /\ request[q].parent # None /\ request[q].who \in Identities =>
          \/ ~parent'[request[q].parent].known
          \/ parent'[request[q].parent].telegram = request[q].who
    /\ q \in fresh' =>
          /\ q \in fresh
          /\ Does(q, "edit") /\ request[q].saw.active => parent'[request[q].parent].active
          /\ Does(q, "link") /\ request[q].linked => family'[Pair(q)] = "active"
    /\ Inserting(q) => \A p \in Parents : parent'[p].telegram # request[q].who

LEMMA EndsKeeps ==
    ASSUME ParentsAssumption, IInv, NEW r \in Requests, Ends(r), TypeOK',
           \A p \in Parents : parent[p].known => parent'[p].known,
           \A q \in Requests \ {r} : Spared(q),
           InvitesNamed', OnePending', NotThereYet', TelegramAgrees'
    PROVE  IInv'
  <1>1. /\ request[r] \in RequestRows /\ request \in [Requests -> RequestRows]
        /\ lock \in [Rows -> SUBSET Requests]
    BY DEF IInv, TypeOK
  <1>2. /\ request'[r] = Idle
        /\ \A row \in Rows : r \notin lock'[row]
        /\ \A q \in Requests \ {r} :
              /\ request'[q] = request[q]
              /\ \A row \in Rows : q \in lock'[row] <=> q \in lock[row]
    BY <1>1 DEF Ends
  <1>3. /\ Named(r)' /\ FoundByUser(r)' /\ SawTrue(r)' /\ Held(r)' /\ ~Inserting(r)'
    <2>1. Named(r)' /\ FoundByUser(r)' /\ SawTrue(r)' /\ ~Inserting(r)'
      BY <1>2 DEF Named, FoundByUser, SawTrue, Inserting, Does, At, Idle
    <2>2. Held(r)'
      BY <1>2, RowsOf DEF Held, Holds, Does, At, Doing, Idle
    <2> QED BY <2>1, <2>2
  <1>4. ASSUME NEW q \in Requests \ {r}
        PROVE  /\ Named(q)' /\ Held(q)' /\ FoundByUser(q)' /\ SawTrue(q)'
               /\ Inserting(q)' => Inserting(q)
    <2>1. /\ request'[q] = request[q]
          /\ \A row \in Rows : q \in lock'[row] <=> q \in lock[row]
      BY <1>2
    <2>2. Named(q) /\ Held(q) /\ Spared(q)
      BY DEF IInv
    <2>3. Named(q)'
      BY <2>1, <2>2 DEF Named, Does, At
    <2>4. FoundByUser(q)' /\ SawTrue(q)'
      BY <2>1, <2>2 DEF FoundByUser, SawTrue, Spared, Does, Pair
    <2>5. Inserting(q)' => Inserting(q)
      BY <2>1, <2>2, RowsOf DEF Inserting, Named, Does, At
    <2>6. Held(q)'
      <3>4. /\ Does(q, "claim") => request[q].invite \in Rows
            /\ Does(q, "replace") => request[q].student \in Rows
            /\ Invites \subseteq Rows
        BY <2>2, RowsOf DEF Named
      <3>5. \A i \in Invites : q \in lock'[i] <=> q \in lock[i]
        BY <2>1, <3>4
      <3>6. At(q, {"idle", "opened"}) => \A row \in Rows : q \notin lock'[row]
        BY <2>1, <2>2 DEF Held, Holds
      <3>7. Does(q, "claim") /\ ~At(q, {"opened"}) =>
               q \in lock'[request[q].invite] /\ invite'[request[q].invite].status = "pending"
        BY <2>1, <2>2, <3>4 DEF Held, Holds, Spared
      <3>8. Does(q, "replace") /\ ~At(q, {"opened"}) => q \in lock'[request[q].student]
        BY <2>1, <2>2, <3>4 DEF Held, Holds
      <3>9. Does(q, "replace") =>
               \A i \in Invites : q \in lock'[i] =>
                  invite'[i].status = "pending" /\ invite'[i].student = request[q].student
        BY <2>2, <3>5 DEF Held, Holds, Pending, Spared
      <3>10. Doing(q, "replace", "linked") =>
                \A i \in Invites :
                   invite'[i].status = "pending" /\ invite'[i].student = request[q].student =>
                      q \in lock'[i]
        BY <2>2, <3>5 DEF Holds, Spared
      <3>11. /\ Does(q, "claim") /\ ~At(q, {"opened"}) =>
                   Holds(q, request[q].invite)' /\ Usable(request[q].invite)'
             /\ Does(q, "replace") =>
                   \A i \in Invites : Holds(q, i)' => i \in Pending(request[q].student)'
             /\ Doing(q, "replace", "linked") =>
                   \A i \in Pending(request[q].student)' : Holds(q, i)'
        BY <2>1, <3>7, <3>9, <3>10 DEF Holds, Usable, Pending
      <3> QED BY <2>1, <3>6, <3>8, <3>11 DEF Held, Does, At, Holds, Doing
    <2> QED BY <2>3, <2>4, <2>5, <2>6
  <1>5. \A q \in Requests : Named(q)' /\ Held(q)' /\ FoundByUser(q)' /\ SawTrue(q)'
    BY <1>3, <1>4
  <1>6. OneHolder'
    <2> SUFFICES ASSUME NEW a \in Requests, NEW b \in Requests, a # b
                 PROVE  /\ \A i \in Invites : ~(a \in lock'[i] /\ b \in lock'[i])
                        /\ \A s \in Students : a \in lock'[s] /\ b \in lock'[s] =>
                              request'[a].doing # "replace"
      BY DEF OneHolder, Holds, Does
    <2>1. CASE a # r /\ b # r
      BY <1>2, <2>1, RowsOf DEF IInv, OneHolder, Holds, Does
    <2>2. CASE a = r \/ b = r
      BY <1>2, <2>2, RowsOf
    <2> QED BY <2>1, <2>2
  <1>7. NewApart'
    <2> SUFFICES ASSUME NEW a \in Requests, NEW b \in Requests, a # b,
                        request'[a].parent = request'[b].parent
                 PROVE  request'[a].parent = None \/ parent'[request'[a].parent].known
      BY DEF NewApart
    <2>1. CASE a # r /\ b # r
      <3>1. request[a].parent = None \/ parent[request[a].parent].known
        BY <1>2, <2>1 DEF IInv, NewApart
      <3>2. request[a] \in RequestRows
        BY <1>1
      <3> QED BY <1>2, <2>1, <3>1, <3>2 DEF RequestRows
    <2>2. CASE a = r \/ b = r
      BY <1>2, <2>2 DEF Idle
    <2> QED BY <2>1, <2>2
  <1>8. InsertsAlone'
    <2>1. ASSUME NEW a \in Requests, Inserting(a)'
          PROVE  /\ a \in Requests \ {r} /\ Inserting(a) /\ request'[a] = request[a]
                 /\ a \in lock'[request'[a].who]
                 /\ \A p \in Parents : parent'[p].telegram # request'[a].who
      <3>1. a \in Requests \ {r}
        BY <1>3, <2>1
      <3>2. Inserting(a) /\ request'[a] = request[a] /\ Spared(a)
        BY <1>2, <1>4, <2>1, <3>1
      <3>3. request[a].who \in Rows /\ a \in lock[request[a].who]
        BY <3>2, RowsOf DEF Inserting, IInv, InsertsAlone, Holds
      <3> QED BY <1>2, <3>1, <3>2, <3>3 DEF Spared
    <2>2. ASSUME NEW a \in Requests, NEW b \in Requests, Inserting(a)', Inserting(b)',
                 request'[a].who = request'[b].who
          PROVE  a = b
      <3>1. Inserting(a) /\ Inserting(b) /\ request[a].who = request[b].who
        BY <2>1, <2>2
      <3> QED BY <3>1 DEF IInv, InsertsAlone
    <2> QED BY <2>1, <2>2 DEF InsertsAlone, Holds
  <1> QED BY <1>5, <1>6, <1>7, <1>8 DEF IInv

\* What a claim that is about to commit stands on.
LEMMA ClaimStands ==
    ASSUME ParentsAssumption, IInv, NEW r \in Requests, Doing(r, "claim", "linked")
    PROVE  /\ request[r].parent \in Parents /\ request[r].student \in Students
           /\ request[r].invite \in Invites /\ Usable(request[r].invite)
           /\ Holds(r, request[r].invite) /\ request[r].who \in Identities \cup Phones
           /\ request[r].name \in Names \cup {None}
           /\ Pair(r) \in Parents \X Students
           /\ request[r].who \in Identities =>
                 IF parent[request[r].parent].known
                 THEN parent[request[r].parent].telegram = request[r].who
                 ELSE Inserting(r)
  <1>1. Named(r) /\ Held(r) /\ FoundByUser(r)
    BY DEF IInv
  <1>2. request[r] \in RequestRows
    BY DEF IInv, TypeOK
  <1>3. /\ request[r].parent \in Parents /\ request[r].student \in Students
        /\ request[r].invite \in Invites /\ request[r].who \in Identities \cup Phones
    BY <1>1 DEF Named, Doing, Does, At
  <1>4. Usable(request[r].invite) /\ Holds(r, request[r].invite)
    BY <1>1 DEF Held, Doing, Does, At
  <1>5. request[r].name \in Names \cup {None}
    BY <1>2 DEF RequestRows
  <1>6. request[r].who \in Identities /\ parent[request[r].parent].known =>
           parent[request[r].parent].telegram = request[r].who
    BY <1>1, <1>3, RowsOf DEF FoundByUser, Doing, Does
  <1>7. request[r].who \in Identities /\ ~parent[request[r].parent].known => Inserting(r)
    BY DEF Inserting, Doing, Does, At
  <1> QED BY <1>3, <1>4, <1>5, <1>6, <1>7 DEF Pair

LEMMA CommitsClaimKeeps ==
    ASSUME ParentsAssumption, IInv, NEW r \in Requests, CommitsClaim(r)
    PROVE  IInv'
  <1> DEFINE q == request[r]
             p == q.parent
             byTelegram == q.who \in Identities
             row == [known |-> TRUE, name |-> q.name,
                     active |-> byTelegram \/ ~parent[p].known \/ parent[p].active,
                     telegram |-> IF byTelegram THEN q.who ELSE parent[p].telegram,
                     phone |-> IF byTelegram THEN parent[p].phone ELSE q.who]
  <1>1. Doing(r, "claim", "linked")
    BY DEF CommitsClaim
  <1>2. /\ p \in Parents /\ q.student \in Students /\ q.invite \in Invites /\ Usable(q.invite)
        /\ Holds(r, q.invite) /\ q.who \in Identities \cup Phones
        /\ q.name \in Names \cup {None} /\ Pair(r) \in Parents \X Students
        /\ byTelegram => IF parent[p].known THEN parent[p].telegram = q.who ELSE Inserting(r)
    BY <1>1, ClaimStands
  <1>3. /\ parent' = [parent EXCEPT ![p] = row]
        /\ account' = [account EXCEPT ![p] = TRUE]
        /\ family' = [family EXCEPT ![Pair(r)] = "active"]
        /\ telegram' = IF byTelegram THEN [telegram EXCEPT ![q.who] = p] ELSE telegram
        /\ invite' = [invite EXCEPT ![q.invite].status = "consumed"]
        /\ Ends(r) /\ UNCHANGED fresh
    BY <1>1, <1>2 DEF CommitsClaim, TakesIdentity
  <1>4. TypeOK
    BY DEF IInv
  <1>5. parent[p] \in ParentRows
    BY <1>2, <1>4 DEF TypeOK
  <1>6. row \in ParentRows
    BY <1>2, <1>5 DEF ParentRows
  <1>7. /\ row.known /\ (byTelegram => row.telegram = q.who)
        /\ (~byTelegram => row.telegram = parent[p].telegram)
        /\ (parent[p].active => row.active)
    BY <1>2 DEF ParentRows
  <1>8. request[r] \in RequestRows /\ Idle \in RequestRows
    BY <1>4 DEF TypeOK, Idle, RequestRows, ParentRows, NoParent
  <1> HIDE DEF row
  <1>9. /\ \A x \in Parents : parent'[x] = IF x = p THEN row ELSE parent[x]
        /\ \A t \in Identities : telegram'[t] = IF t = q.who THEN p ELSE telegram[t]
        /\ \A i \in Invites : i # q.invite => invite'[i] = invite[i]
        /\ invite'[q.invite].status = "consumed"
        /\ \A i \in Invites : invite'[i].student = invite[i].student
        /\ \A pair \in Parents \X Students :
              family'[pair] = family[pair] \/ family'[pair] = "active"
    <2>1. \A x \in Parents : parent'[x] = IF x = p THEN row ELSE parent[x]
      BY <1>3, <1>4 DEF TypeOK
    <2>2. \A t \in Identities : telegram'[t] = IF t = q.who THEN p ELSE telegram[t]
      BY <1>3, <1>4 DEF TypeOK
    <2>3. /\ \A i \in Invites : i # q.invite => invite'[i] = invite[i]
          /\ invite'[q.invite] = [invite[q.invite] EXCEPT !.status = "consumed"]
          /\ invite[q.invite] \in [status : {"none", "pending", "consumed", "revoked"},
                                    student : Students \cup {None}]
      BY <1>2, <1>3, <1>4 DEF TypeOK
    <2>4. /\ invite'[q.invite].status = "consumed"
          /\ invite'[q.invite].student = invite[q.invite].student
      BY <2>3
    <2>5. \A pair \in Parents \X Students :
              family'[pair] = family[pair] \/ family'[pair] = "active"
      BY <1>3, <1>4 DEF TypeOK
    <2> QED BY <2>1, <2>2, <2>3, <2>4, <2>5
  <1>10. TypeOK'
    <2>1. /\ invite' \in [Invites -> [status : {"none", "pending", "consumed", "revoked"},
                                      student : Students \cup {None}]]
          /\ fresh' \subseteq Requests
      <3>1. PICK used : used = [invite[q.invite] EXCEPT !.status = "consumed"]
        OBVIOUS
      <3>2. invite' = [invite EXCEPT ![q.invite] = used]
        BY <1>3, <1>4, <3>1 DEF TypeOK
      <3>3. invite[q.invite] \in [status : {"none", "pending", "consumed", "revoked"},
                                  student : Students \cup {None}]
        BY <1>2, <1>4 DEF TypeOK
      <3>4. used \in [status : {"none", "pending", "consumed", "revoked"},
                      student : Students \cup {None}]
        BY <3>1, <3>3
      <3>5. fresh' \subseteq Requests
        BY <1>3, <1>4 DEF TypeOK
      <3> QED BY <1>4, <3>2, <3>4, <3>5 DEF TypeOK
    <2>2. /\ parent' \in [Parents -> ParentRows] /\ account' \in [Parents -> BOOLEAN]
          /\ \A x \in Parents : account'[x] => parent'[x].known
      <3>1. parent \in [Parents -> ParentRows] /\ account \in [Parents -> BOOLEAN]
        BY <1>4 DEF TypeOK
      <3>2. parent' \in [Parents -> ParentRows] /\ account' \in [Parents -> BOOLEAN]
        BY <1>3, <1>6, <3>1
      <3>3. ASSUME NEW x \in Parents, account'[x] PROVE parent'[x].known
        <4>1. CASE x = p
          BY <1>7, <1>9, <4>1
        <4>2. CASE x # p
          <5>1. account'[x] = account[x] /\ parent'[x] = parent[x]
            BY <1>3, <1>9, <3>1, <4>2
          <5> QED BY <1>4, <3>3, <5>1 DEF TypeOK
        <4> QED BY <4>1, <4>2
      <3> QED BY <3>2, <3>3
    <2>3. /\ family' \in [Parents \X Students -> {"none", "active", "inactive"}]
          /\ telegram' \in [Identities -> Parents \cup Staff \cup {None}]
      BY <1>2, <1>3, <1>4 DEF TypeOK
    <2>4. request' \in [Requests -> RequestRows] /\ lock' \in [Rows -> SUBSET Requests]
      BY <1>3, <1>4, <1>8 DEF TypeOK, Ends
    <2> QED BY <2>1, <2>2, <2>3, <2>4 DEF TypeOK
  <1>11. \A x \in Parents : parent[x].known => parent'[x].known
    BY <1>7, <1>9
  <1>12. ASSUME NEW x \in Requests \ {r} PROVE Spared(x)
    <2>1. /\ Named(x) /\ Held(x) /\ FoundByUser(x) /\ SawTrue(x)
      BY DEF IInv
    <2>2. \A i \in Invites : Holds(x, i) => i # q.invite
      BY <1>2 DEF IInv, OneHolder
    <2>3. Does(x, "claim") /\ ~At(x, {"opened"}) => invite'[request[x].invite].status = "pending"
      BY <1>9, <2>1, <2>2 DEF Held, Named, Usable
    <2>4. Does(x, "replace") => \A i \in Invites : Holds(x, i) => invite'[i] = invite[i]
      BY <1>9, <2>2
    <2>5. Doing(x, "replace", "linked") =>
             \A i \in Invites :
                invite'[i].status = "pending" /\ invite'[i].student = request[x].student =>
                   Holds(x, i)
      <3>1. \A i \in Invites : invite'[i].status = "pending" => invite[i].status = "pending"
        BY <1>2, <1>9 DEF Usable
      <3> QED BY <1>9, <2>1, <3>1 DEF Held, Pending
    <2>6. Does(x, "claim") /\ request[x].parent # None /\ request[x].who \in Identities =>
             \/ ~parent'[request[x].parent].known
             \/ parent'[request[x].parent].telegram = request[x].who
      <3> SUFFICES ASSUME Does(x, "claim"), request[x].parent # None,
                          request[x].who \in Identities
                   PROVE  \/ ~parent'[request[x].parent].known
                          \/ parent'[request[x].parent].telegram = request[x].who
        OBVIOUS
      <3>1. request[x].parent \in Parents
        BY <2>1 DEF Named, At
      <3>2. CASE request[x].parent # p
        BY <1>9, <2>1, <3>1, <3>2 DEF FoundByUser
      <3>3. CASE request[x].parent = p
        <4>1. parent[p].known
          BY <3>3 DEF IInv, NewApart
        <4>2. parent[p].telegram = request[x].who
          BY <2>1, <3>3, <4>1 DEF FoundByUser
        <4> QED BY <1>2, <1>7, <1>9, <3>3, <4>1, <4>2
      <3> QED BY <3>2, <3>3
    <2>7. x \in fresh' =>
             /\ x \in fresh
             /\ Does(x, "edit") /\ request[x].saw.active => parent'[request[x].parent].active
             /\ Does(x, "link") /\ request[x].linked => family'[Pair(x)] = "active"
      <3>1. Does(x, "edit") \/ Does(x, "link") => request[x].parent \in Parents
        BY <2>1 DEF Named
      <3>2. Does(x, "link") => Pair(x) \in Parents \X Students
        BY <2>1 DEF Named, Pair
      <3> QED BY <1>3, <1>7, <1>9, <2>1, <3>1, <3>2 DEF SawTrue
    <2>8. Inserting(x) => \A y \in Parents : parent'[y].telegram # request[x].who
      <3> SUFFICES ASSUME Inserting(x), NEW y \in Parents
                   PROVE  parent'[y].telegram # request[x].who
        OBVIOUS
      <3>1. parent[y].telegram # request[x].who
        BY DEF IInv, InsertsAlone
      <3>2. CASE y # p
        BY <1>9, <3>1, <3>2
      <3>3. CASE y = p /\ byTelegram
        <4>1. q.who # request[x].who
          BY <1>2, <3>1, <3>3 DEF IInv, InsertsAlone
        <4> QED BY <1>2, <1>7, <1>9, <3>3, <4>1
      <3>4. CASE y = p /\ ~byTelegram
        BY <1>2, <1>7, <1>9, <3>1, <3>4
      <3> QED BY <3>2, <3>3, <3>4
    <2> QED BY <2>3, <2>4, <2>5, <2>6, <2>7, <2>8 DEF Spared
  <1>13. InvitesNamed' /\ OnePending'
    <2>1. /\ \A i \in Invites : invite'[i].status = "pending" => invite[i].status = "pending"
          /\ \A i \in Invites : invite'[i].status # "none" => invite[i].status # "none"
      BY <1>2, <1>9 DEF Usable
    <2> QED BY <1>9, <2>1 DEF IInv, InvitesNamed, OnePending, Usable
  <1>14. NotThereYet'
    BY <1>7, <1>9 DEF IInv, NotThereYet
  <1>15. TelegramAgrees'
    <2> SUFFICES ASSUME NEW x \in Parents, NEW t \in Identities
                 PROVE  parent'[x].telegram = t <=> telegram'[t] = x
      BY DEF TelegramAgrees
    <2>1. /\ parent[x].telegram = t <=> telegram[t] = x
          /\ parent[p].telegram = t <=> telegram[t] = p
      BY <1>2 DEF IInv, TelegramAgrees
    <2>2. CASE ~byTelegram
      BY <1>2, <1>7, <1>9, <2>1, <2>2
    <2>3. CASE byTelegram /\ parent[p].known
      BY <1>2, <1>7, <1>9, <2>1, <2>3
    <2>4. CASE byTelegram /\ ~parent[p].known
      <3>1. Inserting(r) /\ \A y \in Parents : parent[y].telegram # q.who
        BY <1>2, <2>4 DEF IInv, InsertsAlone
      <3>2. parent[p].telegram = None /\ None \notin Identities
        BY <1>2, <2>4, RowsOf DEF IInv, NotThereYet, NoParent
      <3> QED BY <1>2, <1>7, <1>9, <2>1, <2>4, <3>1, <3>2
    <2> QED BY <2>2, <2>3, <2>4
  <1> QED BY <1>3, <1>10, <1>11, <1>12, <1>13, <1>14, <1>15, EndsKeeps

\* The replacement that ends held every invite it revokes, and the student.
LEMMA IssuesInviteKeeps ==
    ASSUME ParentsAssumption, IInv, NEW r \in Requests, IssuesInvite(r)
    PROVE  IInv'
  <1> DEFINE s == request[r].student
  <1>1. Doing(r, "replace", "linked") /\ Ends(r)
        /\ UNCHANGED <<parent, account, family, telegram, fresh>>
    BY DEF IssuesInvite
  <1>2. PICK new \in Invites :
            /\ invite[new].status = "none"
            /\ invite' = [i \in Invites |->
                   IF i = new THEN [status |-> "pending", student |-> s]
                   ELSE IF r \in lock[i] THEN [invite[i] EXCEPT !.status = "revoked"]
                        ELSE invite[i]]
    BY DEF IssuesInvite, Room
  <1>3. TypeOK /\ Named(r) /\ Held(r)
    BY DEF IInv
  <1>4. /\ s \in Students /\ Holds(r, s)
        /\ \A i \in Invites : Holds(r, i) <=> i \in Pending(s)
    BY <1>1, <1>3 DEF Named, Held, Doing, Does, At, Pending
  <1>5. \A i \in Invites : invite[i] \in [status : {"none", "pending", "consumed", "revoked"},
                                          student : Students \cup {None}]
    BY <1>3 DEF TypeOK
  <1>6. /\ invite'[new].status = "pending" /\ invite'[new].student = s
        /\ \A i \in Invites \ {new} :
              /\ invite'[i].student = invite[i].student
              /\ ~Holds(r, i) => invite'[i] = invite[i]
              /\ Holds(r, i) => invite'[i].status = "revoked"
    BY <1>2, <1>5 DEF Holds
  <1>7. TypeOK'
    <2>1. invite' \in [Invites -> [status : {"none", "pending", "consumed", "revoked"},
                                   student : Students \cup {None}]]
      BY <1>2, <1>4, <1>5
    <2>2. Idle \in RequestRows
      BY DEF Idle, RequestRows, ParentRows, NoParent
    <2>3. request' \in [Requests -> RequestRows] /\ lock' \in [Rows -> SUBSET Requests]
      BY <1>1, <1>3, <2>2 DEF TypeOK, Ends
    <2> QED BY <1>1, <1>3, <2>1, <2>3 DEF TypeOK
  <1>8. ASSUME NEW x \in Requests \ {r} PROVE Spared(x)
    <2>1. /\ Named(x) /\ Held(x) /\ FoundByUser(x) /\ SawTrue(x)
      BY DEF IInv
    <2>2. \A i \in Invites : Holds(x, i) => ~Holds(r, i)
      BY DEF IInv, OneHolder
    <2>3. Does(x, "claim") /\ ~At(x, {"opened"}) => invite'[request[x].invite].status = "pending"
      BY <1>2, <1>6, <2>1, <2>2 DEF Held, Named, Usable
    <2>4. Does(x, "replace") => \A i \in Invites : Holds(x, i) => invite'[i] = invite[i]
      <3>1. Does(x, "replace") => \A i \in Invites : Holds(x, i) => invite[i].status = "pending"
        BY <2>1 DEF Held, Pending
      <3> QED BY <1>2, <1>6, <2>2, <3>1
    <2>5. Doing(x, "replace", "linked") =>
             \A i \in Invites :
                invite'[i].status = "pending" /\ invite'[i].student = request[x].student =>
                   Holds(x, i)
      <3> SUFFICES ASSUME Doing(x, "replace", "linked"), NEW i \in Invites,
                          invite'[i].status = "pending", invite'[i].student = request[x].student
                   PROVE  Holds(x, i)
        OBVIOUS
      <3>1. Holds(x, request[x].student)
        BY <2>1 DEF Held, Doing, Does, At
      <3>2. request[x].student # s
        BY <1>1, <1>4, <3>1 DEF IInv, OneHolder, Doing, Does
      <3>3. i # new /\ ~Holds(r, i)
        BY <1>6, <3>2
      <3>4. invite[i].status = "pending" /\ invite[i].student = request[x].student
        BY <1>6, <3>3
      <3> QED BY <2>1, <3>4 DEF Held, Pending
    <2>6. Does(x, "claim") /\ request[x].parent # None /\ request[x].who \in Identities =>
             \/ ~parent'[request[x].parent].known
             \/ parent'[request[x].parent].telegram = request[x].who
      BY <1>1, <2>1 DEF FoundByUser
    <2>7. x \in fresh' =>
             /\ x \in fresh
             /\ Does(x, "edit") /\ request[x].saw.active => parent'[request[x].parent].active
             /\ Does(x, "link") /\ request[x].linked => family'[Pair(x)] = "active"
      BY <1>1, <2>1 DEF SawTrue
    <2>8. Inserting(x) => \A y \in Parents : parent'[y].telegram # request[x].who
      BY <1>1 DEF IInv, InsertsAlone
    <2> QED BY <2>3, <2>4, <2>5, <2>6, <2>7, <2>8 DEF Spared
  <1>9. InvitesNamed'
    BY <1>4, <1>6 DEF IInv, InvitesNamed, Pending
  <1>10. OnePending'
    <2> SUFFICES ASSUME NEW i \in Invites, NEW j \in Invites,
                        invite'[i].status = "pending", invite'[j].status = "pending",
                        invite'[i].student = invite'[j].student
                 PROVE  i = j
      BY DEF OnePending, Usable
    <2>1. \A k \in Invites \ {new} : invite'[k].status = "pending" =>
             invite[k].status = "pending" /\ invite[k].student = invite'[k].student
               /\ invite[k].student # s
      BY <1>4, <1>6 DEF Pending
    <2> QED BY <1>6, <2>1 DEF IInv, OnePending, Usable
  <1>11. NotThereYet' /\ TelegramAgrees'
    BY <1>1 DEF IInv, NotThereYet, TelegramAgrees
  <1>12. \A p \in Parents : parent[p].known => parent'[p].known
    BY <1>1
  <1> QED BY <1>1, <1>7, <1>8, <1>9, <1>10, <1>11, <1>12, EndsKeeps

\* An edit of the present version writes over its parent and makes other versions old.
LEMMA CommitsEditKeeps ==
    ASSUME ParentsAssumption, IInv, NEW r \in Requests, CommitsEdit(r)
    PROVE  IInv'
  <1> DEFINE p == request[r].parent
             row == [request[r].saw EXCEPT !.name = request[r].name,
                        !.active = request[r].active, !.telegram = parent[p].telegram]
  <1>1. CASE Rollback(r)
    BY <1>1, RollbackKeeps
  <1>2. CASE ~Rollback(r)
    <2>1. /\ Doing(r, "edit", "opened") /\ Ends(r) /\ Bumped(r)
          /\ parent' = [parent EXCEPT ![p] = row]
          /\ account' = [account EXCEPT ![p] = request[r].active]
          /\ UNCHANGED <<invite, family, telegram>>
      BY <1>2 DEF CommitsEdit
    <2>2. TypeOK /\ Named(r)
      BY DEF IInv
    <2>3. p \in Parents /\ parent[p].known /\ request[r].saw.known
      BY <2>1, <2>2 DEF Named, Doing, Does
    <2>4. request[r] \in RequestRows /\ parent[p] \in ParentRows
      BY <2>2, <2>3 DEF TypeOK
    <2>5. /\ row \in ParentRows /\ row.known /\ row.telegram = parent[p].telegram
      BY <2>3, <2>4 DEF RequestRows, ParentRows
    <2>6. request[r].active \in BOOLEAN
      BY <2>4 DEF RequestRows
    <2> HIDE DEF row
    <2>7. /\ \A x \in Parents : parent'[x] = IF x = p THEN row ELSE parent[x]
          /\ \A x \in Parents : parent'[x].known <=> parent[x].known
          /\ \A x \in Parents : parent'[x].telegram = parent[x].telegram
      <3>1. \A x \in Parents : parent'[x] = IF x = p THEN row ELSE parent[x]
        BY <2>1, <2>2 DEF TypeOK
      <3>2. \A x \in Parents : parent[x].known \in BOOLEAN
        BY <2>2 DEF TypeOK, ParentRows
      <3> QED BY <2>3, <2>5, <3>1, <3>2
    <2>8. TypeOK'
      <3>1. Idle \in RequestRows
        BY DEF Idle, RequestRows, ParentRows, NoParent
      <3>2. request' \in [Requests -> RequestRows] /\ lock' \in [Rows -> SUBSET Requests]
        BY <2>1, <2>2, <3>1 DEF TypeOK, Ends
      <3>3. /\ parent' \in [Parents -> ParentRows] /\ account' \in [Parents -> BOOLEAN]
            /\ fresh' \subseteq Requests
        BY <2>1, <2>2, <2>5, <2>6 DEF TypeOK, Bumped
      <3>4. \A x \in Parents : account'[x] => parent'[x].known
        BY <2>1, <2>2, <2>3, <2>7 DEF TypeOK
      <3> QED BY <2>1, <2>2, <3>2, <3>3, <3>4 DEF TypeOK
    <2>9. ASSUME NEW x \in Requests \ {r} PROVE Spared(x)
      <3>1. /\ Named(x) /\ Held(x) /\ FoundByUser(x) /\ SawTrue(x)
        BY DEF IInv
      <3>2. Does(x, "claim") /\ ~At(x, {"opened"}) =>
               invite'[request[x].invite].status = "pending"
        BY <2>1, <3>1 DEF Held, Usable
      <3>3. /\ Does(x, "replace") => \A i \in Invites : Holds(x, i) => invite'[i] = invite[i]
            /\ Doing(x, "replace", "linked") =>
                  \A i \in Invites :
                     invite'[i].status = "pending" /\ invite'[i].student = request[x].student =>
                        Holds(x, i)
        BY <2>1, <3>1 DEF Held, Pending
      <3>4. Does(x, "claim") /\ request[x].parent # None /\ request[x].who \in Identities =>
               \/ ~parent'[request[x].parent].known
               \/ parent'[request[x].parent].telegram = request[x].who
        <4>1. Does(x, "claim") /\ request[x].parent # None => request[x].parent \in Parents
          BY <3>1 DEF Named, At
        <4> QED BY <2>7, <3>1, <4>1 DEF FoundByUser
      <3>5. x \in fresh' =>
               /\ x \in fresh
               /\ Does(x, "edit") /\ request[x].saw.active => parent'[request[x].parent].active
               /\ Does(x, "link") /\ request[x].linked => family'[Pair(x)] = "active"
        <4>1. x \in fresh' => x \in fresh /\ request[x].parent # p
          BY <2>1 DEF Bumped
        <4>2. Does(x, "edit") => request[x].parent \in Parents
          BY <3>1 DEF Named
        <4> QED BY <2>1, <2>7, <3>1, <4>1, <4>2 DEF SawTrue
      <3>6. Inserting(x) => \A y \in Parents : parent'[y].telegram # request[x].who
        BY <2>7 DEF IInv, InsertsAlone
      <3> QED BY <3>2, <3>3, <3>4, <3>5, <3>6 DEF Spared
    <2>10. InvitesNamed' /\ OnePending'
      BY <2>1 DEF IInv, InvitesNamed, OnePending, Usable
    <2>11. NotThereYet'
      BY <2>3, <2>7 DEF IInv, NotThereYet
    <2>12. TelegramAgrees'
      BY <2>1, <2>7 DEF IInv, TelegramAgrees
    <2>13. \A x \in Parents : parent[x].known => parent'[x].known
      BY <2>7
    <2> QED BY <2>1, <2>8, <2>9, <2>10, <2>11, <2>12, <2>13, EndsKeeps
  <1> QED BY <1>1, <1>2

LEMMA CommitsLinkKeeps ==
    ASSUME ParentsAssumption, IInv, NEW r \in Requests, CommitsLink(r)
    PROVE  IInv'
  <1> DEFINE p == request[r].parent
             state == IF request[r].doing = "link" THEN "active" ELSE "inactive"
  <1>1. CASE Rollback(r)
    BY <1>1, RollbackKeeps
  <1>2. CASE ~Rollback(r)
    <2>1. /\ request[r].doing \in {"link", "unlink"} /\ Ends(r) /\ Bumped(r)
          /\ family' = [family EXCEPT ![Pair(r)] = state]
          /\ UNCHANGED <<invite, parent, account, telegram>>
      BY <1>2 DEF CommitsLink
    <2>2. TypeOK /\ Named(r)
      BY DEF IInv
    <2>3. TypeOK'
      <3>1. Idle \in RequestRows
        BY DEF Idle, RequestRows, ParentRows, NoParent
      <3>2. request' \in [Requests -> RequestRows] /\ lock' \in [Rows -> SUBSET Requests]
        BY <2>1, <2>2, <3>1 DEF TypeOK, Ends
      <3>3. /\ family' \in [Parents \X Students -> {"none", "active", "inactive"}]
            /\ fresh' \subseteq Requests
        BY <2>1, <2>2 DEF TypeOK, Bumped
      <3> QED BY <2>1, <2>2, <3>2, <3>3 DEF TypeOK
    <2>4. ASSUME NEW x \in Requests \ {r} PROVE Spared(x)
      <3>1. /\ Named(x) /\ Held(x) /\ FoundByUser(x) /\ SawTrue(x)
        BY DEF IInv
      <3>2. Does(x, "claim") /\ ~At(x, {"opened"}) =>
               invite'[request[x].invite].status = "pending"
        BY <2>1, <3>1 DEF Held, Usable
      <3>3. /\ Does(x, "replace") => \A i \in Invites : Holds(x, i) => invite'[i] = invite[i]
            /\ Doing(x, "replace", "linked") =>
                  \A i \in Invites :
                     invite'[i].status = "pending" /\ invite'[i].student = request[x].student =>
                        Holds(x, i)
        BY <2>1, <3>1 DEF Held, Pending
      <3>4. Does(x, "claim") /\ request[x].parent # None /\ request[x].who \in Identities =>
               \/ ~parent'[request[x].parent].known
               \/ parent'[request[x].parent].telegram = request[x].who
        BY <2>1, <3>1 DEF FoundByUser
      <3>5. x \in fresh' =>
               /\ x \in fresh
               /\ Does(x, "edit") /\ request[x].saw.active => parent'[request[x].parent].active
               /\ Does(x, "link") /\ request[x].linked => family'[Pair(x)] = "active"
        <4>1. x \in fresh' => x \in fresh /\ request[x].parent # p
          BY <2>1 DEF Bumped
        <4>2. Pair(x) # Pair(r) /\ Pair(x) \in Parents \X Students =>
                 family'[Pair(x)] = family[Pair(x)]
          BY <2>1, <2>2 DEF TypeOK
        <4>3. Does(x, "link") => Pair(x) \in Parents \X Students
          BY <3>1 DEF Named, Pair
        <4>4. request[x].parent # p => Pair(x) # Pair(r)
          BY DEF Pair
        <4> QED BY <2>1, <3>1, <4>1, <4>2, <4>3, <4>4 DEF SawTrue
      <3>6. Inserting(x) => \A y \in Parents : parent'[y].telegram # request[x].who
        BY <2>1 DEF IInv, InsertsAlone
      <3> QED BY <3>2, <3>3, <3>4, <3>5, <3>6 DEF Spared
    <2>5. InvitesNamed' /\ OnePending' /\ NotThereYet' /\ TelegramAgrees'
      BY <2>1 DEF IInv, InvitesNamed, OnePending, Usable, NotThereYet, TelegramAgrees
    <2>6. \A x \in Parents : parent[x].known => parent'[x].known
      BY <2>1
    <2> QED BY <2>1, <2>3, <2>4, <2>5, <2>6, EndsKeeps
  <1> QED BY <1>1, <1>2

LEMMA SameKeeps ==
    ASSUME IInv, UNCHANGED <<invite, parent, account, family, request, fresh, lock>>,
           telegram' \in [Identities -> Parents \cup Staff \cup {None}], TelegramAgrees'
    PROVE  IInv'
  <1>1. TypeOK'
    BY DEF IInv, TypeOK
  <1>2. \A r \in Requests : Named(r)' /\ FoundByUser(r)' /\ SawTrue(r)'
    BY DEF IInv, Named, FoundByUser, SawTrue, Does, At, Pair
  <1>3. \A r \in Requests : Held(r)'
    BY DEF IInv, Held, Usable, Pending, Holds, Doing, Does, At
  <1>4. OneHolder' /\ NewApart' /\ InsertsAlone'
    BY DEF IInv, OneHolder, NewApart, InsertsAlone, Inserting, Holds, Does, At
  <1>5. InvitesNamed' /\ OnePending' /\ NotThereYet'
    BY DEF IInv, InvitesNamed, OnePending, NotThereYet, Usable
  <1> QED BY <1>1, <1>2, <1>3, <1>4, <1>5 DEF IInv

\* Staff link and unlink their own Telegram user, never one of a parent.
LEMMA StaffKeeps ==
    ASSUME ParentsAssumption, IInv, NEW a \in Staff,
           (\E t \in Identities : LinksIdentity(a, t)) \/ UnlinksIdentity(a)
    PROVE  IInv'
  <1>1. /\ UNCHANGED <<invite, parent, account, family, request, fresh, lock>>
        /\ telegram \in [Identities -> Parents \cup Staff \cup {None}]
    BY DEF LinksIdentity, UnlinksIdentity, IInv, TypeOK
  <1>2. a \notin Parents /\ None \notin Parents
    BY RowsOf
  <1>3. /\ telegram' \in [Identities -> Parents \cup Staff \cup {None}]
        /\ \A x \in Identities, p \in Parents : telegram'[x] = p <=> telegram[x] = p
    BY <1>1, <1>2 DEF LinksIdentity, UnlinksIdentity
  <1>4. TelegramAgrees'
    BY <1>1, <1>3 DEF IInv, TelegramAgrees
  <1> QED BY <1>1, <1>3, <1>4, SameKeeps

LEMMA InitHolds ==
    ASSUME ParentsAssumption, Init
    PROVE  IInv
  <1>1. Idle \in RequestRows /\ NoParent \in ParentRows
    BY DEF Idle, RequestRows, ParentRows, NoParent
  <1>2. TypeOK
    BY <1>1 DEF Init, TypeOK, NoParent
  <1>3. /\ \A r \in Requests : request[r] = Idle
        /\ \A r \in Requests, row \in Rows : ~Holds(r, row)
    BY DEF Init, Holds
  <1>4. ASSUME NEW r \in Requests
        PROVE  Named(r) /\ Held(r) /\ FoundByUser(r) /\ SawTrue(r) /\ ~Inserting(r)
    <2>1. Named(r) /\ FoundByUser(r) /\ SawTrue(r) /\ ~Inserting(r)
      BY <1>3 DEF Init, Named, FoundByUser, SawTrue, Inserting, Does, At, Idle
    <2>2. Held(r)
      BY <1>3, RowsOf DEF Held, Does, At, Doing, Idle
    <2> QED BY <2>1, <2>2
  <1>5. OneHolder /\ NewApart /\ InsertsAlone
    <2>1. OneHolder
      BY <1>3, RowsOf DEF OneHolder
    <2>2. NewApart
      BY <1>3 DEF NewApart, Idle
    <2> QED BY <1>4, <2>1, <2>2 DEF InsertsAlone
  <1>6. InvitesNamed /\ OnePending /\ NotThereYet
    BY DEF Init, InvitesNamed, OnePending, NotThereYet, Usable
  <1>7. TelegramAgrees
    <2>1. None \notin Identities \cup Parents
      BY RowsOf
    <2> QED BY <2>1 DEF Init, TelegramAgrees, NoParent
  <1> QED BY <1>2, <1>4, <1>5, <1>6, <1>7 DEF IInv

LEMMA AdvanceKeeps ==
    ASSUME ParentsAssumption, IInv, NEW r \in Requests, Advances(r)
    PROVE  IInv'
  BY LocksInviteKeeps, FindsParentKeeps, NamesParentKeeps, LinksChildKeeps, CommitsClaimKeeps,
     LocksStudentKeeps, RevokesPendingKeeps, IssuesInviteKeeps, CommitsEditKeeps,
     LocksLinkKeeps, CommitsLinkKeeps, Zenon DEF Advances

LEMMA NextKeeps ==
    ASSUME ParentsAssumption, IInv, [Next]_vars
    PROVE  IInv'
  <1>1. CASE UNCHANGED vars
    <2>1. /\ UNCHANGED <<invite, parent, account, family, telegram, request, fresh, lock>>
      BY <1>1 DEF vars
    <2>2. telegram' \in [Identities -> Parents \cup Staff \cup {None}] /\ TelegramAgrees'
      BY <2>1 DEF IInv, TypeOK, TelegramAgrees
    <2> QED BY <2>1, <2>2, SameKeeps
  <1>2. ASSUME NEW r \in Requests, Advances(r) \/ DeadlockAborts(r) PROVE IInv'
    BY <1>2, AdvanceKeeps, RollbackKeeps DEF DeadlockAborts
  <1>3. ASSUME NEW r \in Requests,
               \E i \in Invites, who \in Identities \cup Phones, name \in Names :
                  SendsClaim(r, i, who, name)
        PROVE  IInv'
    BY <1>3, SendsClaimKeeps
  <1>4. ASSUME NEW r \in Requests, \E s \in Students : SendsReplace(r, s) PROVE IInv'
    BY <1>4, SendsReplaceKeeps
  <1>5. ASSUME NEW r \in Requests, NEW p \in Parents,
               \E name \in Names, active \in BOOLEAN : OpensEdit(r, p, name, active)
        PROVE  IInv'
    BY <1>5, OpensEditKeeps
  <1>6. ASSUME NEW r \in Requests, NEW p \in Parents,
               \E s \in Students, what \in {"link", "unlink"} : OpensLink(r, p, s, what)
        PROVE  IInv'
    BY <1>6, OpensLinkKeeps
  <1>7. ASSUME NEW a \in Staff,
               (\E t \in Identities : LinksIdentity(a, t)) \/ UnlinksIdentity(a)
        PROVE  IInv'
    BY <1>7, StaffKeeps
  <1> QED BY <1>1, <1>2, <1>3, <1>4, <1>5, <1>6, <1>7 DEF Next

LEMMA Invariance ==
    ASSUME ParentsAssumption
    PROVE  Spec => []IInv
  <1>1. Init => IInv
    BY InitHolds
  <1>2. IInv /\ [Next]_vars => IInv'
    BY NextKeeps
  <1> QED BY <1>1, <1>2, PTL DEF Spec

-----------------------------------------------------------------------------
(* Waiting. *)

\* Where all of a set wait for one of them, one waits for itself: it belongs to a
\* smallest set of this kind.
LEMMA SomeoneWaitsForItself ==
    ASSUME NEW S, IsFiniteSet(S), NEW waits \in [S -> SUBSET S],
           NEW busy \in SUBSET S, busy # {}, \A s \in busy : waits[s] \cap busy # {}
    PROVE  \E r \in busy : \A waited \in SUBSET S :
              waits[r] \subseteq waited /\ (\A s \in waited : waits[s] \subseteq waited)
              => r \in waited
  <1> DEFINE Circles == {d \in SUBSET busy : d # {} /\ \A s \in d : waits[s] \cap d # {}}
             less == StrictSubsetOrdering(S)
  <1>1. Circles \subseteq SUBSET S /\ Circles # {}
    <2>1. busy \in Circles
      OBVIOUS
    <2> QED BY <2>1
  <1>2. IsWellFoundedOn(less, SUBSET S)
    BY FS_StrictSubsetOrderingWellFounded, FS_FiniteSubsetsOfFinite
  <1>3. PICK d \in Circles : \A e \in Circles : <<e, d>> \notin less
    <2> HIDE DEF Circles, less
    <2> QED BY <1>1, <1>2, WFMin
  <1>4. \A e \in Circles : e \subseteq d => e = d
    BY <1>1, <1>3 DEF StrictSubsetOrdering
  <1>5. PICK r \in d : TRUE
    BY <1>3
  <1>6. ASSUME NEW waited \in SUBSET S, waits[r] \subseteq waited,
               \A s \in waited : waits[s] \subseteq waited, r \notin waited
        PROVE  FALSE
    <2>1. waited \cap d \in Circles
      <3>1. waited \cap d # {}
        BY <1>3, <1>5, <1>6
      <3>2. \A s \in waited \cap d : waits[s] \cap (waited \cap d) # {}
        BY <1>3, <1>6
      <3> QED BY <1>3, <3>1, <3>2
    <2> QED BY <1>4, <1>5, <1>6, <2>1
  <1> QED BY <1>3, <1>5, <1>6

\* Who is waited for has a request under way.
LEMMA BlockersAreBusy ==
    ASSUME ParentsAssumption, IInv, NEW r \in Requests, NEW q \in Blockers(r)
    PROVE  q \in Requests /\ request[q] # Idle
  <1>1. Named(r) /\ TypeOK
    BY DEF IInv
  <1>2. Needs(r) \subseteq Rows
    <2>1. Doing(r, "claim", "opened") => request[r].invite \in Rows
      BY <1>1, RowsOf DEF Named, Doing, Does
    <2>2. Doing(r, "claim", "found") => request[r].parent \in Rows
      BY <1>1, RowsOf DEF Named, Doing, Does, At
    <2>3. Doing(r, "claim", "named") => LinkRows(r) \subseteq Rows
      BY <1>1, RowsOf DEF Named, Doing, Does, At, LinkRows, Pair
    <2>4. Does(r, "replace") => request[r].student \in Rows
      BY <1>1, RowsOf DEF Named, Does
    <2>5. Does(r, "edit") => request[r].parent \in Rows
      BY <1>1, RowsOf DEF Named, Does
    <2>6. Does(r, "link") \/ Does(r, "unlink") =>
             request[r].parent \in Rows /\ LinkRows(r) \subseteq Rows
      BY <1>1, RowsOf DEF Named, Does, LinkRows, Pair
    <2>7. \A s : Pending(s) \subseteq Rows
      BY RowsOf DEF Pending
    <2>8. {request[r].who} \cap Identities \subseteq Rows
      BY RowsOf
    <2> HIDE DEF LinkRows, Pending, Rows
    <2> QED BY <2>1, <2>2, <2>3, <2>4, <2>5, <2>6, <2>7, <2>8 DEF Needs, Doing, Does
  <1>3. PICK row \in Needs(r) : q \in lock[row]
    BY DEF Blockers, Conflicts
  <1>4. row \in Rows /\ q \in Requests /\ Holds(q, row)
    BY <1>1, <1>2, <1>3 DEF TypeOK, Holds
  <1>5. Held(q)
    BY <1>4 DEF IInv
  <1> QED BY <1>4, <1>5 DEF Held, At, Idle

LEMMA NobodyIsForgotten ==
    ASSUME ParentsAssumption, IInv
    PROVE  SomeRequestMoves
  <1> DEFINE busy == {r \in Requests : request[r] # Idle}
             waits == [r \in Requests |-> Blockers(r)]
  <1> SUFFICES ASSUME busy # {}, \A r \in busy : Blockers(r) # {}
               PROVE  \E r \in busy : Deadlocked(r)
    BY DEF SomeRequestMoves
  <1>1. \A r \in Requests : Blockers(r) \subseteq busy
    BY BlockersAreBusy
  <1>2. waits \in [Requests -> SUBSET Requests] /\ \A r \in Requests : waits[r] = Blockers(r)
    BY <1>1
  <1>3. \A r \in busy : waits[r] \cap busy # {}
    BY <1>1, <1>2
  <1>4. busy \in SUBSET Requests /\ IsFiniteSet(Requests)
    BY DEF ParentsAssumption
  <1> HIDE DEF waits, busy
  <1>5. PICK r \in busy : \A waited \in SUBSET Requests :
              waits[r] \subseteq waited /\ (\A s \in waited : waits[s] \subseteq waited)
              => r \in waited
    BY <1>2, <1>3, <1>4, SomeoneWaitsForItself
  <1>6. Deadlocked(r)
    BY <1>2, <1>4, <1>5 DEF Deadlocked
  <1> QED BY <1>6

-----------------------------------------------------------------------------
(* The theorems. *)

\* A student has one invite that can be claimed, a parent's row and the Telegram logins
\* agree on the parent's Telegram user, and of any number of requests one goes on or is
\* found in a circle, whatever parents, Customer Support and staff do meanwhile.
THEOREM ParentsKeepFamilySound ==
    ASSUME ParentsAssumption
    PROVE  Spec => []FamilySound
  <1>1. ASSUME IInv PROVE FamilySound
    <2>1. TypeOK /\ TelegramAgrees /\ OnePending
      BY <1>1 DEF IInv
    <2>2. ASSUME NEW s \in Students PROVE Cardinality(Pending(s)) <= 1
      <3>1. CASE Pending(s) = {}
        BY <3>1, FS_EmptySet
      <3>2. CASE Pending(s) # {}
        <4>1. PICK i \in Pending(s) : TRUE
          BY <3>2
        <4>2. Pending(s) = {i}
          BY <2>1, <4>1 DEF Pending, OnePending, Usable
        <4>3. Cardinality({i}) = 1
          BY FS_Singleton
        <4> QED BY <4>2, <4>3
      <3> QED BY <3>1, <3>2
    <2>3. SomeRequestMoves
      BY <1>1, NobodyIsForgotten
    <2> QED BY <2>1, <2>2, <2>3 DEF FamilySound, OneLiveInvite
  <1>2. IInv => FamilySound
    BY <1>1
  <1> QED BY <1>2, Invariance, PTL

\* What a step of a request may write: the invites, parents and links change in the
\* commits only.
LEMMA OnlyCommitsWrite ==
    ASSUME [Next]_vars
    PROVE  \/ UNCHANGED <<invite, parent, family>>
           \/ \E r \in Requests : /\ Ends(r)
                                  /\ \/ CommitsClaim(r) \/ IssuesInvite(r)
                                     \/ CommitsEdit(r) \/ CommitsLink(r)
  <1>1. CASE UNCHANGED vars
    BY <1>1 DEF vars
  <1>2. ASSUME NEW r \in Requests,
               \/ LocksInvite(r) \/ FindsParent(r) \/ NamesParent(r) \/ LinksChild(r)
               \/ LocksStudent(r) \/ RevokesPending(r) \/ LocksLink(r) \/ DeadlockAborts(r)
        PROVE  UNCHANGED <<invite, parent, family>>
    BY <1>2 DEF LocksInvite, FindsParent, NamesParent, LinksChild, LocksStudent,
       RevokesPending, LocksLink, DeadlockAborts, Rollback, Records
  <1>3. ASSUME NEW r \in Requests,
               \/ CommitsClaim(r) \/ IssuesInvite(r) \/ CommitsEdit(r) \/ CommitsLink(r)
        PROVE  Ends(r)
    BY <1>3 DEF CommitsClaim, IssuesInvite, CommitsEdit, CommitsLink, Rollback
  <1>4. ASSUME NEW r \in Requests,
               \/ \E i \in Invites, who \in Identities \cup Phones, name \in Names :
                     SendsClaim(r, i, who, name)
               \/ \E s \in Students : SendsReplace(r, s)
               \/ \E p \in Parents :
                     \/ \E name \in Names, active \in BOOLEAN : OpensEdit(r, p, name, active)
                     \/ \E s \in Students, what \in {"link", "unlink"} : OpensLink(r, p, s, what)
        PROVE  UNCHANGED <<invite, parent, family>>
    BY <1>4 DEF SendsClaim, SendsReplace, OpensEdit, OpensLink, Records
  <1>5. ASSUME NEW a \in Staff,
               (\E t \in Identities : LinksIdentity(a, t)) \/ UnlinksIdentity(a)
        PROVE  UNCHANGED <<invite, parent, family>>
    BY <1>5 DEF LinksIdentity, UnlinksIdentity
  <1> QED BY <1>1, <1>2, <1>3, <1>4, <1>5, Zenon DEF Next, Advances

\* An invite that was claimed or replaced gives nothing more.
THEOREM AnsweredInvitesStayAnswered ==
    ASSUME ParentsAssumption
    PROVE  Spec => AnswersAreFinal
  <1>1. ASSUME IInv, [Next]_vars, NEW i \in Invites, invite[i].status \in {"consumed", "revoked"}
        PROVE  invite'[i] = invite[i]
    <2>1. CASE UNCHANGED <<invite, parent, family>>
      BY <2>1
    <2>2. ASSUME NEW r \in Requests,
                 \/ CommitsClaim(r) \/ IssuesInvite(r) \/ CommitsEdit(r) \/ CommitsLink(r)
          PROVE  invite'[i] = invite[i]
      <3>1. CASE CommitsClaim(r) /\ ~Rollback(r)
        BY <1>1, <3>1 DEF CommitsClaim, Usable, IInv, TypeOK
      <3>2. CASE IssuesInvite(r)
        <4>1. Held(r) /\ Doing(r, "replace", "linked")
          BY <1>1, <3>2 DEF IssuesInvite, IInv
        <4>2. r \notin lock[i] /\ i \notin Room
          BY <1>1, <4>1 DEF Held, Pending, Doing, Does, Holds, Room
        <4> QED BY <3>2, <4>2 DEF IssuesInvite
      <3>3. CASE CommitsEdit(r) \/ CommitsLink(r) \/ Rollback(r)
        BY <3>3 DEF CommitsEdit, CommitsLink, Rollback, Records
      <3> QED BY <2>2, <3>1, <3>2, <3>3
    <2> QED BY <1>1, <2>1, <2>2, OnlyCommitsWrite
  <1>2. IInv /\ [Next]_vars =>
           [\A i \in Invites : invite[i].status \in {"consumed", "revoked"} =>
                                  invite'[i] = invite[i]]_vars
    BY <1>1
  <1> QED BY <1>2, Invariance, PTL DEF AnswersAreFinal, Spec

\* A closed parent is active again by a claim, or by a form opened after the closing.
THEOREM ParentsReopenedKnowingly ==
    ASSUME ParentsAssumption
    PROVE  Spec => ReopenedKnowingly
  <1>1. ASSUME IInv, [Next]_vars, NEW p \in Parents,
               parent[p].known, ~parent[p].active, parent'[p].active
        PROVE  \E r \in Requests :
                  /\ request[r].parent = p /\ request'[r] = Idle
                  /\ request[r].doing = "claim" \/ ~request[r].saw.active
    <2>1. PICK r \in Requests :
              /\ Ends(r)
              /\ CommitsClaim(r) \/ IssuesInvite(r) \/ CommitsEdit(r) \/ CommitsLink(r)
      BY <1>1, OnlyCommitsWrite
    <2>2. TypeOK /\ SawTrue(r)
      BY <1>1 DEF IInv
    <2>3. request'[r] = Idle
      BY <2>1, <2>2 DEF Ends, TypeOK
    <2>4. parent' # parent
      BY <1>1
    <2>5. CASE CommitsClaim(r)
      <3>1. request[r].doing = "claim" /\ request[r].parent = p
        BY <1>1, <2>2, <2>4, <2>5 DEF CommitsClaim, Rollback, Records, Doing, TypeOK
      <3> QED BY <2>3, <3>1
    <2>6. CASE CommitsEdit(r)
      <3>1. /\ request[r].doing = "edit" /\ request[r].parent = p /\ r \in fresh
        BY <1>1, <2>2, <2>4, <2>6 DEF CommitsEdit, Rollback, Records, Doing, TypeOK
      <3>2. ~request[r].saw.active
        BY <1>1, <2>2, <3>1 DEF SawTrue, Does
      <3> QED BY <2>3, <3>1, <3>2
    <2>7. CASE IssuesInvite(r) \/ CommitsLink(r)
      BY <2>4, <2>7 DEF IssuesInvite, CommitsLink, Rollback, Records
    <2> QED BY <2>1, <2>5, <2>6, <2>7
  <1>2. IInv /\ [Next]_vars =>
           [\A p \in Parents : parent[p].known /\ ~parent[p].active /\ parent'[p].active =>
              \E r \in Requests :
                 /\ request[r].parent = p /\ request'[r] = Idle
                 /\ request[r].doing = "claim" \/ ~request[r].saw.active]_vars
    BY <1>1
  <1> QED BY <1>2, Invariance, PTL DEF ReopenedKnowingly, Spec

\* A link sent while the child was linked does not undo an unlink that came between.
THEOREM UnlinksStand ==
    ASSUME ParentsAssumption
    PROVE  Spec => UnlinkStands
  <1>1. ASSUME IInv, [Next]_vars, NEW r \in Requests,
               request[r].doing = "link", request'[r] = Idle,
               family[Pair(r)] = "inactive", family'[Pair(r)] = "active"
        PROVE  ~request[r].linked
    <2>1. PICK x \in Requests :
              /\ Ends(x)
              /\ CommitsClaim(x) \/ IssuesInvite(x) \/ CommitsEdit(x) \/ CommitsLink(x)
      BY <1>1, OnlyCommitsWrite
    <2>2. TypeOK /\ SawTrue(r)
      BY <1>1 DEF IInv
    <2>3. x = r
      <3>1. x # r => request'[r] = request[r]
        BY <2>1, <2>2 DEF Ends, TypeOK
      <3> QED BY <1>1, <3>1 DEF Idle
    <2>4. CommitsLink(r)
      BY <1>1, <2>1, <2>3 DEF CommitsClaim, IssuesInvite, CommitsEdit, Doing
    <2>5. r \in fresh
      BY <1>1, <2>4 DEF CommitsLink, Rollback, Records
    <2> QED BY <1>1, <2>2, <2>5 DEF SawTrue, Does
  <1>2. IInv /\ [Next]_vars =>
           [\A r \in Requests :
              /\ request[r].doing = "link" /\ request'[r] = Idle
              /\ family[Pair(r)] = "inactive" /\ family'[Pair(r)] = "active"
              => ~request[r].linked]_vars
    BY <1>1
  <1> QED BY <1>2, Invariance, PTL DEF UnlinkStands, Spec
-----------------------------------------------------------------------------
(* The refinement of FamilyAccess.                                          *)

\* A claim is about the student of its invite.
OfItsChild(r) ==
    Does(r, "claim") =>
        /\ invite[request[r].invite].status # "none"
        /\ invite[request[r].invite].student = request[r].student

\* A step of requests: what a request is about stays, unless it begins or ends.
LEMMA AboutTheSame ==
    ASSUME TypeOK, [Next]_vars, NEW r \in Requests, request'[r].doing = "claim"
    PROVE  \/ /\ request[r].doing = "claim"
              /\ request'[r].invite = request[r].invite
              /\ request'[r].student = request[r].student
           \/ \E i \in Invites, who \in Identities \cup Phones, name \in Names :
                 SendsClaim(r, i, who, name)
  <1> DEFINE Same == request[r].doing = "claim"
                     /\ request'[r].invite = request[r].invite
                     /\ request'[r].student = request[r].student
  <1>1. request \in [Requests -> RequestRows]
    BY DEF TypeOK
  <1>2. request' = request => Same
    OBVIOUS
  <1>3. ASSUME NEW q \in Requests, Ends(q) PROVE Same
    BY <1>1, <1>3 DEF Ends, Idle
  <1>4. ASSUME NEW q \in Requests, NEW rows, NEW phase, Locks(q, rows, phase) PROVE Same
    BY <1>1, <1>4 DEF Locks, RequestRows
  <1>5. ASSUME NEW q \in Requests, NEW new, Opens(q, new), new.doing # "claim" PROVE Same
    BY <1>1, <1>5 DEF Opens
  <1>6. ASSUME NEW q \in Requests, FindsParent(q) PROVE Same
    BY <1>1, <1>6 DEF FindsParent, RequestRows
  <1>7. ASSUME NEW q \in Requests,
               \/ LocksInvite(q) \/ NamesParent(q) \/ LinksChild(q)
               \/ LocksStudent(q) \/ RevokesPending(q) \/ LocksLink(q)
        PROVE  Same
    <2>1. Ends(q) \/ \E rows, phase : Locks(q, rows, phase)
      BY <1>7 DEF LocksInvite, NamesParent, LinksChild, LocksStudent, RevokesPending,
         LocksLink, Rollback
    <2> QED BY <2>1, <1>3, <1>4
  <1>8. ASSUME NEW q \in Requests,
               \/ CommitsClaim(q) \/ IssuesInvite(q) \/ CommitsEdit(q) \/ CommitsLink(q)
               \/ DeadlockAborts(q)
        PROVE  Same
    <2>1. Ends(q)
      BY <1>8 DEF CommitsClaim, IssuesInvite, CommitsEdit, CommitsLink, DeadlockAborts, Rollback
    <2> QED BY <2>1, <1>3
  <1>9. ASSUME NEW q \in Requests, NEW i \in Invites, NEW who \in Identities \cup Phones,
               NEW name \in Names, SendsClaim(q, i, who, name), q # r
        PROVE  Same
    BY <1>1, <1>9 DEF SendsClaim, Opens
  <1>10. ASSUME NEW q \in Requests,
                \/ \E s \in Students : SendsReplace(q, s)
                \/ \E p \in Parents :
                      \/ \E name \in Names, active \in BOOLEAN : OpensEdit(q, p, name, active)
                      \/ \E s \in Students, what \in {"link", "unlink"} : OpensLink(q, p, s, what)
         PROVE  Same
    <2>1. \E new : Opens(q, new) /\ new.doing # "claim"
      <3>1. ASSUME NEW s \in Students, SendsReplace(q, s)
            PROVE  \E new : Opens(q, new) /\ new.doing # "claim"
        <4> DEFINE sent == [Idle EXCEPT !.doing = "replace", !.phase = "opened", !.student = s]
        <4>1. Opens(q, sent)
          BY <3>1 DEF SendsReplace
        <4>2. sent.doing # "claim"
          BY DEF Idle
        <4> HIDE DEF sent
        <4> QED BY <4>1, <4>2
      <3>2. ASSUME NEW p \in Parents, NEW name \in Names, NEW active \in BOOLEAN,
                   OpensEdit(q, p, name, active)
            PROVE  \E new : Opens(q, new) /\ new.doing # "claim"
        <4> DEFINE sent == [Idle EXCEPT !.doing = "edit", !.phase = "opened", !.parent = p,
                              !.name = name, !.active = active, !.saw = parent[p]]
        <4>1. Opens(q, sent)
          BY <3>2 DEF OpensEdit
        <4>2. sent.doing # "claim"
          BY DEF Idle
        <4> HIDE DEF sent
        <4> QED BY <4>1, <4>2
      <3>3. ASSUME NEW p \in Parents, NEW s \in Students, NEW what \in {"link", "unlink"},
                   OpensLink(q, p, s, what)
            PROVE  \E new : Opens(q, new) /\ new.doing # "claim"
        <4> DEFINE sent == [Idle EXCEPT !.doing = what, !.phase = "opened", !.parent = p,
                              !.student = s, !.saw = parent[p],
                              !.linked = family[<<p, s>>] = "active"]
        <4>1. Opens(q, sent)
          BY <3>3 DEF OpensLink
        <4>2. sent.doing # "claim"
          BY <3>3 DEF Idle
        <4> HIDE DEF sent
        <4> QED BY <4>1, <4>2
      <3> QED BY <1>10, <3>1, <3>2, <3>3
    <2> QED BY <2>1, <1>5
  <1>11. ASSUME NEW a \in Staff,
                (\E t \in Identities : LinksIdentity(a, t)) \/ UnlinksIdentity(a)
         PROVE  request' = request
    BY <1>11 DEF LinksIdentity, UnlinksIdentity
  <1>12. UNCHANGED vars => request' = request
    BY DEF vars
  <1> HIDE DEF Same
  <1>13. Same \/ \E i \in Invites, who \in Identities \cup Phones, name \in Names :
                    SendsClaim(r, i, who, name)
    BY <1>2, <1>6, <1>7, <1>8, <1>9, <1>10, <1>11, <1>12, Zenon DEF Next, Advances
  <1> QED BY <1>13 DEF Same

\* An invite that was issued stays issued, for the same student.
LEMMA InvitesKeepTheirStudent ==
    ASSUME TypeOK, [Next]_vars, NEW i \in Invites, invite[i].status # "none"
    PROVE  invite'[i].status # "none" /\ invite'[i].student = invite[i].student
  <1>1. invite \in [Invites -> [status : {"none", "pending", "consumed", "revoked"},
                                student : Students \cup {None}]]
    BY DEF TypeOK
  <1>2. ASSUME NEW r \in Requests, CommitsClaim(r)
        PROVE  invite'[i].status # "none" /\ invite'[i].student = invite[i].student
    <2>1. \/ invite' = invite
          \/ invite' = [invite EXCEPT ![request[r].invite].status = "consumed"]
      BY <1>2 DEF CommitsClaim, Rollback, Records
    <2> QED BY <1>1, <2>1
  <1>3. ASSUME NEW r \in Requests, IssuesInvite(r)
        PROVE  invite'[i].status # "none" /\ invite'[i].student = invite[i].student
    <2>1. i \notin Room
      BY DEF Room
    <2>2. invite'[i] = invite[i] \/ invite'[i] = [invite[i] EXCEPT !.status = "revoked"]
      BY <1>3, <2>1 DEF IssuesInvite
    <2> QED BY <1>1, <2>2
  <1>4. ASSUME NEW r \in Requests, CommitsEdit(r) \/ CommitsLink(r)
        PROVE  invite'[i].status # "none" /\ invite'[i].student = invite[i].student
    BY <1>4 DEF CommitsEdit, CommitsLink, Rollback, Records
  <1> QED BY <1>2, <1>3, <1>4, OnlyCommitsWrite

LEMMA ClaimsAreOfTheirChild ==
    ASSUME ParentsAssumption
    PROVE  Spec => [](IInv /\ \A r \in Requests : OfItsChild(r))
  <1> DEFINE AllOfTheirChild == \A r \in Requests : OfItsChild(r)
  <1>1. Init => AllOfTheirChild
    BY DEF Init, OfItsChild, Does, Idle
  <1>2. ASSUME IInv, AllOfTheirChild, [Next]_vars, NEW r \in Requests, request'[r].doing = "claim"
        PROVE  /\ invite'[request'[r].invite].status # "none"
               /\ invite'[request'[r].invite].student = request'[r].student
    <2>1. TypeOK /\ Named(r)
      BY <1>2 DEF IInv
    <2>2. CASE /\ request[r].doing = "claim"
               /\ request'[r].invite = request[r].invite
               /\ request'[r].student = request[r].student
      <3>1. OfItsChild(r) /\ request[r].invite \in Invites
        BY <1>2, <2>1, <2>2 DEF Named, Does
      <3> QED BY <1>2, <2>1, <2>2, <3>1, InvitesKeepTheirStudent DEF OfItsChild, Does
    <2>3. ASSUME NEW i \in Invites, NEW who \in Identities \cup Phones, NEW name \in Names,
                 SendsClaim(r, i, who, name)
          PROVE  /\ invite'[request'[r].invite].status # "none"
                 /\ invite'[request'[r].invite].student = request'[r].student
      <3>1. /\ invite[i].status # "none" /\ invite' = invite
            /\ request'[r] = [Idle EXCEPT !.doing = "claim", !.phase = "opened", !.invite = i,
                                !.student = invite[i].student, !.who = who, !.name = name]
        BY <2>1, <2>3 DEF SendsClaim, Opens, Records, TypeOK
      <3>2. request'[r].invite = i /\ request'[r].student = invite[i].student
        BY <3>1 DEF Idle
      <3> QED BY <3>1, <3>2
    <2> QED BY <1>2, <2>1, <2>2, <2>3, AboutTheSame
  <1>3. IInv /\ AllOfTheirChild /\ [Next]_vars => AllOfTheirChild'
    BY <1>2 DEF OfItsChild, Does
  <1> QED BY <1>1, <1>3, Invariance, PTL DEF Spec

\* However the requests of parents and Customer Support lock, read and write between each
\* other's statements, each changes access as if it took effect at once: a claim opens the
\* child of its own pending invite, and a replacement withdraws every invite left pending.
THEOREM AccessChangesAtOnce ==
    ASSUME ParentsAssumption
    PROVE  Spec => ChangesAccessAtOnce
  <1> DEFINE Known == {p \in Parents : parent[p].known}
             Linked == {pair \in Parents \X Students : family[pair] = "active"}
  <1>1. Init => Access!Init
    BY DEF Init, Access!Init, NoParent
  <1>2. ASSUME IInv, NEW r \in Requests, OfItsChild(r), CommitsClaim(r), ~Rollback(r)
        PROVE  Access!Next
    <2>1. Doing(r, "claim", "linked")
      BY <1>2 DEF CommitsClaim
    <2>2. /\ request[r].parent \in Parents /\ request[r].invite \in Invites
          /\ Usable(request[r].invite) /\ Pair(r) \in Parents \X Students
      BY <1>2, <2>1, ClaimStands
    <2>3. PICK i \in Invites, p \in Parents : i = request[r].invite /\ p = request[r].parent
      BY <2>2
    <2>4. Usable(i) /\ Pair(r) \in Parents \X Students
      BY <2>2, <2>3
    <2>5. /\ invite' = [invite EXCEPT ![i].status = "consumed"]
          /\ \E row : row.known = TRUE /\ parent' = [parent EXCEPT ![p] = row]
          /\ family' = [family EXCEPT ![Pair(r)] = "active"]
      <3>1. \E row : row.known = TRUE /\ parent' = [parent EXCEPT ![p] = row]
        BY <1>2, <2>3 DEF CommitsClaim
      <3> QED BY <1>2, <2>3, <3>1 DEF CommitsClaim
    <2>6. Known' = Known \cup {p}
      BY <1>2, <2>4, <2>5 DEF IInv, TypeOK
    <2>7. Linked' = Linked \cup {Pair(r)}
      BY <1>2, <2>4, <2>5 DEF IInv, TypeOK
    <2>8. Pair(r) = <<p, invite[i].student>>
      BY <1>2, <2>1, <2>3 DEF OfItsChild, Does, Doing, Pair
    <2>9. Access!Claim(i, p)
      BY <2>4, <2>5, <2>6, <2>7, <2>8 DEF Access!Claim, Usable
    <2> QED BY <2>9, Zenon DEF Access!Next
  <1>3. ASSUME IInv, NEW r \in Requests, IssuesInvite(r)
        PROVE  Access!Next
    <2> DEFINE s == request[r].student
    <2>1. Held(r) /\ Named(r) /\ Doing(r, "replace", "linked")
      BY <1>3 DEF IssuesInvite, IInv
    <2>2. s \in Students
      BY <2>1 DEF Named, Doing, Does
    <2>3. \A i \in Invites : r \in lock[i] <=> i \in Access!Live(s)
      BY <2>1 DEF Held, Doing, Does, Holds, Pending, Access!Live
    <2>4. PICK new \in Room :
             invite' = [i \in Invites |->
                IF i = new THEN [status |-> "pending", student |-> s]
                ELSE IF r \in lock[i] THEN [invite[i] EXCEPT !.status = "revoked"] ELSE invite[i]]
      BY <1>3 DEF IssuesInvite
    <2>5. invite' = [i \in Invites |->
                IF i = new THEN [status |-> "pending", student |-> s]
                ELSE IF i \in Access!Live(s)
                     THEN [invite[i] EXCEPT !.status = "revoked"] ELSE invite[i]]
      BY <2>3, <2>4
    <2>6. UNCHANGED <<parent, family>>
      BY <1>3 DEF IssuesInvite
    <2>7. new \in Invites /\ invite[new].status = "none"
      BY <2>4 DEF Room
    <2>8. UNCHANGED <<Known, Linked>>
      BY <2>6
    <2>9. Access!Issue(s, new)
      BY <2>5, <2>7, <2>8 DEF Access!Issue
    <2> QED BY <2>2, <2>7, <2>9 DEF Access!Next
  <1>4. ASSUME IInv, NEW r \in Requests, CommitsEdit(r)
        PROVE  UNCHANGED Access!vars
    <2>1. CASE UNCHANGED <<invite, parent, family>>
      BY <2>1 DEF Access!vars
    <2>2. CASE ~UNCHANGED <<invite, parent, family>>
      <3> DEFINE p == request[r].parent
      <3>1. /\ UNCHANGED <<invite, family>>
            /\ parent' = [parent EXCEPT ![p] = [request[r].saw EXCEPT !.name = request[r].name,
                             !.active = request[r].active, !.telegram = parent[p].telegram]]
        BY <1>4, <2>2 DEF CommitsEdit, Rollback, Records
      <3>2. /\ p \in Parents /\ parent[p].known /\ request[r].saw.known
            /\ request[r].saw \in ParentRows /\ parent \in [Parents -> ParentRows]
        <4>1. Named(r) /\ Does(r, "edit") /\ request \in [Requests -> RequestRows]
          BY <1>4 DEF CommitsEdit, IInv, TypeOK, Doing, Does
        <4>2. request[r].saw \in ParentRows
          BY <4>1 DEF RequestRows
        <4> QED BY <1>4, <4>1, <4>2 DEF Named, IInv, TypeOK
      <3>3. \A x \in Parents : parent'[x].known = parent[x].known
        BY <3>1, <3>2 DEF ParentRows
      <3>4. Known' = Known
        BY <3>3
      <3> QED BY <3>1, <3>4 DEF Access!vars
    <2> QED BY <2>1, <2>2
  <1>5. ASSUME IInv, NEW r \in Requests, CommitsLink(r)
        PROVE  Access!Next \/ UNCHANGED Access!vars
    <2>1. CASE UNCHANGED <<invite, parent, family>>
      BY <2>1 DEF Access!vars
    <2>2. CASE ~UNCHANGED <<invite, parent, family>>
      <3>1. /\ request[r].doing \in {"link", "unlink"}
            /\ UNCHANGED <<invite, parent>>
            /\ family' = [family EXCEPT ![Pair(r)] =
                  IF request[r].doing = "link" THEN "active" ELSE "inactive"]
        BY <1>5, <2>2 DEF CommitsLink, Rollback, Records
      <3>2. /\ request[r].parent \in Parents /\ request[r].student \in Students
            /\ parent[request[r].parent].known
        BY <1>5, <3>1 DEF Named, Does, IInv
      <3>3. PICK p \in Parents, s \in Students : p = request[r].parent /\ s = request[r].student
        BY <3>2
      <3>4. /\ parent[p].known /\ Pair(r) = <<p, s>>
            /\ family \in [Parents \X Students -> {"none", "active", "inactive"}]
        BY <1>5, <3>2, <3>3 DEF IInv, TypeOK, Pair
      <3>5. Known' = Known
        BY <3>1
      <3>6. CASE request[r].doing = "link"
        <4>1. Linked' = Linked \cup {<<p, s>>}
          BY <3>1, <3>4, <3>6
        <4>2. <<p, s>> \notin Linked => Access!Link(p, s)
          BY <3>1, <3>4, <3>5, <4>1 DEF Access!Link
        <4>3. <<p, s>> \in Linked => UNCHANGED Access!vars
          BY <3>1, <3>5, <4>1 DEF Access!vars
        <4>4. Access!Link(p, s) => Access!Next
          BY Zenon DEF Access!Next
        <4> QED BY <4>2, <4>3, <4>4
      <3>7. CASE request[r].doing = "unlink"
        <4>1. Linked' = Linked \ {<<p, s>>}
          BY <3>1, <3>4, <3>7
        <4>2. <<p, s>> \in Linked => Access!Unlink(p, s)
          BY <3>1, <3>5, <4>1 DEF Access!Unlink
        <4>3. <<p, s>> \notin Linked => UNCHANGED Access!vars
          BY <3>1, <3>5, <4>1 DEF Access!vars
        <4>4. Access!Unlink(p, s) => Access!Next
          BY Zenon DEF Access!Next
        <4> QED BY <4>2, <4>3, <4>4
      <3> QED BY <3>1, <3>6, <3>7
    <2> QED BY <2>1, <2>2
  <1>6. IInv /\ (\A r \in Requests : OfItsChild(r)) /\ [Next]_vars =>
           [Access!Next]_(Access!vars)
    <2> SUFFICES ASSUME IInv, \A r \in Requests : OfItsChild(r), [Next]_vars
                 PROVE  Access!Next \/ UNCHANGED Access!vars
      OBVIOUS
    <2>1. CASE UNCHANGED <<invite, parent, family>>
      BY <2>1 DEF Access!vars
    <2>2. ASSUME NEW r \in Requests,
                 CommitsClaim(r) \/ IssuesInvite(r) \/ CommitsEdit(r) \/ CommitsLink(r)
          PROVE  Access!Next \/ UNCHANGED Access!vars
      <3>1. Rollback(r) => UNCHANGED Access!vars
        BY DEF Rollback, Records, Access!vars
      <3> QED BY <2>2, <3>1, <1>2, <1>3, <1>4, <1>5
    <2> QED BY <2>1, <2>2, OnlyCommitsWrite
  <1> QED BY <1>1, <1>6, ClaimsAreOfTheirChild, PTL DEF Spec, ChangesAccessAtOnce, Access!Spec

-----------------------------------------------------------------------------
(* Student records.                                                         *)

States == {"active", "disabled", "archived"}
Seats == {"active", "disqualified", "banned"}
RecordRequestRows ==
    [doing : Student!Support \cup Student!Academic \cup {"idle"}, phase : {"idle", "checked", "locked"},
     saw : States \cup {None}, status : States \cup Seats \cup {None},
     school : Schools \cup {None}, from : Groups \cup {None}, to : Groups \cup {None},
     id : Places \cup {None}]

\* What each request will write is something the record or the seat may say.
Sensible(r) ==
    LET q == recordsRequest[r] IN
    /\ q.doing = "edit" => q.status \in States /\ q.school \in Schools
    /\ q.doing = "lifecycle" => q.status \in States
    /\ q.doing = "enrol" => q.to \in Groups /\ q.id \in Places
    /\ q.doing = "status" => q.from \in Groups /\ q.status \in Seats
    /\ q.doing = "move" => q.from \in Groups /\ q.to \in Groups /\ q.id \in Places
                           /\ q.status \in Seats

\* A request of the present version saw the record as it is; so did the one that holds it.
SawPresent(r) ==
    /\ r \in recordsFresh => recordsRequest[r].doing \in Student!Support /\ recordsRequest[r].saw = record.status
    /\ Student!Doing(r, "edit", "locked") \/ Student!Doing(r, "lifecycle", "locked") =>
          recordsLock["record"] = r /\ recordsRequest[r].saw = record.status

OneSeat ==
    \A g, h \in Groups : place[g].id = place[h].id /\ place[g].id \in Places => g = h

RecordsInv ==
    /\ Student!TypeOK /\ recordsRequest \in [Requests -> RecordRequestRows]
    /\ \A r \in Requests : Sensible(r) /\ SawPresent(r)
    /\ Student!AccountFollowsRecord /\ Student!HandedPasswordOpens /\ OneSeat

LEMMA Kinds ==
    ASSUME Student!RecordsAssumption
    PROVE  /\ Student!Idle \in RecordRequestRows /\ Student!Empty.id \notin Places /\ Student!Empty.status = "none"
           /\ Own \notin Requests /\ None \notin Requests
  BY DEF Student!RecordsAssumption, Student!Idle, RecordRequestRows, Student!Empty, States,
     Seats

\* Another request keeps what it stands on when the record stays or r had locked it.
LEMMA OthersStay ==
    ASSUME Student!RecordsAssumption, RecordsInv, NEW r \in Requests, NEW q \in Requests \ {r},
           recordsRequest'[q] = recordsRequest[q], recordsFresh' \subseteq recordsFresh \cup
           {r},
           recordsLock["record"] = q => recordsLock'["record"] = q,
           record' = record \/ (recordsLock["record"] = r /\ recordsFresh' = {})
    PROVE  Sensible(q)' /\ SawPresent(q)'
  <1>1. Sensible(q) /\ SawPresent(q)
    BY DEF RecordsInv
  <1>2. Sensible(q)'
    BY <1>1 DEF Sensible
  <1>3. CASE record' = record
    BY <1>1, <1>2, <1>3 DEF SawPresent, Student!Doing
  <1>4. CASE recordsLock["record"] = r /\ recordsFresh' = {}
    BY <1>1, <1>2, <1>4 DEF SawPresent, Student!Doing
  <1> QED BY <1>3, <1>4

\* A request opens a form: it writes nothing and holds nothing.
LEMMA RecordOpensKeeps ==
    ASSUME Student!RecordsAssumption, RecordsInv, NEW r \in Requests, NEW new \in RecordRequestRows,
           recordsRequest' = [recordsRequest EXCEPT ![r] = new], recordsRequest[r] =
           Student!Idle,
           UNCHANGED <<Student!studentVars, Student!Academics, recordsLock>>,
           recordsFresh' = recordsFresh \/ (recordsFresh' = recordsFresh \cup {r} /\ new.doing
           \in Student!Support
                                                      /\ new.saw = record.status),
           new.phase = "checked", Sensible(r)'
    PROVE  RecordsInv'
  <1>1. UNCHANGED <<record, recordsAccount, handed, place, group, recordsLock>>
    BY DEF Student!studentVars, Student!Academics
  <1>2. /\ recordsRequest \in [Requests -> RecordRequestRows] /\ Student!TypeOK
    BY DEF RecordsInv
  <1>3. /\ recordsRequest' \in [Requests -> RecordRequestRows] /\ recordsRequest'[r] = new
        /\ \A q \in Requests \ {r} : recordsRequest'[q] = recordsRequest[q]
    BY <1>2
  <1>4. Student!TypeOK'
    <2>1. \A q \in Requests : recordsRequest'[q] \in RecordRequestRows
      BY <1>3
    <2> QED BY <1>1, <1>2, <2>1 DEF Student!TypeOK, RecordRequestRows, States
  <1>5. SawPresent(r)'
    <2>1. r \notin recordsFresh
      BY DEF RecordsInv, SawPresent, Student!Idle, Student!Support
    <2> QED BY <1>1, <1>3, <2>1 DEF SawPresent, Student!Doing
  <1>6. \A q \in Requests \ {r} : Sensible(q)' /\ SawPresent(q)'
    BY <1>1, <1>3, OthersStay
  <1>7. Student!AccountFollowsRecord' /\ Student!HandedPasswordOpens' /\ OneSeat'
    BY <1>1 DEF RecordsInv, Student!AccountFollowsRecord, Student!HandedPasswordOpens, OneSeat
  <1> QED BY <1>3, <1>4, <1>5, <1>6, <1>7 DEF RecordsInv

\* A transaction ends; what it wrote is checked apart.
LEMMA RecordEndsKeeps ==
    ASSUME Student!RecordsAssumption, RecordsInv, NEW r \in Requests, Student!Ends(r),
           recordsFresh' = {} \/ (recordsFresh' \subseteq recordsFresh \ {r} /\ record' =
           record)
                       \/ (recordsFresh' = recordsFresh /\ recordsRequest[r].doing \in Student!Academic /\ record' = record),
           record' = record \/ recordsLock["record"] = r,
           record' \in [status : States, school : Schools],
           recordsAccount' \in [status : States, secret : Requests \cup {Own}],
           handed' \in Requests \cup {None},
           place' \in [Groups -> [id : Places, status : Seats] \cup {Student!Empty}],
           group' = group,
           Student!AccountFollowsRecord', Student!HandedPasswordOpens', OneSeat'
    PROVE  RecordsInv'
  <1>1. /\ recordsRequest \in [Requests -> RecordRequestRows] /\ Student!TypeOK
        /\ recordsLock \in [{"record", "account"} -> Requests \cup {None}]
    BY DEF RecordsInv, Student!TypeOK
  <1>2. /\ recordsRequest' \in [Requests -> RecordRequestRows] /\ recordsRequest'[r] = Student!Idle
        /\ \A q \in Requests \ {r} : recordsRequest'[q] = recordsRequest[q]
        /\ recordsLock' \in [{"record", "account"} -> Requests \cup {None}]
        /\ \A q \in Requests \ {r} : recordsLock["record"] = q => recordsLock'["record"] = q
    BY <1>1, Kinds DEF Student!Ends
  <1>3. /\ r \notin recordsFresh' /\ recordsFresh' \subseteq recordsFresh
    BY DEF RecordsInv, SawPresent, Student!Support, Student!Academic
  <1>4. Student!TypeOK'
    <2>1. \A q \in Requests : recordsRequest'[q] \in RecordRequestRows
      BY <1>2
    <2>2. \A q \in Requests :
              /\ recordsRequest'[q].doing \in Student!Support \cup Student!Academic \cup {"idle"}
              /\ recordsRequest'[q].phase \in {"idle", "checked", "locked"}
              /\ recordsRequest'[q].saw \in {"active", "disabled", "archived", None}
              /\ {recordsRequest'[q].from, recordsRequest'[q].to} \subseteq Groups \cup {None}
              /\ recordsRequest'[q].id \in Places \cup {None}
      BY <2>1 DEF RecordRequestRows, States
    <2> QED BY <1>1, <1>2, <1>3, <2>2 DEF Student!TypeOK, States, Seats
  <1>5. Sensible(r)' /\ SawPresent(r)'
    BY <1>2, <1>3 DEF Sensible, SawPresent, Student!Idle, Student!Doing
  <1>6. \A q \in Requests \ {r} : Sensible(q)' /\ SawPresent(q)'
    BY <1>2, <1>3, OthersStay
  <1> QED BY <1>2, <1>4, <1>5, <1>6 DEF RecordsInv

LEMMA EditKeeps ==
    ASSUME Student!RecordsAssumption, RecordsInv, NEW r \in Requests, NEW status \in {"active", "disabled"},
           NEW school \in Schools, Student!OpensEdit(r, status, school)
    PROVE  RecordsInv'
  <1> DEFINE new == [Student!Idle EXCEPT !.doing = "edit", !.phase = "checked", !.saw = record.status,
                        !.status = status, !.school = school]
  <1>1. /\ recordsRequest[r] = Student!Idle /\ recordsRequest' = [recordsRequest EXCEPT ![r] = new]
        /\ recordsFresh' = recordsFresh \cup {r} /\ UNCHANGED <<Student!studentVars, Student!Academics, recordsLock>>
    BY DEF Student!OpensEdit
  <1>2. record.status \in States /\ recordsRequest \in [Requests -> RecordRequestRows]
    BY DEF RecordsInv, Student!TypeOK, States
  <1>3. new \in RecordRequestRows
    BY <1>2 DEF Student!Idle, RecordRequestRows, States, Student!Support
  <1>4. /\ new.doing = "edit" /\ new.phase = "checked" /\ new.saw = record.status
        /\ new.status = status /\ new.school = school
    BY DEF Student!Idle
  <1> HIDE DEF new
  <1>5. Sensible(r)'
    BY <1>1, <1>2, <1>4 DEF Sensible, States
  <1>6. new.doing \in Student!Support
    BY <1>4 DEF Student!Support
  <1> QED BY <1>1, <1>3, <1>4, <1>5, <1>6, RecordOpensKeeps

LEMMA LifecycleKeeps ==
    ASSUME Student!RecordsAssumption, RecordsInv, NEW r \in Requests, NEW status \in {"active", "archived"},
           Student!OpensLifecycle(r, status)
    PROVE  RecordsInv'
  <1> DEFINE new == [Student!Idle EXCEPT !.doing = "lifecycle", !.phase = "checked",
                        !.saw = record.status, !.status = status]
  <1>1. /\ recordsRequest[r] = Student!Idle /\ recordsRequest' = [recordsRequest EXCEPT ![r] = new]
        /\ recordsFresh' = recordsFresh \cup {r} /\ UNCHANGED <<Student!studentVars, Student!Academics, recordsLock>>
    BY DEF Student!OpensLifecycle
  <1>2. record.status \in States /\ recordsRequest \in [Requests -> RecordRequestRows]
    BY DEF RecordsInv, Student!TypeOK, States
  <1>3. new \in RecordRequestRows
    BY <1>2 DEF Student!Idle, RecordRequestRows, States, Student!Support
  <1>4. /\ new.doing = "lifecycle" /\ new.phase = "checked" /\ new.saw = record.status
        /\ new.status = status
    BY DEF Student!Idle
  <1> HIDE DEF new
  <1>5. Sensible(r)'
    BY <1>1, <1>2, <1>4 DEF Sensible, States
  <1>6. new.doing \in Student!Support
    BY <1>4 DEF Student!Support
  <1> QED BY <1>1, <1>3, <1>4, <1>5, <1>6, RecordOpensKeeps

LEMMA ResetKeeps ==
    ASSUME Student!RecordsAssumption, RecordsInv, NEW r \in Requests, Student!OpensReset(r)
    PROVE  RecordsInv'
  <1> DEFINE new == [Student!Idle EXCEPT !.doing = "reset", !.phase = "checked", !.saw = record.status]
  <1>1. /\ recordsRequest[r] = Student!Idle /\ recordsRequest' = [recordsRequest EXCEPT ![r] = new]
        /\ recordsFresh' = recordsFresh \cup {r} /\ UNCHANGED <<Student!studentVars, Student!Academics, recordsLock>>
    BY DEF Student!OpensReset
  <1>2. record.status \in States /\ recordsRequest \in [Requests -> RecordRequestRows]
    BY DEF RecordsInv, Student!TypeOK, States
  <1>3. new \in RecordRequestRows
    BY <1>2 DEF Student!Idle, RecordRequestRows, States, Student!Support
  <1>4. new.doing = "reset" /\ new.phase = "checked" /\ new.saw = record.status
    BY DEF Student!Idle
  <1> HIDE DEF new
  <1>5. Sensible(r)'
    BY <1>1, <1>2, <1>4 DEF Sensible
  <1>6. new.doing \in Student!Support
    BY <1>4 DEF Student!Support
  <1> QED BY <1>1, <1>3, <1>4, <1>5, <1>6, RecordOpensKeeps

LEMMA EnrolOpens ==
    ASSUME Student!RecordsAssumption, RecordsInv, NEW r \in Requests, NEW g \in Groups, NEW id \in Places,
           Student!OpensEnrol(r, g, id)
    PROVE  RecordsInv'
  <1> DEFINE new == [Student!Idle EXCEPT !.doing = "enrol", !.phase = "checked", !.to = g, !.id = id]
  <1>1. /\ recordsRequest[r] = Student!Idle /\ recordsRequest' = [recordsRequest EXCEPT ![r] = new]
        /\ recordsFresh' = recordsFresh /\ UNCHANGED <<Student!studentVars, Student!Academics, recordsLock>>
    BY DEF Student!OpensEnrol
  <1>2. recordsRequest \in [Requests -> RecordRequestRows]
    BY DEF RecordsInv
  <1>3. new \in RecordRequestRows
    BY DEF Student!Idle, RecordRequestRows, Student!Academic
  <1>4. new.doing = "enrol" /\ new.phase = "checked" /\ new.to = g /\ new.id = id
    BY DEF Student!Idle
  <1> HIDE DEF new
  <1>5. Sensible(r)'
    BY <1>1, <1>2, <1>4 DEF Sensible
  <1> QED BY <1>1, <1>3, <1>4, <1>5, RecordOpensKeeps

LEMMA StatusOpens ==
    ASSUME Student!RecordsAssumption, RecordsInv, NEW r \in Requests, NEW id \in Places,
           NEW status \in {"active", "disqualified", "banned"}, Student!OpensStatus(r, id,
           status)
    PROVE  RecordsInv'
  <1>1. PICK g \in Groups :
            recordsRequest' = [recordsRequest EXCEPT ![r] = [Student!Idle EXCEPT !.doing = "status",
                          !.phase = "checked", !.status = status, !.from = g, !.id = id]]
    BY DEF Student!OpensStatus, Student!GroupOf
  <1> DEFINE new == [Student!Idle EXCEPT !.doing = "status", !.phase = "checked", !.status = status,
                        !.from = g, !.id = id]
  <1>2. /\ recordsRequest[r] = Student!Idle /\ recordsRequest' = [recordsRequest EXCEPT ![r] = new]
        /\ recordsFresh' = recordsFresh /\ UNCHANGED <<Student!studentVars, Student!Academics, recordsLock>>
    BY <1>1 DEF Student!OpensStatus
  <1>3. recordsRequest \in [Requests -> RecordRequestRows]
    BY DEF RecordsInv
  <1>4. new \in RecordRequestRows
    BY DEF Student!Idle, RecordRequestRows, Student!Academic, Seats
  <1>5. new.doing = "status" /\ new.phase = "checked" /\ new.from = g /\ new.status = status
    BY DEF Student!Idle
  <1> HIDE DEF new
  <1>6. Sensible(r)'
    BY <1>2, <1>3, <1>5 DEF Sensible, Seats
  <1> QED BY <1>2, <1>4, <1>5, <1>6, RecordOpensKeeps

LEMMA MoveOpens ==
    ASSUME Student!RecordsAssumption, RecordsInv, NEW r \in Requests, NEW id \in Places, NEW g \in Groups,
           Student!OpensMove(r, id, g)
    PROVE  RecordsInv'
  <1>1. PICK h \in Groups :
            /\ place[h].id = id
            /\ recordsRequest' = [recordsRequest EXCEPT ![r] = [Student!Idle EXCEPT !.doing = "move",
                  !.phase = "checked", !.status = place[h].status, !.from = h, !.to = g,
                  !.id = id]]
    BY DEF Student!OpensMove, Student!GroupOf
  <1> DEFINE new == [Student!Idle EXCEPT !.doing = "move", !.phase = "checked",
                        !.status = place[h].status, !.from = h, !.to = g, !.id = id]
  <1>2. /\ recordsRequest[r] = Student!Idle /\ recordsRequest' = [recordsRequest EXCEPT ![r] = new]
        /\ recordsFresh' = recordsFresh /\ UNCHANGED <<Student!studentVars, Student!Academics, recordsLock>>
    BY <1>1 DEF Student!OpensMove
  <1>3. recordsRequest \in [Requests -> RecordRequestRows]
    BY DEF RecordsInv
  <1>4. place[h].status \in Seats
    BY <1>1, Kinds DEF RecordsInv, Student!TypeOK, Seats
  <1>5. new \in RecordRequestRows
    BY <1>4 DEF Student!Idle, RecordRequestRows, Student!Academic
  <1>6. /\ new.doing = "move" /\ new.phase = "checked" /\ new.from = h /\ new.to = g
        /\ new.id = id /\ new.status = place[h].status
    BY DEF Student!Idle
  <1> HIDE DEF new
  <1>7. Sensible(r)'
    BY <1>2, <1>3, <1>4, <1>6 DEF Sensible
  <1> QED BY <1>2, <1>5, <1>6, <1>7, RecordOpensKeeps

LEMMA RecordLocksKeeps ==
    ASSUME Student!RecordsAssumption, RecordsInv, NEW r \in Requests, NEW row \in {"record", "account"},
           recordsLock[row] = None, Student!Locks(r, row), UNCHANGED <<Student!studentVars,
           Student!Academics, recordsFresh>>,
           recordsRequest[r].doing = "reset" \/ (row = "record" /\ r \in recordsFresh)
    PROVE  RecordsInv'
  <1>1. /\ UNCHANGED <<record, recordsAccount, handed, place, group, recordsFresh>>
        /\ recordsRequest' = [recordsRequest EXCEPT ![r].phase = "locked"] /\ recordsLock' = [recordsLock EXCEPT ![row] = r]
    BY DEF Student!studentVars, Student!Academics, Student!Locks
  <1>2. /\ recordsRequest \in [Requests -> RecordRequestRows] /\ Student!TypeOK
        /\ recordsLock \in [{"record", "account"} -> Requests \cup {None}]
        /\ Sensible(r) /\ SawPresent(r)
    BY DEF RecordsInv, Student!TypeOK
  <1>3. /\ recordsRequest'[r] = [recordsRequest[r] EXCEPT !.phase = "locked"]
        /\ recordsRequest' \in [Requests -> RecordRequestRows]
        /\ \A q \in Requests \ {r} : recordsRequest'[q] = recordsRequest[q]
    BY <1>1, <1>2 DEF RecordRequestRows
  <1>4. recordsRequest[r] \in RecordRequestRows
    BY <1>2
  <1>5. /\ recordsRequest'[r].doing = recordsRequest[r].doing /\ recordsRequest'[r].saw = recordsRequest[r].saw
        /\ recordsRequest'[r].status = recordsRequest[r].status /\ recordsRequest'[r].school = recordsRequest[r].school
        /\ recordsRequest'[r].from = recordsRequest[r].from /\ recordsRequest'[r].to = recordsRequest[r].to
        /\ recordsRequest'[r].id = recordsRequest[r].id
    BY <1>3, <1>4 DEF RecordRequestRows
  <1>6. Sensible(r)'
    BY <1>2, <1>5 DEF Sensible
  <1>7. SawPresent(r)'
    BY <1>1, <1>2, <1>5 DEF SawPresent, Student!Doing
  <1>8. \A q \in Requests \ {r} : Sensible(q)' /\ SawPresent(q)'
    <2>1. \A q \in Requests \ {r} : recordsLock["record"] = q => recordsLock'["record"] = q
      BY <1>1, <1>2, Kinds
    <2> QED BY <1>1, <1>3, <2>1, OthersStay
  <1>9. Student!TypeOK'
    <2>1. \A q \in Requests : recordsRequest'[q] \in RecordRequestRows
      BY <1>3
    <2>2. recordsLock' \in [{"record", "account"} -> Requests \cup {None}]
      BY <1>1, <1>2
    <2> QED BY <1>1, <1>2, <2>1, <2>2 DEF Student!TypeOK, RecordRequestRows, States
  <1>10. Student!AccountFollowsRecord' /\ Student!HandedPasswordOpens' /\ OneSeat'
    BY <1>1 DEF RecordsInv, Student!AccountFollowsRecord, Student!HandedPasswordOpens, OneSeat
  <1> QED BY <1>3, <1>6, <1>7, <1>8, <1>9, <1>10 DEF RecordsInv

LEMMA RecordRollbackKeeps ==
    ASSUME Student!RecordsAssumption, RecordsInv, NEW r \in Requests, Student!Rollback(r)
    PROVE  RecordsInv'
  <1>1. /\ Student!Ends(r) /\ recordsFresh' = recordsFresh \ {r}
        /\ UNCHANGED <<record, recordsAccount, handed, place, group>>
    BY DEF Student!Rollback, Student!studentVars, Student!Academics
  <1>2. Student!AccountFollowsRecord' /\ Student!HandedPasswordOpens' /\ OneSeat'
    BY <1>1 DEF RecordsInv, Student!AccountFollowsRecord, Student!HandedPasswordOpens, OneSeat
  <1>3. /\ record \in [status : States, school : Schools]
        /\ recordsAccount \in [status : States, secret : Requests \cup {Own}]
        /\ handed \in Requests \cup {None}
        /\ place \in [Groups -> [id : Places, status : Seats] \cup {Student!Empty}]
    BY DEF RecordsInv, Student!TypeOK, States, Seats
  <1> QED BY <1>1, <1>2, <1>3, RecordEndsKeeps

LEMMA SupportKeeps ==
    ASSUME Student!RecordsAssumption, RecordsInv, NEW r \in Requests, Student!SupportNext(r)
    PROVE  RecordsInv'
  <1>0. /\ record \in [status : States, school : Schools]
        /\ recordsAccount \in [status : States, secret : Requests \cup {Own}]
        /\ handed \in Requests \cup {None}
        /\ place \in [Groups -> [id : Places, status : Seats] \cup {Student!Empty}]
        /\ recordsLock \in [{"record", "account"} -> Requests \cup {None}]
        /\ recordsRequest[r] \in RecordRequestRows /\ Sensible(r) /\ SawPresent(r)
    BY DEF RecordsInv, Student!TypeOK, States, Seats
  <1>1. CASE Student!LocksRecord(r)
    BY <1>1, RecordRollbackKeeps, RecordLocksKeeps DEF Student!LocksRecord
  <1>2. CASE Student!WritesRecord(r)
    <2>1. /\ Student!Doing(r, "edit", "locked") \/ Student!Doing(r, "lifecycle", "locked")
          /\ record' = [status |-> recordsRequest[r].status,
                        school |-> IF recordsRequest[r].doing = "edit" THEN
                        recordsRequest[r].school
                                   ELSE record.school]
          /\ recordsAccount' = [recordsAccount EXCEPT !.status = recordsRequest[r].status]
          /\ Student!Ends(r) /\ recordsFresh' = {} /\ UNCHANGED <<handed, place, group>>
      BY <1>2 DEF Student!WritesRecord, Student!Academics
    <2>2. recordsRequest[r].status \in States /\ recordsLock["record"] = r
      BY <1>0, <2>1 DEF Sensible, SawPresent, Student!Doing
    <2>3. record' \in [status : States, school : Schools]
      BY <1>0, <2>1, <2>2 DEF Sensible
    <2>4. recordsAccount' \in [status : States, secret : Requests \cup {Own}]
      BY <1>0, <2>1, <2>2
    <2>5. Student!AccountFollowsRecord' /\ Student!HandedPasswordOpens' /\ OneSeat'
      BY <1>0, <2>1 DEF RecordsInv, Student!AccountFollowsRecord, Student!HandedPasswordOpens,
         OneSeat
    <2> QED BY <1>0, <2>1, <2>2, <2>3, <2>4, <2>5, RecordEndsKeeps
  <1>3. CASE Student!LocksAccount(r)
    BY <1>3, RecordLocksKeeps DEF Student!LocksAccount, Student!Doing
  <1>4. CASE Student!BumpsVersion(r) /\ ~Student!Rollback(r)
    <2>1. /\ recordsAccount' = [recordsAccount EXCEPT !.secret = r] /\ handed' = r
          /\ Student!Ends(r) /\ recordsFresh' = {} /\ UNCHANGED <<record, place, group>>
      BY <1>4 DEF Student!BumpsVersion, Student!Academics
    <2>2. recordsAccount' \in [status : States, secret : Requests \cup {Own}]
      BY <1>0, <2>1
    <2>3. Student!AccountFollowsRecord' /\ Student!HandedPasswordOpens' /\ OneSeat'
      BY <1>0, <2>1 DEF RecordsInv, Student!AccountFollowsRecord, Student!HandedPasswordOpens,
         OneSeat
    <2> QED BY <1>0, <2>1, <2>2, <2>3, RecordEndsKeeps
  <1>5. CASE Student!Rollback(r) \/ Student!DeadlockAborts(r)
    BY <1>5, RecordRollbackKeeps DEF Student!DeadlockAborts
  <1> QED BY <1>1, <1>2, <1>3, <1>4, <1>5, EditKeeps, LifecycleKeeps, ResetKeeps DEF
       Student!SupportNext

\* Academics changes who sits where, nothing else.
LEMMA SeatsKeep ==
    ASSUME Student!RecordsAssumption, RecordsInv, NEW r \in Requests, Student!Ends(r),
           recordsRequest[r].doing \in Student!Academic, UNCHANGED <<Student!studentVars, group,
           recordsFresh>>,
           place' \in [Groups -> [id : Places, status : Seats] \cup {Student!Empty}], OneSeat'
    PROVE  RecordsInv'
  <1>1. UNCHANGED <<record, recordsAccount, handed>>
    BY DEF Student!studentVars
  <1>2. /\ record \in [status : States, school : Schools]
        /\ recordsAccount \in [status : States, secret : Requests \cup {Own}]
        /\ handed \in Requests \cup {None}
    BY DEF RecordsInv, Student!TypeOK, States
  <1>3. Student!AccountFollowsRecord' /\ Student!HandedPasswordOpens'
    BY <1>1 DEF RecordsInv, Student!AccountFollowsRecord, Student!HandedPasswordOpens
  <1> QED BY <1>1, <1>2, <1>3, RecordEndsKeeps

LEMMA AcademicKeeps ==
    ASSUME Student!RecordsAssumption, RecordsInv, NEW r \in Requests, Student!AcademicNext(r)
    PROVE  RecordsInv'
  <1>0. /\ place \in [Groups -> [id : Places, status : Seats] \cup {Student!Empty}]
        /\ recordsRequest[r] \in RecordRequestRows /\ Sensible(r) /\ OneSeat
    BY DEF RecordsInv, Student!TypeOK, Seats
  <1>1. CASE Student!Enrols(r) /\ ~Student!Rollback(r)
    <2> DEFINE g == recordsRequest[r].to
               seat == [id |-> IF place[g] = Student!Empty THEN recordsRequest[r].id ELSE place[g].id,
                        status |-> "active"]
    <2>1. /\ recordsRequest[r].doing = "enrol" /\ Student!Ends(r) /\ UNCHANGED <<Student!studentVars, group, recordsFresh>>
          /\ place' = [place EXCEPT ![g] = seat]
          /\ ~(place[g] = Student!Empty /\ Student!GroupOf(recordsRequest[r].id) # {})
      BY <1>1 DEF Student!Enrols, Student!Doing
    <2>2. g \in Groups /\ recordsRequest[r].id \in Places
      BY <1>0, <2>1 DEF Sensible
    <2>3. seat \in [id : Places, status : Seats]
      BY <1>0, <2>2 DEF Seats
    <2>4. \A h \in Groups \ {g} : place[h].id # seat.id
      <3>1. CASE place[g] = Student!Empty
        BY <2>1, <3>1 DEF Student!GroupOf
      <3>2. CASE place[g] # Student!Empty
        <4>1. place[g].id \in Places
          BY <1>0, <2>2, <3>2
        <4> QED BY <1>0, <2>2, <3>2, <4>1 DEF OneSeat
      <3> QED BY <3>1, <3>2
    <2> HIDE DEF seat
    <2>5. OneSeat'
      BY <1>0, <2>1, <2>2, <2>4 DEF OneSeat
    <2>6. place' \in [Groups -> [id : Places, status : Seats] \cup {Student!Empty}]
      BY <1>0, <2>1, <2>3
    <2> QED BY <2>1, <2>5, <2>6, SeatsKeep DEF Student!Academic
  <1>2. CASE Student!SetsStatus(r)
    <2> DEFINE g == recordsRequest[r].from
               seat == IF place[g] = Student!Empty THEN Student!Empty
                       ELSE [place[g] EXCEPT !.status = recordsRequest[r].status]
    <2>1. /\ recordsRequest[r].doing = "status" /\ Student!Ends(r) /\ UNCHANGED <<Student!studentVars, group, recordsFresh>>
          /\ place' = [place EXCEPT ![g] = seat]
      BY <1>2 DEF Student!SetsStatus, Student!Doing
    <2>2. g \in Groups /\ recordsRequest[r].status \in Seats
      BY <1>0, <2>1 DEF Sensible
    <2>3. seat \in [id : Places, status : Seats] \cup {Student!Empty} /\ seat.id = place[g].id
      BY <1>0, <2>2
    <2> HIDE DEF seat
    <2>4. \A h \in Groups : place'[h].id = place[h].id
      BY <1>0, <2>1, <2>2, <2>3
    <2>5. OneSeat'
      BY <1>0, <2>4 DEF OneSeat
    <2>6. place' \in [Groups -> [id : Places, status : Seats] \cup {Student!Empty}]
      BY <1>0, <2>1, <2>3
    <2> QED BY <2>1, <2>5, <2>6, SeatsKeep DEF Student!Academic
  <1>3. CASE Student!Moves(r) /\ ~Student!Rollback(r)
    <2> DEFINE f == recordsRequest[r].from
               g == recordsRequest[r].to
               seat == [id |-> recordsRequest[r].id, status |-> recordsRequest[r].status]
    <2>1. /\ recordsRequest[r].doing = "move" /\ Student!Ends(r) /\ UNCHANGED <<Student!studentVars, group, recordsFresh>>
          /\ place' = [place EXCEPT ![f] = Student!Empty, ![g] = seat]
          /\ Student!GroupOf(recordsRequest[r].id) \ {f, g} = {}
      BY <1>3 DEF Student!Moves, Student!Doing, Student!AfterMove
    <2>2. f \in Groups /\ g \in Groups /\ recordsRequest[r].id \in Places /\ recordsRequest[r].status \in Seats
      BY <1>0, <2>1 DEF Sensible
    <2>3. seat \in [id : Places, status : Seats] /\ seat.id = recordsRequest[r].id
      BY <2>2
    <2> HIDE DEF seat
    <2>4. \A h \in Groups :
              place'[h] = IF h = g THEN seat ELSE IF h = f THEN Student!Empty ELSE place[h]
      BY <1>0, <2>1, <2>2
    <2>5. \A h \in Groups \ {f, g} : place[h].id # seat.id
      BY <2>1, <2>3 DEF Student!GroupOf
    <2>6. OneSeat'
      BY <1>0, <2>2, <2>3, <2>4, <2>5, Kinds DEF OneSeat
    <2>7. place' \in [Groups -> [id : Places, status : Seats] \cup {Student!Empty}]
      BY <1>0, <2>1, <2>3
    <2> QED BY <2>1, <2>6, <2>7, SeatsKeep DEF Student!Academic
  <1>4. CASE Student!Rollback(r)
    BY <1>4, RecordRollbackKeeps
  <1> QED BY <1>1, <1>2, <1>3, <1>4, EnrolOpens, StatusOpens, MoveOpens DEF Student!AcademicNext

LEMMA AroundKeeps ==
    ASSUME Student!RecordsAssumption, RecordsInv,
           Student!ChangesOwnPassword \/ \E g \in Groups : Student!ArchivesGroup(g) \/
           Student!PurgesGroup(g)
    PROVE  RecordsInv'
  <1>1. /\ UNCHANGED <<record, recordsRequest, recordsFresh, recordsLock>> /\ Student!TypeOK
    BY DEF Student!ChangesOwnPassword, Student!ArchivesGroup, Student!PurgesGroup,
       Student!Academics, Student!studentVars, RecordsInv
  <1>2. recordsAccount' \in [status : States, secret : Requests \cup {Own}]
        /\ recordsAccount'.status = recordsAccount.status
        /\ handed' \in Requests \cup {None}
        /\ (handed' # None => handed' = handed /\ recordsAccount' = recordsAccount)
    BY <1>1 DEF Student!ChangesOwnPassword, Student!ArchivesGroup, Student!PurgesGroup,
       Student!Academics, Student!studentVars, Student!TypeOK, States
  <1>3. /\ group' \in [Groups -> {"active", "archived", "purged"}]
        /\ place' \in [Groups -> [id : Places, status : Seats] \cup {Student!Empty}]
        /\ \A g \in Groups : place'[g] \in {place[g], Student!Empty}
    BY <1>1 DEF Student!ChangesOwnPassword, Student!ArchivesGroup, Student!PurgesGroup,
       Student!Academics, Student!studentVars, Student!TypeOK, Seats
  <1>4. Student!TypeOK'
    BY <1>1, <1>2, <1>3 DEF Student!TypeOK, States, Seats
  <1>5. \A r \in Requests : Sensible(r)' /\ SawPresent(r)'
    BY <1>1 DEF RecordsInv, Sensible, SawPresent, Student!Doing
  <1>6. Student!AccountFollowsRecord' /\ Student!HandedPasswordOpens'
    BY <1>1, <1>2 DEF RecordsInv, Student!AccountFollowsRecord, Student!HandedPasswordOpens
  <1>7. OneSeat'
    BY <1>3, Kinds DEF RecordsInv, OneSeat
  <1> QED BY <1>1, <1>4, <1>5, <1>6, <1>7 DEF RecordsInv

LEMMA RecordInitHolds ==
    ASSUME Student!RecordsAssumption, Student!Init
    PROVE  RecordsInv
  <1>1. Student!TypeOK
    BY DEF Student!Init, Student!TypeOK, Student!Idle
  <1>2. recordsRequest \in [Requests -> RecordRequestRows]
    BY Kinds DEF Student!Init
  <1>3. \A r \in Requests : Sensible(r) /\ SawPresent(r)
    BY DEF Student!Init, Sensible, SawPresent, Student!Idle, Student!Doing
  <1>4. Student!AccountFollowsRecord /\ Student!HandedPasswordOpens /\ OneSeat
    BY Kinds DEF Student!Init, Student!AccountFollowsRecord, Student!HandedPasswordOpens,
       OneSeat
  <1> QED BY <1>1, <1>2, <1>3, <1>4 DEF RecordsInv

LEMMA RecordInvariance ==
    ASSUME Student!RecordsAssumption
    PROVE  Student!Spec => []RecordsInv
  <1>1. Student!Init => RecordsInv
    BY RecordInitHolds
  <1>2. ASSUME RecordsInv, [Student!Next]_(Student!vars) PROVE RecordsInv'
    <2>1. CASE UNCHANGED Student!vars
      <3>1. UNCHANGED <<record, recordsAccount, handed, place, group, recordsRequest, recordsFresh, recordsLock>>
        BY <2>1 DEF Student!vars
      <3> QED BY <1>2, <3>1 DEF RecordsInv, Student!TypeOK, Sensible, SawPresent, Student!Doing,
                 Student!AccountFollowsRecord, Student!HandedPasswordOpens, OneSeat
    <2> QED BY <1>2, <2>1, SupportKeeps, AcademicKeeps, AroundKeeps DEF Student!Next
  <1> QED BY <1>1, <1>2, PTL DEF Student!Spec

\* Whoever holds the account or the record has done its first step and not its second.
RecordHolders ==
    \A row \in {"record", "account"} :
        LET r == recordsLock[row]
        IN r # None => /\ recordsRequest[r].doing \in Student!Support
                       /\ recordsRequest[r].phase = "locked"
                       /\ recordsRequest[r].doing = "reset" <=> row = "account"

LEMMA RecordHoldersKeep ==
    ASSUME Student!RecordsAssumption, RecordsInv, RecordHolders, [Student!Next]_(Student!vars)
    PROVE  RecordHolders'
  <1>1. /\ recordsRequest \in [Requests -> RecordRequestRows]
        /\ recordsLock \in [{"record", "account"} -> Requests \cup {None}]
    BY DEF RecordsInv, Student!TypeOK
  <1>2. None \notin Requests /\ Student!Idle.phase = "idle"
    BY Kinds DEF Student!Idle
  <1>3. CASE UNCHANGED <<recordsRequest, recordsLock>>
    BY <1>3 DEF RecordHolders
  <1>4. ASSUME NEW r \in Requests, Student!Ends(r)
        PROVE  RecordHolders'
    <2>1. \A q \in Requests \ {r} : recordsRequest'[q] = recordsRequest[q]
      BY <1>1, <1>4 DEF Student!Ends
    <2>2. \A row \in {"record", "account"} :
             recordsLock'[row] # None => recordsLock'[row] = recordsLock[row]
                                         /\ recordsLock[row] \in Requests \ {r}
      BY <1>1, <1>4 DEF Student!Ends
    <2> QED BY <2>1, <2>2 DEF RecordHolders
  <1>5. ASSUME NEW r \in Requests, NEW row \in {"record", "account"}, Student!Locks(r, row),
               recordsLock[row] = None, recordsRequest[r].doing \in Student!Support,
               recordsRequest[r].doing = "reset" <=> row = "account",
               recordsRequest[r].phase = "checked"
        PROVE  RecordHolders'
    <2>1. \A q \in Requests \ {r} : recordsRequest'[q] = recordsRequest[q]
      BY <1>1, <1>5 DEF Student!Locks
    <2>2. recordsRequest'[r].phase = "locked" /\ recordsRequest'[r].doing = recordsRequest[r].doing
      BY <1>1, <1>5 DEF Student!Locks, RecordRequestRows
    <2>3. ASSUME NEW other \in {"record", "account"} \ {row}
          PROVE  recordsLock'[other] = recordsLock[other] /\ recordsLock[other] # r
      <3>1. recordsLock'[other] = recordsLock[other]
        BY <1>1, <1>5 DEF Student!Locks
      <3>2. recordsLock[other] # None => recordsRequest[recordsLock[other]].phase = "locked"
        BY <2>3 DEF RecordHolders
      <3> QED BY <1>2, <1>5, <3>1, <3>2
    <2>4. recordsLock'[row] = r
      BY <1>1, <1>5 DEF Student!Locks
    <2> QED BY <1>1, <1>5, <2>1, <2>2, <2>3, <2>4 DEF RecordHolders
  <1>6. ASSUME NEW r \in Requests, NEW new, recordsRequest[r] = Student!Idle,
               recordsRequest' = [recordsRequest EXCEPT ![r] = new], UNCHANGED recordsLock
        PROVE  RecordHolders'
    <2>1. \A q \in Requests \ {r} : recordsRequest'[q] = recordsRequest[q]
      BY <1>1, <1>6
    <2>2. \A row \in {"record", "account"} : recordsLock[row] # r
      BY <1>1, <1>2, <1>6 DEF RecordHolders
    <2> QED BY <1>1, <1>6, <2>1, <2>2 DEF RecordHolders
  <1>7. ASSUME NEW r \in Requests, Student!SupportNext(r)
        PROVE  RecordHolders'
    <2>1. CASE \/ \E status \in {"active", "disabled"}, school \in Schools :
                     Student!OpensEdit(r, status, school)
               \/ \E status \in {"active", "archived"} : Student!OpensLifecycle(r, status)
               \/ Student!OpensReset(r)
      BY <1>6, <2>1 DEF Student!OpensEdit, Student!OpensLifecycle, Student!OpensReset
    <2>2. CASE Student!LocksRecord(r)
      BY <1>4, <1>5, <2>2 DEF Student!LocksRecord, Student!Doing, Student!Rollback, Student!Support
    <2>3. CASE Student!LocksAccount(r)
      BY <1>5, <2>3 DEF Student!LocksAccount, Student!Doing, Student!Support
    <2>4. CASE Student!WritesRecord(r) \/ Student!BumpsVersion(r) \/ Student!DeadlockAborts(r)
      BY <1>4, <2>4 DEF Student!WritesRecord, Student!BumpsVersion, Student!DeadlockAborts,
         Student!Rollback
    <2> QED BY <1>7, <2>1, <2>2, <2>3, <2>4 DEF Student!SupportNext
  <1>8. ASSUME NEW r \in Requests, Student!AcademicNext(r)
        PROVE  RecordHolders'
    <2>1. CASE \/ \E g \in Groups, id \in Places :
                     Student!OpensEnrol(r, g, id) \/ Student!OpensMove(r, id, g)
               \/ \E id \in Places, status \in {"active", "disqualified", "banned"} :
                     Student!OpensStatus(r, id, status)
      BY <1>6, <2>1 DEF Student!OpensEnrol, Student!OpensMove, Student!OpensStatus
    <2>2. CASE Student!Enrols(r) \/ Student!SetsStatus(r) \/ Student!Moves(r)
      BY <1>4, <2>2 DEF Student!Enrols, Student!SetsStatus, Student!Moves, Student!Rollback
    <2> QED BY <1>8, <2>1, <2>2 DEF Student!AcademicNext
  <1>9. CASE \/ Student!ChangesOwnPassword
             \/ \E g \in Groups : Student!ArchivesGroup(g) \/ Student!PurgesGroup(g)
             \/ UNCHANGED Student!vars
    BY <1>3, <1>9 DEF Student!ChangesOwnPassword, Student!ArchivesGroup, Student!PurgesGroup,
       Student!vars
  <1> QED BY <1>7, <1>8, <1>9 DEF Student!Next

\* Of the commands of Customer Support that wait, one holds the row another waits for, and
\* there are two rows.
LEMMA SomeRecordRequestMoves ==
    ASSUME Student!RecordsAssumption, RecordsInv, RecordHolders
    PROVE  Student!SomeRequestMoves
  <1> DEFINE busy == {r \in Requests : recordsRequest[r].doing \in Student!Support}
             Waits(r) == ~Student!Free(r, Student!NextRow(r))
  <1> SUFFICES ASSUME busy # {}, \A r \in busy : Waits(r)
               PROVE  \E r \in busy : Student!Deadlocked(r)
    BY DEF Student!SomeRequestMoves
  <1>1. /\ recordsLock \in [{"record", "account"} -> Requests \cup {None}]
        /\ None \notin Requests
    BY Kinds DEF RecordsInv, Student!TypeOK
  <1>2. ASSUME NEW r \in busy
        PROVE  \E h \in busy : h # r /\ h = recordsLock[Student!NextRow(r)]
    <2>1. Student!NextRow(r) \in {"record", "account"}
      BY DEF Student!NextRow
    <2>2. recordsLock[Student!NextRow(r)] \in Requests \ {r}
      BY <1>1, <2>1 DEF Student!Free
    <2>3. recordsLock[Student!NextRow(r)] # None
      BY <1>1, <2>2
    <2> QED BY <2>1, <2>2, <2>3 DEF RecordHolders
  <1>3. PICK r \in busy : TRUE
    OBVIOUS
  <1>4. PICK h \in busy : h # r /\ h = recordsLock[Student!NextRow(r)]
    BY <1>2
  <1>5. PICK k \in busy : k # h /\ k = recordsLock[Student!NextRow(h)]
    BY <1>2
  <1>6. /\ recordsRequest[h].phase = "locked" /\ recordsRequest[k].phase = "locked"
        /\ recordsLock[IF recordsRequest[h].doing = "reset" THEN "account" ELSE "record"] = h
        /\ recordsLock[IF recordsRequest[k].doing = "reset" THEN "account" ELSE "record"] = k
    <2>1. Student!NextRow(r) \in {"record", "account"} /\ Student!NextRow(h) \in {"record", "account"}
      BY DEF Student!NextRow
    <2>2. h # None /\ k # None
      BY <1>1
    <2> QED BY <1>4, <1>5, <2>1, <2>2 DEF RecordHolders
  <1>7. Student!WaitsFor(h) = k
    BY <1>5, <1>6 DEF Student!WaitsFor, Student!NextRow
  <1>8. Student!WaitsFor(k) = h
    BY <1>5, <1>6 DEF Student!WaitsFor, Student!NextRow
  <1>9. k \in Requests /\ k # None
    BY <1>1
  <1>10. Student!Deadlocked(h)
    BY <1>5, <1>7, <1>8, <1>9 DEF Student!Deadlocked
  <1> QED BY <1>10

\* Account and record agree, the password handed out last opens the account, and an
\* enrolment sits in one group, for any requests and groups; and of the commands that wait
\* one goes on or is found in a circle.
THEOREM StudentsKeepRecordsSound ==
    ASSUME Student!RecordsAssumption
    PROVE  Student!Spec => []RecordsSound
  <1>1. ASSUME RecordsInv, RecordHolders PROVE RecordsSound
    <2>1. ASSUME NEW id \in Places PROVE Cardinality(Student!GroupOf(id)) <= 1
      <3>1. CASE Student!GroupOf(id) = {}
        BY <3>1, FS_EmptySet
      <3>2. CASE Student!GroupOf(id) # {}
        <4>1. PICK g \in Student!GroupOf(id) : TRUE
          BY <3>2
        <4>2. Student!GroupOf(id) = {g}
          BY <1>1, <4>1 DEF Student!GroupOf, RecordsInv, OneSeat
        <4>3. Cardinality({g}) = 1
          BY FS_Singleton
        <4> QED BY <4>2, <4>3
      <3> QED BY <3>1, <3>2
    <2>2. Student!SomeRequestMoves
      BY <1>1, SomeRecordRequestMoves
    <2> QED BY <1>1, <2>1, <2>2 DEF RecordsInv, RecordsSound, Student!RecordsSound,
         Student!OneGroupPerEnrolment, Student!Cardinality, Cardinality
  <1>2. Student!Init => RecordHolders
    BY DEF Student!Init, RecordHolders
  <1>3. RecordsInv /\ RecordHolders /\ [Student!Next]_(Student!vars) => RecordHolders'
    BY RecordHoldersKeep
  <1> QED BY <1>1, <1>2, <1>3, RecordInvariance, PTL DEF Student!Spec

\* An archived student comes back by a command that had seen the archived record.
THEOREM ArchivesAreUndoneKnowingly ==
    ASSUME Student!RecordsAssumption
    PROVE  Student!Spec => Student!ArchiveIsUndoneKnowingly
  <1>1. ASSUME RecordsInv, [Student!Next]_(Student!vars), record.status = "archived", record'.status # "archived"
        PROVE  \E r \in Requests : recordsRequest'[r] = Student!Idle /\ recordsRequest[r].saw = "archived"
    <2>1. ASSUME NEW r \in Requests, Student!SupportNext(r), ~Student!WritesRecord(r) PROVE record' = record
      BY <2>1 DEF Student!SupportNext, Student!OpensEdit, Student!OpensLifecycle,
         Student!OpensReset, Student!LocksRecord, Student!LocksAccount,
         Student!BumpsVersion, Student!DeadlockAborts, Student!Rollback, Student!studentVars
    <2>2. ASSUME NEW r \in Requests, Student!AcademicNext(r) PROVE record' = record
      BY <2>2 DEF Student!AcademicNext, Student!OpensEnrol, Student!OpensMove,
         Student!OpensStatus, Student!Enrols, Student!SetsStatus, Student!Moves,
         Student!Rollback, Student!studentVars
    <2>3. ASSUME NEW g \in Groups, Student!ArchivesGroup(g) \/ Student!PurgesGroup(g) PROVE record' = record
      BY <2>3 DEF Student!ArchivesGroup, Student!PurgesGroup, Student!studentVars
    <2>4. UNCHANGED Student!vars \/ Student!ChangesOwnPassword => record' = record
      BY DEF Student!ChangesOwnPassword, Student!vars
    <2>5. PICK r \in Requests : Student!WritesRecord(r)
      BY <1>1, <2>1, <2>2, <2>3, <2>4 DEF Student!Next
    <2>6. recordsRequest'[r] = Student!Idle
      BY <1>1, <2>5 DEF Student!WritesRecord, Student!Ends, RecordsInv
    <2>7. recordsRequest[r].saw = record.status
      BY <1>1, <2>5 DEF Student!WritesRecord, RecordsInv, SawPresent
    <2> QED BY <1>1, <2>6, <2>7
  <1>2. RecordsInv /\ [Student!Next]_(Student!vars) =>
           [record.status = "archived" /\ record'.status # "archived" =>
              \E r \in Requests : recordsRequest'[r] = Student!Idle /\ recordsRequest[r].saw = "archived"]_(Student!vars)
    BY <1>1
  <1> QED BY <1>2, RecordInvariance, PTL DEF Student!ArchiveIsUndoneKnowingly, Student!Spec
-----------------------------------------------------------------------------
(* Sign-in sessions.                                                        *)

\* A cookie names no version that is yet to come, and one that names the present version
\* was made under the present password since the last closing.
NamesItsVersion(c) ==
    c # None =>
      /\ c.version <= signInAccount.version
      /\ c.version = signInAccount.version => c.under = signInAccount.password /\ c.closings = closings

\* Every closing moved the version, which started at 1.
ClosingsMoveTheVersion == closings < signInAccount.version

CookiesNameTheirVersion ==
    /\ \A b \in Browsers : NamesItsVersion(cookie[b])
    /\ \A e \in Exchanges : NamesItsVersion(exchange[e].cookie)

\* Disabled or not, the account asks no change of a password whose visitor was let in.
AdmittedAfterTheChange ==
    \A e \in Exchanges : SignIn!In(e, "visit", "admitted") =>
        /\ exchange[e].cookie # None
        /\ exchange[e].cookie.version = signInAccount.version => ~signInAccount.must

SessionIInv ==
    /\ SignIn!TypeOK
    /\ ClosingsMoveTheVersion
    /\ CookiesNameTheirVersion
    /\ AdmittedAfterTheChange

LEMMA IInvInit == SignIn!SessionsAssumption => (SignIn!Init => SessionIInv)
  BY DEF SignIn!SessionsAssumption, SignIn!Init, SessionIInv, SignIn!TypeOK,
     ClosingsMoveTheVersion, CookiesNameTheirVersion,
         NamesItsVersion, AdmittedAfterTheChange, SignIn!In, SignIn!Free, SignIn!Versions,
         SignIn!Cookies

-----------------------------------------------------------------------------
(* Steps that leave the account alone. *)

\* A request that is sent, answered or received carries a cookie on.
LEMMA SameAccount ==
    ASSUME SignIn!SessionsAssumption, SessionIInv, UNCHANGED <<signInAccount, closings>>,
           changer' \in Browsers \cup {None},
           NEW e \in Exchanges, NEW x,
           exchange' = [exchange EXCEPT ![e] = x],
           x \in [doing : {"none", "login", "visit", "change", "logout"},
                  browser : Browsers \cup {None}, phase : {"free", "sent", "admitted",
                  "answered"},
                  cookie : SignIn!Cookies \cup {None}, typed : SignIn!Versions],
           NamesItsVersion(x.cookie),
           x.doing = "visit" /\ x.phase = "admitted" =>
               x.cookie # None /\ (x.cookie.version = signInAccount.version => ~signInAccount.must),
           cookie' \in [Browsers -> SignIn!Cookies \cup {None}],
           \A b \in Browsers : NamesItsVersion(cookie'[b])
    PROVE  SessionIInv'
  <1>1. \A f \in Exchanges : exchange'[f] = IF f = e THEN x ELSE exchange[f]
    BY DEF SessionIInv, SignIn!TypeOK
  <1>2. SignIn!TypeOK'
    BY DEF SessionIInv, SignIn!TypeOK, SignIn!Versions
  <1>3. CookiesNameTheirVersion'
    <2>1. \A c : NamesItsVersion(c)' <=> NamesItsVersion(c)
      BY DEF NamesItsVersion
    <2> QED BY <1>1, <2>1 DEF SessionIInv, CookiesNameTheirVersion, NamesItsVersion
  <1>4. AdmittedAfterTheChange'
    BY <1>1 DEF SessionIInv, AdmittedAfterTheChange, SignIn!In
  <1> QED BY <1>2, <1>3, <1>4 DEF SessionIInv, ClosingsMoveTheVersion

\* A cookie that was fine stays fine when the version moves on.
LEMMA MovedOn ==
    ASSUME SignIn!TypeOK, NEW c \in SignIn!Cookies \cup {None}, NamesItsVersion(c),
           signInAccount'.version \in Nat, signInAccount'.version > signInAccount.version
    PROVE  NamesItsVersion(c)' /\ (c # None => c.version # signInAccount'.version)
  <1>1. c # None => c.version \in Nat
    BY DEF SignIn!TypeOK, SignIn!Cookies, SignIn!Versions
  <1> QED BY <1>1 DEF NamesItsVersion, SignIn!TypeOK, SignIn!Versions

\* The account gets a new version and the requests and cookies stay as they are.
LEMMA VersionMoves ==
    ASSUME SignIn!SessionsAssumption, SessionIInv, SignIn!TypeOK', ClosingsMoveTheVersion',
           UNCHANGED <<cookie, exchange>>, signInAccount'.version > signInAccount.version
    PROVE  SessionIInv'
  <1>1. signInAccount'.version \in Nat /\ signInAccount.version \in Nat
    BY DEF SessionIInv, SignIn!TypeOK, SignIn!Versions
  <1>2. CookiesNameTheirVersion'
    BY <1>1, MovedOn DEF SessionIInv, CookiesNameTheirVersion, SignIn!TypeOK
  <1>3. AdmittedAfterTheChange'
    <2> SUFFICES ASSUME NEW e \in Exchanges, SignIn!In(e, "visit", "admitted")
                 PROVE  exchange[e].cookie # None /\ exchange[e].cookie.version # signInAccount'.version
      BY DEF AdmittedAfterTheChange, SignIn!In
    <2>1. exchange[e].cookie \in SignIn!Cookies \cup {None} /\ NamesItsVersion(exchange[e].cookie)
      BY DEF SessionIInv, SignIn!TypeOK, CookiesNameTheirVersion
    <2> QED BY <1>1, <2>1, MovedOn DEF SessionIInv, AdmittedAfterTheChange
  <1> QED BY <1>2, <1>3 DEF SessionIInv

-----------------------------------------------------------------------------
(* The actions, one by one. *)

LEMMA BrowserStep ==
    ASSUME SignIn!SessionsAssumption, SessionIInv, NEW e \in Exchanges, SignIn!Browser(e) PROVE SessionIInv'
  <1> USE DEF SessionIInv, SignIn!TypeOK, CookiesNameTheirVersion
  <1>1. ASSUME NEW b \in Browsers, NEW what \in {"login", "visit", "change", "logout"},
               SignIn!Sent(e, what, b), UNCHANGED <<signInAccount, closings, cookie, changer>>
        PROVE  SessionIInv'
    <2> DEFINE x == [doing |-> what, browser |-> b, phase |-> "sent", cookie |-> cookie[b],
                     typed |-> signInAccount.password]
    <2>1. exchange' = [exchange EXCEPT ![e] = x]
      BY <1>1 DEF SignIn!Sent
    <2>2. /\ x \in [doing : {"none", "login", "visit", "change", "logout"},
                    browser : Browsers \cup {None},
                    phase : {"free", "sent", "admitted", "answered"},
                    cookie : SignIn!Cookies \cup {None}, typed : SignIn!Versions]
          /\ x.phase = "sent" /\ x.cookie = cookie[b]
      OBVIOUS
    <2> HIDE DEF x
    <2> QED BY <1>1, <2>1, <2>2, SameAccount
  <1>2. CASE SignIn!Receives(e)
    <2> DEFINE c == exchange[e].cookie
    <2>1. /\ exchange' = [exchange EXCEPT ![e] = SignIn!Free]
          /\ cookie' = [cookie EXCEPT ![exchange[e].browser] = c]
          /\ UNCHANGED <<signInAccount, closings>>
      BY <1>2 DEF SignIn!Receives
    <2>2. changer' \in Browsers \cup {None}
      BY <1>2 DEF SignIn!Receives
    <2>3. \A b \in Browsers : cookie'[b] \in {cookie[b], c}
      BY <2>1
    <2>4. cookie' \in [Browsers -> SignIn!Cookies \cup {None}]
      BY <2>1
    <2>5. NamesItsVersion(SignIn!Free.cookie)
      BY DEF SignIn!Free, NamesItsVersion
    <2>6. /\ SignIn!Free \in [doing : {"none", "login", "visit", "change", "logout"},
                       browser : Browsers \cup {None},
                       phase : {"free", "sent", "admitted", "answered"},
                       cookie : SignIn!Cookies \cup {None}, typed : SignIn!Versions]
          /\ SignIn!Free.phase = "free"
      BY DEF SignIn!Free, SignIn!Versions, SignIn!SessionsAssumption
    <2>7. \A b \in Browsers : NamesItsVersion(cookie'[b])
      BY <2>3
    <2> QED BY <2>1, <2>2, <2>4, <2>5, <2>6, <2>7, SameAccount
  <1> QED BY <1>1, <1>2 DEF SignIn!Browser, SignIn!SendsLogin, SignIn!Sends

\* The answer of the server to a request that changes no account.
LEMMA Answered ==
    ASSUME SignIn!SessionsAssumption, SessionIInv, NEW e \in Exchanges, NEW c \in SignIn!Cookies \cup {None},
           SignIn!Answers(e, c), NamesItsVersion(c), UNCHANGED <<signInAccount, closings,
           cookie, changer>>
    PROVE  SessionIInv'
  <1> DEFINE x == [exchange[e] EXCEPT !.phase = "answered", !.cookie = c]
  <1>1. exchange' = [exchange EXCEPT ![e] = x]
    BY DEF SignIn!Answers, SessionIInv, SignIn!TypeOK
  <1>2. x \in [doing : {"none", "login", "visit", "change", "logout"},
               browser : Browsers \cup {None}, phase : {"free", "sent", "admitted", "answered"},
               cookie : SignIn!Cookies \cup {None}, typed : SignIn!Versions]
        /\ x.phase = "answered" /\ x.cookie = c
    BY DEF SessionIInv, SignIn!TypeOK
  <1> HIDE DEF x
  <1> QED BY <1>1, <1>2, SameAccount DEF SessionIInv, SignIn!TypeOK, CookiesNameTheirVersion

LEMMA AdmitsStep ==
    ASSUME SignIn!SessionsAssumption, SessionIInv, NEW e \in Exchanges, SignIn!Admits(e) PROVE SessionIInv'
  <1> DEFINE c == exchange[e].cookie
  <1>1. c \in SignIn!Cookies \cup {None} /\ NamesItsVersion(c) /\ NamesItsVersion(None)
    BY DEF SessionIInv, SignIn!TypeOK, CookiesNameTheirVersion, NamesItsVersion
  <1>2. UNCHANGED <<signInAccount, closings, cookie, changer>>
    BY DEF SignIn!Admits
  <1>3. CASE SignIn!Answers(e, None) \/ SignIn!Answers(e, c)
    BY <1>1, <1>2, <1>3, Answered
  <1>4. CASE /\ exchange' = [exchange EXCEPT ![e].phase = "admitted"]
             /\ SignIn!Accepted(c)
             /\ ~(exchange[e].doing = "visit" /\ signInAccount.must)
    <2> DEFINE x == [exchange[e] EXCEPT !.phase = "admitted"]
    <2>1. exchange' = [exchange EXCEPT ![e] = x]
      BY <1>4 DEF SessionIInv, SignIn!TypeOK
    <2>2. x \in [doing : {"none", "login", "visit", "change", "logout"},
                 browser : Browsers \cup {None},
                 phase : {"free", "sent", "admitted", "answered"},
                 cookie : SignIn!Cookies \cup {None}, typed : SignIn!Versions]
          /\ x.doing = exchange[e].doing /\ x.cookie = c
      BY DEF SessionIInv, SignIn!TypeOK
    <2>3. c # None
      BY <1>4 DEF SignIn!Accepted
    <2>4. /\ cookie' \in [Browsers -> SignIn!Cookies \cup {None}]
          /\ \A b \in Browsers : NamesItsVersion(cookie'[b])
          /\ changer' \in Browsers \cup {None}
      BY <1>2 DEF SessionIInv, SignIn!TypeOK, CookiesNameTheirVersion, NamesItsVersion
    <2>5. NamesItsVersion(x.cookie)
      BY <1>1, <2>2
    <2>6. x.doing = "visit" /\ x.phase = "admitted" =>
             x.cookie # None /\ (x.cookie.version = signInAccount.version => ~signInAccount.must)
      BY <1>4, <2>2, <2>3
    <2>7. UNCHANGED <<signInAccount, closings>>
      BY <1>2
    <2> HIDE DEF x
    <2> QED BY <2>1, <2>2, <2>4, <2>5, <2>6, <2>7, SameAccount
  <1> QED BY <1>3, <1>4 DEF SignIn!Admits

LEMMA ServerStep ==
    ASSUME SignIn!SessionsAssumption, SessionIInv, SignIn!TypeOK', NEW e \in Exchanges, SignIn!Server(e) PROVE SessionIInv'
  <1> DEFINE c == exchange[e].cookie
  <1>1. c \in SignIn!Cookies \cup {None} /\ NamesItsVersion(c) /\ NamesItsVersion(None)
    BY DEF SessionIInv, SignIn!TypeOK, CookiesNameTheirVersion, NamesItsVersion
  <1>2. CASE SignIn!LogsIn(e)
    <2>1. CASE SignIn!Answers(e, c)
      BY <1>1, <1>2, <2>1, Answered DEF SignIn!LogsIn
    <2>2. CASE SignIn!Answers(e, SignIn!Cookie(signInAccount.version, signInAccount.password))
      <3>1. SignIn!Cookie(signInAccount.version, signInAccount.password) \in SignIn!Cookies
            /\ NamesItsVersion(SignIn!Cookie(signInAccount.version, signInAccount.password))
        BY DEF SignIn!Cookie, SignIn!Cookies, NamesItsVersion, SessionIInv, SignIn!TypeOK,
           SignIn!Versions
      <3> QED BY <1>2, <2>2, <3>1, Answered DEF SignIn!LogsIn
    <2> QED BY <1>2, <2>1, <2>2 DEF SignIn!LogsIn
  <1>3. CASE SignIn!Admits(e)
    BY <1>3, AdmitsStep
  <1>4. CASE SignIn!Serves(e)
    BY <1>1, <1>4, Answered DEF SignIn!Serves
  <1>5. CASE SignIn!LogsOut(e)
    BY <1>1, <1>5, Answered DEF SignIn!LogsOut
  <1>6. CASE SignIn!Changes(e)
    <2>1. CASE SignIn!Answers(e, c) /\ UNCHANGED <<signInAccount, changer>>
      BY <1>1, <1>6, <2>1, Answered DEF SignIn!Changes
    <2>2. CASE /\ signInAccount.version < MaxVersion
               /\ SignIn!Bumped(signInAccount.version + 1, FALSE)
               /\ SignIn!Answers(e, SignIn!Cookie(signInAccount.version + 1, signInAccount.version + 1))
      <3> DEFINE n == signInAccount.version + 1
                 d == SignIn!Cookie(n, n)
      <3>1. /\ signInAccount.version \in Nat
            /\ signInAccount'.version = n /\ signInAccount'.password = n /\ ~signInAccount'.must
            /\ UNCHANGED <<closings, cookie>>
        BY <1>6, <2>2 DEF SignIn!Changes, SignIn!Bumped, SessionIInv, SignIn!TypeOK,
           SignIn!Versions
      <3>2. \A f \in Exchanges :
              /\ f # e => exchange'[f] = exchange[f]
              /\ f = e => exchange'[f].phase = "answered" /\ exchange'[f].cookie = d
        BY <2>2 DEF SignIn!Answers, SessionIInv, SignIn!TypeOK
      <3> PICK k : k = d
        OBVIOUS
      <3>3. NamesItsVersion(k)'
        BY <3>1 DEF SignIn!Cookie, NamesItsVersion
      <3>4. CookiesNameTheirVersion'
        <4>1. \A b \in Browsers : NamesItsVersion(cookie[b])'
          <5>1. \A b \in Browsers : cookie[b] \in SignIn!Cookies \cup {None} /\ NamesItsVersion(cookie[b])
            BY DEF SessionIInv, SignIn!TypeOK, CookiesNameTheirVersion
          <5> QED BY <3>1, <5>1, MovedOn DEF SessionIInv
        <4>2. ASSUME NEW f \in Exchanges, f # e PROVE NamesItsVersion(exchange[f].cookie)'
          <5>1. exchange[f].cookie \in SignIn!Cookies \cup {None} /\ NamesItsVersion(exchange[f].cookie)
            BY DEF SessionIInv, SignIn!TypeOK, CookiesNameTheirVersion
          <5> QED BY <3>1, <3>2, <4>2, <5>1 DEF NamesItsVersion, SignIn!Cookies, SignIn!Versions
        <4>3. NamesItsVersion(exchange[e].cookie)'
          BY <3>2, <3>3 DEF NamesItsVersion
        <4> QED BY <4>1, <4>2, <4>3 DEF CookiesNameTheirVersion
      <3>5. AdmittedAfterTheChange'
        BY <3>1, <3>2 DEF SessionIInv, AdmittedAfterTheChange, SignIn!In
      <3> QED BY <3>1, <3>4, <3>5 DEF SessionIInv, ClosingsMoveTheVersion, SignIn!TypeOK
    <2> QED BY <1>6, <2>1, <2>2 DEF SignIn!Changes
  <1> QED BY <1>2, <1>3, <1>4, <1>5, <1>6 DEF SignIn!Server

ExchangeRows ==
    [doing : {"none", "login", "visit", "change", "logout"},
     browser : Browsers \cup {None}, phase : {"free", "sent", "admitted", "answered"},
     cookie : SignIn!Cookies \cup {None}, typed : SignIn!Versions]
AccountRows == [version : SignIn!Versions, password : SignIn!Versions, must : BOOLEAN, active : BOOLEAN]

LEMMA AnswersType ==
    ASSUME exchange \in [Exchanges -> ExchangeRows], NEW e \in Exchanges,
           NEW c \in SignIn!Cookies \cup {None}, SignIn!Answers(e, c)
    PROVE  exchange' \in [Exchanges -> ExchangeRows]
  <1> DEFINE x == [exchange[e] EXCEPT !.phase = "answered", !.cookie = c]
  <1>1. exchange[e] \in ExchangeRows
    OBVIOUS
  <1>2. x \in ExchangeRows
    BY <1>1 DEF ExchangeRows
  <1>3. exchange' = [exchange EXCEPT ![e] = x]
    BY DEF SignIn!Answers
  <1> HIDE DEF x
  <1> QED BY <1>2, <1>3

LEMMA TypeStep ==
    ASSUME SignIn!SessionsAssumption, SignIn!TypeOK, ClosingsMoveTheVersion, [SignIn!Next]_(SignIn!vars) PROVE SignIn!TypeOK'
  <1>0. /\ signInAccount \in AccountRows /\ exchange \in [Exchanges -> ExchangeRows]
        /\ closings \in 0..MaxVersion
        /\ cookie \in [Browsers -> SignIn!Cookies \cup {None}]
        /\ changer \in Browsers \cup {None}
    BY DEF SignIn!TypeOK, AccountRows, ExchangeRows
  <1> MaxVersion \in Nat \ {0}
    BY DEF SignIn!SessionsAssumption
  <1>1. ASSUME NEW e \in Exchanges, SignIn!Browser(e) PROVE SignIn!TypeOK'
    BY <1>1, <1>0 DEF SignIn!TypeOK, SignIn!Versions, SignIn!Browser, SignIn!SendsLogin,
       SignIn!Sends, SignIn!Sent, SignIn!Receives, SignIn!Free, SignIn!SessionsAssumption,
       AccountRows, ExchangeRows
  <1>2. ASSUME NEW e \in Exchanges, SignIn!LogsIn(e) PROVE SignIn!TypeOK'
    <2>1. SignIn!Cookie(signInAccount.version, signInAccount.password) \in SignIn!Cookies
      BY <1>0 DEF AccountRows, SignIn!Cookie, SignIn!Cookies
    <2>2. exchange[e].cookie \in SignIn!Cookies \cup {None}
      BY <1>0 DEF ExchangeRows
    <2> QED BY <1>0, <1>2, <2>1, <2>2, AnswersType DEF SignIn!LogsIn, SignIn!TypeOK,
         AccountRows, ExchangeRows
  <1>3. ASSUME NEW e \in Exchanges, SignIn!Admits(e) \/ SignIn!Serves(e) \/ SignIn!LogsOut(e) PROVE SignIn!TypeOK'
    <2>1. exchange[e].cookie \in SignIn!Cookies \cup {None}
      BY <1>0 DEF ExchangeRows
    <2>2. exchange' \in [Exchanges -> ExchangeRows]
      <3>1. CASE exchange' = [exchange EXCEPT ![e].phase = "admitted"]
        BY <1>0, <3>1 DEF ExchangeRows
      <3>2. CASE SignIn!Answers(e, None) \/ SignIn!Answers(e, exchange[e].cookie)
        BY <1>0, <2>1, <3>2, AnswersType
      <3> QED BY <1>3, <3>1, <3>2 DEF SignIn!Admits, SignIn!Serves, SignIn!LogsOut
    <2> QED BY <1>0, <1>3, <2>2 DEF SignIn!Admits, SignIn!Serves, SignIn!LogsOut, SignIn!TypeOK,
         AccountRows, ExchangeRows
  <1>4. ASSUME NEW e \in Exchanges, SignIn!Changes(e) PROVE SignIn!TypeOK'
    <2>1. CASE SignIn!Answers(e, exchange[e].cookie) /\ UNCHANGED <<signInAccount, changer, closings, cookie>>
      <3>1. exchange[e].cookie \in SignIn!Cookies \cup {None}
        BY <1>0 DEF ExchangeRows
      <3>2. exchange' \in [Exchanges -> ExchangeRows]
        BY <1>0, <2>1, <3>1, AnswersType
      <3> QED BY <1>0, <2>1, <3>2 DEF SignIn!TypeOK, AccountRows, ExchangeRows
    <2>2. CASE /\ signInAccount.version < MaxVersion /\ SignIn!Bumped(signInAccount.version + 1, FALSE)
               /\ changer' = None /\ UNCHANGED <<closings, cookie>>
               /\ SignIn!Answers(e, SignIn!Cookie(signInAccount.version + 1, signInAccount.version + 1))
      <3>1. signInAccount.version + 1 \in SignIn!Versions
        BY <1>0, <2>2 DEF AccountRows, SignIn!Versions
      <3>2. SignIn!Cookie(signInAccount.version + 1, signInAccount.version + 1) \in SignIn!Cookies
        BY <1>0, <3>1 DEF SignIn!Cookie, SignIn!Cookies
      <3>3. signInAccount' \in AccountRows
        BY <1>0, <2>2, <3>1 DEF SignIn!Bumped, AccountRows
      <3>4. exchange' \in [Exchanges -> ExchangeRows]
        BY <1>0, <2>2, <3>2, AnswersType
      <3> QED BY <1>0, <2>2, <3>3, <3>4 DEF SignIn!TypeOK, AccountRows, ExchangeRows
    <2> QED BY <1>4, <2>1, <2>2 DEF SignIn!Changes
  <1>5. CASE SignIn!Resets
    <2>1. signInAccount.version + 1 \in SignIn!Versions
      BY <1>0, <1>5 DEF SignIn!Resets, AccountRows, SignIn!Versions
    <2>2. signInAccount' \in AccountRows
      BY <1>0, <1>5, <2>1 DEF SignIn!Resets, SignIn!Bumped, AccountRows
    <2> QED BY <1>0, <1>5, <2>2 DEF SignIn!Resets, SignIn!TypeOK, AccountRows, ExchangeRows
  <1>6. CASE SignIn!Disables
    <2>1. signInAccount.version + 1 \in SignIn!Versions /\ closings + 1 \in 0..MaxVersion
      BY <1>0, <1>6 DEF SignIn!Disables, AccountRows, SignIn!Versions, ClosingsMoveTheVersion
    <2>2. signInAccount' \in AccountRows
      BY <1>0, <1>6, <2>1 DEF SignIn!Disables, AccountRows
    <2> QED BY <1>0, <1>6, <2>1, <2>2 DEF SignIn!Disables, SignIn!TypeOK, AccountRows,
         ExchangeRows
  <1>7. CASE SignIn!Enables
    <2>1. signInAccount' \in AccountRows
      BY <1>0, <1>7 DEF SignIn!Enables, AccountRows
    <2> QED BY <1>0, <1>7, <2>1 DEF SignIn!Enables, SignIn!TypeOK, AccountRows, ExchangeRows
  <1>8. CASE UNCHANGED SignIn!vars
    BY <1>0, <1>8 DEF SignIn!vars, SignIn!TypeOK, AccountRows, ExchangeRows
  <1> QED BY <1>1, <1>2, <1>3, <1>4, <1>5, <1>6, <1>7, <1>8 DEF SignIn!Next, SignIn!Server

LEMMA IInvStep == ASSUME SignIn!SessionsAssumption PROVE SessionIInv /\ [SignIn!Next]_(SignIn!vars) => SessionIInv'
  <1> SUFFICES ASSUME SessionIInv, [SignIn!Next]_(SignIn!vars) PROVE SessionIInv'
    OBVIOUS
  <1>0. SignIn!TypeOK'
    BY TypeStep DEF SessionIInv
  <1>1. ASSUME NEW e \in Exchanges, SignIn!Browser(e) PROVE SessionIInv'
    BY <1>1, BrowserStep
  <1>2. ASSUME NEW e \in Exchanges, SignIn!Server(e) PROVE SessionIInv'
    BY <1>0, <1>2, ServerStep
  <1>3. signInAccount.version \in Nat /\ closings \in Nat /\ signInAccount \in AccountRows
    BY DEF SessionIInv, SignIn!TypeOK, SignIn!Versions, AccountRows
  <1>4. CASE SignIn!Resets
    <2>1. signInAccount'.version = signInAccount.version + 1 /\ UNCHANGED <<closings, cookie, exchange>>
      BY <1>3, <1>4 DEF SignIn!Resets, SignIn!Bumped, AccountRows
    <2> QED BY <1>0, <1>3, <2>1, VersionMoves DEF SessionIInv, ClosingsMoveTheVersion
  <1>5. CASE SignIn!Disables
    <2>1. signInAccount'.version = signInAccount.version + 1 /\ closings' = closings + 1
          /\ UNCHANGED <<cookie, exchange>>
      BY <1>3, <1>5 DEF SignIn!Disables, AccountRows
    <2> QED BY <1>0, <1>3, <2>1, VersionMoves DEF SessionIInv, ClosingsMoveTheVersion
  <1>6. CASE SignIn!Enables
    <2>1. /\ signInAccount'.version \in {signInAccount.version, signInAccount.version + 1}
          /\ signInAccount'.password = signInAccount.password /\ signInAccount'.must = signInAccount.must
          /\ UNCHANGED <<closings, cookie, exchange>>
      BY <1>3, <1>6 DEF SignIn!Enables, AccountRows
    <2>2. CASE signInAccount'.version = signInAccount.version
      BY <1>0, <2>1, <2>2 DEF SessionIInv, ClosingsMoveTheVersion, CookiesNameTheirVersion,
                              NamesItsVersion, AdmittedAfterTheChange, SignIn!In
    <2>3. CASE signInAccount'.version = signInAccount.version + 1
      BY <1>0, <1>3, <2>1, <2>3, VersionMoves DEF SessionIInv, ClosingsMoveTheVersion
    <2> QED BY <2>1, <2>2, <2>3
  <1>7. CASE UNCHANGED SignIn!vars
    BY <1>0, <1>7 DEF SignIn!vars, SessionIInv, ClosingsMoveTheVersion, CookiesNameTheirVersion,
                      NamesItsVersion, AdmittedAfterTheChange, SignIn!In
  <1> QED BY <1>1, <1>2, <1>4, <1>5, <1>6, <1>7 DEF SignIn!Next

-----------------------------------------------------------------------------
(* The theorems. *)

LEMMA SessionInvariance == ASSUME SignIn!SessionsAssumption PROVE SignIn!Spec => []SessionIInv
  BY IInvInit, IInvStep, PTL DEF SignIn!Spec

\* However answers overtake each other, no cookie from before a change of the password or
\* before the account was closed is accepted, and a temporary password opens no page.
THEOREM SessionsEndWithTheirVersion ==
    ASSUME SignIn!SessionsAssumption PROVE SignIn!Spec => []SessionsSound
  <1>1. SessionIInv => SessionsSound
    <2> SUFFICES ASSUME SessionIInv PROVE SessionsSound
      OBVIOUS
    <2>1. SignIn!AcceptedKnowsThePassword /\ SignIn!ClosedSessionsStayClosed
      BY DEF SessionIInv, CookiesNameTheirVersion, NamesItsVersion, SignIn!Accepted,
         SignIn!AcceptedKnowsThePassword,
             SignIn!ClosedSessionsStayClosed
    <2>2. SignIn!ServedAfterTheChange
      BY DEF SessionIInv, AdmittedAfterTheChange, SignIn!Accepted, SignIn!ServedAfterTheChange
    <2> QED BY <2>1, <2>2 DEF SessionIInv, SessionsSound, SignIn!SessionsSound
  <1> QED BY <1>1, SessionInvariance, PTL

\* Whoever ends the duty to change a temporary password typed that very password: a change
\* sent before the reset, and answered after it, is refused.
THEOREM TemporaryPasswordsAreKept ==
    ASSUME SignIn!SessionsAssumption PROVE SignIn!Spec => SignIn!TemporaryPasswordIsReplacedByItsHolder
  <1> DEFINE ByItsHolder == signInAccount.must /\ ~signInAccount'.must =>
                \E e \in Exchanges : exchange[e].doing = "change"
                                     /\ exchange[e].typed = signInAccount.password
  <1>1. SessionIInv /\ [SignIn!Next]_(SignIn!vars) => [ByItsHolder]_(SignIn!vars)
    <2> SUFFICES ASSUME SessionIInv, SignIn!Next, signInAccount.must, ~signInAccount'.must
                 PROVE  \E e \in Exchanges : exchange[e].doing = "change"
                                             /\ exchange[e].typed = signInAccount.password
      OBVIOUS
    <2>1. ASSUME NEW e \in Exchanges, SignIn!Browser(e) PROVE FALSE
      BY <2>1 DEF SignIn!Browser, SignIn!SendsLogin, SignIn!Sends, SignIn!Receives
    <2>2. ASSUME NEW e \in Exchanges, SignIn!Server(e)
          PROVE  exchange[e].doing = "change" /\ exchange[e].typed = signInAccount.password
      BY <2>2 DEF SignIn!Server, SignIn!LogsIn, SignIn!Admits, SignIn!Serves, SignIn!Changes,
         SignIn!LogsOut, SignIn!In
    <2>3. CASE SignIn!Resets \/ SignIn!Disables \/ SignIn!Enables
      BY <2>3 DEF SignIn!Resets, SignIn!Disables, SignIn!Enables, SignIn!Bumped, SessionIInv,
         SignIn!TypeOK
    <2> QED BY <2>1, <2>2, <2>3 DEF SignIn!Next
  <1> QED BY <1>1, SessionInvariance, PTL DEF SignIn!Spec,
       SignIn!TemporaryPasswordIsReplacedByItsHolder

-----------------------------------------------------------------------------
(* The components side by side.                                             *)

\* Whichever component moves, each of them takes a step of its own or stands still.
LEMMA EachComponent == MCSpec => Spec /\ Student!Spec /\ SignIn!Spec
  <1>1. MCInit => Init /\ Student!Init /\ SignIn!Init
    BY DEF MCInit
  <1>2. ASSUME [MCNext]_MCvars
        PROVE  [Next]_vars /\ [Student!Next]_(Student!vars) /\ [SignIn!Next]_(SignIn!vars)
    <2>1. vars' = vars \/ Next
      BY <1>2 DEF MCNext, MCvars
    <2>2. UNCHANGED recordsVars \/ Student!Next
      BY <1>2 DEF MCNext, MCvars
    <2>3. UNCHANGED signInVars \/ SignIn!Next
      BY <1>2 DEF MCNext, MCvars
    <2>4. UNCHANGED recordsVars => UNCHANGED Student!vars
      BY DEF recordsVars, Student!vars, Student!studentVars
    <2>5. UNCHANGED signInVars => UNCHANGED SignIn!vars
      BY DEF signInVars, SignIn!vars
    <2> QED BY <2>1, <2>2, <2>3, <2>4, <2>5
  <1> QED BY <1>1, <1>2, PTL DEF MCSpec, Spec, Student!Spec, SignIn!Spec

\* In the composition, too: answered invitations, archived students, closed and unlinked
\* parents and temporary passwords are changed only by who had seen them so.
THEOREM PeopleKeepDecisions == MCSpec => DecisionsStand
  <1>1. ParentsAssumption /\ Student!RecordsAssumption /\ SignIn!SessionsAssumption
    BY MCAssumption
  <1>2. Spec => AnswersAreFinal /\ ReopenedKnowingly /\ UnlinkStands
    BY <1>1, AnsweredInvitesStayAnswered, ParentsReopenedKnowingly, UnlinksStand
  <1>3. Student!Spec => Student!ArchiveIsUndoneKnowingly
    BY <1>1, ArchivesAreUndoneKnowingly
  <1>4. SignIn!Spec => SignIn!TemporaryPasswordIsReplacedByItsHolder
    BY <1>1, TemporaryPasswordsAreKept
  <1> QED BY <1>2, <1>3, <1>4, EachComponent DEF DecisionsStand
=============================================================================
