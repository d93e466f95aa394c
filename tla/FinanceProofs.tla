----------------------------- MODULE FinanceProofs -----------------------------
(***************************************************************************)
(* Theorems about BillingCycles for any number of periods, cycles and      *)
(* invoices, any prices and any manual invoices; and about Enforcement, as *)
(* MCFinance instantiates it, for any set of invoices, of accounts and of  *)
(* reminders, and any limit of the reconciliation.                         *)
(*                                                                         *)
(* Rows are numbered in the order of insertion, keep what they were made   *)
(* with, and only states move.  A period has one current cycle because a   *)
(* new one is planned only where there is none, or in the step that        *)
(* supersedes it; and an invoice lives only under a cycle that is not      *)
(* superseded, because every handler that would revive a superseded cycle  *)
(* is stopped by the database's check.                                     *)
(***************************************************************************)
EXTENDS MCFinance, FiniteSetTheorems, TLAPS

Issued(i) == invoice[i].state # "absent"
IsLive(i) == invoice[i].state = "live"
PeriodOf(i) == cycle[invoice[i].cycle].period
Given(c) == AllocatedTo(c, review)

InOrder(ids) == \E k \in Nat : ids = 1..k

\* A row names rows that are there, and jobs are about rows that are there.
JobsNamed ==
    /\ \A c \in Cycles : waiting[c] > 0 => Exists(c)
    /\ \A i \in Invoices : stage[i] = "waiting" => Issued(i)
RowsNamed ==
    /\ \A c \in Cycles : Exists(c) => cycle[c].period \in Periods /\ cycle[c].expected \in Prices
    /\ \A i \in Invoices : Issued(i) => invoice[i].cycle \in Cycles /\ Exists(invoice[i].cycle)
    /\ JobsNamed
    /\ \A c \in Cycles, m \in Manual : review[<<c, m>>] # NoReview => Exists(c)
    /\ profile.status # "none" => profile.price \in Prices

OneCurrent ==
    \A c, d \in Cycles : Current(c) /\ Current(d) /\ cycle[c].period = cycle[d].period => c = d
OneLive ==
    /\ \A i, j \in Invoices : IsLive(i) /\ IsLive(j) /\ PeriodOf(i) = PeriodOf(j) => i = j
    /\ \A i \in Invoices : IsLive(i) => PeriodOf(i) \notin monthly

\* An invoice that lives is one of a cycle that was not replaced, asks for what reviews
\* leave of the price, and received no more than that.
LiveStandsAt(i) ==
    \A c \in Cycles : IsLive(i) /\ invoice[i].cycle = c =>
        /\ cycle[c].state # "superseded"
        /\ 0 < invoice[i].total /\ invoice[i].paid <= invoice[i].total
        /\ invoice[i].total + Given(c) = cycle[c].expected
LiveStands == \A i \in Invoices : LiveStandsAt(i)

MoneyHandedOut ==
    \A m \in Manual : manual[m].paid <= ManualTotal[m] /\ Allocated(m, review) <= ManualTotal[m]

IInv ==
    /\ TypeOK
    /\ InOrder({c \in Cycles : Exists(c)})
    /\ InOrder({i \in Invoices : Issued(i)})
    /\ RowsNamed
    /\ OneCurrent
    /\ OneLive
    /\ LiveStands
    /\ SatisfiedWasSettled
    /\ MoneyHandedOut

-----------------------------------------------------------------------------
(* Sums. *)

LEMMA UnitsFinite ==
    ASSUME NEW f, NEW S, IsFiniteSet(S), \A r \in S : f[r] \in Nat
    PROVE  IsFiniteSet(UNION {Units(f, r) : r \in S})
  <1> DEFINE rows == {Units(f, r) : r \in S}
             rowOf == [r \in S |-> Units(f, r)]
  <1>1. rowOf \in Surjection(S, rows)
    BY DEF Surjection
  <1>2. IsFiniteSet(rows)
    <2> HIDE DEF rows, rowOf
    <2> QED BY <1>1, FS_Surjection
  <1>3. ASSUME NEW r \in S PROVE IsFiniteSet(Units(f, r))
    <2>1. IsFiniteSet({r})
      BY FS_Singleton
    <2>2. IsFiniteSet(1..f[r])
      BY FS_Interval
    <2> QED BY <2>1, <2>2, FS_Product DEF Units
  <1>4. \A T \in rows : IsFiniteSet(T)
    BY <1>3
  <1> HIDE DEF rows
  <1> QED BY <1>2, <1>4, FS_UNION DEF rows

LEMMA SumType ==
    ASSUME NEW f, NEW S, IsFiniteSet(S), \A r \in S : f[r] \in Nat
    PROVE  SumOf(f, S) \in Nat
  BY UnitsFinite, FS_CardinalityType DEF SumOf

LEMMA SumSame ==
    ASSUME NEW f, NEW g, NEW S, \A r \in S : f[r] = g[r]
    PROVE  SumOf(f, S) = SumOf(g, S)
  <1>1. {Units(f, r) : r \in S} = {Units(g, r) : r \in S}
    BY DEF Units
  <1> QED BY <1>1 DEF SumOf

LEMMA SumEmpty == ASSUME NEW f PROVE SumOf(f, {}) = 0
  <1>1. UNION {Units(f, r) : r \in {}} = {}
    OBVIOUS
  <1> QED BY <1>1, FS_EmptySet DEF SumOf

\* Each row adds its amount to the sum over the others.
LEMMA SumWithout ==
    ASSUME NEW f, NEW S, IsFiniteSet(S), NEW r \in S, \A x \in S : f[x] \in Nat
    PROVE  SumOf(f, S) = SumOf(f, S \ {r}) + f[r]
  <1> DEFINE others == UNION {Units(f, x) : x \in S \ {r}}
  <1>1. IsFiniteSet(S \ {r})
    BY FS_Difference
  <1>2. IsFiniteSet(others) /\ Cardinality(others) \in Nat
    BY <1>1, UnitsFinite, FS_CardinalityType
  <1>3. IsFiniteSet(Units(f, r)) /\ Cardinality(Units(f, r)) = f[r]
    <2>1. IsFiniteSet({r}) /\ Cardinality({r}) = 1
      BY FS_Singleton
    <2>2. IsFiniteSet(1..f[r]) /\ Cardinality(1..f[r]) = f[r]
      BY FS_Interval
    <2> QED BY <2>1, <2>2, FS_Product DEF Units
  <1>4. UNION {Units(f, x) : x \in S} = others \cup Units(f, r)
    OBVIOUS
  <1>5. others \cap Units(f, r) = {}
    BY DEF Units
  <1>6. /\ SumOf(f, S) = Cardinality(others \cup Units(f, r))
        /\ SumOf(f, S \ {r}) = Cardinality(others)
    BY <1>4 DEF SumOf
  <1> HIDE DEF others
  <1>7. Cardinality(others \cup Units(f, r)) = Cardinality(others) + f[r] - Cardinality({})
    BY <1>2, <1>3, <1>5, FS_Union
  <1> QED BY <1>2, <1>6, <1>7, FS_EmptySet

LEMMA SumOfOne ==
    ASSUME NEW f, NEW r, f[r] \in Nat
    PROVE  SumOf(f, {r}) = f[r]
  <1>1. {r} \ {r} = {} /\ IsFiniteSet({r})
    BY FS_Singleton
  <1> QED BY <1>1, SumEmpty, SumWithout

\* When one amount changes, the sum changes by as much.
LEMMA SumChange ==
    ASSUME NEW f, NEW g, NEW S, IsFiniteSet(S), NEW r \in S, \A x \in S : f[x] \in Nat,
           g[r] \in Nat, \A x \in S \ {r} : g[x] = f[x]
    PROVE  SumOf(g, S) = SumOf(f, S) - f[r] + g[r]
  <1>1. SumOf(f, S) = SumOf(f, S \ {r}) + f[r]
    BY SumWithout
  <1>2. SumOf(g, S) = SumOf(g, S \ {r}) + g[r]
    BY SumWithout
  <1>3. SumOf(g, S \ {r}) = SumOf(f, S \ {r})
    BY SumSame
  <1>4. SumOf(f, S \ {r}) \in Nat
    BY FS_Difference, SumType
  <1> QED BY <1>1, <1>2, <1>3, <1>4
-----------------------------------------------------------------------------
(* Rows. *)

CycleStates ==
    {"absent", "scheduled", "review_required", "invoiced", "satisfied", "cancelled", "superseded"}
SameTerms(new, row) == new.period = row.period /\ new.expected = row.expected

LEMMA WithStateRow ==
    ASSUME NEW row \in CycleRows, NEW s \in CycleStates
    PROVE  /\ WithState(row, s) \in CycleRows
           /\ WithState(row, s).state = s
           /\ SameTerms(WithState(row, s), row)
  BY DEF WithState, CycleRows, CycleStates, SameTerms

LEMMA RecomputedRow ==
    ASSUME NEW row \in CycleRows, NEW amount \in Nat
    PROVE  /\ Recomputed(row, amount) \in CycleRows
           /\ SameTerms(Recomputed(row, amount), row)
           /\ Recomputed(row, amount).allocated = amount
           /\ Recomputed(row, amount).state =
                IF amount >= row.expected THEN "satisfied"
                ELSE IF row.state = "satisfied" THEN "scheduled" ELSE row.state
  BY DEF Recomputed, CycleRows, SameTerms

LEMMA KeyedRow ==
    ASSUME NEW row \in CycleRows
    PROVE  Keyed(row) \in CycleRows /\ SameTerms(Keyed(row), row) /\ Keyed(row).state = row.state
  BY DEF Keyed, CycleRows, SameTerms

LEMMA NewCycleRow ==
    ASSUME NEW p \in Periods, NEW price \in Prices
    PROVE  /\ NewCycle(p, price) \in CycleRows
           /\ NewCycle(p, price).period = p /\ NewCycle(p, price).expected = price
           /\ NewCycle(p, price).state = "scheduled"
  BY DEF NewCycle, CycleRows

LEMMA SyncedRow ==
    ASSUME NEW row \in CycleRows, NEW inv \in InvoiceRows
    PROVE  /\ Synced(row, inv) \in CycleRows
           /\ SameTerms(Synced(row, inv), row)
           /\ Synced(row, inv).state \in {"cancelled", "satisfied", "invoiced"}
           /\ Synced(row, inv).state = "satisfied" => inv.state # "voided" /\ inv.paid >= inv.total
  BY WithStateRow DEF Synced, CycleStates

LEMMA Numbered ==
    ASSUME BillingAssumption
    PROVE  /\ IsFiniteSet(Periods) /\ IsFiniteSet(Cycles) /\ IsFiniteSet(Invoices)
           /\ \E n \in Nat : Cycles = 1..n
           /\ \E n \in Nat : Invoices = 1..n
           /\ \E n \in Nat : Periods = 1..n
           /\ IsFiniteSet(Manual)
  BY FS_CardinalityType DEF BillingAssumption

LEMMA PriceTypes ==
    ASSUME BillingAssumption
    PROVE  /\ \A p \in Prices : p \in Nat /\ 0 < p /\ p <= HighestPrice
           /\ HighestPrice \in Prices
  <1>1. Prices \subseteq Nat \ {0} /\ \E p \in Prices : \A q \in Prices : q <= p
    BY Zenon DEF BillingAssumption
  <1>2. HighestPrice \in Prices /\ \A q \in Prices : q <= HighestPrice
    BY <1>1 DEF HighestPrice
  <1> QED BY <1>1, <1>2

LEMMA GivenType ==
    ASSUME BillingAssumption, NEW c \in Cycles, NEW reviews \in [Cycles \X Manual -> Decisions]
    PROVE  AllocatedTo(c, reviews) \in Nat
  <1> DEFINE f == [m \in Manual |-> reviews[<<c, m>>].amount]
  <1>1. \A m \in Manual : f[m] \in Nat
    BY DEF Decisions
  <1> HIDE DEF f
  <1>2. SumOf(f, Manual) \in Nat
    BY <1>1, Numbered, SumType
  <1> QED BY <1>2 DEF AllocatedTo, f

LEMMA AfterIssueRow ==
    ASSUME BillingAssumption, TypeOK, NEW c \in Cycles, NEW row \in CycleRows, NEW invoices,
           row.state # "absent"
    PROVE  /\ AfterIssue(c, row, invoices) \in CycleRows
           /\ SameTerms(AfterIssue(c, row, invoices), row)
           /\ AfterIssue(c, row, invoices).state # "absent"
           /\ AfterIssue(c, row, invoices).state = "superseded" => row.state = "superseded"
           /\ AfterIssue(c, row, invoices).state = "satisfied" =>
                row.state = "satisfied" \/ Given(c) >= row.expected
           /\ Bills(c, row, invoices) => AfterIssue(c, row, invoices).state = "invoiced"
  <1> DEFINE after == AfterIssue(c, row, invoices)
             sum == Recomputed(row, Given(c))
  <1>1. Given(c) \in Nat
    BY GivenType DEF Given, TypeOK
  <1>2. /\ sum \in CycleRows /\ SameTerms(sum, row)
        /\ sum.state = IF Given(c) >= row.expected THEN "satisfied"
                       ELSE IF row.state = "satisfied" THEN "scheduled" ELSE row.state
    BY <1>1, RecomputedRow
  <1>3. \/ after = row \/ after = WithState(row, "invoiced")
        \/ after = WithState(row, "review_required")
        \/ after = WithState(sum, "invoiced") \/ after = sum
    BY DEF AfterIssue, Given
  <1>4. Bills(c, row, invoices) => after = WithState(sum, "invoiced")
    BY DEF AfterIssue, Bills, Given
  <1>5. after = row => row.state = "satisfied" \/ row.state # "satisfied"
    OBVIOUS
  <1> HIDE DEF after, sum
  <1>6. \A s \in {"invoiced", "review_required"} :
            /\ WithState(row, s) \in CycleRows /\ WithState(row, s).state = s
            /\ SameTerms(WithState(row, s), row)
            /\ WithState(sum, s) \in CycleRows /\ WithState(sum, s).state = s
            /\ SameTerms(WithState(sum, s), sum)
    BY <1>2, WithStateRow DEF CycleStates
  <1>7. /\ after \in CycleRows /\ SameTerms(after, row) /\ after.state # "absent"
        /\ after.state = "superseded" => row.state = "superseded"
        /\ after.state = "satisfied" => row.state = "satisfied" \/ Given(c) >= row.expected
        /\ Bills(c, row, invoices) => after.state = "invoiced"
    BY <1>2, <1>3, <1>4, <1>6 DEF SameTerms
  <1> QED BY <1>7 DEF after
-----------------------------------------------------------------------------
(* How a step may change the cycles and the invoices. *)

\* What was inserted stays, with what it was made of; a superseded cycle stays superseded.
Stands(c) ==
    Exists(c) =>
        /\ cycle'[c].state # "absent"
        /\ SameTerms(cycle'[c], cycle[c])
        /\ cycle[c].state = "superseded" => cycle'[c].state = "superseded"
NotInserted(c) == Stands(c) /\ (cycle'[c].state # "absent" => Exists(c))
NoNewCycle == \A c \in Cycles : NotInserted(c)

\* The next cycle, for a period without another one that is current.
InsertsCycle(c) ==
    /\ c = NextCycle
    /\ cycle'[c].state # "absent" /\ cycle'[c].period \in Periods /\ cycle'[c].expected \in Prices
    /\ \A d \in Cycles \ {c} :
          /\ NotInserted(d)
          /\ cycle'[d].state \notin {"absent", "superseded"} => cycle[d].period # cycle'[c].period
CyclesMove == cycle' \in [Cycles -> CycleRows] /\ (NoNewCycle \/ \E c \in Cycles : InsertsCycle(c))

InvoiceStands(i) ==
    /\ invoice'[i].state # "absent" <=> Issued(i)
    /\ Issued(i) => /\ invoice'[i].cycle = invoice[i].cycle /\ invoice'[i].total = invoice[i].total
                    /\ invoice'[i].state = "live" => IsLive(i)
NoNewInvoice == \A i \in Invoices : InvoiceStands(i)

\* The next invoice, of a cycle whose period has no other that lives.
InsertsInvoice(i, c) ==
    /\ i = NextInvoice
    /\ invoice'[i].state = "live" /\ invoice'[i].cycle = c
    /\ cycle'[c].state \notin {"absent", "superseded"}
    /\ cycle'[c].period \notin monthly /\ monthly' = monthly
    /\ \A j \in Invoices \ {i} :
          /\ InvoiceStands(j)
          /\ invoice'[j].state = "live" => PeriodOf(j) # cycle'[c].period
InvoicesMove ==
    /\ invoice' \in [Invoices -> InvoiceRows]
    /\ \/ NoNewInvoice /\ \A p \in monthly' : p \in monthly \/ ~PeriodTaken(p, invoice)
       \/ \E i \in Invoices, c \in Cycles : InsertsInvoice(i, c)

LEMMA NextIsFree ==
    ASSUME NEW ids, InOrder(ids)
    PROVE  1 + Cardinality(ids) \notin ids /\ InOrder(ids \cup {1 + Cardinality(ids)})
  <1>1. PICK k \in Nat : ids = 1..k
    BY DEF InOrder
  <1>2. Cardinality(ids) = k
    BY <1>1, FS_Interval
  <1>3. ids \cup {k + 1} = 1..(k + 1)
    BY <1>1
  <1> QED BY <1>1, <1>2, <1>3 DEF InOrder

LEMMA NextCycleIsNew ==
    ASSUME IInv, NEW c \in Cycles, c = NextCycle
    PROVE  ~Exists(c)
  BY NextIsFree DEF IInv, NextCycle

LEMMA NextInvoiceIsNew ==
    ASSUME IInv, NEW i \in Invoices, i = NextInvoice
    PROVE  ~Issued(i)
  <1>1. {j \in Invoices : invoice[j].state # "absent"} = {j \in Invoices : Issued(j)}
    BY DEF Issued
  <1> QED BY <1>1, NextIsFree DEF IInv, NextInvoice

LEMMA CyclesInOrder ==
    ASSUME IInv, CyclesMove
    PROVE  InOrder({c \in Cycles : cycle'[c].state # "absent"})
  <1> DEFINE old == {c \in Cycles : Exists(c)}
             new == {c \in Cycles : cycle'[c].state # "absent"}
  <1>1. InOrder(old)
    BY DEF IInv
  <1>2. CASE NoNewCycle
    <2>1. new = old
      BY <1>2 DEF NoNewCycle, NotInserted, Stands
    <2> QED BY <1>1, <2>1
  <1>3. ASSUME NEW c \in Cycles, InsertsCycle(c) PROVE InOrder(new)
    <2>1. new = old \cup {c}
      BY <1>3 DEF InsertsCycle, NotInserted, Stands
    <2>2. c = 1 + Cardinality(old)
      BY <1>3 DEF InsertsCycle, NextCycle
    <2> HIDE DEF new, old
    <2> QED BY <1>1, <2>1, <2>2, NextIsFree
  <1> QED BY <1>2, <1>3 DEF CyclesMove

LEMMA InvoicesInOrder ==
    ASSUME IInv, InvoicesMove
    PROVE  InOrder({i \in Invoices : invoice'[i].state # "absent"})
  <1> DEFINE old == {i \in Invoices : Issued(i)}
             new == {i \in Invoices : invoice'[i].state # "absent"}
  <1>1. InOrder(old)
    BY DEF IInv
  <1>2. CASE NoNewInvoice
    <2>1. new = old
      BY <1>2 DEF NoNewInvoice, InvoiceStands
    <2> QED BY <1>1, <2>1
  <1>3. ASSUME NEW i \in Invoices, NEW c \in Cycles, InsertsInvoice(i, c) PROVE InOrder(new)
    <2>1. new = old \cup {i}
      BY <1>3 DEF InsertsInvoice, InvoiceStands
    <2>2. i = 1 + Cardinality(old)
      BY <1>3 DEF InsertsInvoice, NextInvoice, Issued
    <2> HIDE DEF new, old
    <2> QED BY <1>1, <2>1, <2>2, NextIsFree
  <1> QED BY <1>2, <1>3 DEF InvoicesMove

LEMMA EveryCycleStands ==
    ASSUME IInv, CyclesMove
    PROVE  \A c \in Cycles : Stands(c)
  BY NextCycleIsNew DEF CyclesMove, NoNewCycle, InsertsCycle, NotInserted, Stands

LEMMA EveryInvoiceStands ==
    ASSUME IInv, InvoicesMove, NEW i \in Invoices
    PROVE  /\ Issued(i) => /\ invoice'[i].state # "absent" /\ invoice'[i].cycle = invoice[i].cycle
                           /\ invoice'[i].total = invoice[i].total
                           /\ invoice'[i].state = "live" => IsLive(i)
           /\ invoice'[i].state = "live" => IsLive(i) \/ \E c \in Cycles : InsertsInvoice(i, c)
  BY NextInvoiceIsNew DEF InvoicesMove, NoNewInvoice, InsertsInvoice, InvoiceStands, IsLive, Issued

\* Where a living invoice is counted does not change.
LEMMA SamePeriod ==
    ASSUME IInv, CyclesMove, InvoicesMove, NEW i \in Invoices, IsLive(i), invoice'[i].state = "live"
    PROVE  /\ invoice'[i].cycle = invoice[i].cycle /\ invoice[i].cycle \in Cycles
           /\ cycle'[invoice[i].cycle].period = PeriodOf(i)
  <1>1. Issued(i)
    BY DEF IsLive, Issued
  <1>2. invoice[i].cycle \in Cycles /\ Exists(invoice[i].cycle)
    BY <1>1 DEF IInv, RowsNamed
  <1>3. invoice'[i].cycle = invoice[i].cycle
    BY <1>1, EveryInvoiceStands
  <1>4. Stands(invoice[i].cycle)
    BY <1>2, EveryCycleStands
  <1> QED BY <1>2, <1>3, <1>4 DEF Stands, SameTerms, PeriodOf

LEMMA OneCurrentKept ==
    ASSUME IInv, CyclesMove
    PROVE  OneCurrent'
  <1>1. SUFFICES ASSUME NEW c \in Cycles, NEW d \in Cycles,
                        cycle'[c].state \notin {"absent", "superseded"},
                        cycle'[d].state \notin {"absent", "superseded"},
                        cycle'[c].period = cycle'[d].period
                 PROVE  c = d
    BY DEF OneCurrent, Current
  <1>2. \A e \in Cycles : Stands(e)
    BY EveryCycleStands
  <1>3. CASE NoNewCycle
    BY <1>1, <1>3 DEF NoNewCycle, NotInserted, Stands, SameTerms, IInv, OneCurrent, Current, Exists
  <1>4. ASSUME NEW e \in Cycles, InsertsCycle(e) PROVE c = d
    <2>1. \A x \in Cycles \ {e} : cycle'[x].state \notin {"absent", "superseded"} =>
              /\ Current(x) /\ cycle'[x].period = cycle[x].period
              /\ cycle'[x].period # cycle'[e].period
      BY <1>4 DEF InsertsCycle, NotInserted, Stands, SameTerms, Current, Exists
    <2>2. CASE c = e \/ d = e
      BY <1>1, <2>1, <2>2
    <2>3. CASE c # e /\ d # e
      BY <1>1, <2>1, <2>3 DEF IInv, OneCurrent
    <2> QED BY <2>2, <2>3
  <1> QED BY <1>3, <1>4 DEF CyclesMove

LEMMA OneLiveKept ==
    ASSUME IInv, CyclesMove, InvoicesMove
    PROVE  OneLive'
  <1> DEFINE Lives(i) == invoice'[i].state = "live"
             Period(i) == cycle'[invoice'[i].cycle].period
  <1>0. SUFFICES /\ \A i, j \in Invoices : Lives(i) /\ Lives(j) /\ Period(i) = Period(j) => i = j
                 /\ \A i \in Invoices : Lives(i) => Period(i) \notin monthly'
    BY DEF OneLive, IsLive, PeriodOf
  <1>1. \A i \in Invoices : Lives(i) /\ IsLive(i) => Period(i) = PeriodOf(i)
    BY SamePeriod
  <1>2. CASE NoNewInvoice /\ \A p \in monthly' : p \in monthly \/ ~PeriodTaken(p, invoice)
    <2>1. \A i \in Invoices : Lives(i) => IsLive(i)
      BY <1>2 DEF NoNewInvoice, InvoiceStands, Issued
    <2>2. \A i \in Invoices :
              IsLive(i) => PeriodTaken(PeriodOf(i), invoice) /\ PeriodOf(i) \notin monthly
      BY DEF IInv, OneLive, PeriodTaken, IsLive, PeriodOf
    <2> HIDE DEF Lives, Period
    <2> QED BY <1>1, <1>2, <2>1, <2>2 DEF IInv, OneLive
  <1>3. ASSUME NEW i \in Invoices, NEW c \in Cycles, InsertsInvoice(i, c)
        PROVE  /\ \A j, k \in Invoices : Lives(j) /\ Lives(k) /\ Period(j) = Period(k) => j = k
               /\ \A j \in Invoices : Lives(j) => Period(j) \notin monthly'
    <2>1. Period(i) = cycle'[c].period /\ cycle'[c].period \notin monthly /\ monthly' = monthly
      BY <1>3 DEF InsertsInvoice
    <2>2. \A j \in Invoices \ {i} : Lives(j) => IsLive(j) /\ PeriodOf(j) # cycle'[c].period
      BY <1>3 DEF InsertsInvoice, InvoiceStands, Issued
    <2> HIDE DEF Lives, Period
    <2> QED BY <1>1, <2>1, <2>2 DEF IInv, OneLive
  <1> QED BY <1>2, <1>3 DEF InvoicesMove

\* What is known of the other variables.
OthersTyped ==
    /\ month \in Periods /\ due \in BOOLEAN
    /\ profile \in [status : {"none", "active", "paused"}, price : Prices \cup {0}]
    /\ profile.status # "none" => profile.price \in Prices
    /\ manual \in [Manual -> [state : {"absent", "live", "voided"}, paid : Nat]]
    /\ monthly \in SUBSET Periods
    /\ review \in [Cycles \X Manual -> Decisions]
    /\ waiting \in [Cycles -> 0..MaxWaiting]
    /\ stage \in [Invoices -> {"none", "waiting", "ran", "dead"}]

LEMMA TypesOfOthers == IInv => OthersTyped
  BY DEF IInv, TypeOK, RowsNamed, OthersTyped

\* Reviews are made of cycles that are there.
ReviewsMove ==
    \A c \in Cycles, m \in Manual :
        review'[<<c, m>>] # NoReview => review[<<c, m>>] # NoReview \/ Exists(c)

\* What is to be shown of a step.
Moves ==
    /\ OthersTyped' /\ JobsNamed'
    /\ CyclesMove /\ InvoicesMove /\ ReviewsMove
    /\ LiveStands' /\ SatisfiedWasSettled' /\ MoneyHandedOut'

LEMMA NamedKept ==
    ASSUME IInv, Moves
    PROVE  RowsNamed'
  <1>1. \A c \in Cycles : cycle'[c].state # "absent" =>
            cycle'[c].period \in Periods /\ cycle'[c].expected \in Prices
    <2>1. CASE NoNewCycle
      BY <2>1 DEF NoNewCycle, NotInserted, Stands, SameTerms, IInv, RowsNamed
    <2>2. ASSUME NEW d \in Cycles, InsertsCycle(d)
          PROVE  \A c \in Cycles : cycle'[c].state # "absent" =>
                    cycle'[c].period \in Periods /\ cycle'[c].expected \in Prices
      BY <2>2 DEF InsertsCycle, NotInserted, Stands, SameTerms, IInv, RowsNamed
    <2> QED BY <2>1, <2>2 DEF Moves, CyclesMove
  <1>2. \A i \in Invoices : invoice'[i].state # "absent" =>
            invoice'[i].cycle \in Cycles /\ cycle'[invoice'[i].cycle].state # "absent"
    <2>1. \A c \in Cycles : Exists(c) => cycle'[c].state # "absent"
      BY EveryCycleStands DEF Moves, Stands
    <2>2. CASE NoNewInvoice
      BY <2>1, <2>2 DEF NoNewInvoice, InvoiceStands, IInv, RowsNamed
    <2>3. ASSUME NEW j \in Invoices, NEW c \in Cycles, InsertsInvoice(j, c)
          PROVE  \A i \in Invoices : invoice'[i].state # "absent" =>
                    invoice'[i].cycle \in Cycles /\ cycle'[invoice'[i].cycle].state # "absent"
      BY <2>1, <2>3 DEF InsertsInvoice, InvoiceStands, IInv, RowsNamed
    <2> QED BY <2>2, <2>3 DEF Moves, InvoicesMove
  <1>3. \A c \in Cycles, m \in Manual : review'[<<c, m>>] # NoReview => cycle'[c].state # "absent"
    BY EveryCycleStands DEF Moves, ReviewsMove, Stands, IInv, RowsNamed
  <1> QED BY <1>1, <1>2, <1>3 DEF Moves, RowsNamed, Exists, Issued, OthersTyped

LEMMA MovesKeep == ASSUME IInv, Moves PROVE IInv'
  <1>1. InOrder({c \in Cycles : Exists(c)})'
    BY CyclesInOrder DEF Moves, Exists, InOrder
  <1>2. InOrder({i \in Invoices : Issued(i)})'
    BY InvoicesInOrder DEF Moves, Issued, InOrder
  <1>3. TypeOK'
    BY DEF Moves, OthersTyped, CyclesMove, InvoicesMove, TypeOK
  <1> QED BY <1>1, <1>2, <1>3, NamedKept, OneCurrentKept, OneLiveKept DEF Moves, IInv

-----------------------------------------------------------------------------
(* Steps on one cycle and its invoices. *)

Settled(c) ==
    \/ \E i \in Invoices : IsLive(i) /\ invoice[i].cycle = c /\ invoice[i].paid = invoice[i].total
    \/ Given(c) >= cycle[c].expected

LEMMA SatisfiedMeansSettled ==
    /\ SatisfiedWasSettled <=> \A c \in Cycles : cycle[c].state = "satisfied" => Settled(c)
    /\ (SatisfiedWasSettled <=> \A c \in Cycles : cycle[c].state = "satisfied" => Settled(c))'
  BY DEF SatisfiedWasSettled, Settled, Live, LiveInvoices, IsLive, Given

LEMMA LiveKept ==
    ASSUME IInv, CyclesMove, UNCHANGED review, NEW i \in Invoices,
           invoice'[i].state = "live" =>
               /\ IsLive(i) /\ invoice'[i].cycle = invoice[i].cycle
               /\ invoice'[i].total = invoice[i].total /\ invoice'[i].paid <= invoice[i].total,
           \A c \in Cycles : invoice'[i].state = "live" /\ invoice[i].cycle = c =>
               cycle'[c].state # "superseded"
    PROVE  LiveStandsAt(i)'
  <1>1. \A c \in Cycles : Stands(c) /\ Given(c)' = Given(c)
    BY EveryCycleStands DEF Given
  <1>2. \A c \in Cycles : IsLive(i) /\ invoice[i].cycle = c => Exists(c)
    BY DEF IInv, RowsNamed, IsLive, Issued
  <1> QED BY <1>1, <1>2 DEF LiveStandsAt, IInv, LiveStands, IsLive, Stands, SameTerms

\* A cycle that is settled stays so while its row keeps its price and its invoices stay.
LEMMA SettledKept ==
    ASSUME UNCHANGED review, NEW c \in Cycles, Settled(c), cycle'[c].expected = cycle[c].expected,
           \A i \in Invoices : IsLive(i) /\ invoice[i].cycle = c => invoice'[i] = invoice[i]
    PROVE  Settled(c)'
  BY DEF Settled, Given, IsLive

\* One row is written: it keeps its terms, and whether it is superseded.
Writes(c, row) ==
    /\ cycle' = [cycle EXCEPT ![c] = row]
    /\ Exists(c) /\ row \in CycleRows /\ SameTerms(row, cycle[c]) /\ row.state # "absent"
    /\ row.state = "superseded" <=> cycle[c].state = "superseded"

LEMMA WritesRow ==
    ASSUME IInv, NEW c \in Cycles, NEW row, Writes(c, row)
    PROVE  /\ CyclesMove /\ NoNewCycle
           /\ cycle'[c] = row /\ \A d \in Cycles \ {c} : cycle'[d] = cycle[d]
           /\ \A d \in Cycles : cycle'[d].state = "superseded" => cycle[d].state = "superseded"
           /\ \A d \in Cycles : Exists(d) <=> cycle'[d].state # "absent"
  <1>1. cycle \in [Cycles -> CycleRows]
    BY DEF IInv, TypeOK
  <1>2. /\ cycle' \in [Cycles -> CycleRows]
        /\ cycle'[c] = row /\ \A d \in Cycles \ {c} : cycle'[d] = cycle[d]
    BY <1>1 DEF Writes
  <1>3. \A d \in Cycles : NotInserted(d)
    BY <1>2 DEF Writes, NotInserted, Stands, SameTerms, Exists
  <1> QED BY <1>2, <1>3 DEF CyclesMove, NoNewCycle, Writes, Exists, NotInserted, Stands

\* What a step that moves no money and issues no invoice has to show.
MoneyStill == UNCHANGED <<invoice, manual, monthly, review>>
Shown ==
    /\ CyclesMove /\ InvoicesMove /\ ReviewsMove
    /\ LiveStands' /\ SatisfiedWasSettled' /\ MoneyHandedOut'

LEMMA StillMoves ==
    ASSUME IInv, UNCHANGED invoice, \A p \in monthly' : p \in monthly \/ ~PeriodTaken(p, invoice)
    PROVE  InvoicesMove
  <1>1. invoice' \in [Invoices -> InvoiceRows]
    BY DEF IInv, TypeOK
  <1>2. NoNewInvoice
    BY DEF NoNewInvoice, InvoiceStands, Issued, IsLive
  <1> QED BY <1>1, <1>2 DEF InvoicesMove

LEMMA WritesShown ==
    ASSUME IInv, MoneyStill, NEW c \in Cycles, NEW row, Writes(c, row),
           row.state = "satisfied" => Settled(c)
    PROVE  Shown
  <1>0. /\ CyclesMove /\ cycle'[c] = row /\ \A d \in Cycles \ {c} : cycle'[d] = cycle[d]
        /\ \A d \in Cycles : cycle'[d].state = "superseded" => cycle[d].state = "superseded"
    BY WritesRow
  <1>1. InvoicesMove
    BY StillMoves DEF MoneyStill
  <1>2. LiveStands'
    <2> SUFFICES ASSUME NEW i \in Invoices PROVE LiveStandsAt(i)'
      BY DEF LiveStands
    <2>1. \A d \in Cycles : IsLive(i) /\ invoice[i].cycle = d => cycle[d].state # "superseded"
                                                           /\ invoice[i].paid <= invoice[i].total
      BY DEF IInv, LiveStands, LiveStandsAt
    <2>2. IsLive(i) => invoice[i].cycle \in Cycles
      BY DEF IInv, RowsNamed, IsLive, Issued
    <2> QED BY <1>0, <2>1, <2>2, LiveKept DEF MoneyStill, IsLive
  <1>3. SatisfiedWasSettled'
    <2> SUFFICES ASSUME NEW d \in Cycles, cycle'[d].state = "satisfied" PROVE Settled(d)'
      BY SatisfiedMeansSettled
    <2>1. Settled(d) /\ cycle'[d].expected = cycle[d].expected
      BY <1>0, SatisfiedMeansSettled DEF Writes, SameTerms, IInv
    <2> QED BY <2>1, SettledKept DEF MoneyStill
  <1>4. MoneyHandedOut' /\ ReviewsMove
    BY DEF MoneyStill, MoneyHandedOut, ReviewsMove, IInv
  <1> QED BY <1>0, <1>1, <1>2, <1>3, <1>4 DEF Shown

\* The row of a new cycle is written, for a period without a current one.
Inserts(c, row) ==
    /\ c = NextCycle /\ cycle' = [cycle EXCEPT ![c] = row]
    /\ row \in CycleRows /\ row.period \in Periods /\ row.expected \in Prices
    /\ row.state \notin {"absent", "superseded"}
    /\ \A d \in Cycles : Current(d) => cycle[d].period # row.period

LEMMA InsertsRow ==
    ASSUME IInv, NEW c \in Cycles, NEW row, Inserts(c, row)
    PROVE  /\ CyclesMove /\ ~Exists(c)
           /\ cycle'[c] = row /\ \A d \in Cycles \ {c} : cycle'[d] = cycle[d]
           /\ \A d \in Cycles : cycle'[d].state = "superseded" => cycle[d].state = "superseded"
           /\ \A d \in Cycles : Exists(d) => cycle'[d].state # "absent"
  <1>1. cycle \in [Cycles -> CycleRows]
    BY DEF IInv, TypeOK
  <1>2. /\ cycle' \in [Cycles -> CycleRows]
        /\ cycle'[c] = row /\ \A d \in Cycles \ {c} : cycle'[d] = cycle[d]
    BY <1>1 DEF Inserts
  <1>3. ~Exists(c)
    BY NextCycleIsNew DEF Inserts
  <1>4. InsertsCycle(c)
    BY <1>2 DEF Inserts, InsertsCycle, NotInserted, Stands, SameTerms, Exists, Current
  <1> QED BY <1>2, <1>3, <1>4 DEF CyclesMove, Inserts, Exists

\* Cycles other than c keep their rows, and c has a row that is not superseded.
OnlyRow(c) ==
    /\ CyclesMove
    /\ \A d \in Cycles \ {c} : cycle'[d] = cycle[d]
    /\ \A d \in Cycles : cycle'[d].state = "superseded" => cycle[d].state = "superseded"

\* The invoices there are do not change.
LEMMA OldInvoicesStand ==
    ASSUME IInv, UNCHANGED review, NEW c \in Cycles, OnlyRow(c), NEW i \in Invoices,
           invoice'[i] = invoice[i]
    PROVE  LiveStandsAt(i)'
  <1>1. \A d \in Cycles : IsLive(i) /\ invoice[i].cycle = d => cycle[d].state # "superseded"
                                                         /\ invoice[i].paid <= invoice[i].total
    BY DEF IInv, LiveStands, LiveStandsAt
  <1>2. IsLive(i) => invoice[i].cycle \in Cycles
    BY DEF IInv, RowsNamed, IsLive, Issued
  <1> QED BY <1>1, <1>2, LiveKept DEF IsLive, OnlyRow

LEMMA OthersSettled ==
    ASSUME IInv, UNCHANGED review, NEW c \in Cycles, OnlyRow(c), NEW d \in Cycles \ {c},
           \A i \in Invoices : Issued(i) => invoice'[i] = invoice[i],
           cycle'[d].state = "satisfied"
    PROVE  Settled(d)'
  <1>1. Settled(d) /\ cycle'[d].expected = cycle[d].expected
    BY SatisfiedMeansSettled DEF OnlyRow, IInv
  <1> QED BY <1>1, SettledKept DEF IsLive, Issued

LEMMA InsertsShown ==
    ASSUME IInv, MoneyStill, NEW c \in Cycles, NEW row, Inserts(c, row),
           row.state = "satisfied" => Given(c) >= row.expected
    PROVE  Shown
  <1>0. OnlyRow(c) /\ cycle'[c] = row
    BY InsertsRow DEF OnlyRow
  <1>1. InvoicesMove
    BY StillMoves DEF MoneyStill
  <1>2. LiveStands'
    BY <1>0, OldInvoicesStand DEF LiveStands, MoneyStill
  <1>3. SatisfiedWasSettled'
    <2>1. cycle'[c].state = "satisfied" => Settled(c)'
      BY <1>0 DEF Settled, Given, MoneyStill
    <2> QED BY <1>0, <2>1, OthersSettled, SatisfiedMeansSettled DEF MoneyStill
  <1>4. MoneyHandedOut' /\ ReviewsMove
    BY DEF MoneyStill, MoneyHandedOut, ReviewsMove, IInv
  <1> QED BY <1>0, <1>1, <1>2, <1>3, <1>4 DEF Shown, OnlyRow

\* A cycle issues its invoice.
LEMMA IssuesShown ==
    ASSUME BillingAssumption, IInv, UNCHANGED <<manual, monthly, review>>,
           NEW c \in Cycles, OnlyRow(c), NEW row \in CycleRows,
           cycle'[c].state = "invoiced", SameTerms(cycle'[c], row),
           Bills(c, row, invoice), NEW i \in Invoices, i = NextInvoice,
           invoice' = [invoice EXCEPT ![i] = InvoiceOf(c, row)]
    PROVE  Shown
  <1> DEFINE new == InvoiceOf(c, row)
  <1>1. Given(c) \in Nat /\ Given(c) < row.expected /\ row.expected \in Nat
    <2>1. Given(c) \in Nat
      BY GivenType DEF Given, IInv, TypeOK
    <2>2. row.expected \in Nat
      BY PriceTypes DEF CycleRows
    <2> QED BY <2>1, <2>2 DEF Bills, Given
  <1>2. /\ new \in InvoiceRows /\ new.state = "live" /\ new.cycle = c /\ new.paid = 0
        /\ new.total = row.expected - Given(c)
    BY <1>1 DEF InvoiceOf, InvoiceRows, Given
  <1> HIDE DEF new
  <1>3. /\ invoice' \in [Invoices -> InvoiceRows] /\ invoice'[i] = new
        /\ \A j \in Invoices \ {i} : invoice'[j] = invoice[j]
    BY <1>2 DEF IInv, TypeOK, new
  <1>4. ~Issued(i)
    BY NextInvoiceIsNew
  <1>5. /\ row.period \notin monthly
        /\ \A j \in Invoices : IsLive(j) => PeriodOf(j) # row.period
    BY DEF Bills, PeriodTaken, IsLive, PeriodOf
  <1>6. InsertsInvoice(i, c)
    <2>1. cycle'[c].period = row.period
      BY DEF SameTerms
    <2>2. \A j \in Invoices \ {i} : InvoiceStands(j)
      BY <1>3 DEF InvoiceStands, Issued, IsLive
    <2> QED BY <1>2, <1>3, <1>5, <2>1, <2>2 DEF InsertsInvoice, IsLive
  <1>7. LiveStands'
    <2>1. LiveStandsAt(i)'
      <3>1. \A d \in Cycles : Given(d)' = Given(d)
        BY DEF Given
      <3> QED BY <1>1, <1>2, <1>3, <3>1 DEF LiveStandsAt, SameTerms, IsLive
    <2>2. \A j \in Invoices \ {i} : LiveStandsAt(j)'
      BY <1>3, OldInvoicesStand
    <2> QED BY <2>1, <2>2 DEF LiveStands
  <1>8. SatisfiedWasSettled'
    <2>1. \A j \in Invoices : Issued(j) => invoice'[j] = invoice[j]
      BY <1>3, <1>4
    <2> QED BY <2>1, OthersSettled, SatisfiedMeansSettled
  <1>9. MoneyHandedOut' /\ ReviewsMove
    BY DEF MoneyHandedOut, ReviewsMove, IInv
  <1> QED BY <1>3, <1>6, <1>7, <1>8, <1>9 DEF Shown, OnlyRow, InvoicesMove

\* What every step does.
Kept == IInv' /\ CyclesMove /\ InvoicesMove

LEMMA ShownMoves ==
    ASSUME IInv, Shown, OthersTyped', JobsNamed'
    PROVE  Kept
  BY MovesKeep DEF Shown, Moves, Kept

-----------------------------------------------------------------------------
(* Jobs. *)

LEMMA EnqueueType ==
    ASSUME BillingAssumption, IInv, NEW c \in Cycles, NEW row, Enqueue(c, row)
    PROVE  /\ waiting' \in [Cycles -> 0..MaxWaiting]
           /\ \A d \in Cycles \ {c} : waiting'[d] = waiting[d]
  <1>1. waiting \in [Cycles -> 0..MaxWaiting] /\ MaxWaiting \in Nat
    BY Zenon DEF IInv, TypeOK, BillingAssumption
  <1> QED BY <1>1 DEF Enqueue

\* Jobs stay about rows that are there when one cycle, written or inserted, gets a job.
LEMMA JobsKept ==
    ASSUME IInv, UNCHANGED <<invoice, stage>>, NEW c \in Cycles, cycle'[c].state # "absent",
           \A d \in Cycles : Exists(d) => cycle'[d].state # "absent",
           \A d \in Cycles \ {c} : waiting'[d] = waiting[d]
    PROVE  JobsNamed'
  BY DEF IInv, RowsNamed, JobsNamed, Exists, Issued

LEMMA PlansRow ==
    ASSUME NEW c \in Cycles, NEW row \in CycleRows, PlanCycle(c, row)
    PROVE  \E new \in CycleRows :
              /\ cycle' = [cycle EXCEPT ![c] = new]
              /\ SameTerms(new, row) /\ new.state \in {"scheduled", "review_required"}
              /\ \E seen : Enqueue(c, seen)
  <1> DEFINE seen == IF Candidates(c, row.period, review) # {}
                     THEN WithState(row, "review_required") ELSE row
  <1>1. /\ seen \in CycleRows /\ SameTerms(seen, row)
        /\ seen.state \in {"scheduled", "review_required"}
    BY WithStateRow DEF PlanCycle, CycleStates, SameTerms
  <1>2. cycle' = [cycle EXCEPT ![c] = Keyed(seen)] /\ Enqueue(c, seen)
    BY DEF PlanCycle
  <1> HIDE DEF seen
  <1> QED BY <1>1, <1>2, KeyedRow DEF SameTerms

\* A planned row: one that is there, or a new one for the planned period.
Planned(c, row) ==
    \/ Current(c) /\ row = cycle[c]
    \/ /\ c = NextCycle /\ PlannedPeriod \in Periods
       /\ \E price \in Prices : row = NewCycle(PlannedPeriod, price)
       /\ \A d \in Cycles : Current(d) => cycle[d].period # PlannedPeriod

LEMMA PlannedShown ==
    ASSUME IInv, MoneyStill, NEW c \in Cycles, NEW row, Planned(c, row), NEW new \in CycleRows,
           cycle' = [cycle EXCEPT ![c] = new], SameTerms(new, row),
           new.state \in {"scheduled", "review_required"}
    PROVE  /\ Shown /\ cycle'[c].state # "absent"
           /\ \A d \in Cycles : Exists(d) => cycle'[d].state # "absent"
  <1>1. CASE Current(c) /\ row = cycle[c]
    <2>1. Writes(c, new)
      BY <1>1 DEF Writes, Current, Exists
    <2> QED BY <2>1, WritesShown, WritesRow
  <1>2. CASE ~(Current(c) /\ row = cycle[c])
    <2>1. new.period = PlannedPeriod /\ new.expected \in Prices
      BY <1>2, NewCycleRow DEF Planned, SameTerms
    <2>2. Inserts(c, new)
      BY <1>2, <2>1 DEF Inserts, Planned
    <2> QED BY <2>2, InsertsShown, InsertsRow
  <1> QED BY <1>1, <1>2

LEMMA PlanKeeps ==
    ASSUME BillingAssumption, IInv, PlanBillingCycles
    PROVE  Kept
  <1>0. MoneyStill /\ UNCHANGED <<stage, month, due, profile>>
    BY DEF PlanBillingCycles, MoneyStill, clockVars
  <1>1. \E c \in Cycles, row \in CycleRows : Planned(c, row) /\ PlanCycle(c, row)
    <2>1. cycle \in [Cycles -> CycleRows]
      BY DEF IInv, TypeOK
    <2>2. ASSUME NEW c \in Cycles, Current(c), PlanCycle(c, cycle[c])
          PROVE  \E row \in CycleRows : Planned(c, row) /\ PlanCycle(c, row)
      BY <2>1, <2>2 DEF Planned
    <2>3. ASSUME NextCycle \in Cycles, PlanCycle(NextCycle, NewCycle(PlannedPeriod, profile.price)),
                 {c \in Cycles : Current(c) /\ cycle[c].period = PlannedPeriod} = {},
                 PlannedPeriod \in Periods, profile.status = "active"
          PROVE  \E c \in Cycles, row \in CycleRows : Planned(c, row) /\ PlanCycle(c, row)
      <3>1. profile.price \in Prices
        BY <2>3 DEF IInv, RowsNamed
      <3>2. NewCycle(PlannedPeriod, profile.price) \in CycleRows
        BY <2>3, <3>1, NewCycleRow
      <3>3. Planned(NextCycle, NewCycle(PlannedPeriod, profile.price))
        BY <2>3, <3>1 DEF Planned
      <3> QED BY <2>3, <3>2, <3>3
    <2> QED BY <2>2, <2>3 DEF PlanBillingCycles
  <1>2. PICK c \in Cycles, row \in CycleRows : Planned(c, row) /\ PlanCycle(c, row)
    BY <1>1
  <1>3. PICK new \in CycleRows :
            /\ cycle' = [cycle EXCEPT ![c] = new]
            /\ SameTerms(new, row) /\ new.state \in {"scheduled", "review_required"}
            /\ \E seen : Enqueue(c, seen)
    BY <1>2, PlansRow
  <1>4. /\ Shown /\ cycle'[c].state # "absent"
        /\ \A d \in Cycles : Exists(d) => cycle'[d].state # "absent"
    BY <1>0, <1>2, <1>3, PlannedShown
  <1>5. /\ waiting' \in [Cycles -> 0..MaxWaiting]
        /\ \A d \in Cycles \ {c} : waiting'[d] = waiting[d]
    BY <1>3, EnqueueType
  <1>6. JobsNamed'
    BY <1>0, <1>4, <1>5, JobsKept DEF MoneyStill
  <1>7. OthersTyped'
    BY <1>0, <1>5, TypesOfOthers DEF MoneyStill, OthersTyped
  <1> QED BY <1>4, <1>6, <1>7, ShownMoves

\* A row is written or inserted, and its invoice issued if it is to be billed.
LEMMA IssuedOrNot ==
    ASSUME BillingAssumption, IInv, UNCHANGED <<manual, monthly, review>>,
           NEW c \in Cycles, NEW row \in CycleRows, NEW seen, Writes(c, seen) \/ Inserts(c, seen),
           SameTerms(seen, row), WriteIssued(c, row, invoice),
           Bills(c, row, invoice) => seen.state = "invoiced",
           seen.state = "satisfied" =>
               (Writes(c, seen) /\ Settled(c)) \/ Given(c) >= row.expected
    PROVE  /\ Shown
           /\ stage' \in [Invoices -> {"none", "waiting", "ran", "dead"}]
           /\ \A i \in Invoices : stage'[i] = "waiting" => invoice'[i].state # "absent"
           /\ \A d \in Cycles : Exists(d) => cycle'[d].state # "absent"
           /\ cycle'[c].state # "absent"
  <1>1. /\ OnlyRow(c) /\ cycle'[c] = seen
        /\ \A d \in Cycles : Exists(d) => cycle'[d].state # "absent"
        /\ cycle'[c].state # "absent"
    <2>1. CASE Writes(c, seen)
      BY <2>1, WritesRow DEF OnlyRow, Writes
    <2>2. CASE Inserts(c, seen)
      <3>1. OnlyRow(c) /\ cycle'[c] = seen
        BY <2>2, InsertsRow DEF OnlyRow
      <3>2. cycle'[c].state # "absent"
        BY <2>2, <3>1 DEF Inserts
      <3> QED BY <2>2, <3>1, <3>2, InsertsRow
    <2> QED BY <2>1, <2>2
  <1>2. /\ stage \in [Invoices -> {"none", "waiting", "ran", "dead"}]
        /\ invoice \in [Invoices -> InvoiceRows]
        /\ \A i \in Invoices : stage[i] = "waiting" => invoice[i].state # "absent"
    BY DEF IInv, TypeOK, RowsNamed, JobsNamed, Issued
  <1>3. CASE Bills(c, row, invoice)
    <2> DEFINE i == NextInvoice
    <2>1. /\ i \in Invoices /\ invoice' = [invoice EXCEPT ![i] = InvoiceOf(c, row)]
          /\ stage' = [stage EXCEPT ![i] = "waiting"]
      BY <1>3 DEF WriteIssued
    <2>2. InvoiceOf(c, row).state # "absent"
      BY DEF InvoiceOf
    <2>3. Shown
      BY <1>1, <1>3, <2>1, IssuesShown
    <2> HIDE DEF i
    <2>4. /\ stage' \in [Invoices -> {"none", "waiting", "ran", "dead"}]
          /\ \A j \in Invoices : stage'[j] = "waiting" => invoice'[j].state # "absent"
      BY <1>2, <2>1, <2>2
    <2> QED BY <1>1, <2>3, <2>4
  <1>4. CASE ~Bills(c, row, invoice)
    <2>1. UNCHANGED <<invoice, stage>>
      BY <1>4 DEF WriteIssued
    <2>2. MoneyStill
      BY <2>1 DEF MoneyStill
    <2>3. CASE Writes(c, seen)
      <3>1. seen.state = "satisfied" => Settled(c)
        BY <2>3 DEF Writes, SameTerms, Settled
      <3> QED BY <1>1, <1>2, <2>1, <2>2, <2>3, <3>1, WritesShown
    <2>4. CASE ~Writes(c, seen) /\ Inserts(c, seen)
      <3>1. seen.state = "satisfied" => Given(c) >= seen.expected
        BY <2>4 DEF SameTerms
      <3> QED BY <1>1, <1>2, <2>1, <2>2, <2>4, <3>1, InsertsShown
    <2> QED BY <2>3, <2>4
  <1> QED BY <1>3, <1>4

LEMMA SettleType ==
    ASSUME BillingAssumption, IInv, NEW c \in Cycles, Settle(c)
    PROVE  /\ waiting' \in [Cycles -> 0..MaxWaiting] /\ Exists(c)
           /\ \A d \in Cycles : waiting'[d] > 0 => Exists(d)
  <1>1. waiting \in [Cycles -> 0..MaxWaiting] /\ MaxWaiting \in Nat
    BY Zenon DEF IInv, TypeOK, BillingAssumption
  <1> QED BY <1>1 DEF Settle, IInv, RowsNamed, JobsNamed

LEMMA RunKeeps ==
    ASSUME BillingAssumption, IInv, NEW c \in Cycles, RunIssueJob(c)
    PROVE  Kept
  <1> DEFINE seen == AfterIssue(c, cycle[c], invoice)
  <1>0. /\ UNCHANGED <<manual, monthly, review, month, due, profile>>
        /\ cycle' = [cycle EXCEPT ![c] = seen] /\ Permitted(c, seen)
        /\ WriteIssued(c, cycle[c], invoice)
    BY DEF RunIssueJob, clockVars
  <1>1. /\ waiting' \in [Cycles -> 0..MaxWaiting] /\ Exists(c)
        /\ \A d \in Cycles : waiting'[d] > 0 => Exists(d)
    BY SettleType DEF RunIssueJob
  <1>2. cycle[c] \in CycleRows
    BY DEF IInv, TypeOK
  <1>3. /\ seen \in CycleRows /\ SameTerms(seen, cycle[c]) /\ seen.state # "absent"
        /\ seen.state = "superseded" => cycle[c].state = "superseded"
        /\ seen.state = "satisfied" => cycle[c].state = "satisfied" \/ Given(c) >= cycle[c].expected
        /\ Bills(c, cycle[c], invoice) => seen.state = "invoiced"
    BY <1>1, <1>2, AfterIssueRow DEF Exists, IInv
  <1> HIDE DEF seen
  <1>4. Writes(c, seen)
    BY <1>0, <1>1, <1>3 DEF Writes, Permitted
  <1>5. cycle[c].state = "satisfied" => Settled(c)
    BY SatisfiedMeansSettled DEF IInv
  <1>6. /\ Shown
        /\ stage' \in [Invoices -> {"none", "waiting", "ran", "dead"}]
        /\ \A i \in Invoices : stage'[i] = "waiting" => invoice'[i].state # "absent"
        /\ \A d \in Cycles : Exists(d) => cycle'[d].state # "absent"
    BY <1>0, <1>2, <1>3, <1>4, <1>5, IssuedOrNot
  <1>7. JobsNamed'
    BY <1>1, <1>6 DEF JobsNamed, Exists, Issued
  <1>8. OthersTyped'
    BY <1>0, <1>1, <1>6, TypesOfOthers DEF OthersTyped
  <1> QED BY <1>6, <1>7, <1>8, ShownMoves

\* Steps that touch no cycle and no invoice, and whose new months by hand are free.
LEMMA QuietKeeps ==
    ASSUME IInv, UNCHANGED <<cycle, invoice, review>>, OthersTyped', JobsNamed', MoneyHandedOut',
           \A p \in monthly' : p \in monthly \/ ~PeriodTaken(p, invoice)
    PROVE  Kept
  <1>1. CyclesMove
    BY DEF CyclesMove, NoNewCycle, NotInserted, Stands, SameTerms, Exists, IInv, TypeOK
  <1>2. InvoicesMove
    BY StillMoves
  <1>3. LiveStands'
    BY DEF IInv, LiveStands, LiveStandsAt, IsLive, Given
  <1>4. SatisfiedWasSettled'
    BY SatisfiedMeansSettled DEF IInv, Settled, IsLive, Given
  <1> QED BY <1>1, <1>2, <1>3, <1>4, ShownMoves DEF Shown, ReviewsMove

LEMMA DiesKeeps ==
    ASSUME BillingAssumption, IInv, NEW c \in Cycles, IssueJobDies(c)
    PROVE  Kept
  <1>1. UNCHANGED <<month, due, profile, cycle, invoice, manual, monthly, review, stage>>
    BY DEF IssueJobDies, clockVars
  <1>2. /\ waiting' \in [Cycles -> 0..MaxWaiting]
        /\ \A d \in Cycles : waiting'[d] > 0 => Exists(d)
    BY SettleType DEF IssueJobDies
  <1>3. JobsNamed' /\ MoneyHandedOut'
    BY <1>1, <1>2 DEF JobsNamed, Exists, Issued, IInv, RowsNamed, MoneyHandedOut
  <1>4. OthersTyped'
    BY <1>1, <1>2, TypesOfOthers DEF OthersTyped
  <1> QED BY <1>1, <1>3, <1>4, QuietKeeps

LEMMA StageKeeps ==
    ASSUME BillingAssumption, IInv, NEW i \in Invoices, StageRuns(i)
    PROVE  Kept
  <1>1. PICK c \in Cycles : c = invoice[i].cycle /\ Exists(c)
    BY DEF StageRuns, IInv, RowsNamed, JobsNamed
  <1> DEFINE row == IF Open(i) THEN cycle[c] ELSE Synced(cycle[c], invoice[i])
  <1>2. /\ UNCHANGED <<month, due, profile, invoice, manual, monthly, review, waiting>>
        /\ stage' \in [Invoices -> {"none", "waiting", "ran", "dead"}]
        /\ \A j \in Invoices : stage'[j] = "waiting" => Issued(j)
    BY DEF StageRuns, clockVars, IInv, TypeOK, RowsNamed, JobsNamed
  <1>3. OthersTyped'
    BY <1>2, TypesOfOthers DEF OthersTyped
  <1>4. CASE UNCHANGED cycle
    <2>1. JobsNamed' /\ MoneyHandedOut'
      BY <1>2, <1>4 DEF JobsNamed, Exists, Issued, IInv, RowsNamed, MoneyHandedOut
    <2> QED BY <1>2, <1>3, <1>4, <2>1, QuietKeeps
  <1>5. CASE Permitted(c, row) /\ cycle' = [cycle EXCEPT ![c] = row]
    <2>1. cycle[c] \in CycleRows /\ invoice[i] \in InvoiceRows
      BY DEF IInv, TypeOK
    <2>2. /\ row \in CycleRows /\ SameTerms(row, cycle[c]) /\ row.state # "absent"
          /\ row.state = "superseded" => cycle[c].state = "superseded"
          /\ row.state = "satisfied" =>
                cycle[c].state = "satisfied"
                \/ (invoice[i].state # "voided" /\ invoice[i].paid >= invoice[i].total)
      BY <1>1, <2>1, SyncedRow DEF Exists, SameTerms
    <2> HIDE DEF row
    <2>3. Writes(c, row)
      BY <1>1, <1>5, <2>2 DEF Writes, Permitted
    <2>4. row.state = "satisfied" => Settled(c)
      <3>1. cycle[c].state = "satisfied" => Settled(c)
        BY SatisfiedMeansSettled DEF IInv
      <3>2. invoice[i].state \in {"live", "voided"}
        BY <2>1 DEF StageRuns, IInv, RowsNamed, JobsNamed, Issued, InvoiceRows
      <3>3. IsLive(i) => invoice[i].paid <= invoice[i].total
        BY <1>1 DEF IInv, LiveStands, LiveStandsAt
      <3>4. invoice[i].paid \in Nat /\ invoice[i].total \in Nat
        BY <2>1 DEF InvoiceRows
      <3> QED BY <1>1, <2>2, <3>1, <3>2, <3>3, <3>4 DEF Settled, IsLive
    <2>5. Shown /\ \A d \in Cycles : Exists(d) <=> cycle'[d].state # "absent"
      BY <1>2, <2>3, <2>4, WritesShown, WritesRow DEF MoneyStill
    <2>6. JobsNamed'
      BY <1>2, <2>5 DEF JobsNamed, Exists, Issued, IInv, RowsNamed
    <2> QED BY <1>3, <2>5, <2>6, ShownMoves
  <1> QED BY <1>1, <1>4, <1>5 DEF StageRuns

-----------------------------------------------------------------------------
(* Edits of the schedule. *)

BilledFor(c, row, invoices) ==
    IF Candidates(c, row.period, review) # {}
    THEN WithState(row, "review_required") ELSE AfterIssue(c, row, invoices)

LEMMA BilledRow ==
    ASSUME BillingAssumption, TypeOK, NEW c \in Cycles, NEW row \in CycleRows, NEW invoices,
           row.state \notin {"absent", "satisfied"}
    PROVE  /\ BilledFor(c, row, invoices) \in CycleRows
           /\ SameTerms(BilledFor(c, row, invoices), row)
           /\ BilledFor(c, row, invoices).state # "absent"
           /\ BilledFor(c, row, invoices).state = "superseded" => row.state = "superseded"
           /\ BilledFor(c, row, invoices).state = "satisfied" => Given(c) >= row.expected
           /\ Bills(c, row, invoices) => BilledFor(c, row, invoices).state = "invoiced"
  <1>1. CASE Candidates(c, row.period, review) # {}
    <2>1. BilledFor(c, row, invoices) = WithState(row, "review_required") /\ ~Bills(c, row, invoices)
      BY <1>1 DEF BilledFor, Bills
    <2> QED BY <2>1, WithStateRow DEF CycleStates
  <1>2. CASE Candidates(c, row.period, review) = {}
    <2>1. BilledFor(c, row, invoices) = AfterIssue(c, row, invoices)
      BY <1>2 DEF BilledFor
    <2> QED BY <2>1, AfterIssueRow
  <1> QED BY <1>1, <1>2

LEMMA NoneConcerned ==
    ASSUME Concerned = {}, NEW d \in Cycles, Current(d)
    PROVE  cycle[d].period # PlannedPeriod
  BY DEF Concerned

\* A saved profile has a price, and nothing but it.
LEMMA ProfileTyped ==
    ASSUME IInv, UNCHANGED <<month, due, manual, monthly, review>>,
           NEW price \in Prices, NEW status \in {"active", "paused"},
           profile' = [status |-> status, price |-> price] \/ UNCHANGED profile,
           waiting' \in [Cycles -> 0..MaxWaiting],
           stage' \in [Invoices -> {"none", "waiting", "ran", "dead"}]
    PROVE  OthersTyped'
  <1>1. /\ profile' \in [status : {"none", "active", "paused"}, price : Prices \cup {0}]
        /\ profile'.status # "none" => profile'.price \in Prices
    BY DEF IInv, TypeOK, RowsNamed
  <1> QED BY <1>1, TypesOfOthers DEF OthersTyped

\* The cycle is billed now: the planned one, or the one that has no invoice.
LEMMA BillNowKeeps ==
    ASSUME BillingAssumption, IInv, UNCHANGED <<manual, monthly, review, waiting>>,
           NEW c \in Cycles, NEW row \in CycleRows, Planned(c, row),
           row.state # "satisfied", BillNow(c, row, cycle, invoice),
           \/ UNCHANGED <<month, due, profile>>
           \/ /\ UNCHANGED <<month, due>>
              /\ \E price \in Prices : profile' = [status |-> "active", price |-> price]
    PROVE  Kept
  <1> DEFINE seen == BilledFor(c, row, invoice)
  <1>1. row.state \notin {"absent", "satisfied"}
    BY NewCycleRow DEF Planned, Current
  <1>2. /\ seen \in CycleRows /\ SameTerms(seen, row) /\ seen.state # "absent"
        /\ seen.state = "superseded" => row.state = "superseded"
        /\ seen.state = "satisfied" => Given(c) >= row.expected
        /\ Bills(c, row, invoice) => seen.state = "invoiced"
    BY <1>1, BilledRow DEF IInv
  <1>3. cycle' = [cycle EXCEPT ![c] = seen] /\ WriteIssued(c, row, invoice)
    BY DEF BillNow, BilledFor
  <1> HIDE DEF seen
  <1>4. Writes(c, seen) \/ Inserts(c, seen)
    <2>1. CASE Current(c) /\ row = cycle[c]
      BY <1>2, <1>3, <2>1 DEF Writes, Current, Exists
    <2>2. CASE ~(Current(c) /\ row = cycle[c])
      <3>1. /\ row.period = PlannedPeriod /\ row.period \in Periods /\ row.expected \in Prices
            /\ row.state = "scheduled"
        BY <2>2, NewCycleRow DEF Planned
      <3> QED BY <1>2, <1>3, <2>2, <3>1 DEF Planned, Inserts, SameTerms
    <2> QED BY <2>1, <2>2
  <1>5. /\ Shown
        /\ stage' \in [Invoices -> {"none", "waiting", "ran", "dead"}]
        /\ \A i \in Invoices : stage'[i] = "waiting" => invoice'[i].state # "absent"
        /\ \A d \in Cycles : Exists(d) => cycle'[d].state # "absent"
    BY <1>2, <1>3, <1>4, IssuedOrNot
  <1>6. JobsNamed'
    BY <1>5 DEF JobsNamed, Exists, Issued, IInv, RowsNamed
  <1>7. waiting' \in [Cycles -> 0..MaxWaiting]
    BY DEF IInv, TypeOK
  <1>8. OthersTyped'
    <2>1. CASE UNCHANGED <<month, due, profile>>
      BY <1>5, <1>7, <2>1, TypesOfOthers DEF OthersTyped
    <2>2. ASSUME NEW price \in Prices, profile' = [status |-> "active", price |-> price],
                 UNCHANGED <<month, due>>
          PROVE  OthersTyped'
      BY <1>5, <1>7, <2>2, ProfileTyped
    <2> QED BY <2>1, <2>2
  <1> QED BY <1>5, <1>6, <1>8, ShownMoves

LEMMA FreshKeeps ==
    ASSUME BillingAssumption, IInv, NEW price \in Prices, ApplyFresh(price)
    PROVE  Kept
  <1> DEFINE c == NextCycle
             row == NewCycle(PlannedPeriod, price)
  <1>1. /\ UNCHANGED <<month, due, manual, monthly, review, waiting>>
        /\ profile' = [status |-> "active", price |-> price]
        /\ c \in Cycles /\ PlannedPeriod \in Periods /\ Concerned = {}
        /\ BillNow(c, row, cycle, invoice)
    BY DEF ApplyFresh, Configure, BillNow, clockVars
  <1>2. row \in CycleRows /\ row.state # "satisfied"
    BY <1>1, NewCycleRow
  <1>3. Planned(c, row)
    BY <1>1, NoneConcerned DEF Planned
  <1> HIDE DEF c, row
  <1> QED BY <1>1, <1>2, <1>3, BillNowKeeps

LEMMA EnsureKeeps ==
    ASSUME BillingAssumption, IInv, EnsureCurrentInvoice
    PROVE  Kept
  <1>1. /\ UNCHANGED <<month, due, profile, manual, monthly, review, waiting>>
        /\ profile.status = "active"
    BY DEF EnsureCurrentInvoice, clockVars
  <1>2. CASE /\ Concerned = {} /\ PlannedPeriod \in Periods
             /\ BillNow(NextCycle, NewCycle(PlannedPeriod, profile.price), cycle, invoice)
    <2> DEFINE c == NextCycle
               row == NewCycle(PlannedPeriod, profile.price)
    <2>1. profile.price \in Prices /\ c \in Cycles
      BY <1>1, <1>2 DEF IInv, RowsNamed, BillNow
    <2>2. row \in CycleRows /\ row.state # "satisfied"
      BY <1>2, <2>1, NewCycleRow
    <2>3. Planned(c, row)
      BY <1>2, <2>1, NoneConcerned DEF Planned
    <2>4. BillNow(c, row, cycle, invoice)
      BY <1>2
    <2> HIDE DEF c, row
    <2> QED BY <1>1, <2>1, <2>2, <2>3, <2>4, BillNowKeeps
  <1>3. ASSUME NEW t \in Cycles, IsTarget(t),
               cycle[t].state \notin {"cancelled", "satisfied", "review_required"},
               BillNow(t, cycle[t], cycle, invoice)
        PROVE  Kept
    <2>1. Planned(t, cycle[t]) /\ cycle[t].state # "satisfied"
      BY <1>3 DEF Planned, IsTarget, Concerned
    <2>2. cycle[t] \in CycleRows
      BY DEF IInv, TypeOK
    <2> QED BY <1>1, <1>3, <2>1, <2>2, BillNowKeeps
  <1> QED BY <1>2, <1>3 DEF EnsureCurrentInvoice

LEMMA NextCycleKeeps ==
    ASSUME BillingAssumption, IInv, NEW price \in Prices, ApplyNextCycle(price)
    PROVE  Kept
  <1>1. /\ MoneyStill /\ UNCHANGED <<stage, month, due>>
        /\ profile' = [status |-> "active", price |-> price]
    BY DEF ApplyNextCycle, Configure, MoneyStill, clockVars
  <1>2. /\ stage' \in [Invoices -> {"none", "waiting", "ran", "dead"}]
        /\ waiting \in [Cycles -> 0..MaxWaiting]
    BY <1>1 DEF IInv, TypeOK
  <1>3. CASE UNCHANGED <<cycle, waiting>>
    <2>1. JobsNamed' /\ MoneyHandedOut'
      BY <1>1, <1>3 DEF MoneyStill, JobsNamed, Exists, Issued, IInv, RowsNamed, MoneyHandedOut
    <2>2. OthersTyped'
      BY <1>1, <1>2, <1>3, ProfileTyped DEF MoneyStill
    <2> QED BY <1>1, <1>3, <2>1, <2>2, QuietKeeps DEF MoneyStill
  <1>4. CASE ~UNCHANGED <<cycle, waiting>>
    <2> DEFINE c == NextCycle
               row == NewCycle(PlannedPeriod, price)
               reviewed == WithState(row, "review_required")
    <2>1. /\ c \in Cycles /\ PlannedPeriod \in Periods /\ Concerned = {}
          /\ \/ cycle' = [cycle EXCEPT ![c] = reviewed] /\ UNCHANGED waiting
             \/ cycle' = [cycle EXCEPT ![c] = Keyed(row)] /\ Enqueue(c, row)
      BY <1>4 DEF ApplyNextCycle
    <2>2. /\ row \in CycleRows /\ row.state = "scheduled"
      BY <2>1, NewCycleRow
    <2>3. Planned(c, row)
      BY <2>1, NoneConcerned DEF Planned
    <2> HIDE DEF c, row
    <2>4. /\ reviewed \in CycleRows /\ SameTerms(reviewed, row)
          /\ reviewed.state = "review_required"
          /\ Keyed(row) \in CycleRows /\ SameTerms(Keyed(row), row)
          /\ Keyed(row).state = "scheduled"
      BY <2>2, WithStateRow, KeyedRow DEF CycleStates
    <2> HIDE DEF reviewed
    <2>5. PICK new \in CycleRows : /\ cycle' = [cycle EXCEPT ![c] = new] /\ SameTerms(new, row)
                                   /\ new.state \in {"scheduled", "review_required"}
      BY <2>1, <2>4
    <2>6. /\ Shown /\ cycle'[c].state # "absent"
          /\ \A d \in Cycles : Exists(d) => cycle'[d].state # "absent"
      BY <1>1, <2>1, <2>2, <2>3, <2>5, PlannedShown
    <2>7. /\ waiting' \in [Cycles -> 0..MaxWaiting]
          /\ \A d \in Cycles \ {c} : waiting'[d] = waiting[d]
      BY <1>2, <2>1, EnqueueType
    <2>8. JobsNamed'
      BY <1>1, <2>1, <2>6, <2>7, JobsKept DEF MoneyStill
    <2>9. OthersTyped'
      BY <1>1, <1>2, <2>7, ProfileTyped DEF MoneyStill
    <2> QED BY <2>6, <2>8, <2>9, ShownMoves
  <1> QED BY <1>3, <1>4

LEMMA PauseKeeps ==
    ASSUME BillingAssumption, IInv, NEW price \in Prices, Pause(price)
    PROVE  Kept
  <1>1. /\ UNCHANGED <<month, due, cycle, invoice, manual, monthly, review, waiting, stage>>
        /\ profile' = [status |-> "paused", price |-> price]
    BY DEF Pause, clockVars
  <1>2. JobsNamed' /\ MoneyHandedOut'
    BY <1>1 DEF JobsNamed, Exists, Issued, IInv, RowsNamed, MoneyHandedOut
  <1>3. OthersTyped'
    BY <1>1, ProfileTyped DEF IInv, TypeOK
  <1> QED BY <1>1, <1>2, <1>3, QuietKeeps

\* The cycle that is replaced, the row and the invoice that replace it.
Replaces(t, c, row) ==
    /\ Current(t) /\ c = NextCycle
    /\ row \in CycleRows /\ row.state = "scheduled"
    /\ row.period = cycle[t].period /\ row.expected \in Prices
    /\ cycle' = [[cycle EXCEPT ![t] = WithState(@, "superseded")]
                    EXCEPT ![c] = BilledFor(c, row, Voided(t))]
    /\ WriteIssued(c, row, Voided(t))

LEMMA ReplacedRows ==
    ASSUME BillingAssumption, IInv, NEW t \in Cycles, NEW c \in Cycles, NEW row, Replaces(t, c, row)
    PROVE  /\ CyclesMove /\ ~Exists(c) /\ c # t
           /\ cycle'[t].state = "superseded"
           /\ \A d \in Cycles \ {c, t} : cycle'[d] = cycle[d]
           /\ \A d \in Cycles : Exists(d) => cycle'[d].state # "absent"
           /\ SameTerms(cycle'[c], row) /\ cycle'[c].state \notin {"absent", "superseded"}
           /\ cycle'[c].state = "satisfied" => Given(c) >= row.expected
  <1> DEFINE seen == BilledFor(c, row, Voided(t))
             gone == WithState(cycle[t], "superseded")
  <1>1. ~Exists(c) /\ c # t
    BY NextCycleIsNew DEF Replaces, Current, Exists
  <1>2. /\ seen \in CycleRows /\ SameTerms(seen, row) /\ seen.state \notin {"absent", "superseded"}
        /\ seen.state = "satisfied" => Given(c) >= row.expected
    BY BilledRow DEF Replaces, IInv
  <1>3. cycle \in [Cycles -> CycleRows]
    BY DEF IInv, TypeOK
  <1>4. gone \in CycleRows /\ SameTerms(gone, cycle[t]) /\ gone.state = "superseded"
    BY <1>3, WithStateRow DEF CycleStates
  <1>5. cycle' = [[cycle EXCEPT ![t] = gone] EXCEPT ![c] = seen]
    BY <1>3 DEF Replaces
  <1> HIDE DEF seen, gone
  <1>6. /\ cycle' \in [Cycles -> CycleRows] /\ cycle'[c] = seen /\ cycle'[t] = gone
        /\ \A d \in Cycles \ {c, t} : cycle'[d] = cycle[d]
    BY <1>1, <1>2, <1>3, <1>4, <1>5
  <1>7. InsertsCycle(c)
    <2>1. seen.period \in Periods /\ seen.expected \in Prices /\ seen.period = cycle[t].period
      BY <1>2 DEF SameTerms, Replaces, IInv, RowsNamed, Current, Exists
    <2>2. ASSUME NEW d \in Cycles \ {c}
          PROVE  NotInserted(d)
      BY <1>4, <1>6 DEF NotInserted, Stands, SameTerms, Replaces, Current, Exists
    <2>3. ASSUME NEW d \in Cycles \ {c}, cycle'[d].state \notin {"absent", "superseded"}
          PROVE  cycle[d].period # cycle[t].period
      <3>1. d # t /\ Current(d)
        BY <1>4, <1>6, <2>3 DEF Current
      <3> QED BY <3>1 DEF IInv, OneCurrent, Replaces
    <2> QED BY <1>2, <1>6, <2>1, <2>2, <2>3 DEF InsertsCycle, Replaces
  <1>8. \A d \in Cycles : Exists(d) => cycle'[d].state # "absent"
    BY <1>1, <1>4, <1>6 DEF Exists
  <1> QED BY <1>1, <1>2, <1>4, <1>6, <1>7, <1>8 DEF CyclesMove

\* The invoices that stay are those of other cycles.
LEMMA VoidedRows ==
    ASSUME IInv, NEW t \in Cycles, NEW i \in Invoices
    PROVE  /\ Voided(t)[i] \in InvoiceRows
           /\ Voided(t)[i].cycle = invoice[i].cycle /\ Voided(t)[i].total = invoice[i].total
           /\ Voided(t)[i].paid = invoice[i].paid
           /\ Voided(t)[i].state # "absent" <=> Issued(i)
           /\ Voided(t)[i].state = "live" => IsLive(i) /\ invoice[i].cycle # t
           /\ invoice[i].cycle # t => Voided(t)[i] = invoice[i]
  <1>1. invoice[i] \in InvoiceRows
    BY DEF IInv, TypeOK
  <1>2. Voided(t)[i] = IF i \in Live(t) THEN [invoice[i] EXCEPT !.state = "voided"] ELSE invoice[i]
    BY DEF Voided
  <1>3. i \in Live(t) <=> invoice[i].cycle = t /\ IsLive(i)
    BY DEF Live, LiveInvoices, IsLive
  <1> QED BY <1>1, <1>2, <1>3 DEF InvoiceRows, Issued, IsLive

\* An invoice that was there: it is the one before, or it is voided.
LEMMA ReplacedInvoice ==
    ASSUME BillingAssumption, IInv, UNCHANGED review,
           NEW t \in Cycles, NEW c \in Cycles, NEW row, Replaces(t, c, row),
           NEW i \in Invoices, invoice'[i] = Voided(t)[i]
    PROVE  InvoiceStands(i) /\ LiveStandsAt(i)'
  <1>1. InvoiceStands(i)
    BY VoidedRows DEF InvoiceStands
  <1>2. CASE invoice'[i].state = "live"
    <2>1. IsLive(i) /\ invoice[i].cycle # t /\ invoice'[i] = invoice[i]
      BY <1>2, VoidedRows
    <2>2. invoice[i].cycle \in Cycles /\ Exists(invoice[i].cycle)
      BY <2>1 DEF IInv, RowsNamed, IsLive, Issued
    <2>3. cycle'[invoice[i].cycle] = cycle[invoice[i].cycle]
      BY <2>1, <2>2, ReplacedRows
    <2>4. /\ cycle[invoice[i].cycle].state # "superseded"
          /\ invoice[i].paid <= invoice[i].total
      BY <2>1, <2>2 DEF IInv, LiveStands, LiveStandsAt
    <2>5. CyclesMove
      BY ReplacedRows
    <2> QED BY <1>1, <2>1, <2>2, <2>3, <2>4, <2>5, LiveKept
  <1>3. CASE invoice'[i].state # "live"
    BY <1>1, <1>3 DEF LiveStandsAt, IsLive
  <1> QED BY <1>1, <1>2, <1>3

LEMMA ReplacedSettled ==
    ASSUME BillingAssumption, IInv, UNCHANGED review,
           NEW t \in Cycles, NEW c \in Cycles, NEW row, Replaces(t, c, row),
           \A i \in Invoices : Issued(i) => invoice'[i] = Voided(t)[i]
    PROVE  SatisfiedWasSettled'
  <1> SUFFICES ASSUME NEW d \in Cycles, cycle'[d].state = "satisfied" PROVE Settled(d)'
    BY SatisfiedMeansSettled
  <1>1. CASE d = c
    BY <1>1, ReplacedRows DEF Settled, Given, SameTerms
  <1>2. CASE d # c
    <2>1. d # t /\ cycle'[d] = cycle[d]
      BY <1>2, ReplacedRows
    <2>2. Settled(d)
      BY <2>1, SatisfiedMeansSettled DEF IInv
    <2>3. \A i \in Invoices : IsLive(i) /\ invoice[i].cycle = d => invoice'[i] = invoice[i]
      BY <2>1, VoidedRows DEF IsLive, Issued
    <2> QED BY <2>1, <2>2, <2>3, SettledKept
  <1> QED BY <1>1, <1>2

LEMMA ReplacedShown ==
    ASSUME BillingAssumption, IInv, UNCHANGED <<manual, monthly, review>>,
           NEW t \in Cycles, NEW c \in Cycles, NEW row, Replaces(t, c, row)
    PROVE  /\ Shown
           /\ stage' \in [Invoices -> {"none", "waiting", "ran", "dead"}]
           /\ \A i \in Invoices : stage'[i] = "waiting" => invoice'[i].state # "absent"
  <1>0. MoneyHandedOut' /\ ReviewsMove
    BY DEF MoneyHandedOut, ReviewsMove, IInv
  <1>1. /\ stage \in [Invoices -> {"none", "waiting", "ran", "dead"}]
        /\ \A i \in Invoices : stage[i] = "waiting" => Issued(i)
    BY DEF IInv, TypeOK, RowsNamed, JobsNamed
  <1>2. Voided(t) \in [Invoices -> InvoiceRows]
    <2>1. \A i \in Invoices : Voided(t)[i] \in InvoiceRows
      BY VoidedRows
    <2> QED BY <2>1 DEF Voided
  <1>3. CASE ~Bills(c, row, Voided(t))
    <2>1. invoice' = Voided(t) /\ UNCHANGED stage
      BY <1>3 DEF Replaces, WriteIssued
    <2>2. \A i \in Invoices : InvoiceStands(i) /\ LiveStandsAt(i)'
      BY <2>1, ReplacedInvoice
    <2>3. InvoicesMove
      BY <1>2, <2>1, <2>2 DEF InvoicesMove, NoNewInvoice
    <2>4. SatisfiedWasSettled'
      BY <2>1, ReplacedSettled
    <2>5. \A i \in Invoices : stage'[i] = "waiting" => invoice'[i].state # "absent"
      BY <1>1, <2>1, <2>2 DEF InvoiceStands
    <2> QED BY <1>0, <1>1, <2>1, <2>2, <2>3, <2>4, <2>5, ReplacedRows DEF Shown, LiveStands
  <1>4. CASE Bills(c, row, Voided(t))
    <2> DEFINE new == InvoiceOf(c, row)
    <2>0. PICK i \in Invoices : i = NextInvoice
      BY <1>4 DEF Replaces, WriteIssued
    <2>1. /\ invoice' = [Voided(t) EXCEPT ![i] = new]
          /\ stage' = [stage EXCEPT ![i] = "waiting"]
      BY <1>4, <2>0 DEF Replaces, WriteIssued
    <2>2. ~Issued(i)
      BY <2>0, NextInvoiceIsNew
    <2>3. Given(c) \in Nat /\ Given(c) < row.expected /\ row.expected \in Nat
      <3>1. Given(c) \in Nat
        BY GivenType DEF Given, IInv, TypeOK
      <3>2. row.expected \in Nat
        BY PriceTypes DEF Replaces
      <3> QED BY <1>4, <3>1, <3>2 DEF Bills, Given
    <2>4. /\ new \in InvoiceRows /\ new.state = "live" /\ new.cycle = c /\ new.paid = 0
          /\ new.total = row.expected - Given(c)
      BY <2>3 DEF InvoiceOf, InvoiceRows, Given
    <2> HIDE DEF new
    <2>5. /\ invoice' \in [Invoices -> InvoiceRows] /\ invoice'[i] = new
          /\ \A j \in Invoices \ {i} : invoice'[j] = Voided(t)[j]
      BY <1>2, <2>1, <2>4
    <2>6. \A j \in Invoices \ {i} : InvoiceStands(j) /\ LiveStandsAt(j)'
      BY <2>5, ReplacedInvoice
    <2>7. InsertsInvoice(i, c)
      <3>1. cycle'[c].period = row.period /\ cycle'[c].state \notin {"absent", "superseded"}
        BY ReplacedRows DEF SameTerms
      <3>2. row.period \notin monthly
        BY <1>4 DEF Bills, PeriodTaken
      <3>3. ASSUME NEW j \in Invoices \ {i}, invoice'[j].state = "live"
            PROVE  PeriodOf(j) # row.period
        <4>1. Voided(t)[j].state = "live" /\ Voided(t)[j].cycle = invoice[j].cycle
          BY <2>5, <3>3, VoidedRows
        <4> QED BY <1>4, <4>1 DEF Bills, PeriodTaken, PeriodOf
      <3> QED BY <2>0, <2>4, <2>5, <2>6, <3>1, <3>2, <3>3 DEF InsertsInvoice
    <2>8. LiveStandsAt(i)'
      <3>1. \A d \in Cycles : Given(d)' = Given(d)
        BY DEF Given
      <3>2. cycle'[c].expected = row.expected /\ cycle'[c].state # "superseded"
        BY ReplacedRows DEF SameTerms
      <3> QED BY <2>3, <2>4, <2>5, <3>1, <3>2 DEF LiveStandsAt, IsLive
    <2>9. SatisfiedWasSettled'
      BY <2>2, <2>5, ReplacedSettled
    <2>10. /\ stage' \in [Invoices -> {"none", "waiting", "ran", "dead"}]
           /\ \A j \in Invoices : stage'[j] = "waiting" => invoice'[j].state # "absent"
      BY <1>1, <2>1, <2>4, <2>5, <2>6 DEF InvoiceStands
    <2> QED BY <1>0, <2>1, <2>5, <2>6, <2>7, <2>8, <2>9, <2>10, ReplacedRows
            DEF Shown, LiveStands, InvoicesMove
  <1> QED BY <1>3, <1>4

LEMMA CurrentCycleKeeps ==
    ASSUME BillingAssumption, IInv, NEW price \in Prices, ApplyCurrentCycle(price)
    PROVE  Kept
  <1>1. /\ UNCHANGED <<month, due, manual, monthly, review, waiting>>
        /\ profile' = [status |-> "active", price |-> price]
    BY DEF ApplyCurrentCycle, Configure, clockVars
  <1>2. PICK t \in Cycles :
            /\ IsTarget(t)
            /\ BillNow(NextCycle, NewCycle(cycle[t].period, price),
                       [cycle EXCEPT ![t] = WithState(@, "superseded")], Voided(t))
    BY DEF ApplyCurrentCycle
  <1> DEFINE c == NextCycle
             row == NewCycle(cycle[t].period, price)
  <1>3. Current(t) /\ cycle[t].period \in Periods /\ c \in Cycles
    BY <1>2 DEF IsTarget, Concerned, BillNow, IInv, RowsNamed, Current, Exists
  <1>4. Replaces(t, c, row)
    BY <1>2, <1>3, NewCycleRow DEF Replaces, BillNow, BilledFor
  <1> HIDE DEF c, row
  <1>5. /\ Shown
        /\ stage' \in [Invoices -> {"none", "waiting", "ran", "dead"}]
        /\ \A i \in Invoices : stage'[i] = "waiting" => invoice'[i].state # "absent"
        /\ \A d \in Cycles : Exists(d) => cycle'[d].state # "absent"
    BY <1>1, <1>3, <1>4, ReplacedShown, ReplacedRows
  <1>6. JobsNamed'
    BY <1>1, <1>5 DEF JobsNamed, Exists, Issued, IInv, RowsNamed
  <1>7. OthersTyped'
    BY <1>1, <1>5, ProfileTyped DEF IInv, TypeOK
  <1> QED BY <1>5, <1>6, <1>7, ShownMoves

-----------------------------------------------------------------------------
(* Reviews. *)

\* What a review of one manual invoice for one cycle changes in the sums.
LEMMA ReviewSums ==
    ASSUME BillingAssumption, TypeOK, NEW c \in Cycles, NEW m \in Manual, NEW new \in Decisions,
           review' = [review EXCEPT ![<<c, m>>] = new]
    PROVE  /\ review' \in [Cycles \X Manual -> Decisions]
           /\ review'[<<c, m>>] = new
           /\ \A d \in Cycles, n \in Manual :
                 d # c \/ n # m => review'[<<d, n>>] = review[<<d, n>>]
           /\ \A d \in Cycles \ {c} : Given(d)' = Given(d)
           /\ \A n \in Manual \ {m} : Allocated(n, review') = Allocated(n, review)
           /\ Allocated(m, review') = Allocated(m, review) - review[<<c, m>>].amount + new.amount
           /\ Allocated(m, review) \in Nat /\ review[<<c, m>>].amount \in Nat
           /\ review[<<c, m>>].amount <= Allocated(m, review)
  <1>1. review \in [Cycles \X Manual -> Decisions]
    BY DEF TypeOK
  <1>2. /\ review' \in [Cycles \X Manual -> Decisions]
        /\ review'[<<c, m>>] = new
        /\ \A d \in Cycles, n \in Manual :
              d # c \/ n # m => review'[<<d, n>>] = review[<<d, n>>]
    BY <1>1
  <1>3. ASSUME NEW d \in Cycles \ {c} PROVE Given(d)' = Given(d)
    <2> DEFINE f == [n \in Manual |-> review[<<d, n>>].amount]
               g == [n \in Manual |-> review'[<<d, n>>].amount]
    <2>1. \A n \in Manual : f[n] = g[n]
      BY <1>2
    <2>2. Given(d) = SumOf(f, Manual) /\ Given(d)' = SumOf(g, Manual)
      BY DEF Given, AllocatedTo
    <2> HIDE DEF f, g
    <2> QED BY <2>1, <2>2, SumSame
  <1>4. ASSUME NEW n \in Manual \ {m} PROVE Allocated(n, review') = Allocated(n, review)
    <2> DEFINE f == [d \in Cycles |-> review[<<d, n>>].amount]
               g == [d \in Cycles |-> review'[<<d, n>>].amount]
    <2>1. \A d \in Cycles : f[d] = g[d]
      BY <1>2
    <2>2. Allocated(n, review) = SumOf(f, Cycles) /\ Allocated(n, review') = SumOf(g, Cycles)
      BY DEF Allocated
    <2> HIDE DEF f, g
    <2> QED BY <2>1, <2>2, SumSame
  <1>5. /\ Allocated(m, review') = Allocated(m, review) - review[<<c, m>>].amount + new.amount
        /\ Allocated(m, review) \in Nat /\ review[<<c, m>>].amount \in Nat
        /\ review[<<c, m>>].amount <= Allocated(m, review)
    <2> DEFINE f == [d \in Cycles |-> review[<<d, m>>].amount]
               g == [d \in Cycles |-> review'[<<d, m>>].amount]
    <2>1. /\ \A d \in Cycles : f[d] \in Nat
          /\ \A d \in Cycles \ {c} : g[d] = f[d]
          /\ f[c] = review[<<c, m>>].amount /\ g[c] = new.amount /\ g[c] \in Nat
      BY <1>1, <1>2 DEF Decisions
    <2>2. Allocated(m, review) = SumOf(f, Cycles) /\ Allocated(m, review') = SumOf(g, Cycles)
      BY DEF Allocated
    <2> HIDE DEF f, g
    <2>3. IsFiniteSet(Cycles)
      BY Numbered
    <2>4. SumOf(g, Cycles) = SumOf(f, Cycles) - f[c] + g[c]
      BY <2>1, <2>3, SumChange
    <2>5. SumOf(f, Cycles) = SumOf(f, Cycles \ {c}) + f[c]
      BY <2>1, <2>3, SumWithout
    <2>6. SumOf(f, Cycles) \in Nat /\ SumOf(f, Cycles \ {c}) \in Nat
      BY <2>1, <2>3, SumType, FS_Difference
    <2> QED BY <2>1, <2>2, <2>4, <2>5, <2>6
  <1> QED BY <1>2, <1>3, <1>4, <1>5

\* A review is changed, and the cycle it is about, which has no invoice that lives.
LEMMA ReviewedShown ==
    ASSUME BillingAssumption, IInv, UNCHANGED <<invoice, manual, monthly>>,
           NEW c \in Cycles, NEW m \in Manual, NEW new \in Decisions, NEW row,
           review' = [review EXCEPT ![<<c, m>>] = new],
           Live(c) = {}, Writes(c, row),
           row.state = "satisfied" => AllocatedTo(c, review') >= row.expected,
           new = NoReview \/ new.amount <= manual[m].paid - Allocated(m, review)
    PROVE  Shown
  <1>0. TypeOK
    BY DEF IInv
  <1>1. /\ review' \in [Cycles \X Manual -> Decisions]
        /\ review'[<<c, m>>] = new
        /\ \A d \in Cycles, n \in Manual :
              d # c \/ n # m => review'[<<d, n>>] = review[<<d, n>>]
        /\ \A d \in Cycles \ {c} : Given(d)' = Given(d)
        /\ \A n \in Manual \ {m} : Allocated(n, review') = Allocated(n, review)
        /\ Allocated(m, review') = Allocated(m, review) - review[<<c, m>>].amount + new.amount
        /\ Allocated(m, review) \in Nat /\ review[<<c, m>>].amount \in Nat
        /\ review[<<c, m>>].amount <= Allocated(m, review)
    BY <1>0, ReviewSums, Zenon
  <1>2. /\ CyclesMove /\ cycle'[c] = row /\ \A d \in Cycles \ {c} : cycle'[d] = cycle[d]
        /\ Exists(c)
    BY WritesRow DEF Writes
  <1>3. InvoicesMove
    BY StillMoves
  <1>4. ReviewsMove
    BY <1>1, <1>2 DEF ReviewsMove
  <1>5. LiveStands'
    <2> SUFFICES ASSUME NEW i \in Invoices, NEW d \in Cycles, IsLive(i), invoice[i].cycle = d
                 PROVE  /\ cycle'[d].state # "superseded"
                        /\ 0 < invoice[i].total /\ invoice[i].paid <= invoice[i].total
                        /\ invoice[i].total + Given(d)' = cycle'[d].expected
      BY DEF LiveStands, LiveStandsAt, IsLive
    <2>1. d # c
      BY DEF Live, LiveInvoices, IsLive
    <2> QED BY <1>1, <1>2, <2>1 DEF IInv, LiveStands, LiveStandsAt
  <1>6. SatisfiedWasSettled'
    <2> SUFFICES ASSUME NEW d \in Cycles, cycle'[d].state = "satisfied" PROVE Settled(d)'
      BY SatisfiedMeansSettled
    <2>1. CASE d = c
      BY <1>2, <2>1 DEF Settled, Given
    <2>2. CASE d # c
      <3>1. Settled(d)
        BY <1>2, <2>2, SatisfiedMeansSettled DEF IInv
      <3> QED BY <1>1, <1>2, <2>2, <3>1 DEF Settled, IsLive
    <2> QED BY <2>1, <2>2
  <1>7. MoneyHandedOut'
    <2>1. new.amount \in Nat /\ (new = NoReview => new.amount = 0)
      BY DEF Decisions, NoReview
    <2>2. manual[m].paid \in Nat /\ ManualTotal[m] \in Nat
      BY DEF IInv, TypeOK, BillingAssumption
    <2>3. /\ \A n \in Manual : manual[n].paid <= ManualTotal[n]
          /\ \A n \in Manual : Allocated(n, review) <= ManualTotal[n]
      BY DEF IInv, MoneyHandedOut
    <2>4. Allocated(m, review') <= ManualTotal[m]
      BY <1>1, <2>1, <2>2, <2>3
    <2> QED BY <1>1, <2>3, <2>4 DEF MoneyHandedOut
  <1> QED BY <1>2, <1>3, <1>4, <1>5, <1>6, <1>7 DEF Shown

LEMMA ReviewKeeps ==
    ASSUME BillingAssumption, IInv, NEW c \in Cycles, NEW m \in Manual,
           NEW decision \in {"apply", "exclude"}, NEW amount \in Nat,
           ReviewManualInvoice(c, m, decision, amount)
    PROVE  Kept
  <1> DEFINE new == [decision |-> decision, amount |-> amount]
             sum == Recomputed(cycle[c], AllocatedTo(c, review'))
             row == AfterReview(c, review')
  <1>1. /\ UNCHANGED <<month, due, profile, invoice, manual, monthly, stage>>
        /\ review' = [review EXCEPT ![<<c, m>>] = new]
        /\ Exists(c) /\ Live(c) = {} /\ Permitted(c, row)
        /\ \/ cycle' = [cycle EXCEPT ![c] = Keyed(row)] /\ Enqueue(c, row)
           \/ cycle' = [cycle EXCEPT ![c] = row] /\ UNCHANGED waiting
    BY DEF ReviewManualInvoice, clockVars
  <1>2. new \in Decisions
    BY DEF Decisions
  <1>3. new.amount <= manual[m].paid - Allocated(m, review)
    <2>1. TypeOK
      BY DEF IInv
    <2>2. Allocated(m, review) \in Nat /\ manual[m].paid \in Nat
      BY <1>1, <1>2, <2>1, ReviewSums DEF TypeOK
    <2>3. CASE decision = "apply"
      BY <2>2, <2>3 DEF ReviewManualInvoice
    <2>4. CASE decision = "exclude"
      BY <2>2, <2>4 DEF ReviewManualInvoice, Available
    <2> QED BY <2>3, <2>4
  <1>4. /\ review' \in [Cycles \X Manual -> Decisions]
        /\ cycle[c] \in CycleRows /\ waiting \in [Cycles -> 0..MaxWaiting]
    BY <1>1, <1>2, ReviewSums DEF IInv, TypeOK
  <1>5. AllocatedTo(c, review') \in Nat
    BY <1>4, GivenType
  <1>6. /\ sum \in CycleRows /\ SameTerms(sum, cycle[c])
        /\ sum.allocated = AllocatedTo(c, review')
    BY <1>4, <1>5, RecomputedRow
  <1>7. /\ row \in CycleRows /\ SameTerms(row, cycle[c])
        /\ row.state \in {"satisfied", "review_required", "scheduled"}
        /\ row.state = "satisfied" => AllocatedTo(c, review') >= row.expected
    <2>1. PICK s \in {"satisfied", "review_required", "scheduled"} :
              row = WithState(sum, s) /\ (s = "satisfied" => sum.allocated >= sum.expected)
      BY DEF AfterReview
    <2> HIDE DEF sum, row
    <2>2. row \in CycleRows /\ row.state = s /\ SameTerms(row, sum)
      BY <1>6, <2>1, WithStateRow DEF CycleStates
    <2> QED BY <1>6, <2>1, <2>2 DEF SameTerms
  <1> HIDE DEF sum, row, new
  <1>8. PICK written \in CycleRows :
            /\ cycle' = [cycle EXCEPT ![c] = written]
            /\ SameTerms(written, row) /\ written.state = row.state
    BY <1>1, <1>7, KeyedRow DEF SameTerms
  <1>9. Writes(c, written)
    BY <1>1, <1>7, <1>8 DEF Writes, SameTerms, Permitted
  <1>10. written.state = "satisfied" => AllocatedTo(c, review') >= written.expected
    BY <1>7, <1>8 DEF SameTerms
  <1>11. Shown
    BY <1>1, <1>2, <1>3, <1>9, <1>10, ReviewedShown
  <1>12. /\ waiting' \in [Cycles -> 0..MaxWaiting]
         /\ \A d \in Cycles \ {c} : waiting'[d] = waiting[d]
    BY <1>1, <1>4, EnqueueType
  <1>13. JobsNamed'
    <2>1. cycle'[c].state # "absent" /\ \A d \in Cycles : Exists(d) => cycle'[d].state # "absent"
      BY <1>9, WritesRow DEF Writes
    <2> QED BY <1>1, <1>12, <2>1, JobsKept
  <1>14. OthersTyped'
    BY <1>1, <1>4, <1>12, TypesOfOthers DEF OthersTyped
  <1> QED BY <1>11, <1>13, <1>14, ShownMoves

LEMMA ReverseKeeps ==
    ASSUME BillingAssumption, IInv, NEW c \in Cycles, NEW m \in Manual, ReverseReview(c, m)
    PROVE  Kept
  <1> DEFINE sum == Recomputed(cycle[c], AllocatedTo(c, review'))
             row == WithState(sum, "review_required")
  <1>1. /\ UNCHANGED <<month, due, profile, invoice, manual, monthly, waiting, stage>>
        /\ review' = [review EXCEPT ![<<c, m>>] = NoReview]
        /\ review[<<c, m>>] # NoReview /\ Live(c) = {} /\ Permitted(c, row)
        /\ cycle' = [cycle EXCEPT ![c] = row]
    BY DEF ReverseReview, clockVars
  <1>2. NoReview \in Decisions /\ Exists(c)
    BY <1>1 DEF Decisions, NoReview, IInv, RowsNamed
  <1>3. review' \in [Cycles \X Manual -> Decisions] /\ cycle[c] \in CycleRows
    BY <1>1, <1>2, ReviewSums DEF IInv, TypeOK
  <1>4. AllocatedTo(c, review') \in Nat
    BY <1>3, GivenType
  <1>5. sum \in CycleRows /\ SameTerms(sum, cycle[c])
    BY <1>3, <1>4, RecomputedRow
  <1> HIDE DEF sum
  <1>6. row \in CycleRows /\ SameTerms(row, cycle[c]) /\ row.state = "review_required"
    BY <1>5, WithStateRow DEF CycleStates, SameTerms
  <1> HIDE DEF row
  <1>7. Writes(c, row)
    BY <1>1, <1>2, <1>6 DEF Writes, Permitted
  <1>8. Shown
    BY <1>1, <1>2, <1>6, <1>7, ReviewedShown
  <1>9. JobsNamed'
    <2>1. \A d \in Cycles : Exists(d) => cycle'[d].state # "absent"
      BY <1>7, WritesRow
    <2> QED BY <1>1, <2>1 DEF JobsNamed, Exists, Issued, IInv, RowsNamed
  <1>10. OthersTyped'
    BY <1>1, <1>3, TypesOfOthers DEF OthersTyped
  <1> QED BY <1>8, <1>9, <1>10, ShownMoves

-----------------------------------------------------------------------------
(* Money. *)

LEMMA ManualKeeps ==
    ASSUME BillingAssumption, IInv, ManualMoney
    PROVE  Kept
  <1>1. UNCHANGED <<month, due, profile, cycle, invoice, monthly, review, waiting, stage>>
    BY DEF ManualMoney, clockVars
  <1>2. \A m \in Manual : ManualTotal[m] \in Nat
    BY Zenon DEF BillingAssumption
  <1>3. manual \in [Manual -> [state : {"absent", "live", "voided"}, paid : Nat]]
    BY DEF IInv, TypeOK
  <1>4. \A m \in Manual : manual[m].paid <= ManualTotal[m] /\ Allocated(m, review) <= ManualTotal[m]
    BY DEF IInv, MoneyHandedOut
  <1>5. PICK m \in Manual : AddPaidInvoice(m) \/ PayManual(m) \/ ReverseManual(m) \/ VoidManual(m)
    BY DEF ManualMoney
  <1>6. \E paid \in {0, ManualTotal[m], manual[m].paid}, s \in {"absent", "live", "voided"} :
            manual' = [manual EXCEPT ![m] = [state |-> s, paid |-> paid]]
    BY <1>3, <1>5 DEF AddPaidInvoice, PayManual, ReverseManual, VoidManual
  <1>7. /\ manual' \in [Manual -> [state : {"absent", "live", "voided"}, paid : Nat]]
        /\ \A n \in Manual : manual'[n].paid <= ManualTotal[n]
    BY <1>2, <1>3, <1>4, <1>6
  <1>8. MoneyHandedOut' /\ JobsNamed'
    BY <1>1, <1>4, <1>7 DEF MoneyHandedOut, JobsNamed, Exists, Issued, IInv, RowsNamed
  <1>9. OthersTyped'
    BY <1>1, <1>7, TypesOfOthers DEF OthersTyped
  <1> QED BY <1>1, <1>8, <1>9, QuietKeeps

LEMMA MonthlyKeeps ==
    ASSUME BillingAssumption, IInv, MonthlyByHand
    PROVE  Kept
  <1>1. UNCHANGED <<month, due, profile, cycle, invoice, manual, review, waiting, stage>>
    BY DEF MonthlyByHand, clockVars
  <1>2. /\ monthly' \in SUBSET Periods
        /\ \A p \in monthly' : p \in monthly \/ ~PeriodTaken(p, invoice)
    <2>1. ByHand \subseteq Periods /\ monthly \in SUBSET Periods
      BY Zenon DEF BillingAssumption, IInv, TypeOK
    <2> QED BY <2>1 DEF MonthlyByHand, IssueMonthly, VoidMonthly
  <1>3. MoneyHandedOut' /\ JobsNamed'
    BY <1>1 DEF MoneyHandedOut, JobsNamed, Exists, Issued, IInv, RowsNamed
  <1>4. OthersTyped'
    BY <1>1, <1>2, TypesOfOthers DEF OthersTyped
  <1> QED BY <1>1, <1>2, <1>3, <1>4, QuietKeeps

LEMMA TickKeeps == ASSUME BillingAssumption, IInv, Tick PROVE Kept
  <1>1. UNCHANGED <<profile, cycle, invoice, manual, monthly, review, waiting, stage>>
    BY DEF Tick
  <1>2. month' \in Periods /\ due' \in BOOLEAN
    BY DEF Tick, IInv, TypeOK
  <1>3. MoneyHandedOut' /\ JobsNamed'
    BY <1>1 DEF MoneyHandedOut, JobsNamed, Exists, Issued, IInv, RowsNamed
  <1>4. OthersTyped'
    BY <1>1, <1>2, TypesOfOthers DEF OthersTyped
  <1> QED BY <1>1, <1>3, <1>4, QuietKeeps

\* What may be written over an invoice: its state moves away from live, or money moves.
Rewrites(i, inv) ==
    /\ Issued(i) /\ inv \in InvoiceRows
    /\ inv.cycle = invoice[i].cycle /\ inv.total = invoice[i].total
    /\ inv.state # "absent" /\ (inv.state = "live" => IsLive(i))
    /\ inv.paid <= inv.total

LEMMA ChangeKeeps ==
    ASSUME BillingAssumption, IInv, NEW i \in Invoices, NEW inv, Rewrites(i, inv),
           ChangeInvoice(i, inv)
    PROVE  Kept
  <1>1. PICK c \in Cycles : c = inv.cycle /\ Exists(c)
    BY DEF Rewrites, IInv, RowsNamed
  <1> DEFINE row == Synced(cycle[c], inv)
  <1>2. /\ UNCHANGED <<month, due, profile, manual, monthly, review, waiting, stage>>
        /\ Permitted(c, row)
        /\ cycle' = [cycle EXCEPT ![c] = row] /\ invoice' = [invoice EXCEPT ![i] = inv]
    BY <1>1 DEF ChangeInvoice, clockVars
  <1>3. /\ row \in CycleRows /\ SameTerms(row, cycle[c])
        /\ row.state \in {"cancelled", "satisfied", "invoiced"}
        /\ row.state = "satisfied" => inv.state # "voided" /\ inv.paid >= inv.total
    BY SyncedRow DEF Rewrites, IInv, TypeOK
  <1> HIDE DEF row
  <1>4. Writes(c, row)
    BY <1>1, <1>2, <1>3 DEF Writes, Permitted
  <1>5. /\ CyclesMove /\ cycle'[c] = row /\ \A d \in Cycles \ {c} : cycle'[d] = cycle[d]
        /\ \A d \in Cycles : cycle'[d].state = "superseded" => cycle[d].state = "superseded"
        /\ \A d \in Cycles : Exists(d) => cycle'[d].state # "absent"
    BY <1>4, WritesRow
  <1>6. /\ invoice' \in [Invoices -> InvoiceRows] /\ invoice'[i] = inv
        /\ \A j \in Invoices \ {i} : invoice'[j] = invoice[j]
    BY <1>2 DEF IInv, TypeOK, Rewrites
  <1>7. \A j \in Invoices : InvoiceStands(j)
    BY <1>6 DEF InvoiceStands, Rewrites, Issued, IsLive
  <1>8. InvoicesMove
    BY <1>2, <1>6, <1>7 DEF InvoicesMove, NoNewInvoice
  <1>9. LiveStands'
    <2> SUFFICES ASSUME NEW j \in Invoices PROVE LiveStandsAt(j)'
      BY DEF LiveStands
    <2>1. invoice'[j].state = "live" =>
              /\ IsLive(j) /\ invoice'[j].cycle = invoice[j].cycle
              /\ invoice'[j].total = invoice[j].total /\ invoice'[j].paid <= invoice[j].total
              /\ invoice[j].cycle \in Cycles
      BY <1>6 DEF Rewrites, IInv, RowsNamed, LiveStands, LiveStandsAt, IsLive, Issued
    <2>2. \A d \in Cycles : IsLive(j) /\ invoice[j].cycle = d => cycle[d].state # "superseded"
      BY DEF IInv, LiveStands, LiveStandsAt
    <2> QED BY <1>2, <1>5, <2>1, <2>2, LiveKept
  <1>10. SatisfiedWasSettled'
    <2> SUFFICES ASSUME NEW d \in Cycles, cycle'[d].state = "satisfied" PROVE Settled(d)'
      BY SatisfiedMeansSettled
    <2>1. CASE d = c
      <3>1. inv.state = "live" /\ inv.paid = inv.total
        BY <1>3, <1>5, <2>1 DEF Rewrites, InvoiceRows
      <3> QED BY <1>1, <1>6, <2>1, <3>1 DEF Settled, IsLive
    <2>2. CASE d # c
      <3>1. Settled(d) /\ cycle'[d] = cycle[d]
        BY <1>5, <2>2, SatisfiedMeansSettled DEF IInv
      <3>2. \A j \in Invoices : IsLive(j) /\ invoice[j].cycle = d => invoice'[j] = invoice[j]
        BY <1>1, <1>6, <2>2 DEF Rewrites
      <3> QED BY <1>2, <3>1, <3>2, SettledKept
    <2> QED BY <2>1, <2>2
  <1>11. MoneyHandedOut' /\ ReviewsMove
    BY <1>2 DEF MoneyHandedOut, ReviewsMove, IInv
  <1>12. Shown
    BY <1>5, <1>8, <1>9, <1>10, <1>11 DEF Shown
  <1>13. JobsNamed'
    BY <1>2, <1>5, <1>7 DEF JobsNamed, InvoiceStands, Exists, Issued, IInv, RowsNamed
  <1>14. OthersTyped'
    BY <1>2, TypesOfOthers DEF OthersTyped
  <1> QED BY <1>12, <1>13, <1>14, ShownMoves

\* Money in, money back, and the withdrawal of an invoice on which there is none.
LEMMA InvoiceMoneyKeeps ==
    ASSUME BillingAssumption, IInv, NEW i \in Invoices, NEW amount \in Nat,
           \/ PayInvoice(i, amount) \/ ReturnMoney(i, amount)
           \/ VoidInvoice(i) \/ PerformPayme(i)
    PROVE  Kept
  <1>1. IsLive(i) /\ Issued(i) /\ invoice[i] \in InvoiceRows
    BY DEF PayInvoice, ReturnMoney, VoidInvoice, PerformPayme, Open, IsLive, Issued, IInv, TypeOK
  <1>2. invoice[i].paid <= invoice[i].total
    BY <1>1 DEF IInv, RowsNamed, LiveStands, LiveStandsAt
  <1>3. CASE PayInvoice(i, amount)
    <2> DEFINE inv == [invoice[i] EXCEPT !.paid = @ + amount]
    <2>1. ChangeInvoice(i, inv) /\ amount <= invoice[i].total - invoice[i].paid
      BY <1>3 DEF PayInvoice
    <2>2. Rewrites(i, inv)
      BY <1>1, <1>2, <2>1 DEF Rewrites, InvoiceRows, IsLive
    <2> QED BY <2>1, <2>2, ChangeKeeps
  <1>4. CASE ReturnMoney(i, amount)
    <2> DEFINE inv == [invoice[i] EXCEPT !.paid = @ - amount]
    <2>1. ChangeInvoice(i, inv) /\ amount <= invoice[i].paid
      BY <1>4 DEF ReturnMoney
    <2>2. Rewrites(i, inv)
      BY <1>1, <1>2, <2>1 DEF Rewrites, InvoiceRows, IsLive
    <2> QED BY <2>1, <2>2, ChangeKeeps
  <1>5. CASE VoidInvoice(i)
    <2> DEFINE inv == [invoice[i] EXCEPT !.state = "voided"]
    <2>1. ChangeInvoice(i, inv)
      BY <1>5 DEF VoidInvoice
    <2>2. Rewrites(i, inv)
      BY <1>1, <1>2 DEF Rewrites, InvoiceRows, IsLive
    <2> QED BY <2>1, <2>2, ChangeKeeps
  <1>6. CASE PerformPayme(i)
    <2> DEFINE inv == [invoice[i] EXCEPT !.paid = invoice[i].total, !.pending = FALSE]
    <2>1. ChangeInvoice(i, inv)
      BY <1>6 DEF PerformPayme
    <2>2. /\ inv \in InvoiceRows /\ inv.cycle = invoice[i].cycle /\ inv.total = invoice[i].total
          /\ inv.paid = invoice[i].total /\ inv.state = invoice[i].state
      BY <1>1 DEF InvoiceRows
    <2> HIDE DEF inv
    <2>3. Rewrites(i, inv)
      BY <1>1, <2>2 DEF Rewrites, InvoiceRows, IsLive
    <2> QED BY <2>1, <2>3, ChangeKeeps
  <1> QED BY <1>3, <1>4, <1>5, <1>6

\* A Payme transaction begins or ends: only the flag moves.
LEMMA PendingKeeps ==
    ASSUME BillingAssumption, IInv, NEW i \in Invoices, BeginPayme(i) \/ CancelPayme(i)
    PROVE  Kept
  <1>1. /\ UNCHANGED <<month, due, profile, cycle, manual, monthly, review, waiting, stage>>
        /\ \E b \in BOOLEAN : invoice' = [invoice EXCEPT ![i].pending = b]
    BY DEF BeginPayme, CancelPayme, clockVars
  <1>2. invoice \in [Invoices -> InvoiceRows]
    BY DEF IInv, TypeOK
  <1>3. /\ invoice' \in [Invoices -> InvoiceRows]
        /\ \A j \in Invoices :
              /\ invoice'[j].state = invoice[j].state /\ invoice'[j].cycle = invoice[j].cycle
              /\ invoice'[j].total = invoice[j].total /\ invoice'[j].paid = invoice[j].paid
    BY <1>1, <1>2 DEF InvoiceRows
  <1>4. CyclesMove
    BY <1>1 DEF CyclesMove, NoNewCycle, NotInserted, Stands, SameTerms, Exists, IInv, TypeOK
  <1>5. InvoicesMove
    BY <1>1, <1>3 DEF InvoicesMove, NoNewInvoice, InvoiceStands, Issued, IsLive
  <1>6. \A c \in Cycles : Given(c)' = Given(c)
    BY <1>1 DEF Given
  <1>7. LiveStands'
    BY <1>1, <1>3, <1>6 DEF IInv, LiveStands, LiveStandsAt, IsLive
  <1>8. SatisfiedWasSettled'
    <2> SUFFICES ASSUME NEW d \in Cycles, cycle'[d].state = "satisfied" PROVE Settled(d)'
      BY SatisfiedMeansSettled
    <2>1. Settled(d)
      BY <1>1, SatisfiedMeansSettled DEF IInv
    <2> QED BY <1>1, <1>3, <1>6, <2>1 DEF Settled, IsLive
  <1>9. MoneyHandedOut' /\ ReviewsMove
    BY <1>1 DEF MoneyHandedOut, ReviewsMove, IInv
  <1>10. JobsNamed'
    BY <1>1, <1>3 DEF JobsNamed, Exists, Issued, IInv, RowsNamed
  <1>11. OthersTyped'
    BY <1>1, TypesOfOthers DEF OthersTyped
  <1> QED BY <1>4, <1>5, <1>7, <1>8, <1>9, <1>10, <1>11, ShownMoves DEF Shown

-----------------------------------------------------------------------------
(* The invariant. *)

-----------------------------------------------------------------------------
(* The invariant. *)

LEMMA SumOfNothing ==
    ASSUME NEW f, NEW S, \A r \in S : f[r] = 0
    PROVE  SumOf(f, S) = 0
  <1>1. UNION {Units(f, r) : r \in S} = {}
    BY DEF Units
  <1> QED BY <1>1, FS_EmptySet DEF SumOf

LEMMA IInvInit == ASSUME BillingAssumption, Init PROVE IInv
  <1>1. 1 \in Periods /\ MaxWaiting \in Nat /\ \A m \in Manual : ManualTotal[m] \in Nat
    BY Zenon DEF BillingAssumption
  <1>2. TypeOK
    <2>1. NoCycle \in CycleRows /\ NoInvoice \in InvoiceRows /\ NoReview \in Decisions
      BY DEF NoCycle, CycleRows, NoInvoice, InvoiceRows, NoReview, Decisions
    <2>2. /\ cycle \in [Cycles -> CycleRows] /\ invoice \in [Invoices -> InvoiceRows]
          /\ review \in [Cycles \X Manual -> Decisions]
      BY <2>1 DEF Init
    <2>3. /\ month \in Periods /\ due \in BOOLEAN /\ monthly \in SUBSET Periods
          /\ profile \in [status : {"none", "active", "paused"}, price : Prices \cup {0}]
      BY <1>1 DEF Init
    <2>4. manual \in [Manual -> [state : {"absent", "live", "voided"}, paid : Nat]]
      BY DEF Init
    <2>5. /\ waiting \in [Cycles -> 0..MaxWaiting]
          /\ stage \in [Invoices -> {"none", "waiting", "ran", "dead"}]
      <3>1. 0 \in 0..MaxWaiting
        BY <1>1
      <3> QED BY <3>1 DEF Init
    <2> QED BY <2>2, <2>3, <2>4, <2>5 DEF TypeOK
  <1>3. \A c \in Cycles : ~Exists(c) /\ ~Current(c) /\ cycle[c].state = "absent"
    BY DEF Init, Exists, Current, NoCycle
  <1>4. \A i \in Invoices : ~Issued(i) /\ ~IsLive(i)
    BY DEF Init, Issued, IsLive, NoInvoice
  <1>5. InOrder({c \in Cycles : Exists(c)}) /\ InOrder({i \in Invoices : Issued(i)})
    <2>1. {c \in Cycles : Exists(c)} = 1..0 /\ {i \in Invoices : Issued(i)} = 1..0
      BY <1>3, <1>4
    <2> QED BY <2>1 DEF InOrder
  <1>6. RowsNamed
    <2>1. /\ \A c \in Cycles : waiting[c] = 0
          /\ \A i \in Invoices : stage[i] = "none"
          /\ \A c \in Cycles, m \in Manual : review[<<c, m>>] = NoReview
          /\ profile.status = "none"
      BY DEF Init
    <2> QED BY <1>3, <1>4, <2>1 DEF RowsNamed, JobsNamed
  <1>7. OneCurrent /\ OneLive /\ LiveStands
    BY <1>3, <1>4 DEF OneCurrent, OneLive, LiveStands, LiveStandsAt
  <1>8. SatisfiedWasSettled
    BY <1>3, SatisfiedMeansSettled
  <1>9. MoneyHandedOut
    <2> SUFFICES ASSUME NEW m \in Manual
                 PROVE  manual[m].paid <= ManualTotal[m] /\ Allocated(m, review) <= ManualTotal[m]
      BY DEF MoneyHandedOut
    <2> DEFINE f == [c \in Cycles |-> review[<<c, m>>].amount]
    <2>1. \A c \in Cycles : f[c] = 0
      BY DEF Init, NoReview
    <2> HIDE DEF f
    <2>2. Allocated(m, review) = 0
      BY <2>1, SumOfNothing DEF Allocated, f
    <2>3. manual[m].paid = 0
      BY DEF Init
    <2> QED BY <1>1, <2>2, <2>3
  <1> QED BY <1>2, <1>5, <1>6, <1>7, <1>8, <1>9 DEF IInv

LEMMA StepKept == ASSUME BillingAssumption, IInv, Next PROVE Kept
  <1>1. \A amount \in 1..HighestPrice : amount \in Nat
    BY PriceTypes
  <1>2. CASE Jobs
    BY <1>2, PlanKeeps, RunKeeps, DiesKeeps, StageKeeps DEF Jobs
  <1>3. CASE Schedule
    BY <1>3, FreshKeeps, NextCycleKeeps, CurrentCycleKeeps, PauseKeeps, EnsureKeeps DEF Schedule
  <1>4. CASE Review
    <2>1. PICK c \in Cycles, m \in Manual :
              \/ \E amount \in 1..HighestPrice : ReviewManualInvoice(c, m, "apply", amount)
              \/ ReviewManualInvoice(c, m, "exclude", 0)
              \/ ReverseReview(c, m)
      BY <1>4 DEF Review
    <2>2. CASE \E amount \in 1..HighestPrice : ReviewManualInvoice(c, m, "apply", amount)
      BY <1>1, <2>2, ReviewKeeps
    <2>3. CASE ReviewManualInvoice(c, m, "exclude", 0)
      BY <2>3, ReviewKeeps
    <2> QED BY <2>1, <2>2, <2>3, ReverseKeeps
  <1>5. CASE Money
    <2>1. ASSUME NEW i \in Invoices, NEW amount \in 1..HighestPrice,
                 PayInvoice(i, amount) \/ ReturnMoney(i, amount)
          PROVE  Kept
      BY <1>1, <2>1, InvoiceMoneyKeeps
    <2>2. ASSUME NEW i \in Invoices, VoidInvoice(i) \/ PerformPayme(i)
          PROVE  Kept
      <3>1. 0 \in Nat
        OBVIOUS
      <3> QED BY <2>2, <3>1, InvoiceMoneyKeeps
    <2> QED BY <1>5, <2>1, <2>2, PendingKeeps, ManualKeeps, MonthlyKeeps DEF Money
  <1> QED BY <1>2, <1>3, <1>4, <1>5, TickKeeps DEF Next

LEMMA StutterKept == ASSUME IInv, UNCHANGED vars PROVE IInv'
  <1>1. UNCHANGED <<month, due, profile, cycle, invoice, manual, monthly, review, waiting, stage>>
    BY DEF vars, clockVars
  <1>2. JobsNamed' /\ MoneyHandedOut'
    BY <1>1 DEF JobsNamed, Exists, Issued, IInv, RowsNamed, MoneyHandedOut
  <1>3. OthersTyped'
    BY <1>1, TypesOfOthers DEF OthersTyped
  <1> QED BY <1>1, <1>2, <1>3, QuietKeeps DEF Kept

LEMMA Invariance == ASSUME BillingAssumption PROVE Spec => []IInv
  <1>1. Init => IInv
    BY IInvInit
  <1>2. IInv /\ [Next]_vars => IInv'
    BY StepKept, StutterKept DEF Kept
  <1> QED BY <1>1, <1>2, PTL DEF Spec

-----------------------------------------------------------------------------
(* What a month costs. *)

LEMMA AtMostOne ==
    ASSUME NEW S, \A x, y \in S : x = y
    PROVE  S = {} \/ \E x \in S : S = {x}
  OBVIOUS

LEMMA FewAreOne ==
    ASSUME NEW S, \A x, y \in S : x = y
    PROVE  Cardinality(S) \in {0, 1}
  <1>1. CASE S = {}
    BY <1>1, FS_EmptySet
  <1>2. ASSUME NEW x \in S, S = {x} PROVE Cardinality(S) \in {0, 1}
    BY <1>2, FS_Singleton
  <1> QED BY <1>1, <1>2, AtMostOne

LEMMA OneCharge == IInv => OneChargePerPeriod
  <1> SUFFICES ASSUME IInv, NEW p \in Periods
               PROVE  /\ Cardinality({c \in Cycles : Current(c) /\ cycle[c].period = p}) <= 1
                      /\ Cardinality(LiveFor(p)) + (IF p \in monthly THEN 1 ELSE 0) <= 1
    BY DEF OneChargePerPeriod
  <1>1. Cardinality({c \in Cycles : Current(c) /\ cycle[c].period = p}) \in {0, 1}
    <2> DEFINE S == {c \in Cycles : Current(c) /\ cycle[c].period = p}
    <2>1. \A c, d \in S : c = d
      BY DEF IInv, OneCurrent
    <2> HIDE DEF S
    <2> QED BY <2>1, FewAreOne DEF S
  <1>2. Cardinality(LiveFor(p)) \in {0, 1}
    <2>1. \A i, j \in LiveFor(p) : i = j
      BY DEF IInv, OneLive, LiveFor, IsLive, PeriodOf
    <2> QED BY <2>1, FewAreOne
  <1>3. p \in monthly => Cardinality(LiveFor(p)) = 0
    <2>1. p \in monthly => LiveFor(p) = {}
      BY DEF IInv, OneLive, LiveFor, IsLive, PeriodOf
    <2> QED BY <2>1, FS_EmptySet
  <1> QED BY <1>1, <1>2, <1>3

LEMMA Sound == IInv => MonthsAddUp
  <1> SUFFICES ASSUME IInv PROVE MonthsAddUp
    OBVIOUS
  <1>1. InvoiceAsksTheRest
    BY DEF IInv, RowsNamed, LiveStands, LiveStandsAt, InvoiceAsksTheRest, IsLive, Issued, Given
  <1>2. ReviewsShareTheMoney
    BY DEF IInv, MoneyHandedOut, ReviewsShareTheMoney
  <1> QED BY <1>1, <1>2, OneCharge DEF IInv, MonthsAddUp

\* Whoever edits, issues, reviews or pays, and when: a period has one charge,
\* an invoice asks for what reviews leave, and a satisfied cycle was settled.
THEOREM MonthsCost == ASSUME BillingAssumption PROVE Spec => []MonthsAddUp
  BY Invariance, Sound, PTL

LEMMA SupersededStay ==
    ASSUME BillingAssumption, IInv, Next, NEW c \in Cycles, cycle[c].state = "superseded"
    PROVE  cycle'[c].state = "superseded" /\ LiveInvoices(c, invoice') = {}
  <1>1. IInv' /\ CyclesMove
    BY StepKept DEF Kept
  <1>2. cycle'[c].state = "superseded"
    BY <1>1, EveryCycleStands DEF Stands, Exists
  <1>3. \A i \in Invoices : invoice'[i].state = "live" => invoice'[i].cycle # c
    BY <1>1, <1>2 DEF IInv, LiveStands, LiveStandsAt, IsLive
  <1> QED BY <1>2, <1>3 DEF LiveInvoices

\* A cycle that an edit replaced is never taken up again, and bills nothing.
THEOREM ReplacedForGood == ASSUME BillingAssumption PROVE Spec => ReplacedStaysReplaced
  <1>1. IInv /\ [Next]_vars =>
            [\A c \in Cycles : cycle[c].state = "superseded" =>
                cycle'[c].state = "superseded" /\ LiveInvoices(c, invoice') = {}]_vars
    BY SupersededStay
  <1> QED BY <1>1, Invariance, PTL DEF Spec, ReplacedStaysReplaced

-----------------------------------------------------------------------------
(* The charge of a period, step by step. *)

\* An invoice is the same charge before and after a step.
Alike(i) ==
    /\ invoice'[i].state = "live" <=> IsLive(i)
    /\ IsLive(i) => /\ invoice'[i].cycle = invoice[i].cycle
                    /\ invoice'[i].total = invoice[i].total /\ invoice'[i].paid = invoice[i].paid

ChargeOf(i, p) == IsLive(i) /\ PeriodOf(i) = p
NowChargeOf(i, p) == invoice'[i].state = "live" /\ cycle'[invoice'[i].cycle].period = p

\* Only charges of one period are made, replaced or withdrawn, and nothing was received on them.
MovesOnly(p) ==
    \A i \in Invoices :
        \/ Alike(i)
        \/ /\ IsLive(i) => PeriodOf(i) = p /\ invoice[i].paid = 0
           /\ invoice'[i].state = "live" => NowChargeOf(i, p) /\ invoice'[i].paid = 0
\* The charge of the period moves, while nothing is received on it before or after.
ChargeMoves(p) ==
    /\ MovesOnly(p)
    /\ \A i \in Invoices : ChargeOf(i, p) => invoice[i].paid = 0
    /\ \A i \in Invoices : NowChargeOf(i, p) => invoice'[i].paid = 0
\* Money moves on one invoice.
MoneyMoves(i) ==
    /\ IsLive(i) /\ invoice'[i].state = "live"
    /\ invoice'[i].cycle = invoice[i].cycle /\ invoice'[i].total = invoice[i].total
    /\ \A j \in Invoices \ {i} : Alike(j)

StepOnCharges ==
    \/ \A i \in Invoices : Alike(i)
    \/ \E p \in Periods : ChargeMoves(p)
    \/ \E i \in Invoices : MoneyMoves(i)

LEMMA PeriodNamed ==
    ASSUME IInv, NEW i \in Invoices, IsLive(i)
    PROVE  invoice[i].cycle \in Cycles /\ PeriodOf(i) \in Periods
  BY DEF IInv, RowsNamed, IsLive, Issued, PeriodOf

\* A new invoice is the first charge of its period.
LEMMA IssueMovesCharge ==
    ASSUME IInv, Kept, NEW c \in Cycles, NEW row, WriteIssued(c, row, invoice)
    PROVE  StepOnCharges
  <1>1. CASE ~Bills(c, row, invoice)
    BY <1>1 DEF WriteIssued, StepOnCharges, Alike, IsLive
  <1>2. CASE Bills(c, row, invoice)
    <2>1. PICK i \in Invoices :
              i = NextInvoice /\ invoice' = [invoice EXCEPT ![i] = InvoiceOf(c, row)]
      BY <1>2 DEF WriteIssued
    <2>2. ~Issued(i)
      BY <2>1, NextInvoiceIsNew
    <2>3. /\ invoice'[i].state = "live" /\ invoice'[i].cycle = c /\ invoice'[i].paid = 0
          /\ \A j \in Invoices \ {i} : invoice'[j] = invoice[j]
      BY <2>1 DEF InvoiceOf, IInv, TypeOK
    <2>4. InsertsInvoice(i, c)
      BY <2>1, <2>2, <2>3, NextInvoiceIsNew
         DEF Kept, InvoicesMove, NoNewInvoice, InsertsInvoice, InvoiceStands
    <2>5. PICK p \in Periods : p = cycle'[c].period
      <3>1. cycle'[c].state # "absent"
        BY <2>4 DEF InsertsInvoice
      <3> QED BY <3>1 DEF Kept, IInv, RowsNamed, Exists
    <2>6. \A j \in Invoices \ {i} : Alike(j) /\ ~ChargeOf(j, p) /\ ~NowChargeOf(j, p)
      <3> SUFFICES ASSUME NEW j \in Invoices \ {i}
                   PROVE  Alike(j) /\ ~ChargeOf(j, p) /\ ~NowChargeOf(j, p)
        OBVIOUS
      <3>1. Alike(j)
        BY <2>3 DEF Alike, IsLive
      <3>2. ~ChargeOf(j, p)
        BY <2>3, <2>4, <2>5 DEF InsertsInvoice, ChargeOf, IsLive
      <3>3. ~NowChargeOf(j, p)
        BY <2>3, <3>2, <2>5, SamePeriod DEF Kept, NowChargeOf, ChargeOf, IsLive
      <3> QED BY <3>1, <3>2, <3>3
    <2>7. ~IsLive(i)
      BY <2>2 DEF IsLive, Issued
    <2>8. ChargeMoves(p)
      BY <2>3, <2>5, <2>6, <2>7 DEF ChargeMoves, MovesOnly, ChargeOf, NowChargeOf
    <2> QED BY <2>8 DEF StepOnCharges
  <1> QED BY <1>1, <1>2

\* The cycle of a charge is the current one of its period.
LEMMA ChargeIsCurrent ==
    ASSUME IInv, NEW t \in Cycles, Current(t), NEW i \in Invoices, ChargeOf(i, cycle[t].period)
    PROVE  invoice[i].cycle = t
  <1>1. PICK d \in Cycles : d = invoice[i].cycle /\ Exists(d)
    BY DEF IInv, RowsNamed, ChargeOf, IsLive, Issued
  <1>2. cycle[d].state # "superseded" /\ cycle[d].period = cycle[t].period
    BY <1>1 DEF IInv, LiveStands, LiveStandsAt, ChargeOf, PeriodOf
  <1>3. Current(d)
    BY <1>1, <1>2 DEF Current, Exists
  <1> QED BY <1>1, <1>2, <1>3 DEF IInv, OneCurrent

\* An edit replaces the charge of the period of the cycle it supersedes.
LEMMA ReplaceMovesCharge ==
    ASSUME IInv, Kept, NEW t \in Cycles, Current(t), Replaceable(t),
           NEW c \in Cycles, NEW row, row.period = cycle[t].period,
           cycle'[c].period = row.period, WriteIssued(c, row, Voided(t))
    PROVE  StepOnCharges
  <1>1. PICK p \in Periods : p = cycle[t].period
    BY DEF IInv, RowsNamed, Current, Exists
  <1>2. \A i \in Invoices : ChargeOf(i, p) => invoice[i].cycle = t
    BY <1>1, ChargeIsCurrent
  <1>3. \A i \in Invoices : IsLive(i) /\ invoice[i].cycle = t => invoice[i].paid = 0
    BY DEF Replaceable, Live, LiveInvoices, IsLive
  <1>4. \A i \in Invoices : IsLive(i) /\ invoice[i].cycle = t => PeriodOf(i) = p
    BY <1>1 DEF PeriodOf
  <1> DEFINE Old(i) == invoice'[i] = Voided(t)[i]
             New(i) == /\ ~IsLive(i) /\ invoice'[i].state = "live" /\ invoice'[i].paid = 0
                       /\ NowChargeOf(i, p)
  <1>5. \A i \in Invoices : Old(i) \/ New(i)
    <2>1. CASE ~Bills(c, row, Voided(t))
      BY <2>1 DEF WriteIssued
    <2>2. CASE Bills(c, row, Voided(t))
      <3>1. PICK i \in Invoices :
                i = NextInvoice /\ invoice' = [Voided(t) EXCEPT ![i] = InvoiceOf(c, row)]
        BY <2>2 DEF WriteIssued
      <3>2. ~Issued(i) /\ ~IsLive(i)
        BY <3>1, NextInvoiceIsNew DEF Issued, IsLive
      <3>3. /\ invoice'[i].state = "live" /\ invoice'[i].cycle = c /\ invoice'[i].paid = 0
            /\ \A j \in Invoices \ {i} : Old(j)
        BY <3>1 DEF InvoiceOf, Voided
      <3> QED BY <1>1, <3>2, <3>3 DEF NowChargeOf
    <2> QED BY <2>1, <2>2
  <1>6. ASSUME NEW i \in Invoices, Old(i)
        PROVE  /\ Alike(i) \/ (IsLive(i) /\ invoice[i].cycle = t /\ invoice'[i].state # "live")
               /\ ~NowChargeOf(i, p)
    <2>1. /\ invoice'[i].state = "live" => IsLive(i) /\ invoice[i].cycle # t
          /\ invoice[i].cycle # t => invoice'[i] = invoice[i]
          /\ ~IsLive(i) => invoice'[i].state # "live"
      BY <1>6, VoidedRows
    <2>2. Alike(i) \/ (IsLive(i) /\ invoice[i].cycle = t /\ invoice'[i].state # "live")
      BY <2>1 DEF Alike, IsLive
    <2>3. ~NowChargeOf(i, p)
      BY <1>2, <2>1, SamePeriod DEF Kept, NowChargeOf, ChargeOf
    <2> QED BY <2>2, <2>3
  <1> HIDE DEF Old
  <1>7. ChargeMoves(p)
    BY <1>2, <1>3, <1>4, <1>5, <1>6 DEF ChargeMoves, MovesOnly, ChargeOf
  <1> QED BY <1>7 DEF StepOnCharges

LEMMA VoidMovesCharge ==
    ASSUME IInv, Kept, NEW i \in Invoices, VoidInvoice(i)
    PROVE  StepOnCharges
  <1>1. /\ IsLive(i) /\ invoice[i].paid = 0
        /\ invoice' = [invoice EXCEPT ![i] = [invoice[i] EXCEPT !.state = "voided"]]
    BY DEF VoidInvoice, ChangeInvoice, IsLive
  <1>2. /\ invoice'[i].state = "voided"
        /\ \A j \in Invoices \ {i} : invoice'[j] = invoice[j]
    BY <1>1 DEF IInv, TypeOK, InvoiceRows
  <1>3. PICK p \in Periods : p = PeriodOf(i)
    BY <1>1, PeriodNamed
  <1>4. ASSUME NEW j \in Invoices \ {i}
        PROVE  Alike(j) /\ ~ChargeOf(j, p) /\ ~NowChargeOf(j, p)
    <2>1. Alike(j)
      BY <1>2 DEF Alike, IsLive
    <2>2. ~ChargeOf(j, p)
      BY <1>1, <1>3 DEF IInv, OneLive, ChargeOf
    <2>3. ~NowChargeOf(j, p)
      BY <1>2, <2>2, SamePeriod DEF Kept, NowChargeOf, ChargeOf, IsLive
    <2> QED BY <2>1, <2>2, <2>3
  <1>5. ChargeMoves(p)
    BY <1>1, <1>2, <1>3, <1>4 DEF ChargeMoves, MovesOnly, ChargeOf, NowChargeOf
  <1> QED BY <1>5 DEF StepOnCharges

LEMMA PaymentMovesMoney ==
    ASSUME IInv, NEW i \in Invoices, NEW amount,
           PayInvoice(i, amount) \/ ReturnMoney(i, amount) \/ PerformPayme(i)
    PROVE  StepOnCharges
  <1>1. IsLive(i) /\ invoice[i] \in InvoiceRows
    BY DEF PayInvoice, ReturnMoney, PerformPayme, Open, IsLive, IInv, TypeOK
  <1>2. PICK inv : /\ invoice' = [invoice EXCEPT ![i] = inv] /\ inv.state = invoice[i].state
                   /\ inv.cycle = invoice[i].cycle /\ inv.total = invoice[i].total
    <2> DEFINE more == [invoice[i] EXCEPT !.paid = @ + amount]
               less == [invoice[i] EXCEPT !.paid = @ - amount]
               full == [invoice[i] EXCEPT !.paid = invoice[i].total, !.pending = FALSE]
    <2>1. \E inv \in {more, less, full} : invoice' = [invoice EXCEPT ![i] = inv]
      BY DEF PayInvoice, ReturnMoney, PerformPayme, ChangeInvoice
    <2>2. \A inv \in {more, less, full} :
              /\ inv.state = invoice[i].state
              /\ inv.cycle = invoice[i].cycle /\ inv.total = invoice[i].total
      BY <1>1 DEF InvoiceRows
    <2> HIDE DEF more, less, full
    <2> QED BY <2>1, <2>2
  <1>3. invoice'[i] = inv /\ \A j \in Invoices \ {i} : invoice'[j] = invoice[j]
    BY <1>2 DEF IInv, TypeOK
  <1>4. MoneyMoves(i)
    BY <1>1, <1>2, <1>3 DEF MoneyMoves, Alike, IsLive
  <1> QED BY <1>4 DEF StepOnCharges

LEMMA QuietOnCharges ==
    ASSUME IInv, \/ UNCHANGED invoice
                 \/ \E i \in Invoices : BeginPayme(i) \/ CancelPayme(i)
    PROVE  StepOnCharges
  <1>1. CASE UNCHANGED invoice
    BY <1>1 DEF StepOnCharges, Alike, IsLive
  <1>2. ASSUME NEW i \in Invoices, NEW b, invoice' = [invoice EXCEPT ![i].pending = b]
        PROVE  StepOnCharges
    <2>1. \A j \in Invoices :
              /\ invoice'[j].state = invoice[j].state /\ invoice'[j].cycle = invoice[j].cycle
              /\ invoice'[j].total = invoice[j].total /\ invoice'[j].paid = invoice[j].paid
      BY <1>2 DEF IInv, TypeOK, InvoiceRows
    <2> QED BY <2>1 DEF StepOnCharges, Alike, IsLive
  <1> QED BY <1>1, <1>2 DEF BeginPayme, CancelPayme

LEMMA NextOnCharges == ASSUME BillingAssumption, IInv, Next PROVE StepOnCharges
  <1>0. Kept
    BY StepKept
  <1>1. CASE Jobs
    <2>1. ASSUME PlanBillingCycles \/ \E c \in Cycles : IssueJobDies(c) PROVE UNCHANGED invoice
      BY <2>1 DEF PlanBillingCycles, IssueJobDies
    <2>2. ASSUME NEW c \in Cycles, RunIssueJob(c) PROVE StepOnCharges
      BY <1>0, <2>2, IssueMovesCharge DEF RunIssueJob
    <2>3. ASSUME NEW i \in Invoices, StageRuns(i) PROVE UNCHANGED invoice
      BY <2>3 DEF StageRuns
    <2> QED BY <1>1, <2>1, <2>2, <2>3, QuietOnCharges DEF Jobs
  <1>2. CASE Schedule
    <2>1. ASSUME NEW price \in Prices, ApplyNextCycle(price) \/ Pause(price) PROVE UNCHANGED invoice
      BY <2>1 DEF ApplyNextCycle, Pause
    <2>2. ASSUME NEW price \in Prices, ApplyFresh(price) PROVE StepOnCharges
      <3>1. /\ NextCycle \in Cycles
            /\ WriteIssued(NextCycle, NewCycle(PlannedPeriod, price), invoice)
        BY <2>2 DEF ApplyFresh, BillNow
      <3> QED BY <1>0, <3>1, IssueMovesCharge
    <2>3. ASSUME EnsureCurrentInvoice PROVE StepOnCharges
      <3>1. \E c \in Cycles : \E row : WriteIssued(c, row, invoice)
        BY <2>3 DEF EnsureCurrentInvoice, BillNow
      <3> QED BY <1>0, <3>1, IssueMovesCharge
    <2>4. ASSUME NEW price \in Prices, ApplyCurrentCycle(price) PROVE StepOnCharges
      <3>1. PICK t \in Cycles :
                /\ IsTarget(t) /\ Replaceable(t)
                /\ BillNow(NextCycle, NewCycle(cycle[t].period, price),
                           [cycle EXCEPT ![t] = WithState(@, "superseded")], Voided(t))
        BY <2>4 DEF ApplyCurrentCycle
      <3>2. Current(t) /\ NextCycle \in Cycles
        BY <3>1 DEF IsTarget, Concerned, BillNow
      <3>3. PICK row : row = NewCycle(cycle[t].period, price)
        OBVIOUS
      <3>4. row \in CycleRows /\ row.period = cycle[t].period /\ row.expected = price
            /\ row.state = "scheduled"
        BY <3>2, <3>3, NewCycleRow DEF IInv, RowsNamed, Current, Exists
      <3>5. PICK c \in Cycles : c = NextCycle
        BY <3>2
      <3>6. Replaces(t, c, row)
        BY <3>1, <3>2, <3>3, <3>4, <3>5 DEF Replaces, BillNow, BilledFor
      <3>7. cycle'[c].period = row.period
        BY <3>6, ReplacedRows DEF SameTerms
      <3>8. WriteIssued(c, row, Voided(t))
        BY <3>6 DEF Replaces
      <3> QED BY <1>0, <3>1, <3>2, <3>4, <3>7, <3>8, ReplaceMovesCharge
    <2> QED BY <1>2, <2>1, <2>2, <2>3, <2>4, QuietOnCharges DEF Schedule
  <1>3. CASE Review
    <2>1. ASSUME NEW c, NEW m, NEW decision, NEW amount, ReviewManualInvoice(c, m, decision, amount)
          PROVE  UNCHANGED invoice
      BY <2>1 DEF ReviewManualInvoice
    <2>2. ASSUME NEW c, NEW m, ReverseReview(c, m) PROVE UNCHANGED invoice
      BY <2>2 DEF ReverseReview
    <2>3. UNCHANGED invoice
      BY <1>3, <2>1, <2>2, Zenon DEF Review
    <2> QED BY <2>3, QuietOnCharges
  <1>4. CASE Money
    <2>1. ASSUME ManualMoney \/ MonthlyByHand PROVE UNCHANGED invoice
      BY <2>1 DEF ManualMoney, MonthlyByHand
    <2> QED BY <1>0, <1>4, <2>1, QuietOnCharges, VoidMovesCharge, PaymentMovesMoney DEF Money
  <1>5. CASE Tick
    <2>1. UNCHANGED invoice
      BY <1>5 DEF Tick
    <2> QED BY <2>1, QuietOnCharges
  <1> QED BY <1>1, <1>2, <1>3, <1>4, <1>5 DEF Next

\* What a period owes and received: nothing, or what its one charge says.
Summed(p) ==
    /\ LiveFor(p) = {i \in Invoices : ChargeOf(i, p)}
    /\ LiveFor(p) = {} => Owed(p) = 0 /\ Received(p) = 0
    /\ \A i \in Invoices : ChargeOf(i, p) =>
          /\ LiveFor(p) = {i} /\ Owed(p) = invoice[i].total /\ Received(p) = invoice[i].paid
          /\ Owed(p) \in 1..HighestPrice /\ Received(p) \in 0..Owed(p)

LEMMA ChargeSums ==
    ASSUME BillingAssumption, IInv, NEW p \in Periods
    PROVE  Summed(p)
  <1> DEFINE total == [i \in Invoices |-> invoice[i].total]
             paid == [i \in Invoices |-> invoice[i].paid]
  <1>1. LiveFor(p) = {i \in Invoices : ChargeOf(i, p)}
    BY DEF LiveFor, ChargeOf, IsLive, PeriodOf
  <1>2. Owed(p) = SumOf(total, LiveFor(p)) /\ Received(p) = SumOf(paid, LiveFor(p))
    BY DEF Owed, Received
  <1>3. \A i \in Invoices : /\ total[i] = invoice[i].total /\ paid[i] = invoice[i].paid
                            /\ total[i] \in Nat /\ paid[i] \in Nat
    BY DEF IInv, TypeOK, InvoiceRows
  <1> HIDE DEF total, paid
  <1>4. LiveFor(p) = {} => Owed(p) = 0 /\ Received(p) = 0
    BY <1>2, SumEmpty
  <1>5. ASSUME NEW i \in Invoices, ChargeOf(i, p)
        PROVE  /\ LiveFor(p) = {i} /\ Owed(p) = invoice[i].total /\ Received(p) = invoice[i].paid
               /\ Owed(p) \in 1..HighestPrice /\ Received(p) \in 0..Owed(p)
    <2>1. LiveFor(p) = {i}
      BY <1>1, <1>5 DEF IInv, OneLive, ChargeOf
    <2>2. Owed(p) = invoice[i].total /\ Received(p) = invoice[i].paid
      <3>1. SumOf(total, {i}) = total[i]
        BY <1>3, SumOfOne
      <3>2. SumOf(paid, {i}) = paid[i]
        BY <1>3, SumOfOne
      <3> QED BY <1>2, <1>3, <2>1, <3>1, <3>2
    <2>3. PICK c \in Cycles : c = invoice[i].cycle /\ cycle[c].expected \in Prices
      BY <1>5 DEF IInv, RowsNamed, ChargeOf, IsLive, Issued
    <2>4. /\ 0 < invoice[i].total /\ invoice[i].paid <= invoice[i].total
          /\ invoice[i].total + Given(c) = cycle[c].expected
      BY <1>5, <2>3 DEF IInv, LiveStands, LiveStandsAt, ChargeOf
    <2>5. Given(c) \in Nat
      BY GivenType DEF Given, IInv, TypeOK
    <2>6. cycle[c].expected \in Nat /\ cycle[c].expected <= HighestPrice /\ HighestPrice \in Nat
      BY <2>3, PriceTypes
    <2> QED BY <1>3, <2>1, <2>2, <2>4, <2>5, <2>6
  <1> QED BY <1>1, <1>4, <1>5 DEF Summed

AllSummed == IInv => \A p \in Periods : Summed(p)

LEMMA AllSummedAlways == ASSUME BillingAssumption PROVE []AllSummed
  <1>1. AllSummed
    BY ChargeSums DEF AllSummed
  <1> QED BY <1>1, PTL

LEMMA AllSummedThen == ASSUME BillingAssumption PROVE AllSummed'
  BY AllSummedAlways, PTL

LEMMA ChargeSumsThen ==
    ASSUME BillingAssumption, IInv', NEW p \in Periods
    PROVE  Summed(p)'
  BY AllSummedThen DEF AllSummed

\* A period none of whose charges the step touches.
LEMMA SameCharge ==
    ASSUME BillingAssumption, IInv, Kept, NEW p \in Periods,
           \A i \in Invoices : Alike(i) \/ (~ChargeOf(i, p) /\ ~NowChargeOf(i, p))
    PROVE  Owed(p)' = Owed(p) /\ Received(p)' = Received(p)
  <1>1. Summed(p) /\ Summed(p)'
    BY ChargeSums, ChargeSumsThen DEF Kept
  <1>2. \A i \in Invoices : ChargeOf(i, p) <=> NowChargeOf(i, p)
    BY SamePeriod DEF Kept, Alike, ChargeOf, NowChargeOf
  <1>3. \A i \in Invoices : ChargeOf(i, p)' <=> NowChargeOf(i, p)
    BY DEF ChargeOf, NowChargeOf, IsLive, PeriodOf
  <1>4. CASE \E i \in Invoices : ChargeOf(i, p)
    <2>1. PICK i \in Invoices : ChargeOf(i, p)
      BY <1>4
    <2>2. invoice'[i].total = invoice[i].total /\ invoice'[i].paid = invoice[i].paid
      BY <2>1 DEF Alike, ChargeOf
    <2>3. Owed(p) = invoice[i].total /\ Received(p) = invoice[i].paid
      BY <1>1, <2>1 DEF Summed
    <2>4. Owed(p)' = invoice'[i].total /\ Received(p)' = invoice'[i].paid
      BY <1>1, <1>2, <1>3, <2>1 DEF Summed
    <2> QED BY <2>2, <2>3, <2>4
  <1>5. CASE ~\E i \in Invoices : ChargeOf(i, p)
    <2>1. LiveFor(p) = {} /\ LiveFor(p)' = {}
      BY <1>1, <1>2, <1>3, <1>5 DEF Summed
    <2> QED BY <1>1, <2>1 DEF Summed
  <1> QED BY <1>4, <1>5

LEMMA ChargeMapped ==
    ASSUME BillingAssumption, IInv, Kept, NEW p \in Periods, ChargeMoves(p)
    PROVE  \E amount \in 0..HighestPrice : Charges!Charge(p, amount)
  <1>1. Summed(p) /\ Summed(p)'
    BY ChargeSums, ChargeSumsThen DEF Kept
  <1>2. \A i \in Invoices : ChargeOf(i, p)' <=> NowChargeOf(i, p)
    BY DEF ChargeOf, NowChargeOf, IsLive, PeriodOf
  <1>3. Received(p) = 0
    <2>1. CASE LiveFor(p) = {}
      BY <1>1, <2>1 DEF Summed
    <2>2. CASE LiveFor(p) # {}
      <3>1. PICK i \in Invoices : ChargeOf(i, p)
        BY <1>1, <2>2 DEF Summed
      <3> QED BY <1>1, <3>1 DEF Summed, ChargeMoves
    <2> QED BY <2>1, <2>2
  <1>4. Received(p)' = 0 /\ Owed(p)' \in 0..HighestPrice
    <2>0. HighestPrice \in Nat
      BY PriceTypes
    <2>1. CASE LiveFor(p)' = {}
      BY <1>1, <2>0, <2>1 DEF Summed
    <2>2. CASE LiveFor(p)' # {}
      <3>1. PICK i \in Invoices : NowChargeOf(i, p) /\ ChargeOf(i, p)'
        BY <1>1, <1>2, <2>2 DEF Summed
      <3>2. Received(p)' = invoice'[i].paid /\ Owed(p)' \in 1..HighestPrice
        BY <1>1, <3>1 DEF Summed
      <3> QED BY <2>0, <3>1, <3>2 DEF ChargeMoves
    <2> QED BY <2>1, <2>2
  <1>5. \A q \in Periods \ {p} : Owed(q)' = Owed(q) /\ Received(q)' = Received(q)
    <2> SUFFICES ASSUME NEW q \in Periods \ {p}
                 PROVE  Owed(q)' = Owed(q) /\ Received(q)' = Received(q)
      OBVIOUS
    <2>1. \A i \in Invoices : Alike(i) \/ (~ChargeOf(i, q) /\ ~NowChargeOf(i, q))
      BY DEF ChargeMoves, MovesOnly, ChargeOf, NowChargeOf
    <2> QED BY <2>1, SameCharge
  <1>6. PICK amount \in 0..HighestPrice : amount = Owed(p)'
    BY <1>4
  <1>7. [q \in Periods |-> Owed(q)]' = [[q \in Periods |-> Owed(q)] EXCEPT ![p] = amount]
    BY <1>5, <1>6
  <1>8. UNCHANGED [q \in Periods |-> Received(q)]
    BY <1>3, <1>4, <1>5
  <1>9. Charges!Charge(p, amount)
    BY <1>3, <1>7, <1>8 DEF Charges!Charge
  <1> QED BY <1>9

LEMMA MoneyMapped ==
    ASSUME BillingAssumption, IInv, Kept, NEW i \in Invoices, MoneyMoves(i)
    PROVE  \E p \in Periods, amount \in 0..HighestPrice : Charges!Receive(p, amount)
  <1>1. PICK p \in Periods : p = PeriodOf(i)
    BY PeriodNamed DEF MoneyMoves
  <1>2. ChargeOf(i, p) /\ NowChargeOf(i, p)
    BY <1>1, SamePeriod DEF Kept, MoneyMoves, ChargeOf, NowChargeOf
  <1>3. ChargeOf(i, p)'
    BY <1>2 DEF ChargeOf, NowChargeOf, IsLive, PeriodOf
  <1>4. Summed(p) /\ Summed(p)'
    BY ChargeSums, ChargeSumsThen DEF Kept
  <1>5. /\ Owed(p)' = Owed(p) /\ Owed(p) \in 1..HighestPrice
        /\ Received(p)' \in 0..Owed(p)
    BY <1>2, <1>3, <1>4 DEF Summed, MoneyMoves
  <1>6. \A q \in Periods \ {p} : Owed(q)' = Owed(q) /\ Received(q)' = Received(q)
    <2> SUFFICES ASSUME NEW q \in Periods \ {p}
                 PROVE  Owed(q)' = Owed(q) /\ Received(q)' = Received(q)
      OBVIOUS
    <2>1. \A j \in Invoices : Alike(j) \/ (~ChargeOf(j, q) /\ ~NowChargeOf(j, q))
      BY <1>2 DEF MoneyMoves, ChargeOf, NowChargeOf
    <2> QED BY <2>1, SameCharge
  <1>7. PICK amount \in 0..HighestPrice : amount = Received(p)' /\ amount \in 0..Owed(p)
    <2>1. HighestPrice \in Nat
      BY PriceTypes
    <2> QED BY <1>5, <2>1
  <1>8. [q \in Periods |-> Received(q)]' = [[q \in Periods |-> Received(q)] EXCEPT ![p] = amount]
    BY <1>6, <1>7
  <1>9. UNCHANGED [q \in Periods |-> Owed(q)]
    BY <1>5, <1>6
  <1>10. Charges!Receive(p, amount)
    BY <1>7, <1>8, <1>9 DEF Charges!Receive
  <1> QED BY <1>10

chargeVars == <<[p \in Periods |-> Owed(p)], [p \in Periods |-> Received(p)]>>

LEMMA StepMapped ==
    ASSUME BillingAssumption, IInv, Next
    PROVE  [Charges!Next]_chargeVars
  <1>1. Kept /\ StepOnCharges
    BY StepKept, NextOnCharges
  <1>2. CASE \A i \in Invoices : Alike(i)
    <2>1. \A p \in Periods : Owed(p)' = Owed(p) /\ Received(p)' = Received(p)
      BY <1>1, <1>2, SameCharge
    <2> QED BY <2>1 DEF chargeVars
  <1>3. CASE \E p \in Periods : ChargeMoves(p)
    BY <1>1, <1>3, ChargeMapped DEF Charges!Next
  <1>4. CASE \E i \in Invoices : MoneyMoves(i)
    BY <1>1, <1>4, MoneyMapped DEF Charges!Next
  <1> QED BY <1>1, <1>2, <1>3, <1>4 DEF StepOnCharges

LEMMA StutterMapped == ASSUME UNCHANGED vars PROVE UNCHANGED chargeVars
  BY DEF vars, chargeVars, Owed, Received, LiveFor

LEMMA InitMapped == ASSUME BillingAssumption, Init PROVE Charges!Init
  <1>1. IInv
    BY IInvInit
  <1>2. \A p \in Periods : LiveFor(p) = {}
    BY DEF Init, LiveFor, NoInvoice
  <1>3. \A p \in Periods : Owed(p) = 0 /\ Received(p) = 0
    BY <1>1, <1>2, ChargeSums DEF Summed
  <1> QED BY <1>3 DEF Charges!Init

\* Whatever happens to cycles and invoices, a parent sees one charge a month, which is
\* changed only while nothing was received on it.
THEOREM ChargeByMonth == ASSUME BillingAssumption PROVE Spec => ChargesByTheMonth
  <1>1. Init => Charges!Init
    BY InitMapped
  <1>2. IInv /\ [Next]_vars => [Charges!Next]_chargeVars
    BY StepMapped, StutterMapped
  <1> QED BY <1>1, <1>2, Invariance, PTL
      DEF Spec, ChargesByTheMonth, Charges!Spec, chargeVars

-----------------------------------------------------------------------------
(* Enforcement.                                                             *)

\* The schedule of an invoice that need not be paid is not under way: whoever
\* settles or voids the invoice closes its schedule in the same transaction.
ClosedWithInvoice ==
    \A i \in Billed :
        ledger[i] # "open" => state[i] \in Holds!Closed \cup {"absent"}

HoldsInv == Holds!TypeOK /\ Holds!HoldsOnlyWhileOwed /\ ClosedWithInvoice

-----------------------------------------------------------------------------
(* The outcome of a reconciliation has the right types.                     *)

LEMMA OutcomeType ==
    ASSUME Holds!TypeOK, NEW i \in Billed, NEW l \in {"absent", "open", "settled", "voided"}
    PROVE  /\ Holds!StateAfter(i, l) \in Holds!Closed \cup {"absent", "scheduled", "countdown", "held"}
           /\ Holds!HoldsAfter(i, l) \in SUBSET Accounts
           /\ {i} \X Holds!ToldRestored(i, l) \in SUBSET (Billed \X Accounts)
  BY DEF Holds!TypeOK, Holds!StateAfter, Holds!HoldsAfter, Holds!ToldRestored, Holds!Due,
     Holds!Closed

LEMMA TypeStep == Holds!TypeOK /\ [Holds!Next]_(Holds!vars) => Holds!TypeOK'
  <1> SUFFICES ASSUME Holds!TypeOK, [Holds!Next]_(Holds!vars) PROVE Holds!TypeOK'
    OBVIOUS
  <1>1. ASSUME NEW i \in Billed, Holds!Issue(i) PROVE Holds!TypeOK'
    BY <1>1 DEF Holds!TypeOK, Holds!Issue, Holds!Schedule, Holds!Stages
  <1>2. ASSUME NEW i \in Billed, Holds!IssuePaid(i) PROVE Holds!TypeOK'
    BY <1>2 DEF Holds!TypeOK, Holds!IssuePaid, Holds!Stages, Holds!Closed
  <1>3. ASSUME NEW i \in Billed, NEW l \in {"open", "settled", "voided"}, Holds!MoveMoney(i, l)
        PROVE Holds!TypeOK'
    <2>1. CASE state[i] = "absent"
      BY <1>3, <2>1 DEF Holds!TypeOK, Holds!MoveMoney, Holds!ReconcileInvoice, Holds!Schedule,
         Holds!Stages
    <2>2. CASE state[i] # "absent"
      BY <1>3, <2>2, OutcomeType DEF Holds!TypeOK, Holds!MoveMoney, Holds!ReconcileInvoice
    <2> QED BY <2>1, <2>2
  <1>4. ASSUME NEW i \in Billed, NEW s \in Holds!Stages, Holds!ProcessStage(i, s)
        PROVE Holds!TypeOK'
    <2>1. jobs' \in [Billed -> SUBSET Holds!Stages]
      BY <1>4 DEF Holds!TypeOK, Holds!ProcessStage
    <2>2. CASE ledger[i] # "open"
      <3>1. ledger[i] \in {"absent", "open", "settled", "voided"}
        BY DEF Holds!TypeOK
      <3> QED BY <1>4, <2>1, <2>2, <3>1, OutcomeType DEF Holds!TypeOK, Holds!ProcessStage
    <2>3. CASE ledger[i] = "open"
      BY <1>4, <2>1, <2>3 DEF Holds!TypeOK, Holds!ProcessStage, Holds!ProcessOpen
    <2> QED BY <2>2, <2>3
  <1>5. ASSUME NEW i \in Billed, NEW s \in Holds!Stages, Holds!StageDies(i, s)
        PROVE Holds!TypeOK'
    BY <1>5 DEF Holds!TypeOK, Holds!StageDies
  <1>6. ASSUME NEW i \in Billed, Holds!DeadlinePasses(i) PROVE Holds!TypeOK'
    BY <1>6 DEF Holds!TypeOK, Holds!DeadlinePasses
  <1>7. ASSUME NEW i \in Billed, NEW a \in Accounts, Holds!HouseholdChanges(i, a)
        PROVE Holds!TypeOK'
    BY <1>7 DEF Holds!TypeOK, Holds!HouseholdChanges
  <1>8. ASSUME NEW chosen \in SUBSET Billed, Holds!Bootstrap(chosen) PROVE Holds!TypeOK'
    BY <1>8 DEF Holds!TypeOK, Holds!Bootstrap, Holds!Stages
  <1>9. ASSUME Holds!Reconcile PROVE Holds!TypeOK'
    <2>1. \A i \in Billed : ledger[i] \in {"absent", "open", "settled", "voided"}
      BY DEF Holds!TypeOK
    <2>2. state' \in [Billed -> Holds!Closed \cup {"absent", "scheduled", "countdown", "held"}]
      BY <1>9, <2>1, OutcomeType DEF Holds!TypeOK, Holds!Reconcile
    <2>3. holds' \in [Billed -> SUBSET Accounts]
      BY <1>9, <2>1, OutcomeType DEF Holds!TypeOK, Holds!Reconcile
    <2>4. restored' \in SUBSET (Billed \X Accounts)
      <3>1. Holds!Listed \subseteq Billed
        BY DEF Holds!Listed, Holds!Active
      <3>2. \A i \in Holds!Listed : {i} \X Holds!ToldRestored(i, ledger[i]) \in SUBSET (Billed \X Accounts)
        BY <2>1, <3>1, OutcomeType
      <3> QED BY <1>9, <3>2 DEF Holds!TypeOK, Holds!Reconcile
    <2> QED BY <1>9, <2>2, <2>3, <2>4 DEF Holds!TypeOK, Holds!Reconcile
  <1>10. CASE UNCHANGED Holds!vars
    BY <1>10 DEF Holds!TypeOK, Holds!vars
  <1> QED BY <1>1, <1>2, <1>3, <1>4, <1>5, <1>6, <1>7, <1>8, <1>9, <1>10 DEF Holds!Next

-----------------------------------------------------------------------------
(* One invoice at a time: what each step leaves of its holds.               *)

\* The two conjuncts of the invariant, for one invoice.
InvAt(i) ==
    /\ holds[i] # {} => /\ ledger[i] = "open" /\ passed[i]
                        /\ state[i] \in {"countdown", "held"}
    /\ ledger[i] # "open" => state[i] \in Holds!Closed \cup {"absent"}

LEMMA HoldsPointwise == Holds!HoldsOnlyWhileOwed /\ ClosedWithInvoice <=> \A i \in Billed : InvAt(i)
  BY DEF Holds!HoldsOnlyWhileOwed, ClosedWithInvoice, InvAt

\* Reconciling with the invoice as it now stands establishes the invariant.
LEMMA OutcomeInv ==
    ASSUME Holds!TypeOK, NEW i \in Billed, InvAt(i), state[i] # "absent",
           passed'[i] = passed[i], ledger'[i] \in {"absent", "open", "settled", "voided"},
           state'[i] = Holds!StateAfter(i, ledger'[i]), holds'[i] = Holds!HoldsAfter(i,
           ledger'[i])
    PROVE  InvAt(i)'
  <1>1. CASE ledger'[i] # "open"
    BY <1>1 DEF InvAt, Holds!StateAfter, Holds!HoldsAfter, Holds!Closed
  <1>2. CASE ledger'[i] = "open" /\ Holds!Due(i)
    BY <1>2 DEF InvAt, Holds!StateAfter, Holds!HoldsAfter, Holds!Due
  <1>3. CASE ledger'[i] = "open" /\ ~Holds!Due(i)
    <2>1. holds[i] = {}
      BY <1>3 DEF InvAt, Holds!Due, Holds!Closed
    <2> QED BY <1>3, <2>1 DEF InvAt, Holds!HoldsAfter
  <1> QED BY <1>1, <1>2, <1>3

\* A step that leaves the row of invoice i as it was.
LEMMA UntouchedInv ==
    ASSUME NEW i \in Billed, InvAt(i),
           ledger'[i] = ledger[i], state'[i] = state[i],
           passed'[i] = passed[i], holds'[i] = holds[i]
    PROVE  InvAt(i)'
  BY DEF InvAt

LEMMA IInvStep == HoldsInv /\ [Holds!Next]_(Holds!vars) => HoldsInv'
  <1> SUFFICES ASSUME HoldsInv, [Holds!Next]_(Holds!vars) PROVE HoldsInv'
    OBVIOUS
  <1>t. Holds!TypeOK /\ Holds!TypeOK'
    BY TypeStep DEF HoldsInv
  <1>p. \A k \in Billed : InvAt(k)
    BY HoldsPointwise DEF HoldsInv
  <1> SUFFICES ASSUME NEW k \in Billed PROVE InvAt(k)'
    BY <1>t DEF HoldsInv, Holds!HoldsOnlyWhileOwed, ClosedWithInvoice, InvAt
  <1>1. ASSUME NEW i \in Billed, Holds!Issue(i) PROVE InvAt(k)'
    BY <1>1, <1>t, <1>p DEF Holds!TypeOK, Holds!Issue, Holds!Schedule, InvAt
  <1>2. ASSUME NEW i \in Billed, Holds!IssuePaid(i) PROVE InvAt(k)'
    BY <1>2, <1>t, <1>p DEF Holds!TypeOK, Holds!IssuePaid, InvAt, Holds!Closed
  <1>3. ASSUME NEW i \in Billed, NEW l \in {"open", "settled", "voided"}, Holds!MoveMoney(i, l)
        PROVE InvAt(k)'
    <2>1. CASE k # i
      BY <1>3, <1>t, <1>p, <2>1, UntouchedInv
      DEF Holds!TypeOK, Holds!MoveMoney, Holds!ReconcileInvoice, Holds!Schedule
    <2>2. CASE k = i /\ state[i] = "absent"
      BY <1>3, <1>t, <1>p, <2>2 DEF Holds!TypeOK, Holds!MoveMoney, Holds!ReconcileInvoice,
         Holds!Schedule, InvAt
    <2>3. CASE k = i /\ state[i] # "absent"
      <3>1. /\ passed'[i] = passed[i] /\ ledger'[i] = l
            /\ state'[i] = Holds!StateAfter(i, l) /\ holds'[i] = Holds!HoldsAfter(i, l)
        BY <1>3, <1>t, <2>3 DEF Holds!TypeOK, Holds!MoveMoney, Holds!ReconcileInvoice
      <3> QED BY <1>t, <1>p, <2>3, <3>1, OutcomeInv
    <2> QED BY <2>1, <2>2, <2>3
  <1>4. ASSUME NEW i \in Billed, NEW s \in Holds!Stages, Holds!ProcessStage(i, s)
        PROVE InvAt(k)'
    <2>1. CASE k # i
      <3>1. state'[k] = state[k] /\ holds'[k] = holds[k]
        BY <1>4, <1>t, <2>1 DEF Holds!TypeOK, Holds!ProcessStage, Holds!ProcessOpen
      <3> QED BY <1>4, <1>p, <3>1, UntouchedInv DEF Holds!ProcessStage
    <2>2. CASE k = i /\ ledger[i] # "open" /\ state[i] # "absent"
      <3>1. /\ passed'[i] = passed[i] /\ ledger'[i] = ledger[i]
            /\ state'[i] = Holds!StateAfter(i, ledger'[i]) /\ holds'[i] = Holds!HoldsAfter(i, ledger'[i])
        BY <1>4, <1>t, <2>2 DEF Holds!TypeOK, Holds!ProcessStage
      <3>2. ledger[i] \in {"absent", "open", "settled", "voided"}
        BY <1>t DEF Holds!TypeOK
      <3> QED BY <1>t, <1>p, <2>2, <3>1, <3>2, OutcomeInv
    <2>3. CASE k = i /\ ledger[i] # "open" /\ state[i] = "absent"
      BY <1>4, <1>t, <1>p, <2>3
      DEF Holds!TypeOK, Holds!ProcessStage, InvAt, Holds!StateAfter, Holds!HoldsAfter,
         Holds!Closed
    <2>4. CASE k = i /\ ledger[i] = "open"
      BY <1>4, <1>t, <1>p, <2>4 DEF Holds!TypeOK, Holds!ProcessStage, Holds!ProcessOpen, InvAt
    <2> QED BY <2>1, <2>2, <2>3, <2>4
  <1>5. ASSUME NEW i \in Billed, NEW s \in Holds!Stages, Holds!StageDies(i, s)
        PROVE InvAt(k)'
    BY <1>5, <1>p, UntouchedInv DEF Holds!StageDies
  <1>6. ASSUME NEW i \in Billed, Holds!DeadlinePasses(i) PROVE InvAt(k)'
    BY <1>6, <1>t, <1>p DEF Holds!TypeOK, Holds!DeadlinePasses, InvAt
  <1>7. ASSUME NEW i \in Billed, NEW a \in Accounts, Holds!HouseholdChanges(i, a)
        PROVE InvAt(k)'
    BY <1>7, <1>p, UntouchedInv DEF Holds!HouseholdChanges
  <1>8. ASSUME NEW chosen \in SUBSET Billed, Holds!Bootstrap(chosen) PROVE InvAt(k)'
    BY <1>8, <1>t, <1>p DEF Holds!TypeOK, Holds!Bootstrap, InvAt
  <1>9. ASSUME Holds!Reconcile PROVE InvAt(k)'
    <2>1. CASE k \in Holds!Listed
      <3>1. /\ passed'[k] = passed[k] /\ ledger'[k] = ledger[k]
            /\ state'[k] = Holds!StateAfter(k, ledger'[k]) /\ holds'[k] = Holds!HoldsAfter(k, ledger'[k])
        BY <1>9, <2>1 DEF Holds!Reconcile
      <3>2. state[k] # "absent" /\ ledger[k] \in {"absent", "open", "settled", "voided"}
        BY <1>t, <2>1 DEF Holds!TypeOK, Holds!Listed, Holds!Active
      <3> QED BY <1>t, <1>p, <3>1, <3>2, OutcomeInv
    <2>2. CASE k \notin Holds!Listed
      BY <1>9, <1>p, <2>2, UntouchedInv DEF Holds!Reconcile
    <2> QED BY <2>1, <2>2
  <1>10. CASE UNCHANGED Holds!vars
    BY <1>10, <1>p, UntouchedInv DEF Holds!vars
  <1> QED BY <1>1, <1>2, <1>3, <1>4, <1>5, <1>6, <1>7, <1>8, <1>9, <1>10 DEF Holds!Next

LEMMA HoldsInvInit == Holds!Init => HoldsInv
  <1> SUFFICES ASSUME Holds!Init PROVE HoldsInv
    OBVIOUS
  <1>1. Holds!TypeOK
    BY DEF Holds!Init, Holds!TypeOK
  <1>2. Holds!HoldsOnlyWhileOwed /\ ClosedWithInvoice
    BY DEF Holds!Init, Holds!HoldsOnlyWhileOwed, ClosedWithInvoice
  <1> QED BY <1>1, <1>2 DEF HoldsInv

LEMMA HoldsInvariance == Holds!Spec => []HoldsInv
  BY HoldsInvInit, IInvStep, PTL DEF Holds!Spec

-----------------------------------------------------------------------------
(* The theorems.                                                            *)

\* The variables keep their types.
THEOREM TypeCorrect == Holds!Spec => []Holds!TypeOK
  <1>1. HoldsInv => Holds!TypeOK
    BY DEF HoldsInv
  <1> QED BY HoldsInvariance, <1>1, PTL

\* An account is held only for an overdue invoice that is still to be paid, and
\* by a schedule its payment page shows, whatever the jobs do.
THEOREM HoldsJustified == Holds!Spec => []HoldsOnlyWhileOwed
  <1>1. HoldsInv => HoldsOnlyWhileOwed
    BY DEF HoldsInv, HoldsOnlyWhileOwed
  <1> QED BY HoldsInvariance, <1>1, PTL

\* The step by which an account is let go.
LEMMA ReleaseStep ==
    ASSUME HoldsInv, [Holds!Next]_(Holds!vars), NEW k \in Billed, NEW a \in holds[k], a \notin holds'[k]
    PROVE  ledger'[k] # "open" \/ a \notin household[k]
  <1>t. Holds!TypeOK /\ InvAt(k)
    BY HoldsPointwise DEF HoldsInv
  <1>d. Holds!Due(k)
    BY <1>t DEF InvAt, Holds!Due, Holds!Closed
  <1>1. ASSUME NEW i \in Billed, Holds!Issue(i) PROVE FALSE
    BY <1>1 DEF Holds!Issue
  <1>2. ASSUME NEW i \in Billed, Holds!IssuePaid(i) PROVE FALSE
    BY <1>2 DEF Holds!IssuePaid
  <1>3. ASSUME NEW i \in Billed, NEW l \in {"open", "settled", "voided"}, Holds!MoveMoney(i, l)
        PROVE ledger'[k] # "open" \/ a \notin household[k]
    <2>1. k = i /\ holds'[i] = Holds!HoldsAfter(i, l) /\ ledger'[i] = l
      BY <1>3, <1>t DEF Holds!TypeOK, Holds!MoveMoney, Holds!ReconcileInvoice
    <2> QED BY <1>d, <2>1 DEF Holds!HoldsAfter
  <1>4. ASSUME NEW i \in Billed, NEW s \in Holds!Stages, Holds!ProcessStage(i, s)
        PROVE ledger'[k] # "open" \/ a \notin household[k]
    BY <1>4, <1>t DEF Holds!TypeOK, Holds!ProcessStage, Holds!ProcessOpen
  <1>5. ASSUME NEW i \in Billed, NEW s \in Holds!Stages, Holds!StageDies(i, s) PROVE FALSE
    BY <1>5 DEF Holds!StageDies
  <1>6. ASSUME NEW i \in Billed, Holds!DeadlinePasses(i) PROVE FALSE
    BY <1>6 DEF Holds!DeadlinePasses
  <1>7. ASSUME NEW i \in Billed, NEW b \in Accounts, Holds!HouseholdChanges(i, b) PROVE FALSE
    BY <1>7 DEF Holds!HouseholdChanges
  <1>8. ASSUME NEW chosen \in SUBSET Billed, Holds!Bootstrap(chosen) PROVE FALSE
    BY <1>8 DEF Holds!Bootstrap
  <1>9. ASSUME Holds!Reconcile PROVE ledger'[k] # "open" \/ a \notin household[k]
    BY <1>9, <1>d, <1>t DEF Holds!TypeOK, Holds!Reconcile, Holds!HoldsAfter
  <1>10. CASE UNCHANGED Holds!vars
    BY <1>10 DEF Holds!vars
  <1> QED BY <1>1, <1>2, <1>3, <1>4, <1>5, <1>6, <1>7, <1>8, <1>9, <1>10 DEF Holds!Next

\* "The restriction remains active until payment is completed": only payment, or
\* leaving the household, ends a hold.
THEOREM OnlyPaymentReleases == Holds!Spec => ReleasedOnlyByPayment
  <1>1. HoldsInv /\ [Holds!Next]_(Holds!vars) =>
          [\A i \in Billed : \A a \in holds[i] \ holds'[i] :
               ledger'[i] # "open" \/ a \notin household[i]]_(Holds!vars)
    BY ReleaseStep
  <1> QED BY <1>1, HoldsInvariance, PTL DEF Holds!Spec, ReleasedOnlyByPayment, Holds!ReleasedOnlyByPayment

\* The step by which an account is told that its access is restored.
LEMMA ToldStep ==
    ASSUME HoldsInv, [Holds!Next]_(Holds!vars), NEW k \in Billed, NEW a \in Accounts,
           <<k, a>> \in restored' \ restored, NEW j \in Billed
    PROVE  a \notin holds'[j]
  <1>t. Holds!TypeOK /\ InvAt(k)
    BY HoldsPointwise DEF HoldsInv
  <1>1. ASSUME NEW i \in Billed, Holds!Issue(i) PROVE FALSE
    BY <1>1 DEF Holds!Issue
  <1>2. ASSUME NEW i \in Billed, Holds!IssuePaid(i) PROVE FALSE
    BY <1>2 DEF Holds!IssuePaid
  <1>3. ASSUME NEW i \in Billed, NEW l \in {"open", "settled", "voided"}, Holds!MoveMoney(i, l)
        PROVE a \notin holds'[j]
    <2>1. /\ k = i /\ a \in Holds!ToldRestored(i, l)
          /\ holds' = [holds EXCEPT ![i] = Holds!HoldsAfter(i, l)]
      BY <1>3 DEF Holds!MoveMoney, Holds!ReconcileInvoice
    <2> QED BY <1>t, <2>1 DEF Holds!TypeOK, Holds!ToldRestored, Holds!HoldsAfter
  <1>4. ASSUME NEW i \in Billed, NEW s \in Holds!Stages, Holds!ProcessStage(i, s)
        PROVE a \notin holds'[j]
    <2>1. /\ k = i /\ a \in Holds!ToldRestored(i, ledger[i])
          /\ holds' = [holds EXCEPT ![i] = Holds!HoldsAfter(i, ledger[i])]
      BY <1>4 DEF Holds!ProcessStage
    <2> QED BY <1>t, <2>1 DEF Holds!TypeOK, Holds!ToldRestored, Holds!HoldsAfter
  <1>5. ASSUME NEW i \in Billed, NEW s \in Holds!Stages, Holds!StageDies(i, s) PROVE FALSE
    BY <1>5 DEF Holds!StageDies
  <1>6. ASSUME NEW i \in Billed, Holds!DeadlinePasses(i) PROVE FALSE
    BY <1>6 DEF Holds!DeadlinePasses
  <1>7. ASSUME NEW i \in Billed, NEW b \in Accounts, Holds!HouseholdChanges(i, b) PROVE FALSE
    BY <1>7 DEF Holds!HouseholdChanges
  <1>8. ASSUME NEW chosen \in SUBSET Billed, Holds!Bootstrap(chosen) PROVE FALSE
    BY <1>8 DEF Holds!Bootstrap
  \* The schedule of a settled invoice is closed, so no reconciliation tells anyone.
  <1>9. ASSUME Holds!Reconcile PROVE FALSE
    <2>1. PICK i \in Holds!Listed : <<k, a>> \in {i} \X Holds!ToldRestored(i, ledger[i])
      BY <1>9 DEF Holds!Reconcile
    <2>2. k = i /\ ledger[k] # "open" /\ state[k] = "held"
      BY <2>1 DEF Holds!ToldRestored
    <2> QED BY <1>t, <2>2 DEF InvAt, Holds!Closed
  <1>10. CASE UNCHANGED Holds!vars
    BY <1>10 DEF Holds!vars
  <1> QED BY <1>1, <1>2, <1>3, <1>4, <1>5, <1>6, <1>7, <1>8, <1>9, <1>10 DEF Holds!Next

\* Nobody is told of restored access while another invoice still holds them.
THEOREM ToldAreFree == Holds!Spec => Holds!ToldOnlyWhenFree
  <1>1. HoldsInv /\ [Holds!Next]_(Holds!vars) =>
          [\A i \in Billed, a \in Accounts :
               <<i, a>> \in restored' \ restored => \A j \in Billed : a \notin holds'[j]]_(Holds!vars)
    BY ToldStep
  <1> QED BY <1>1, HoldsInvariance, PTL DEF Holds!Spec, Holds!ToldOnlyWhenFree
=============================================================================
