-------------------------- MODULE LeaveLedgerProofs --------------------------
(* The safety of LeaveLedger for any requests, calendar and policies.  Every *)
(* transaction works on a book; the lemmas say how each step of it may       *)
(* change a book, and the invariants need no more than that.                 *)
EXTENDS LeaveLedger, SetLemmas, FiniteSetTheorems, TLAPS

EntryRecord == [kind : CreditKinds \cup UseKinds, period : Period,
                for : Nat \cup Request, days : Int]
Books == [balance : [Period -> Balance \cup {NoBalance}], ledger : SUBSET EntryRecord]

(* What opening and crediting may do to a book: use is untouched, no        *)
(* entitlement falls, a snapshot stays, and new entries are credits and     *)
(* carried days whose time has come.                                        *)
Kept(a, b) ==
    a # NoBalance =>
        /\ b # NoBalance
        /\ b.used = a.used
        /\ b.entitlement >= a.entitlement
        /\ a.policy # NoPolicy => b.policy = a.policy
Opened(a, b) ==
    a = NoBalance /\ b # NoBalance => b.used = 0 /\ b.entitlement >= 0
InTime(e) ==
    \/ e.kind = "CREDIT" /\ e.for \in 1..today
    \/ e.kind = "CARRY_FORWARD" /\ e.period <= PeriodOf[today]
Grows(x, y) ==
    /\ x.ledger \subseteq y.ledger
    /\ \A e \in y.ledger \ x.ledger : InTime(e)
    /\ \A q \in Period : Kept(x.balance[q], y.balance[q]) /\ Opened(x.balance[q], y.balance[q])

(* Days are few, so their sets can be counted. *)
LEMMA DayFinite ==
    IsFiniteSet(Day) /\ \A S \in SUBSET Day : IsFiniteSet(S) /\ Cardinality(S) \in Nat
<1>1. IsFiniteSet(Day)
  BY LeaveAssumption, FS_Interval DEF Day
<1>2. ASSUME NEW S \in SUBSET Day PROVE IsFiniteSet(S) /\ Cardinality(S) \in Nat
  BY <1>1, <1>2, FS_Subset, FS_CardinalityType
<1> QED BY <1>1, <1>2

(* Periods are numbered. *)
LEMMA PeriodType == Period \subseteq Nat /\ \A d \in Day : PeriodOf[d] \in Period
BY LeaveAssumption DEF Period

(* One transaction may open and credit several balances in a row. *)
LEMMA GrowsTransitive ==
    ASSUME NEW x \in Books, NEW y \in Books, NEW z \in Books, Grows(x, y), Grows(y, z)
    PROVE  Grows(x, z)
<1>1. x.ledger \subseteq z.ledger /\ \A e \in z.ledger \ x.ledger : InTime(e)
  BY DEF Grows
<1>2. ASSUME NEW q \in Period
      PROVE  Kept(x.balance[q], z.balance[q]) /\ Opened(x.balance[q], z.balance[q])
  <2>1. /\ x.balance[q] \in Balance \cup {NoBalance}
        /\ y.balance[q] \in Balance \cup {NoBalance}
        /\ z.balance[q] \in Balance \cup {NoBalance}
    BY DEF Books
  <2>2. /\ Kept(x.balance[q], y.balance[q]) /\ Opened(x.balance[q], y.balance[q])
        /\ Kept(y.balance[q], z.balance[q]) /\ Opened(y.balance[q], z.balance[q])
    BY DEF Grows
  <2> QED BY <2>1, <2>2, NoBalanceAssumption DEF Kept, Opened, Balance
<1> QED BY <1>1, <1>2 DEF Grows

(* Putting one balance in its place. *)
LEMMA PutGrows ==
    ASSUME NEW x \in Books, NEW p \in Period, NEW b \in Balance,
           Kept(x.balance[p], b), Opened(x.balance[p], b),
           NEW l \in SUBSET EntryRecord, x.ledger \subseteq l,
           \A e \in l \ x.ledger : InTime(e),
           NEW y, y = [balance |-> Put(x, p, b), ledger |-> l]
    PROVE  /\ y \in Books
           /\ y.balance[p] = b
           /\ \A q \in Period : q # p => y.balance[q] = x.balance[q]
           /\ Grows(x, y)
<1>1. y \in Books /\ y.balance[p] = b
  BY DEF Books, Put
<1>2. \A q \in Period : q # p => y.balance[q] = x.balance[q]
  BY DEF Put
<1>3. \A q \in Period : Kept(x.balance[q], x.balance[q]) /\ Opened(x.balance[q], x.balance[q])
  BY DEF Kept, Opened, Books, Balance
<1>4. \A q \in Period : Kept(x.balance[q], y.balance[q]) /\ Opened(x.balance[q], y.balance[q])
  BY <1>1, <1>2, <1>3
<1>5. x.ledger \subseteq y.ledger /\ \A e \in y.ledger \ x.ledger : InTime(e)
  OBVIOUS
<1> QED BY <1>1, <1>2, <1>4, <1>5 DEF Grows

(* No number of credits takes days away. *)
LEMMA CreditedType ==
    ASSUME NEW b \in Balance, b.policy # NoPolicy, NEW n \in Nat
    PROVE  Credited(b, n) \in Nat
<1>1. b.policy.days \in Nat /\ b.policy.cap \in Nat \cup {NoLimit} /\ Available(b) \in Int
  BY DEF Balance, PolicyRecord, Available
<1>2. n * b.policy.days \in Nat
  <2> DEFINE k == b.policy.days
  <2>1. k \in Nat BY <1>1
  <2> HIDE DEF k
  <2>2. n * k \in Nat BY <2>1
  <2> QED BY <2>2 DEF k
<1> HIDE DEF Available
<1>3. CASE b.policy.cap = NoLimit
  BY <1>2, <1>3 DEF Credited
<1>4. CASE b.policy.cap # NoLimit
  BY <1>1, <1>2, <1>4 DEF Credited, Smaller, Larger
<1> QED BY <1>3, <1>4

(* accrue(): crediting one balance. *)
LEMMA AccrueGrows ==
    ASSUME today \in Day, NEW x \in Books, NEW p \in Period, x.balance[p] # NoBalance
    PROVE  /\ Accrue(x, p) \in Books
           /\ Accrue(x, p).balance[p] # NoBalance
           /\ \A q \in Period : q # p => Accrue(x, p).balance[q] = x.balance[q]
           /\ Grows(x, Accrue(x, p))
<1> DEFINE b == x.balance[p]
           due == DueCredits(x, p)
           upTo(d) == Cardinality({c \in due : c <= d})
           c == [b EXCEPT !.entitlement = @ + Credited(b, Cardinality(due))]
           es == {Entry("CREDIT", p, d, Credited(b, upTo(d)) - Credited(b, upTo(d) - 1))
                     : d \in due}
           y == [balance |-> Put(x, p, c), ledger |-> x.ledger \cup es]
<1>1. b \in Balance
  BY DEF Books
<1>2. CASE b.manual \/ b.policy = NoPolicy
  <2>1. Accrue(x, p) = x
    BY <1>2 DEF Accrue
  <2> QED BY <2>1 DEF Grows, Kept, Opened, Books, Balance
<1>3. CASE ~(b.manual \/ b.policy = NoPolicy)
  <2>1. Accrue(x, p) = y
    BY <1>3 DEF Accrue
  <2>2. b.policy \in PolicyRecord /\ due \in SUBSET Day
    BY <1>1, <1>3 DEF Balance, DueCredits, PolicyRecord
  <2>3. Credited(b, Cardinality(due)) \in Nat
    BY <1>1, <1>3, <2>2, DayFinite, CreditedType
  <2>4. c \in Balance /\ Kept(b, c) /\ Opened(b, c)
    <3> DEFINE k == Credited(b, Cardinality(due))
    <3>1. k \in Nat
      BY <2>3
    <3> HIDE DEF k
    <3>2. [b EXCEPT !.entitlement = @ + k] \in Balance
      BY <1>1, <3>1 DEF Balance
    <3>3. Kept(b, [b EXCEPT !.entitlement = @ + k])
      BY <1>1, <3>1, <3>2, NoBalanceAssumption DEF Balance, Kept
    <3> QED BY <3>2, <3>3 DEF Opened, k
  <2>5. ASSUME NEW d \in due
        PROVE  /\ Entry("CREDIT", p, d, Credited(b, upTo(d)) - Credited(b, upTo(d) - 1))
                      \in EntryRecord
               /\ d <= today
    <3>1. d \in Day /\ d \in Nat /\ d <= today
      BY <2>2, <2>5 DEF DueCredits, Day
    <3>2. {k \in due : k <= d} \in SUBSET Day
      BY <2>2
    <3>3. upTo(d) \in Nat /\ upTo(d) # 0
      <4>1. IsFiniteSet({k \in due : k <= d}) /\ d \in {k \in due : k <= d}
        BY <3>1, <3>2, <2>5, DayFinite
      <4> HIDE DEF due
      <4>2. {k \in due : k <= d} # {}
        BY <4>1
      <4> QED BY <4>1, <4>2, FS_EmptySet, FS_CardinalityType
    <3>4. Credited(b, upTo(d)) \in Nat /\ Credited(b, upTo(d) - 1) \in Nat
      BY <1>1, <1>3, <3>3, CreditedType
    <3> QED BY <3>1, <3>4 DEF Entry, EntryRecord, CreditKinds
  <2>6. es \in SUBSET EntryRecord /\ \A e \in es : InTime(e)
    <3>1. ASSUME NEW e \in es PROVE e \in EntryRecord /\ InTime(e)
      <4>1. PICK d \in due : e = Entry("CREDIT", p, d,
                                     Credited(b, upTo(d)) - Credited(b, upTo(d) - 1))
        BY <3>1
      <4>2. e.kind = "CREDIT" /\ e.for = d
        BY <4>1 DEF Entry
      <4>3. d \in Day /\ d <= today
        BY <2>2, <2>5
      <4> HIDE DEF due
      <4>4. d \in 1..today
        BY <4>3, LeaveAssumption DEF Day
      <4> QED BY <4>1, <4>2, <4>4, <2>5 DEF InTime
    <3> QED BY <3>1
  <2>7. /\ y \in Books /\ y.balance[p] = c /\ Grows(x, y)
        /\ \A q \in Period : q # p => y.balance[q] = x.balance[q]
    <3>1. x.ledger \in SUBSET EntryRecord
      BY DEF Books
    <3> HIDE DEF c, es
    <3> QED BY <2>4, <2>6, <3>1, PutGrows
  <2>8. c # NoBalance
    BY <2>4, NoBalanceAssumption
  <2> QED BY <2>1, <2>7, <2>8
<1> QED BY <1>2, <1>3

(* The first half of ensure(): opening a balance, with what is carried into it. *)
LEMMA OpenGrows ==
    ASSUME TypeOK, NEW x \in Books, NEW p \in Period, x.balance[p] = NoBalance
    PROVE  /\ Open(x, p) \in Books
           /\ Open(x, p).balance[p] # NoBalance
           /\ Grows(x, Open(x, p))
<1>1. today \in Day /\ policy \in PolicyRecord \cup {NoPolicy} /\ PeriodOf[today] \in Nat
  BY LeaveAssumption DEF TypeOK
<1>2. NewBalance \in Balance /\ NewBalance.used = 0 /\ NewBalance.entitlement = 0
  <2>1. Uncapped \in PolicyRecord
    BY DEF Uncapped, PolicyRecord
  <2> QED BY <1>1, <2>1 DEF NewBalance, Balance
<1>3. NewBalance # NoBalance
  BY <1>2, NoBalanceAssumption
<1> DEFINE new == [balance |-> Put(x, p, NewBalance), ledger |-> x.ledger]
<1>4. new \in Books /\ new.balance[p] = NewBalance /\ Grows(x, new)
  <2>1. x.ledger \in SUBSET EntryRecord
    BY DEF Books
  <2>2. Kept(x.balance[p], NewBalance) /\ Opened(x.balance[p], NewBalance)
    BY <1>2 DEF Kept, Opened
  <2>3. \A e \in x.ledger \ x.ledger : InTime(e)
    OBVIOUS
  <2> QED BY <1>2, <2>1, <2>2, <2>3, PutGrows
<1>5. CASE ~Carries(x, p)
  BY <1>3, <1>4, <1>5 DEF Open
<1>6. CASE Carries(x, p)
  <2> DEFINE prior == Accrue(new, p - 1)
             days == CarriedDays(prior.balance[p - 1])
             b == [NewBalance EXCEPT !.entitlement = days]
             es == {Entry("CARRY_FORWARD", p, p, days)}
             y == [balance |-> Put(prior, p, b), ledger |-> prior.ledger \cup es]
  <2>1. Open(x, p) = y
    BY <1>6 DEF Open
  <2>2. p - 1 \in Period /\ p - 1 # p /\ p \in Nat
    BY <1>6, PeriodType DEF Carries
  <2>3. new.balance[p - 1] # NoBalance
    BY <1>6, <2>2 DEF Carries, Put
  <2>4. /\ prior \in Books /\ prior.balance[p - 1] # NoBalance /\ Grows(new, prior)
        /\ prior.balance[p] = NewBalance
    BY <1>1, <1>4, <2>2, <2>3, AccrueGrows
  <2>5. days \in Nat
    <3> HIDE DEF prior
    <3>1. prior.balance[p - 1] \in Balance
      BY <2>2, <2>4 DEF Books
    <3>2. Available(prior.balance[p - 1]) \in Int
      BY <3>1 DEF Balance, Available
    <3>3. policy.maxCarry \in Nat /\ policy.cap \in Nat \cup {NoLimit}
      BY <1>1, <1>6 DEF Carries, PolicyRecord
    <3> QED BY <3>2, <3>3 DEF CarriedDays, Smaller, Larger
  <2>6. b \in Balance /\ b.used = 0 /\ b.entitlement = days
    BY <1>2, <2>5 DEF Balance
  <2>7. Kept(prior.balance[p], b) /\ Opened(prior.balance[p], b)
    BY <1>2, <1>3, <2>4, <2>5, <2>6, NoBalanceAssumption DEF Kept, Opened
  <2>8. es \in SUBSET EntryRecord /\ \A e \in es : InTime(e)
    BY <1>6, <2>2, <2>5 DEF EntryRecord, CreditKinds, Entry, InTime, Carries
  <2>9. y \in Books /\ y.balance[p] = b /\ Grows(prior, y)
    <3> HIDE DEF b, es, prior
    <3>1. prior.ledger \in SUBSET EntryRecord
      BY <2>4 DEF Books
    <3> QED BY <2>4, <2>6, <2>7, <2>8, <3>1, PutGrows
  <2>10. Grows(x, y)
    <3> HIDE DEF new, prior, y
    <3> QED BY <1>4, <2>4, <2>9, GrowsTransitive
  <2> QED BY <2>1, <2>6, <2>9, <2>10, NoBalanceAssumption
<1> QED BY <1>5, <1>6

(* ensure() as a whole. *)
LEMMA EnsureGrows ==
    ASSUME TypeOK, NEW x \in Books, NEW p \in Period
    PROVE  /\ Ensure(x, p) \in Books
           /\ Ensure(x, p).balance[p] # NoBalance
           /\ Grows(x, Ensure(x, p))
<1> DEFINE y == IF x.balance[p] = NoBalance THEN Open(x, p)
                ELSE IF x.balance[p].policy = NoPolicy THEN Configured(x, p)
                ELSE x
<1>1. y \in Books /\ y.balance[p] # NoBalance /\ Grows(x, y)
  <2>1. CASE x.balance[p] = NoBalance
    BY <2>1, OpenGrows
  <2>2. CASE x.balance[p] # NoBalance /\ x.balance[p].policy = NoPolicy
    <3> DEFINE b == [x.balance[p] EXCEPT !.policy = policy]
    <3>1. x.balance[p] \in Balance /\ policy \in PolicyRecord \cup {NoPolicy}
      BY <2>2, LeaveAssumption DEF Books, TypeOK
    <3>2. b \in Balance /\ Kept(x.balance[p], b) /\ Opened(x.balance[p], b)
      BY <2>2, <3>1, NoBalanceAssumption DEF Balance, Kept, Opened
    <3>3. x.ledger \in SUBSET EntryRecord
      BY DEF Books
    <3>4. y = [balance |-> Put(x, p, b), ledger |-> x.ledger]
      BY <2>2 DEF Configured
    <3>5. y \in Books /\ y.balance[p] = b /\ Grows(x, y)
      <4> HIDE DEF y, b
      <4> QED BY <3>2, <3>3, <3>4, PutGrows
    <3> QED BY <3>2, <3>5, NoBalanceAssumption
  <2>3. CASE x.balance[p] # NoBalance /\ x.balance[p].policy # NoPolicy
    BY <2>3 DEF Grows, Kept, Opened, Books, Balance
  <2> QED BY <2>1, <2>2, <2>3
<1>2. Ensure(x, p) = Accrue(y, p) /\ today \in Day
  BY DEF Ensure, TypeOK
<1> HIDE DEF y
<1>3. /\ Accrue(y, p) \in Books
      /\ Accrue(y, p).balance[p] # NoBalance
      /\ Grows(y, Accrue(y, p))
  BY <1>1, <1>2, AccrueGrows
<1> QED BY <1>1, <1>2, <1>3, GrowsTransitive

(* The periods of one request. *)
AtMostTwo(ps) == \A a, b, c \in ps : a = b \/ b = c \/ a = c

LEMMA EarliestLatest ==
    ASSUME NEW ps \in SUBSET Nat, ps # {}, AtMostTwo(ps)
    PROVE  Earliest(ps) \in ps /\ Latest(ps) \in ps /\ ps = {Earliest(ps), Latest(ps)}
<1>1. PICK a \in ps : TRUE
  OBVIOUS
<1>2. PICK b \in ps : ps = {a, b}
  <2>1. CASE \A b \in ps : b = a
    BY <1>1, <2>1
  <2>2. CASE \E b \in ps : b # a
    <3>1. PICK b \in ps : b # a
      BY <2>2
    <3>2. \A c \in ps : c = a \/ c = b
      BY <1>1, <3>1 DEF AtMostTwo
    <3> QED BY <1>1, <3>1, <3>2
  <2> QED BY <2>1, <2>2
<1>3. \E p \in ps : \A q \in ps : p <= q
  BY <1>2
<1>4. \E p \in ps : \A q \in ps : q <= p
  BY <1>2
<1>5. Earliest(ps) \in ps /\ \A q \in ps : Earliest(ps) <= q
  BY <1>3 DEF Earliest
<1>6. Latest(ps) \in ps /\ \A q \in ps : q <= Latest(ps)
  BY <1>4 DEF Latest
<1>7. ASSUME NEW q \in ps PROVE q = Earliest(ps) \/ q = Latest(ps)
  <2>1. q = Earliest(ps) \/ Earliest(ps) = Latest(ps) \/ q = Latest(ps)
    BY <1>5, <1>6, <1>7 DEF AtMostTwo
  <2>2. Earliest(ps) <= q /\ q <= Latest(ps)
    BY <1>5, <1>6, <1>7
  <2>3. q \in Nat /\ Earliest(ps) \in Nat /\ Latest(ps) \in Nat
    BY <1>5, <1>6, <1>7
  <2> QED BY <2>1, <2>2, <2>3
<1> QED BY <1>5, <1>6, <1>7

(* The balances of one request, opened in the order of its dates. *)
LEMMA EnsureAllGrows ==
    ASSUME TypeOK, NEW ps \in SUBSET Period, ps # {}, AtMostTwo(ps)
    PROVE  /\ EnsureAll(ps) \in Books
           /\ \A p \in ps : EnsureAll(ps).balance[p] # NoBalance
           /\ Grows(Book, EnsureAll(ps))
<1> DEFINE p == Earliest(ps)
           q == Latest(ps)
           x == Ensure(Book, p)
           y == Ensure(x, q)
<1>1. p \in Period /\ q \in Period /\ ps = {p, q}
  BY PeriodType, EarliestLatest
<1>2. Book \in Books
  BY DEF Book, Books, TypeOK, EntryRecord
<1>3. x \in Books /\ x.balance[p] # NoBalance /\ Grows(Book, x)
  BY <1>1, <1>2, EnsureGrows
<1>4. y \in Books /\ y.balance[q] # NoBalance /\ Grows(x, y)
  BY <1>1, <1>3, EnsureGrows
<1>5. y.balance[p] # NoBalance
  BY <1>1, <1>3, <1>4 DEF Grows, Kept
<1>6. Grows(Book, y)
  BY <1>2, <1>3, <1>4, GrowsTransitive
<1>7. EnsureAll(ps) = IF p = q THEN x ELSE y
  BY DEF EnsureAll
<1> HIDE DEF p, q, x, y
<1> QED BY <1>1, <1>3, <1>4, <1>5, <1>6, <1>7

----------------------------------------------------------------------------
(* The invariant *)

(* Who deductions and refunds belong to: a request that was approved after  *)
(* the migration has one deduction in a period, on a balance that exists,   *)
(* and a refund only once it is cancelled.                                  *)
Deductions == {e \in ledger : e.kind = "DEDUCTION"}
Refunds == {e \in ledger : e.kind = "REFUND"}
Debited ==
    /\ \A e \in Deductions :
          /\ e.for \in Request \ legacy
          /\ status[e.for] \in {"APPROVED", "CANCELLED"}
          /\ balance[e.period] # NoBalance
          /\ e.days <= 0
    /\ \A e \in Refunds : e.for \in Request /\ status[e.for] = "CANCELLED"
    /\ \A e, f \in Deductions : e.for = f.for /\ e.period = f.period => e = f
    /\ legacy # {} => balance[PeriodOf[1]] # NoBalance
    /\ \A r \in legacy : status[r] \in {"APPROVED", "CANCELLED"}

IInv ==
    /\ TypeOK
    /\ Debited
    /\ RefundedWhenCancelled
    /\ NoOverspend
    /\ NotEarly

(* What a request charges. *)
LEMMA DaysType ==
    ASSUME TypeOK, NEW r \in Request
    PROVE  /\ ChargedDays(r) \in Nat
           /\ \A p \in Period : DaysIn(r, p) \in Nat
           /\ Chargeable(r) \in SUBSET Day
<1>1. span[r] \in SUBSET Day
  <2>1. span[r] \in Span \cup {{}, {1}} /\ 1 \in Day
    BY LeaveAssumption DEF TypeOK, Day
  <2>2. Span \in SUBSET (SUBSET Day)
    BY LeaveAssumption
  <2> QED BY <2>1, <2>2
<1>2. Chargeable(r) \in SUBSET Day
  BY <1>1 DEF Chargeable
<1>3. PerDay(r) = 1 \/ PerDay(r) = 2
  BY DEF PerDay
<1>4. ASSUME NEW S \in SUBSET Chargeable(r) PROVE PerDay(r) * Cardinality(S) \in Nat
  <2>1. Cardinality(S) \in Nat
    BY <1>2, <1>4, DayFinite
  <2> HIDE DEF PerDay
  <2> QED BY <1>3, <2>1
<1>5. ChargedDays(r) \in Nat
  BY <1>4 DEF ChargedDays
<1>6. ASSUME NEW p \in Period PROVE DaysIn(r, p) \in Nat
  BY <1>4 DEF DaysIn
<1> QED BY <1>2, <1>5, <1>6

(* What an approval does to the book. *)
LEMMA ApproveBook ==
    ASSUME TypeOK, NEW r \in Request, Touched(r) # {}
    PROVE  /\ Touched(r) \in SUBSET Period
           /\ EnsureAll(Touched(r)) \in Books
           /\ \A p \in Touched(r) : EnsureAll(Touched(r)).balance[p] # NoBalance
           /\ Grows(Book, EnsureAll(Touched(r)))
<1>1. Touched(r) \in SUBSET Period
  BY DaysType, PeriodType DEF Touched
<1>2. \A a, b, c \in span[r] :
          PeriodOf[a] = PeriodOf[b] \/ PeriodOf[b] = PeriodOf[c] \/ PeriodOf[a] = PeriodOf[c]
  <2>1. CASE span[r] \in Span
    BY <2>1, LeaveAssumption
  <2>2. CASE span[r] \in {{}, {1}}
    BY <2>2
  <2> QED BY <2>1, <2>2 DEF TypeOK
<1>3. AtMostTwo(Touched(r))
  BY <1>2 DEF AtMostTwo, Touched, Chargeable
<1> QED BY <1>1, <1>3, EnsureAllGrows

(* The book a transaction starts from. *)
LEMMA BookType == TypeOK => Book \in Books
BY DEF Book, Books, TypeOK, EntryRecord

(* Before and right after the migration. *)
LEMMA InitIInv == Init => IInv
<1> SUFFICES ASSUME Init PROVE IInv
  OBVIOUS
<1>1. 1 \in Day /\ PeriodOf[1] \in Period /\ today = 1
  BY LeaveAssumption, PeriodType DEF Init, Day
<1>2. PeriodOf[1] \in Nat /\ LegacyUse \in Nat /\ -LegacyUse \in Int
  BY <1>1, PeriodType, LeaveAssumption
<1> DEFINE b == [entitlement |-> LegacyUse, used |-> LegacyUse, manual |-> TRUE,
                 policy |-> NoPolicy]
<1>3. b \in Balance /\ b # NoBalance /\ b.used = b.entitlement
  <2>1. b.used = b.entitlement
    OBVIOUS
  <2>2. LegacyUse \in Int /\ TRUE \in BOOLEAN /\ NoPolicy \in PolicyRecord \cup {NoPolicy}
    BY <1>2
  <2>3. b \in Balance
    BY <2>2 DEF Balance
  <2> QED BY <2>1, <2>3, NoBalanceAssumption
<1>4. /\ balance = [p \in Period |-> IF legacy # {} /\ p = PeriodOf[1] THEN b ELSE NoBalance]
      /\ ledger \in SUBSET {Entry("OPENING", PeriodOf[1], PeriodOf[1], LegacyUse),
                            Entry("LEGACY_USED", PeriodOf[1], PeriodOf[1], -LegacyUse)}
  BY DEF Init
<1> HIDE DEF b
<1>5. ledger \in SUBSET EntryRecord
  BY <1>1, <1>2, <1>4 DEF EntryRecord, Entry, CreditKinds, UseKinds
<1>6. \A e \in ledger : e.kind \in {"OPENING", "LEGACY_USED"}
  BY <1>4 DEF Entry
<1>7. TypeOK
  <2>1. policy \in Policy \cup {NoPolicy} /\ legacy \in SUBSET Request /\ allocations \in Nat
    BY DEF Init
  <2>2. balance \in [Period -> Balance \cup {NoBalance}]
    BY <1>3, <1>4
  <2>3. status \in [Request -> {"NONE", "PENDING", "APPROVED", "REJECTED", "CANCELLED"}]
    BY DEF Init
  <2>4. /\ span \in [Request -> Span \cup {{}, {1}}]
        /\ half \in [Request -> Half]
        /\ charged \in [Request -> Nat]
    BY <1>2 DEF Init, Half
  <2> QED BY <1>1, <1>5, <2>1, <2>2, <2>3, <2>4 DEF TypeOK, EntryRecord
<1>8. Debited
  <2>1. Deductions = {} /\ Refunds = {}
    BY <1>6 DEF Deductions, Refunds
  <2>2. legacy # {} => balance[PeriodOf[1]] # NoBalance
    BY <1>1, <1>3, <1>4
  <2>3. \A r \in legacy : status[r] \in {"APPROVED", "CANCELLED"}
    BY <1>7 DEF Init, TypeOK
  <2> QED BY <2>1, <2>2, <2>3 DEF Debited
<1>9. NoOverspend
  BY <1>2, <1>3, <1>4 DEF NoOverspend, Exist, b
<1> QED BY <1>6, <1>7, <1>8, <1>9 DEF IInv, RefundedWhenCancelled, NotEarly

----------------------------------------------------------------------------
(* A transaction that reads a book in order and writes what grew from it. *)

LEMMA GrownIsSafe ==
    ASSUME TypeOK, NoOverspend, NEW y \in Books, Grows(Book, y)
    PROVE  \A q \in Period :
             /\ y.balance[q] \in Balance \cup {NoBalance}
             /\ balance[q] # NoBalance => y.balance[q] # NoBalance
             /\ y.balance[q] # NoBalance /\ Enforced(y.balance[q]) =>
                    y.balance[q].used <= y.balance[q].entitlement
<1> TAKE q \in Period
<1>1. /\ balance[q] \in Balance \cup {NoBalance}
      /\ y.balance[q] \in Balance \cup {NoBalance}
      /\ Kept(balance[q], y.balance[q]) /\ Opened(balance[q], y.balance[q])
  BY DEF TypeOK, Books, Grows, Book
<1>2. balance[q] # NoBalance /\ Enforced(balance[q]) => balance[q].used <= balance[q].entitlement
  BY DEF NoOverspend, Exist
<1> QED BY <1>1, <1>2 DEF Kept, Opened, Enforced, Balance

(* The entries that opening and crediting adds. *)
LEMMA GrownLedger ==
    ASSUME TypeOK, NotEarly, NEW y \in Books, Grows(Book, y)
    PROVE  /\ y.ledger \in SUBSET EntryRecord
           /\ ledger \subseteq y.ledger
           /\ \A e \in y.ledger : e \in ledger \/ e.kind \in {"CREDIT", "CARRY_FORWARD"}
           /\ \A e \in y.ledger :
                 /\ e.kind = "CREDIT" => e.for \in 1..today
                 /\ e.kind = "CARRY_FORWARD" => e.period <= PeriodOf[today]
BY DEF Books, Grows, Book, InTime, NotEarly

(* own(): reading one's balances. *)
LEMMA ReadOwnStep ==
    ASSUME IInv, ReadOwn
    PROVE  IInv'
<1> DEFINE y == Ensure(Book, PeriodOf[today])
<1>1. /\ TypeOK /\ Debited /\ RefundedWhenCancelled /\ NoOverspend /\ NotEarly
      /\ balance' = y.balance /\ ledger' = y.ledger
      /\ UNCHANGED <<today, policy, status, span, half, charged, legacy, allocations>>
  BY DEF IInv, ReadOwn, Write, requestVars
<1>2. y \in Books /\ Grows(Book, y)
  BY <1>1, BookType, EnsureGrows, PeriodType DEF TypeOK
<1> HIDE DEF y
<1>3. \A q \in Period :
         /\ y.balance[q] \in Balance \cup {NoBalance}
         /\ balance[q] # NoBalance => y.balance[q] # NoBalance
         /\ y.balance[q] # NoBalance /\ Enforced(y.balance[q]) =>
                y.balance[q].used <= y.balance[q].entitlement
  BY <1>1, <1>2, GrownIsSafe
<1>4. /\ y.ledger \in SUBSET EntryRecord
      /\ ledger \subseteq y.ledger
      /\ \A e \in y.ledger : e \in ledger \/ e.kind \in {"CREDIT", "CARRY_FORWARD"}
      /\ \A e \in y.ledger :
            /\ e.kind = "CREDIT" => e.for \in 1..today
            /\ e.kind = "CARRY_FORWARD" => e.period <= PeriodOf[today]
  BY <1>1, <1>2, GrownLedger
<1>5. TypeOK'
  BY <1>1, <1>2, <1>4 DEF TypeOK, Books, EntryRecord
<1>6. Debited'
  <2>1. \A e \in ledger : e.period \in Period
    BY <1>1 DEF TypeOK
  <2>2. PeriodOf[1] \in Period
    BY PeriodType, LeaveAssumption DEF Day
  <2> QED BY <1>1, <1>3, <1>4, <2>1, <2>2 DEF Debited, Deductions, Refunds
<1>7. RefundedWhenCancelled'
  BY <1>1, <1>4 DEF RefundedWhenCancelled
<1>8. NoOverspend'
  BY <1>1, <1>3 DEF NoOverspend, Exist, Enforced
<1>9. NotEarly'
  BY <1>1, <1>4 DEF NotEarly
<1> QED BY <1>5, <1>6, <1>7, <1>8, <1>9 DEF IInv

(* applyDecision() for an approval. *)
LEMMA ApproveStep ==
    ASSUME IInv, NEW r \in Request, Approve(r)
    PROVE  IInv'
<1> DEFINE ps == Touched(r)
           y == EnsureAll(Touched(r))
           n(p) == DaysIn(r, p)
           c(p) == [y.balance[p] EXCEPT !.used = @ + n(p)]
           es == {Entry("DEDUCTION", p, r, -n(p)) : p \in ps}
<1>1. /\ TypeOK /\ Debited /\ RefundedWhenCancelled /\ NoOverspend /\ NotEarly
      /\ status[r] = "PENDING" /\ ps # {}
      /\ \A p \in ps : Sufficient(y.balance[p], n(p))
      /\ balance' = [p \in Period |-> IF p \in ps THEN c(p) ELSE y.balance[p]]
      /\ ledger' = y.ledger \cup es
      /\ status' = [status EXCEPT ![r] = "APPROVED"]
      /\ charged' = [charged EXCEPT ![r] = ChargedDays(r)]
      /\ UNCHANGED <<today, policy, span, half, legacy, allocations>>
  BY DEF IInv, Approve
<1>2. ps \in SUBSET Period /\ y \in Books /\ Grows(Book, y) /\ \A p \in ps : y.balance[p] # NoBalance
  BY <1>1, ApproveBook
<1>3. \A p \in ps : n(p) \in Nat
  BY <1>1, <1>2, DaysType
<1>4. ChargedDays(r) \in Nat
  BY <1>1, DaysType
<1> HIDE DEF y, ps, n
<1>5. \A q \in Period :
         /\ y.balance[q] \in Balance \cup {NoBalance}
         /\ balance[q] # NoBalance => y.balance[q] # NoBalance
         /\ y.balance[q] # NoBalance /\ Enforced(y.balance[q]) =>
                y.balance[q].used <= y.balance[q].entitlement
  BY <1>1, <1>2, GrownIsSafe
<1>6. /\ y.ledger \in SUBSET EntryRecord
      /\ ledger \subseteq y.ledger
      /\ \A e \in y.ledger : e \in ledger \/ e.kind \in {"CREDIT", "CARRY_FORWARD"}
      /\ \A e \in y.ledger :
            /\ e.kind = "CREDIT" => e.for \in 1..today
            /\ e.kind = "CARRY_FORWARD" => e.period <= PeriodOf[today]
  BY <1>1, <1>2, GrownLedger
<1>7. ASSUME NEW p \in ps
      PROVE  c(p) \in Balance /\ c(p) # NoBalance
             /\ c(p).used = y.balance[p].used + n(p)
             /\ c(p).entitlement = y.balance[p].entitlement
             /\ c(p).policy = y.balance[p].policy
  <2>1. y.balance[p] \in Balance /\ n(p) \in Nat
    BY <1>2, <1>3, <1>5
  <2>2. c(p) \in Balance
    BY <2>1 DEF Balance
  <2> QED BY <2>1, <2>2, NoBalanceAssumption DEF Balance
<1> HIDE DEF c
<1>8. \A e \in es : /\ e.kind = "DEDUCTION" /\ e.for = r /\ e.period \in ps
                    /\ e.days = -n(e.period) /\ e \in EntryRecord
  BY <1>2, <1>3 DEF Entry, EntryRecord, UseKinds
<1>9. \A e, f \in es : e.period = f.period => e = f
  BY DEF Entry
<1> HIDE DEF es
<1>10. TypeOK'
  <2>1. balance' \in [Period -> Balance \cup {NoBalance}]
    BY <1>1, <1>5, <1>7
  <2>2. ledger' \in SUBSET EntryRecord
    BY <1>1, <1>6, <1>8
  <2> QED BY <1>1, <1>4, <2>1, <2>2 DEF TypeOK, EntryRecord
<1>11. \A q \in Period : balance[q] # NoBalance => balance'[q] # NoBalance
  BY <1>1, <1>5, <1>7
<1>12. \A e \in ledger' : e \in ledger \/ e \in es \/ e.kind \in {"CREDIT", "CARRY_FORWARD"}
  BY <1>1, <1>6
<1>13. \A q \in Request : status'[q] = IF q = r THEN "APPROVED" ELSE status[q]
  BY <1>1 DEF TypeOK
<1>14. \A e \in ledger : e.kind \in {"DEDUCTION", "REFUND"} => e.for # r
  BY <1>1 DEF Debited, Deductions, Refunds
<1>15. \A e \in ledger : e.kind \in {"DEDUCTION", "REFUND"} => e.for \in Request
  BY <1>1 DEF Debited, Deductions, Refunds
<1>16. Debited'
  <2>1. \A e \in Deductions' : e \in Deductions \/ e \in es
    BY <1>12 DEF Deductions
  <2>2. \A e \in ledger : e.period \in Period
    BY <1>1 DEF TypeOK
  <2>3. PeriodOf[1] \in Period
    BY PeriodType, LeaveAssumption DEF Day
  <2>4. \A p \in ps : -n(p) <= 0 /\ balance'[p] # NoBalance
    BY <1>1, <1>2, <1>3, <1>7
  <2>5. r \notin legacy
    BY <1>1 DEF Debited
  <2>6. ASSUME NEW e \in Deductions'
        PROVE  /\ e.for \in Request \ legacy'
               /\ status'[e.for] \in {"APPROVED", "CANCELLED"}
               /\ balance'[e.period] # NoBalance
               /\ e.days <= 0
    <3>1. CASE e \in Deductions
      BY <1>1, <1>11, <1>13, <2>2, <3>1 DEF Debited, Deductions
    <3>2. CASE e \in es
      BY <1>1, <1>8, <1>13, <2>4, <2>5, <3>2
    <3> QED BY <2>1, <2>6, <3>1, <3>2
  <2>7. \A e \in Refunds' : e.for \in Request /\ status'[e.for] = "CANCELLED"
    BY <1>1, <1>8, <1>12, <1>13, <1>14 DEF Debited, Refunds
  <2>8. ASSUME NEW e \in Deductions', NEW f \in Deductions',
               e.for = f.for, e.period = f.period
        PROVE  e = f
    BY <1>1, <1>8, <1>9, <1>14, <2>1, <2>8 DEF Debited, Deductions
  <2>9. legacy' # {} => balance'[PeriodOf[1]] # NoBalance
    BY <1>1, <1>11, <2>3 DEF Debited
  <2>10. \A q \in legacy' : status'[q] \in {"APPROVED", "CANCELLED"}
    BY <1>1, <1>13 DEF Debited, TypeOK
  <2> QED BY <2>6, <2>7, <2>8, <2>9, <2>10 DEF Debited
<1>17. RefundedWhenCancelled'
  <2>1. ASSUME NEW e \in ledger', e.kind = "DEDUCTION"
        PROVE  /\ status'[e.for] \in {"APPROVED", "CANCELLED"}
               /\ status'[e.for] = "CANCELLED" <=>
                     \E f \in ledger' : /\ f.kind = "REFUND"
                                        /\ f.for = e.for
                                        /\ f.period = e.period
                                        /\ f.days = -e.days
    <3>1. \A f \in ledger' : f.kind = "REFUND" => f \in ledger
      BY <1>8, <1>12
    <3>2. ledger \subseteq ledger'
      BY <1>1, <1>6
    <3>3. CASE e \in es
      BY <1>8, <1>13, <1>14, <3>1, <3>3
    <3>4. CASE e \in ledger
      BY <1>1, <1>13, <1>14, <1>15, <2>1, <3>1, <3>2, <3>4 DEF RefundedWhenCancelled
    <3> QED BY <1>12, <2>1, <3>3, <3>4
  <2> QED BY <2>1 DEF RefundedWhenCancelled
<1>18. NoOverspend'
  <2>1. ASSUME NEW q \in Period, balance'[q] # NoBalance, Enforced(balance'[q])
        PROVE  balance'[q].used <= balance'[q].entitlement
    <3>1. CASE q \notin ps
      BY <1>1, <1>5, <2>1, <3>1
    <3>2. CASE q \in ps
      <4>1. balance'[q] = c(q) /\ Sufficient(y.balance[q], n(q)) /\ n(q) \in Nat
        BY <1>1, <1>3, <3>2
      <4>2. y.balance[q] \in Balance /\ Enforced(y.balance[q])
        BY <1>2, <1>5, <1>7, <2>1, <3>2, <4>1 DEF Enforced
      <4> QED BY <1>7, <3>2, <4>1, <4>2 DEF Sufficient, Available, Balance
    <3> QED BY <3>1, <3>2
  <2> QED BY <2>1 DEF NoOverspend, Exist, Enforced
<1>19. NotEarly'
  BY <1>1, <1>6, <1>8 DEF NotEarly
<1> QED BY <1>10, <1>16, <1>17, <1>18, <1>19 DEF IInv

(* What a cancellation gives back is what was taken. *)
LEMMA RefundType ==
    ASSUME IInv, NEW r \in Request, status[r] = "APPROVED"
    PROVE  /\ RefundedIn(r) \in SUBSET Period
           /\ \A p \in RefundedIn(r) : Refund(r, p) \in Nat /\ balance[p] # NoBalance
           /\ \A e \in Deductions :
                 e.for = r => e.period \in RefundedIn(r) /\ Refund(r, e.period) = -e.days
<1>1. TypeOK /\ Debited
  BY DEF IInv
<1>2. CASE r \in legacy
  BY <1>1, <1>2, PeriodType, LeaveAssumption
     DEF TypeOK, Debited, Deductions, RefundedIn, Refund, Day
<1>3. CASE r \notin legacy
  <2>1. \A e \in Debits(r) : e \in Deductions /\ e.for = r /\ e.period \in Period /\ e.days \in Int
    BY <1>1 DEF Debits, Deductions, TypeOK
  <2>2. ASSUME NEW e \in Debits(r)
        PROVE  Refund(r, e.period) = -e.days
    <3>1. \A f \in Debits(r) : f.period = e.period => f = e
      BY <1>1, <2>1, <2>2 DEF Debited
    <3>2. (CHOOSE f \in Debits(r) : f.period = e.period) = e
      BY <2>2, <3>1
    <3> QED BY <1>3, <3>2 DEF Refund
  <2>3. \A e \in Debits(r) : -e.days \in Nat /\ balance[e.period] # NoBalance
    BY <1>1, <2>1 DEF Debited
  <2>4. RefundedIn(r) = {e.period : e \in Debits(r)}
    BY <1>3 DEF RefundedIn
  <2>5. \A e \in Deductions : e.for = r => e \in Debits(r)
    BY DEF Debits, Deductions
  <2>6. \A p \in RefundedIn(r) : Refund(r, p) \in Nat /\ balance[p] # NoBalance
    <3> TAKE p \in RefundedIn(r)
    <3>1. PICK e \in Debits(r) : p = e.period
      BY <2>4
    <3> QED BY <2>2, <2>3, <3>1
  <2>7. RefundedIn(r) \in SUBSET Period
    BY <2>1, <2>4
  <2>8. \A e \in Deductions :
           e.for = r => e.period \in RefundedIn(r) /\ Refund(r, e.period) = -e.days
    BY <2>2, <2>4, <2>5
  <2> QED BY <2>6, <2>7, <2>8
<1> QED BY <1>2, <1>3

(* applyDecision() for the cancellation of an approved leave. *)
LEMMA CancelStep ==
    ASSUME IInv, NEW r \in Request, Cancel(r)
    PROVE  IInv'
<1> DEFINE ps == RefundedIn(r)
           n(p) == Refund(r, p)
           c(p) == [balance[p] EXCEPT !.used = @ - n(p)]
           es == {Entry("REFUND", p, r, n(p)) : p \in ps}
<1>1. /\ TypeOK /\ Debited /\ RefundedWhenCancelled /\ NoOverspend /\ NotEarly
      /\ status[r] = "APPROVED"
      /\ balance' = [p \in Period |-> IF p \in ps THEN c(p) ELSE balance[p]]
      /\ ledger' = ledger \cup es
      /\ status' = [status EXCEPT ![r] = "CANCELLED"]
      /\ charged' = [charged EXCEPT ![r] = 0]
      /\ UNCHANGED <<today, policy, span, half, legacy, allocations>>
  BY DEF IInv, Cancel
<1>2. /\ ps \in SUBSET Period
      /\ \A p \in ps : n(p) \in Nat /\ balance[p] # NoBalance
      /\ \A e \in Deductions : e.for = r => e.period \in ps /\ n(e.period) = -e.days
  BY <1>1, RefundType
<1> HIDE DEF ps, n
<1>3. ASSUME NEW p \in ps
      PROVE  c(p) \in Balance /\ c(p) # NoBalance
             /\ c(p).used = balance[p].used - n(p)
             /\ c(p).entitlement = balance[p].entitlement
             /\ c(p).policy = balance[p].policy
  <2>1. balance[p] \in Balance /\ n(p) \in Nat
    BY <1>1, <1>2 DEF TypeOK
  <2>2. c(p) \in Balance
    BY <2>1 DEF Balance
  <2> QED BY <2>1, <2>2, NoBalanceAssumption DEF Balance
<1> HIDE DEF c
<1>4. \A e \in es : e.kind = "REFUND" /\ e.for = r /\ e \in EntryRecord
  BY <1>2 DEF Entry, EntryRecord, UseKinds
<1>5. \A p \in ps : \E f \in es : f.kind = "REFUND" /\ f.for = r /\ f.period = p /\ f.days = n(p)
  <2> TAKE p \in ps
  <2> DEFINE f == Entry("REFUND", p, r, n(p))
  <2>1. f \in es
    OBVIOUS
  <2>2. f.kind = "REFUND" /\ f.for = r /\ f.period = p /\ f.days = n(p)
    BY DEF Entry
  <2> QED BY <2>1, <2>2
<1> HIDE DEF es
<1>6. TypeOK'
  <2>1. balance' \in [Period -> Balance \cup {NoBalance}]
    BY <1>1, <1>3 DEF TypeOK
  <2>2. ledger' \in SUBSET EntryRecord
    BY <1>1, <1>4 DEF TypeOK, EntryRecord
  <2> QED BY <1>1, <2>1, <2>2 DEF TypeOK, EntryRecord
<1>7. \A q \in Period : balance[q] # NoBalance => balance'[q] # NoBalance
  BY <1>1, <1>3
<1>8. \A q \in Request : status'[q] = IF q = r THEN "CANCELLED" ELSE status[q]
  BY <1>1 DEF TypeOK
<1>9. \A e \in ledger' : e.kind # "REFUND" => e \in ledger
  BY <1>1, <1>4
<1>10. Debited'
  <2>1. \A e \in ledger : e.period \in Period
    BY <1>1 DEF TypeOK
  <2>2. PeriodOf[1] \in Period
    BY PeriodType, LeaveAssumption DEF Day
  <2> QED BY <1>1, <1>4, <1>7, <1>8, <1>9, <2>1, <2>2 DEF Debited, Deductions, Refunds
<1>11. RefundedWhenCancelled'
  <2>1. ASSUME NEW e \in ledger', e.kind = "DEDUCTION"
        PROVE  /\ status'[e.for] \in {"APPROVED", "CANCELLED"}
               /\ status'[e.for] = "CANCELLED" <=>
                     \E f \in ledger' : /\ f.kind = "REFUND"
                                        /\ f.for = e.for
                                        /\ f.period = e.period
                                        /\ f.days = -e.days
    <3>1. e \in ledger /\ e \in Deductions /\ e.for \in Request
      BY <1>1, <1>9, <2>1 DEF Debited, Deductions
    <3>2. CASE e.for = r
      BY <1>1, <1>2, <1>5, <1>8, <3>1, <3>2
    <3>3. CASE e.for # r
      BY <1>1, <1>4, <1>8, <2>1, <3>1, <3>3 DEF RefundedWhenCancelled
    <3> QED BY <3>2, <3>3
  <2> QED BY <2>1 DEF RefundedWhenCancelled
<1>12. NoOverspend'
  <2>1. ASSUME NEW q \in Period, balance'[q] # NoBalance, Enforced(balance'[q])
        PROVE  balance'[q].used <= balance'[q].entitlement
    <3>1. CASE q \notin ps
      BY <1>1, <2>1, <3>1 DEF NoOverspend, Exist
    <3>2. CASE q \in ps
      <4>1. balance'[q] = c(q) /\ n(q) \in Nat /\ balance[q] # NoBalance
        BY <1>1, <1>2, <3>2
      <4>2. balance[q] \in Balance /\ Enforced(balance[q])
        BY <1>1, <1>3, <2>1, <3>2, <4>1 DEF Enforced, TypeOK
      <4>3. balance[q].used <= balance[q].entitlement
        BY <1>1, <4>1, <4>2 DEF NoOverspend, Exist
      <4> QED BY <1>3, <3>2, <4>1, <4>2, <4>3 DEF Balance
    <3> QED BY <3>1, <3>2
  <2> QED BY <2>1 DEF NoOverspend, Exist, Enforced
<1>13. NotEarly'
  BY <1>1, <1>4 DEF NotEarly
<1> QED BY <1>6, <1>10, <1>11, <1>12, <1>13 DEF IInv

(* A decision that takes nothing, and a request. *)
LEMMA StatusStep ==
    ASSUME IInv, NEW r \in Request, NEW t, NEW days, NEW h,
           \/ Reject(r) /\ t = "REJECTED"
           \/ Withdraw(r) /\ t = "CANCELLED"
           \/ RequestLeave(r, days, h) /\ days \in Span /\ h \in Half /\ t = "PENDING"
    PROVE  IInv'
<1>1. /\ TypeOK /\ Debited /\ RefundedWhenCancelled /\ NoOverspend /\ NotEarly
      /\ status[r] \in {"NONE", "PENDING"}
      /\ status' = [status EXCEPT ![r] = t]
      /\ t \in {"REJECTED", "CANCELLED", "PENDING"}
      /\ UNCHANGED <<today, policy, balance, ledger, charged, legacy, allocations>>
  BY DEF IInv, Reject, Withdraw, RequestLeave
<1>2. \A q \in Request : status'[q] = IF q = r THEN t ELSE status[q]
  BY <1>1 DEF TypeOK
<1>3. span' \in [Request -> Span \cup {{}, {1}}] /\ half' \in [Request -> Half]
  BY <1>1 DEF TypeOK, Reject, Withdraw, RequestLeave
<1>4. \A e \in ledger : e.kind \in {"DEDUCTION", "REFUND"} => e.for # r /\ e.for \in Request
  BY <1>1 DEF Debited, Deductions, Refunds
<1>5. r \notin legacy
  BY <1>1 DEF Debited
<1>6. TypeOK'
  BY <1>1, <1>3 DEF TypeOK
<1>7. Debited'
  BY <1>1, <1>2, <1>4, <1>5 DEF Debited, Deductions, Refunds, TypeOK
<1>8. RefundedWhenCancelled'
  BY <1>1, <1>2, <1>4 DEF RefundedWhenCancelled
<1>9. NoOverspend' /\ NotEarly'
  BY <1>1 DEF NoOverspend, NotEarly, Exist, Enforced
<1> QED BY <1>6, <1>7, <1>8, <1>9 DEF IInv

(* allocate(). *)
LEMMA AllocateStep ==
    ASSUME IInv, NEW p \in Period, NEW days \in Allocation, Allocate(p, days)
    PROVE  IInv'
<1> DEFINE before == balance[p]
           had == IF before = NoBalance THEN 0 ELSE before.entitlement
           b == IF before = NoBalance
                THEN [entitlement |-> days, used |-> 0, manual |-> TRUE, policy |-> NoPolicy]
                ELSE [before EXCEPT !.entitlement = days, !.manual = TRUE]
           e0 == Entry(IF before = NoBalance THEN "OPENING" ELSE "ADJUSTMENT",
                       p, allocations, days - had)
<1>1. /\ TypeOK /\ Debited /\ RefundedWhenCancelled /\ NoOverspend /\ NotEarly
      /\ before # NoBalance /\ Enforced(before) => days >= before.used
      /\ balance' = [balance EXCEPT ![p] = b]
      /\ ledger' = ledger \cup {e0}
      /\ allocations' = allocations + 1
      /\ UNCHANGED <<today, policy, status, span, half, charged, legacy>>
  BY DEF IInv, Allocate, requestVars
<1>2. days \in Nat /\ days \in Int /\ before \in Balance \cup {NoBalance} /\ TRUE \in BOOLEAN
  BY <1>1, LeaveAssumption DEF TypeOK
<1>3. b \in Balance /\ b # NoBalance /\ (Enforced(b) => b.used <= b.entitlement)
  <2>1. CASE before = NoBalance
    <3>1. b = [entitlement |-> days, used |-> 0, manual |-> TRUE, policy |-> NoPolicy]
      BY <2>1
    <3> HIDE DEF b
    <3>2. b \in Balance
      BY <1>2, <3>1 DEF Balance
    <3>3. b.used = 0 /\ b.entitlement = days
      BY <3>1
    <3>4. b.used <= b.entitlement
      BY <1>2, <3>3
    <3> QED BY <3>2, <3>4, NoBalanceAssumption
  <2>2. CASE before # NoBalance
    <3>1. b = [before EXCEPT !.entitlement = days, !.manual = TRUE]
      BY <2>2
    <3>2. before \in Balance
      BY <1>2, <2>2
    <3> HIDE DEF b, before
    <3>3. b \in Balance
      <4> DEFINE one == [before EXCEPT !.entitlement = days]
      <4>1. one \in Balance
        BY <1>2, <3>2 DEF Balance
      <4>2. b = [one EXCEPT !.manual = TRUE]
        BY <3>1
      <4> HIDE DEF one
      <4> QED BY <4>1, <4>2 DEF Balance
    <3>4. b.used = before.used /\ b.entitlement = days /\ b.policy = before.policy
      BY <3>1, <3>2 DEF Balance
    <3> QED BY <1>1, <2>2, <3>3, <3>4, NoBalanceAssumption DEF Enforced
  <2> QED BY <2>1, <2>2
<1>4. had \in Int
  BY <1>2 DEF Balance
<1> HIDE DEF b, had
<1>5. e0 \in EntryRecord /\ e0.kind \in {"OPENING", "ADJUSTMENT"}
  BY <1>1, <1>2, <1>4 DEF Entry, EntryRecord, CreditKinds, TypeOK
<1> HIDE DEF e0
<1>6. TypeOK'
  BY <1>1, <1>3, <1>5 DEF TypeOK, EntryRecord
<1>7. \A q \in Period : balance'[q] = IF q = p THEN b ELSE balance[q]
  BY <1>1 DEF TypeOK
<1>8. Debited'
  <2>1. \A e \in ledger : e.period \in Period
    BY <1>1 DEF TypeOK
  <2>2. PeriodOf[1] \in Period
    BY PeriodType, LeaveAssumption DEF Day
  <2>3. \A q \in Period : balance[q] # NoBalance => balance'[q] # NoBalance
    BY <1>3, <1>7
  <2>4. Deductions' = Deductions /\ Refunds' = Refunds
    BY <1>1, <1>5 DEF Deductions, Refunds
  <2> QED BY <1>1, <2>1, <2>2, <2>3, <2>4 DEF Debited, Deductions
<1>9. RefundedWhenCancelled'
  BY <1>1, <1>5 DEF RefundedWhenCancelled
<1>10. NoOverspend'
  BY <1>1, <1>3, <1>7 DEF NoOverspend, Exist, Enforced
<1>11. NotEarly'
  BY <1>1, <1>5 DEF NotEarly
<1> QED BY <1>6, <1>8, <1>9, <1>10, <1>11 DEF IInv

(* Time passes: what was due stays due. *)
LEMMA NextDayStep ==
    ASSUME IInv, NextDay
    PROVE  IInv'
<1>1. /\ TypeOK /\ Debited /\ RefundedWhenCancelled /\ NoOverspend /\ NotEarly
      /\ today < LastDay /\ today' = today + 1
      /\ UNCHANGED <<policy, balance, ledger, status, span, half, charged, legacy, allocations>>
  BY DEF IInv, NextDay, requestVars
<1>2. today \in Day /\ today' \in Day /\ today <= today'
  BY <1>1, LeaveAssumption DEF TypeOK, Day
<1>3. PeriodOf[today] <= PeriodOf[today'] /\ PeriodOf[today] \in Nat /\ PeriodOf[today'] \in Nat
  BY <1>2, LeaveAssumption
<1>4. TypeOK'
  BY <1>1, <1>2 DEF TypeOK
<1>5. Debited' /\ RefundedWhenCancelled' /\ NoOverspend'
  BY <1>1 DEF Debited, Deductions, Refunds, RefundedWhenCancelled, NoOverspend, Exist, Enforced
<1>6. NotEarly'
  <2>1. ASSUME NEW e \in ledger', e.kind = "CARRY_FORWARD" PROVE e.period <= PeriodOf[today']
    <3>1. e.period <= PeriodOf[today] /\ e.period \in Nat
      BY <1>1, <2>1, PeriodType DEF NotEarly, TypeOK
    <3> QED BY <1>3, <3>1
  <2>2. ASSUME NEW e \in ledger', e.kind = "CREDIT" PROVE e.for \in 1..today'
    BY <1>1, <1>2, <2>2 DEF NotEarly
  <2> QED BY <2>1, <2>2 DEF NotEarly
<1> QED BY <1>4, <1>5, <1>6 DEF IInv

----------------------------------------------------------------------------
(* Every action preserves the invariant. *)
LEMMA Step == IInv /\ [Next]_vars => IInv'
<1> SUFFICES ASSUME IInv, [Next]_vars PROVE IInv'
  OBVIOUS
<1>1. ASSUME NEW r \in Request, NEW s \in Span, NEW h \in Half, RequestLeave(r, s, h)
      PROVE  IInv'
  BY <1>1, StatusStep
<1>2. ASSUME NEW r \in Request, Approve(r) PROVE IInv'
  BY <1>2, ApproveStep
<1>3. ASSUME NEW r \in Request, Reject(r) PROVE IInv'
  BY <1>3, StatusStep
<1>4. ASSUME NEW r \in Request, Withdraw(r) PROVE IInv'
  BY <1>4, StatusStep
<1>5. ASSUME NEW r \in Request, Cancel(r) PROVE IInv'
  BY <1>5, CancelStep
<1>6. ASSUME NEW p \in Period, NEW n \in Allocation, Allocate(p, n) PROVE IInv'
  BY <1>6, AllocateStep
<1>7. CASE ReadOwn
  BY <1>7, ReadOwnStep
<1>8. ASSUME NEW new \in Policy \cup {NoPolicy}, Configure(new) PROVE IInv'
  <2>1. /\ policy' \in Policy \cup {NoPolicy}
        /\ UNCHANGED <<today, balance, ledger, status, span, half, charged, legacy, allocations>>
    BY <1>8 DEF Configure, requestVars
  <2> QED BY <2>1 DEF IInv, TypeOK, Debited, Deductions, Refunds, RefundedWhenCancelled,
                      NoOverspend, Exist, Enforced, NotEarly
<1>9. CASE NextDay
  BY <1>9, NextDayStep
<1>10. CASE UNCHANGED vars
  BY <1>10 DEF IInv, TypeOK, Debited, Deductions, Refunds, RefundedWhenCancelled,
               NoOverspend, Exist, Enforced, NotEarly, vars, requestVars
<1> QED BY <1>1, <1>2, <1>3, <1>4, <1>5, <1>6, <1>7, <1>8, <1>9, <1>10 DEF Next, Decide

(* The inductive invariant holds in every reachable state. *)
THEOREM Invariance == Spec => []IInv
BY InitIInv, Step, PTL DEF Spec

(* Every reachable balance, entry and request is well formed, so no refund   *)
(* is computed from a debit that is not there (applyDecision).               *)
THEOREM TypeCorrect == Spec => []TypeOK
<1>1. IInv => TypeOK
  BY DEF IInv
<1> QED BY <1>1, Invariance, PTL

(* No approval, cap, policy change, allocation or cancellation overspends a  *)
(* paid balance that may not go negative, whatever the calendar, the         *)
(* policies and the order in which balances are opened (applyDecision,       *)
(* ensure, allocate).                                                        *)
THEOREM NeverOverspent == Spec => []NoOverspend
<1>1. IInv => NoOverspend
  BY DEF IInv
<1> QED BY <1>1, Invariance, PTL

(* A cancellation refunds, period by period, exactly what its approval took. *)
THEOREM RefundsAreExact == Spec => []RefundedWhenCancelled
<1>1. IInv => RefundedWhenCancelled
  BY DEF IInv
<1> QED BY <1>1, Invariance, PTL

(* No credit is posted before it is due and no day carried into a period     *)
(* before it begins (accrue, ensure).                                        *)
THEOREM CreditsAreDue == Spec => []NotEarly
<1>1. IInv => NotEarly
  BY DEF IInv
<1> QED BY <1>1, Invariance, PTL

-----------------------------------------------------------------------------
(* LeaveLedger implements LeaveAccount.  Most steps are a Grant; an approval *)
(* is a Hold, a cancellation a Release.  Beside the invariant above the      *)
(* proof needs only that no entitlement is negative.                         *)
Sound == \A p \in Period : balance[p] # NoBalance => balance[p].entitlement \in Nat

(* What the code may do to the balances: open them, and keep the policy of  *)
(* an open one once it has any.                                             *)
Keeps ==
    \A p \in Period : balance[p] # NoBalance =>
        /\ balance'[p] # NoBalance
        /\ balance[p].policy # NoPolicy => balance'[p].policy = balance[p].policy

(* The accounts of a state. *)
LEMMA Accounts ==
    ASSUME IInv, Sound
    PROVE  /\ Entitled \in [Period -> Nat]
           /\ Used \in [Period -> Int]
           /\ Limited \subseteq Period
           /\ \A a \in Limited : Used[a] <= Entitled[a]
<1>1. \A p \in Period : balance[p] \in Balance \cup {NoBalance}
  BY DEF IInv, TypeOK
<1>2. \A p \in Exist : balance[p] \in Balance /\ balance[p].entitlement \in Nat
  BY <1>1 DEF Sound, Exist
<1> QED BY <1>2 DEF Entitled, Used, Limited, Exist, Balance, IInv, NoOverspend

(* What a claim holds is a number of days in every period. *)
LEMMA TakenType ==
    ASSUME IInv
    PROVE  Held \in [Request -> [Period -> Nat]]
<1>1. ASSUME NEW r \in Request, NEW p \in Period PROVE Taken(r, p) \in Nat
  BY RefundType DEF Taken
<1> QED BY <1>1 DEF Held

(* A claim holds the same as before when its record and its approval stay.  *)
LEMMA SameTaken ==
    ASSUME NEW q \in Request, Debits(q)' = Debits(q), legacy' = legacy,
           charged'[q] = charged[q], status'[q] = "APPROVED" <=> status[q] = "APPROVED"
    PROVE  \A p \in Period : Taken(q, p)' = Taken(q, p)
BY DEF Taken, RefundedIn, Refund

(* A step that moves no use and no claim is a Grant. *)
LEMMA GrantStep ==
    ASSUME IInv, Sound, IInv', Sound', Keeps, Used' = Used, Held' = Held
    PROVE  Abstract!Grant
<1>1. Used \in [Period -> Int]
  BY Accounts
<1>2. /\ Entitled' \in [Period -> Nat]
      /\ Limited' \subseteq Period
      /\ \A a \in Limited' : Used'[a] <= Entitled'[a]
  <2>1. \A p \in Period : balance'[p] \in Balance \cup {NoBalance}
    BY DEF IInv, TypeOK
  <2>2. \A p \in Exist' : balance'[p] \in Balance /\ balance'[p].entitlement \in Nat
    BY <2>1 DEF Sound, Exist
  <2> QED BY <2>2 DEF Entitled, Used, Limited, Exist, Balance, IInv, NoOverspend
<1>3. \A a \in Limited' \ Limited : Used[a] = 0
  BY DEF Limited, Enforced, Exist, Keeps, Used
<1> QED BY <1>2, <1>3 DEF Abstract!Grant, Abstract!Limits, Abstract!Covered

(* The record of a claim is its deductions. *)
LEMMA SameRecord ==
    ASSUME NEW q \in Request, Deductions' = Deductions
    PROVE  Debits(q)' = Debits(q)
<1>1. Debits(q) = {e \in Deductions : e.for = q} /\ Debits(q)' = {e \in Deductions' : e.for = q}
  BY DEF Debits, Deductions
<1> QED BY <1>1

(* Steps that leave the deductions and the approvals alone move no claim. *)
LEMMA HeldSame ==
    ASSUME Deductions' = Deductions, legacy' = legacy, charged' = charged,
           \A q \in Request : status'[q] = "APPROVED" <=> status[q] = "APPROVED"
    PROVE  Held' = Held
BY SameRecord, SameTaken DEF Held

(* Steps that leave balances, deductions and approvals alone are a Grant of nothing. *)
LEMMA QuietStep ==
    ASSUME IInv, Sound, IInv', balance' = balance, legacy' = legacy, charged' = charged,
           Deductions' = Deductions,
           \A q \in Request : status'[q] = "APPROVED" <=> status[q] = "APPROVED"
    PROVE  Abstract!Grant /\ Sound'
<1>1. Sound' /\ Keeps /\ Used' = Used
  BY DEF Sound, Keeps, Used, Exist
<1> QED BY <1>1, HeldSame, GrantStep

(* own(): opening and crediting is a Grant. *)
LEMMA ReadOwnGrants ==
    ASSUME IInv, Sound, IInv', ReadOwn
    PROVE  Abstract!Grant /\ Sound'
<1> DEFINE y == Ensure(Book, PeriodOf[today])
<1>1. /\ TypeOK /\ NotEarly /\ balance' = y.balance /\ ledger' = y.ledger
      /\ UNCHANGED <<today, policy, status, span, half, charged, legacy, allocations>>
  BY DEF IInv, ReadOwn, Write, requestVars
<1>2. y \in Books /\ Grows(Book, y)
  BY <1>1, BookType, EnsureGrows, PeriodType DEF TypeOK
<1> HIDE DEF y
<1>3. /\ ledger \subseteq y.ledger
      /\ \A e \in y.ledger : e \in ledger \/ e.kind \in {"CREDIT", "CARRY_FORWARD"}
  BY <1>1, <1>2, GrownLedger
<1>4. \A p \in Period : /\ balance[p] \in Balance \cup {NoBalance}
                        /\ balance'[p] \in Balance \cup {NoBalance}
                        /\ Kept(balance[p], balance'[p]) /\ Opened(balance[p], balance'[p])
  BY <1>1, <1>2 DEF TypeOK, Books, Grows, Book
<1>5. Sound'
  BY <1>4 DEF Sound, Kept, Opened, Balance
<1>6. Keeps
  BY <1>4 DEF Keeps, Kept
<1>7. Used' = Used
  BY <1>4 DEF Used, Exist, Kept, Opened
<1>8. Deductions' = Deductions
  BY <1>1, <1>3 DEF Deductions
<1>9. Held' = Held
  BY <1>1, <1>8, HeldSame
<1> QED BY <1>5, <1>6, <1>7, <1>9, GrantStep

(* allocate(): an entitlement is set by hand. *)
LEMMA AllocateGrants ==
    ASSUME IInv, Sound, IInv', NEW p \in Period, NEW days \in Allocation, Allocate(p, days)
    PROVE  Abstract!Grant /\ Sound'
<1> DEFINE b == IF balance[p] = NoBalance
                THEN [entitlement |-> days, used |-> 0, manual |-> TRUE, policy |-> NoPolicy]
                ELSE [balance[p] EXCEPT !.entitlement = days, !.manual = TRUE]
<1>1. /\ balance' = [balance EXCEPT ![p] = b]
      /\ UNCHANGED <<status, charged, legacy>>
      /\ TypeOK /\ days \in Nat
  BY LeaveAssumption DEF Allocate, requestVars, IInv
<1>2. \A q \in Period : balance[q] \in Balance \cup {NoBalance}
  BY <1>1 DEF TypeOK
<1>3. /\ b \in Balance /\ b # NoBalance /\ b.entitlement = days
      /\ balance[p] = NoBalance => b.used = 0
      /\ balance[p] # NoBalance => b.used = balance[p].used /\ b.policy = balance[p].policy
  <2>1. CASE balance[p] = NoBalance
    <3>1. b = [entitlement |-> days, used |-> 0, manual |-> TRUE, policy |-> NoPolicy]
      BY <2>1
    <3> HIDE DEF b
    <3>2. b \in Balance
      BY <1>1, <3>1 DEF Balance
    <3> QED BY <2>1, <3>1, <3>2, NoBalanceAssumption
  <2>2. CASE balance[p] # NoBalance
    <3> DEFINE a == balance[p]
               one == [a EXCEPT !.entitlement = days]
    <3>1. a \in Balance /\ b = [one EXCEPT !.manual = TRUE]
      BY <1>2, <2>2
    <3> HIDE DEF a, b
    <3>2. one \in Balance /\ one.entitlement = days /\ one.used = a.used /\ one.policy = a.policy
      BY <1>1, <3>1 DEF Balance
    <3> HIDE DEF one
    <3>3. b \in Balance
      BY <3>1, <3>2 DEF Balance
    <3>4. b.entitlement = days /\ b.used = a.used /\ b.policy = a.policy
      BY <3>1, <3>2 DEF Balance
    <3> QED BY <2>2, <3>3, <3>4, NoBalanceAssumption DEF a
  <2> QED BY <2>1, <2>2
<1> HIDE DEF b
<1>4. \A q \in Period : balance'[q] = IF q = p THEN b ELSE balance[q]
  BY <1>1 DEF TypeOK
<1>5. Sound' /\ Keeps
  BY <1>1, <1>3, <1>4 DEF Sound, Keeps
<1>6. Used' = Used
  BY <1>3, <1>4 DEF Used, Exist
<1>7. Deductions' = Deductions
  BY DEF Allocate, Deductions, Entry
<1>8. Held' = Held
  BY <1>1, <1>7, HeldSame
<1> QED BY <1>5, <1>6, <1>8, GrantStep

(* applyDecision() for an approval: the request takes all its days, after   *)
(* the balances of its dates were opened and credited.                      *)
LEMMA ApproveHolds ==
    ASSUME IInv, Sound, IInv', NEW r \in Request, Approve(r)
    PROVE  Abstract!Hold(r) /\ Sound'
<1> DEFINE ps == Touched(r)
           y == EnsureAll(Touched(r))
           n(p) == DaysIn(r, p)
           c(p) == [y.balance[p] EXCEPT !.used = @ + n(p)]
           es == {Entry("DEDUCTION", p, r, -n(p)) : p \in ps}
           days == [p \in Period |-> IF p \in ps THEN n(p) ELSE 0]
<1>1. /\ TypeOK /\ Debited /\ NotEarly
      /\ status[r] = "PENDING" /\ ps # {}
      /\ balance' = [p \in Period |-> IF p \in ps THEN c(p) ELSE y.balance[p]]
      /\ ledger' = y.ledger \cup es
      /\ status' = [status EXCEPT ![r] = "APPROVED"]
      /\ charged' = [charged EXCEPT ![r] = ChargedDays(r)]
      /\ legacy' = legacy
  BY DEF IInv, Approve
<1>2. ps \in SUBSET Period /\ y \in Books /\ Grows(Book, y) /\ \A p \in ps : y.balance[p] # NoBalance
  BY <1>1, ApproveBook
<1>3. \A p \in ps : n(p) \in Nat
  BY <1>1, <1>2, DaysType
<1> HIDE DEF y, ps, n
<1>4. \A e \in y.ledger : e \in ledger \/ e.kind \in {"CREDIT", "CARRY_FORWARD"}
  BY <1>1, <1>2, GrownLedger
<1>5. ledger \subseteq y.ledger
  BY <1>1, <1>2, GrownLedger
<1>6. \A p \in Period : /\ balance[p] \in Balance \cup {NoBalance}
                        /\ y.balance[p] \in Balance \cup {NoBalance}
                        /\ Kept(balance[p], y.balance[p]) /\ Opened(balance[p], y.balance[p])
  BY <1>1, <1>2 DEF TypeOK, Books, Grows, Book
<1>7. ASSUME NEW p \in ps
      PROVE  c(p) \in Balance /\ c(p) # NoBalance
             /\ c(p).used = y.balance[p].used + n(p)
             /\ c(p).entitlement = y.balance[p].entitlement
             /\ c(p).policy = y.balance[p].policy
  <2>1. y.balance[p] \in Balance /\ n(p) \in Nat
    BY <1>2, <1>3, <1>6
  <2>2. c(p) \in Balance
    BY <2>1 DEF Balance
  <2> QED BY <2>1, <2>2, NoBalanceAssumption DEF Balance
<1> HIDE DEF c
<1>8. ASSUME NEW p \in Period
      PROVE  /\ balance'[p] \in Balance \cup {NoBalance}
             /\ balance[p] # NoBalance =>
                   /\ balance'[p] # NoBalance
                   /\ balance'[p].used = balance[p].used + days[p]
                   /\ balance'[p].entitlement >= balance[p].entitlement
                   /\ balance[p].policy # NoPolicy => balance'[p].policy = balance[p].policy
             /\ balance[p] = NoBalance /\ balance'[p] # NoBalance =>
                   balance'[p].used = days[p] /\ balance'[p].entitlement >= 0
             /\ p \in ps => balance'[p] # NoBalance
  <2>1. CASE p \in ps
    BY <1>1, <1>2, <1>3, <1>6, <1>7, <2>1 DEF Kept, Opened, Balance
  <2>2. CASE p \notin ps
    BY <1>1, <1>6, <2>2 DEF Kept, Opened, Balance
  <2> QED BY <2>1, <2>2
<1>9. Sound' /\ Keeps
  BY <1>8 DEF Sound, Keeps, Balance
<1>10. /\ Entitled' \in [Period -> Nat]
       /\ Limited' \subseteq Period
       /\ \A a \in Limited' : Used'[a] <= Entitled'[a]
  <2>1. \A p \in Exist' : balance'[p] \in Balance /\ balance'[p].entitlement \in Nat
    BY <1>8, <1>9 DEF Sound, Exist
  <2> QED BY <2>1 DEF Entitled, Used, Limited, Exist, Balance, IInv, NoOverspend
<1>11. \A a \in Limited' \ Limited : Used[a] = 0
  BY <1>9 DEF Limited, Enforced, Exist, Keeps, Used
<1>12. \A a \in Period : Entitled'[a] >= Entitled[a]
  BY <1>6, <1>8 DEF Entitled, Exist, Balance
<1>13. Used' = [a \in Period |-> Used[a] + days[a]]
  <2>1. \A a \in Period : Used'[a] = Used[a] + days[a]
    BY <1>3, <1>6, <1>8 DEF Used, Exist, Balance
  <2> QED BY <2>1 DEF Used
<1>14. r \notin legacy /\ Debits(r) = {}
  BY <1>1 DEF Debited, Deductions, Debits
<1>15. \A e \in es : e.kind = "DEDUCTION" /\ e.for = r /\ e.period \in ps /\ e.days = -n(e.period)
  BY DEF Entry
<1>16. \A p \in ps : \E e \in es : e.period = p
  <2> TAKE p \in ps
  <2> WITNESS Entry("DEDUCTION", p, r, -n(p)) \in es
  <2> QED BY DEF Entry
<1>17. Debits(r)' = es
  BY <1>1, <1>4, <1>14, <1>15 DEF Debits
<1>18. ASSUME NEW p \in Period PROVE Taken(r, p)' = days[p]
  <2>1. RefundedIn(r)' = ps
    BY <1>1, <1>14, <1>15, <1>16, <1>17 DEF RefundedIn
  <2>2. ASSUME p \in ps PROVE Refund(r, p)' = n(p)
    <3> DEFINE g == CHOOSE f \in es : f.period = p
    <3>1. g \in es /\ g.period = p
      BY <1>16, <2>2
    <3>2. Refund(r, p)' = -g.days
      BY <1>1, <1>14, <1>17 DEF Refund
    <3> HIDE DEF g
    <3>3. g.days = -n(p) /\ n(p) \in Nat
      BY <1>3, <1>15, <2>2, <3>1
    <3> QED BY <3>2, <3>3
  <2>3. status'[r] = "APPROVED"
    BY <1>1 DEF TypeOK
  <2> QED BY <2>1, <2>2, <2>3 DEF Taken
<1>19. ASSUME NEW q \in Request, q # r, NEW p \in Period PROVE Taken(q, p)' = Taken(q, p)
  <2>1. Debits(q)' = Debits(q)
    BY <1>1, <1>4, <1>5, <1>15, <1>19 DEF Debits
  <2>2. charged'[q] = charged[q] /\ status'[q] = status[q]
    BY <1>1, <1>19 DEF TypeOK
  <2> QED BY <1>1, <2>1, <2>2, SameTaken
<1>20. Held[r] = Abstract!Nothing
  BY <1>1 DEF Held, Taken, Abstract!Nothing
<1>21. Held'[r] = days
  BY <1>18 DEF Held
<1>22. Held' = [Held EXCEPT ![r] = Held'[r]]
  BY <1>19 DEF Held
<1>23. days \in [Period -> Nat]
  BY <1>3
<1> QED BY <1>9, <1>10, <1>11, <1>12, <1>13, <1>20, <1>21, <1>22, <1>23
       DEF Abstract!Hold, Abstract!Limits, Abstract!Covered

(* applyDecision() for a cancellation: the request gives back what it took. *)
LEMMA CancelReleases ==
    ASSUME IInv, Sound, IInv', NEW r \in Request, Cancel(r)
    PROVE  Abstract!Release(r) /\ Sound'
<1> DEFINE ps == RefundedIn(r)
           n(p) == Refund(r, p)
           c(p) == [balance[p] EXCEPT !.used = @ - n(p)]
<1>1. /\ TypeOK
      /\ status[r] = "APPROVED"
      /\ balance' = [p \in Period |-> IF p \in ps THEN c(p) ELSE balance[p]]
      /\ ledger' = ledger \cup {Entry("REFUND", p, r, n(p)) : p \in ps}
      /\ status' = [status EXCEPT ![r] = "CANCELLED"]
      /\ charged' = [charged EXCEPT ![r] = 0]
      /\ legacy' = legacy
  BY DEF IInv, Cancel
<1>2. ps \in SUBSET Period /\ \A p \in ps : n(p) \in Nat /\ balance[p] # NoBalance
  BY <1>1, RefundType
<1>3. \A p \in Period : Taken(r, p) = IF p \in ps THEN n(p) ELSE 0
  BY <1>1 DEF Taken
<1>4. Deductions' = Deductions
  BY <1>1 DEF Deductions, Entry
<1> HIDE DEF ps, n
<1>5. ASSUME NEW p \in ps
      PROVE  c(p) \in Balance /\ c(p) # NoBalance
             /\ c(p).used = balance[p].used - n(p)
             /\ c(p).entitlement = balance[p].entitlement
             /\ c(p).policy = balance[p].policy
  <2>1. balance[p] \in Balance /\ n(p) \in Nat
    BY <1>1, <1>2 DEF TypeOK
  <2>2. c(p) \in Balance
    BY <2>1 DEF Balance
  <2> QED BY <2>1, <2>2, NoBalanceAssumption DEF Balance
<1> HIDE DEF c
<1>6. ASSUME NEW p \in Period
      PROVE  /\ balance'[p] # NoBalance <=> balance[p] # NoBalance
             /\ balance[p] # NoBalance =>
                   /\ balance'[p].used = balance[p].used - Taken(r, p)
                   /\ balance'[p].entitlement = balance[p].entitlement
                   /\ balance'[p].policy = balance[p].policy
             /\ balance[p] = NoBalance => Taken(r, p) = 0
  <2>1. CASE p \in ps
    BY <1>1, <1>2, <1>3, <1>5, <2>1
  <2>2. CASE p \notin ps
    <3>1. balance'[p] = balance[p] /\ Taken(r, p) = 0 /\ balance[p] \in Balance \cup {NoBalance}
      BY <1>1, <1>3, <2>2 DEF TypeOK
    <3> QED BY <3>1 DEF Balance
  <2> QED BY <2>1, <2>2
<1>7. Sound'
  BY <1>6 DEF Sound
<1>8. Entitled' = Entitled
  BY <1>6 DEF Entitled, Exist
<1>9. Limited' = Limited
  BY <1>6 DEF Limited, Exist, Enforced
<1>10. Held[r] = [p \in Period |-> Taken(r, p)]
  BY DEF Held
<1>11. \A p \in Period : Used'[p] = Used[p] - Held[r][p]
  BY <1>6, <1>10 DEF Used, Exist
<1>12. Used' = [p \in Period |-> Used[p] - Held[r][p]]
  BY <1>11 DEF Used
<1>13. \A p \in Period : Taken(r, p)' = 0
  BY <1>1 DEF Taken, TypeOK
<1>14. ASSUME NEW q \in Request, q # r, NEW p \in Period PROVE Taken(q, p)' = Taken(q, p)
  <2>1. Debits(q)' = Debits(q)
    BY <1>4, SameRecord
  <2>2. charged'[q] = charged[q] /\ status'[q] = status[q]
    BY <1>1, <1>14 DEF TypeOK
  <2> QED BY <1>1, <2>1, <2>2, SameTaken
<1>15. Held' = [Held EXCEPT ![r] = Abstract!Nothing]
  BY <1>13, <1>14 DEF Held, Abstract!Nothing
<1> QED BY <1>7, <1>8, <1>9, <1>12, <1>15 DEF Abstract!Release

(* Before and right after the migration at most one request holds days.     *)
LEMMA InitAccounts == Init => Abstract!Init /\ Sound
<1> SUFFICES ASSUME Init PROVE Abstract!Init /\ Sound
  OBVIOUS
<1>1. IInv
  BY InitIInv
<1> DEFINE b == [entitlement |-> LegacyUse, used |-> LegacyUse, manual |-> TRUE, policy |-> NoPolicy]
<1>2. /\ LegacyUse \in Nat
      /\ \A p \in Period : balance[p] = IF legacy # {} /\ p = PeriodOf[1] THEN b ELSE NoBalance
      /\ b \in Balance /\ b.entitlement = LegacyUse /\ b.used = LegacyUse
  BY LeaveAssumption DEF Init, Balance
<1> HIDE DEF b
<1>3. Sound
  BY <1>2, NoBalanceAssumption DEF Sound
<1>4. /\ Entitled \in [Period -> Nat] /\ Limited \subseteq Period
      /\ \A a \in Limited : Used[a] <= Entitled[a]
  BY <1>1, <1>3, Accounts
<1>5. Held \in [Request -> [Period -> Nat]]
  BY <1>1, TakenType
<1>6. \A q \in Request : /\ status[q] = IF q \in legacy THEN "APPROVED" ELSE "NONE"
                         /\ charged[q] = IF q \in legacy THEN LegacyUse ELSE 0
  BY DEF Init
<1>7. \A q \in Request \ legacy : Held[q] = Abstract!Nothing
  BY <1>6 DEF Held, Taken, Abstract!Nothing
<1>8. CASE legacy = {}
  <2>1. Used = Abstract!Nothing
    BY <1>2, <1>8 DEF Used, Exist, Abstract!Nothing
  <2> QED BY <1>3, <1>4, <1>5, <1>7, <1>8, <2>1 DEF Abstract!Init, Abstract!Covered
<1>9. ASSUME NEW r \in Request, legacy = {r} PROVE Abstract!Init
  <2>1. \A p \in Period : Taken(r, p) = IF p = PeriodOf[1] THEN LegacyUse ELSE 0
    BY <1>6, <1>9 DEF Taken, RefundedIn, Refund
  <2>2. \A p \in Period : Used[p] = Taken(r, p)
    BY <1>2, <1>9, <2>1, NoBalanceAssumption DEF Used, Exist
  <2>3. Used = Held[r]
    BY <2>2 DEF Used, Held
  <2> QED BY <1>4, <1>5, <1>7, <1>9, <2>3 DEF Abstract!Init, Abstract!Covered
<1> QED BY <1>3, <1>8, <1>9 DEF Init

(* Every step of the ledger is a step of the accounts, or leaves them alone. *)
LEMMA StepMaps ==
    ASSUME IInv, Sound, [Next]_vars, IInv'
    PROVE  [Abstract!Next]_(Abstract!accountVars) /\ Sound'
<1>1. ASSUME NEW r \in Request, NEW s \in Span, NEW h \in Half, RequestLeave(r, s, h)
      PROVE  Abstract!Grant /\ Sound'
  <2>1. \A q \in Request : status'[q] = "APPROVED" <=> status[q] = "APPROVED"
    BY <1>1 DEF RequestLeave, IInv, TypeOK
  <2> QED BY <1>1, <2>1, QuietStep DEF RequestLeave, Deductions
<1>2. ASSUME NEW r \in Request, Approve(r) PROVE Abstract!Hold(r) /\ Sound'
  BY <1>2, ApproveHolds
<1>3. ASSUME NEW r \in Request, Reject(r) \/ Withdraw(r) PROVE Abstract!Grant /\ Sound'
  <2>1. \A q \in Request : status'[q] = "APPROVED" <=> status[q] = "APPROVED"
    BY <1>3 DEF Reject, Withdraw, IInv, TypeOK
  <2> QED BY <1>3, <2>1, QuietStep DEF Reject, Withdraw, Deductions
<1>4. ASSUME NEW r \in Request, Cancel(r) PROVE Abstract!Release(r) /\ Sound'
  BY <1>4, CancelReleases
<1>5. ASSUME NEW p \in Period, NEW n \in Allocation, Allocate(p, n) PROVE Abstract!Grant /\ Sound'
  BY <1>5, AllocateGrants
<1>6. CASE ReadOwn
  BY <1>6, ReadOwnGrants DEF Abstract!Next
<1>7. ASSUME NEW new \in Policy \cup {NoPolicy}, Configure(new) PROVE Abstract!Grant /\ Sound'
  BY <1>7, QuietStep DEF Configure, requestVars, Deductions
<1>8. CASE NextDay
  <2>1. Abstract!Grant /\ Sound'
    BY <1>8, QuietStep DEF NextDay, requestVars, Deductions
  <2> QED BY <2>1 DEF Abstract!Next
<1>9. CASE UNCHANGED vars
  <2>1. Abstract!Grant /\ Sound'
    BY <1>9, QuietStep DEF vars, requestVars, Deductions
  <2> QED BY <2>1 DEF Abstract!Next
<1> QED BY <1>1, <1>2, <1>3, <1>4, <1>5, <1>6, <1>7, <1>8, <1>9 DEF Next, Decide, Abstract!Next

(* The ledger implements the accounts: an approval takes all that its       *)
(* request asks for or nothing, a cancellation gives back just that, and    *)
(* opening, crediting, carrying, allocating and reconfiguring move no use,  *)
(* in whatever order they come (LeaveBalanceService).                       *)
THEOREM LedgerImplementsAccount == Spec => ImplementsAccount
<1>1. Init => Abstract!Init /\ Sound
  BY InitAccounts
<1>2. IInv /\ Sound /\ [Next]_vars /\ IInv' =>
          [Abstract!Next]_(Abstract!accountVars) /\ Sound'
  BY StepMaps
<1> QED BY <1>1, <1>2, Invariance, PTL DEF Spec, ImplementsAccount, Abstract!Spec

----------------------------------------------------------------------------
(* What the entries of a ledger come to. *)

DaysOf == [e \in EntryRecord |-> e.days]
Entries(l, p, kinds) == {e \in l : e.period = p /\ e.kind \in kinds}
Posted(l, p, kinds) == Total(DaysOf, Entries(l, p, kinds))

(* A balance is what its ledger says; without a balance there are no entries. *)
Agrees(b, l, p) ==
    IF b = NoBalance THEN Entries(l, p, CreditKinds \cup UseKinds) = {}
    ELSE /\ b.entitlement = Posted(l, p, CreditKinds)
         /\ b.used = -Posted(l, p, UseKinds)
Matched(x) == IsFiniteSet(x.ledger) /\ \A p \in Period : Agrees(x.balance[p], x.ledger, p)

(* The sum the property takes, however it enumerates the entries. *)
LEMMA AmountIsTotal ==
    ASSUME NEW S \in SUBSET EntryRecord, IsFiniteSet(S)
    PROVE  Amount(S) = Total(DaysOf, S)
<1> DEFINE Adds(it) == it = [s \in SUBSET S |->
             IF s = {} THEN 0 ELSE FirstOf(s).days + it[s \ {FirstOf(s)}]]
<1>1. Amount(S) = (CHOOSE it : Adds(it))[S]
  BY Zenon DEF Amount, MapThenSumSet, MapThenFoldSet, FirstOf
<1>2. ASSUME NEW it PROVE Adds(it) <=> Summing(DaysOf, S, it)
  <2>1. \A s \in SUBSET S : s # {} => FirstOf(s).days = DaysOf[FirstOf(s)]
    BY DEF FirstOf, DaysOf
  <2>2. [s \in SUBSET S |-> IF s = {} THEN 0 ELSE FirstOf(s).days + it[s \ {FirstOf(s)}]]
      = [s \in SUBSET S |-> IF s = {} THEN 0 ELSE DaysOf[FirstOf(s)] + it[s \ {FirstOf(s)}]]
    BY <2>1
  <2> QED BY <2>2 DEF Summing
<1>3. \A e \in S : DaysOf[e] \in Int
  BY DEF DaysOf, EntryRecord
<1>4. \E it : Adds(it)
  <2>1. \E it : Summing(DaysOf, S, it)
    BY <1>3, SumExists
  <2> QED BY <1>2, <2>1
<1>5. PICK it : it = CHOOSE i : Adds(i)
  OBVIOUS
<1>6. Adds(it)
  BY <1>4, <1>5
<1> HIDE DEF Adds
<1>7. it[S] = Total(DaysOf, S)
  BY <1>2, <1>3, <1>6, SumUnique
<1> QED BY <1>1, <1>5, <1>7

(* Posting new entries adds what they come to, period by period. *)
LEMMA Posting ==
    ASSUME NEW l \in SUBSET EntryRecord, IsFiniteSet(l),
           NEW es \in SUBSET EntryRecord, IsFiniteSet(es), l \cap es = {},
           NEW p, NEW kinds
    PROVE  /\ Entries(l \cup es, p, kinds) = Entries(l, p, kinds) \cup Entries(es, p, kinds)
           /\ Posted(l \cup es, p, kinds) = Posted(l, p, kinds) + Posted(es, p, kinds)
           /\ Posted(l, p, kinds) \in Int
<1>1. PICK A : A = Entries(l, p, kinds)
  OBVIOUS
<1>2. PICK B : B = Entries(es, p, kinds)
  OBVIOUS
<1>3. A \in SUBSET l /\ B \in SUBSET es /\ A \cap B = {} /\ Entries(l \cup es, p, kinds) = A \cup B
  BY <1>1, <1>2 DEF Entries
<1>4. IsFiniteSet(A) /\ IsFiniteSet(B)
  BY <1>3, FS_Subset
<1>5. \A e \in A \cup B : DaysOf[e] \in Int
  BY <1>3 DEF DaysOf, EntryRecord
<1>6. Total(DaysOf, A \cup B) = Total(DaysOf, A) + Total(DaysOf, B)
  BY <1>3, <1>4, <1>5, TotalUnion
<1>7. Total(DaysOf, A) \in Int
  BY <1>4, <1>5, TotalFinite
<1> QED BY <1>1, <1>2, <1>3, <1>6, <1>7 DEF Posted

(* As many periods and entries as there are days. *)
LEMMA PeriodFinite == IsFiniteSet(Period)
<1> DEFINE f == [d \in Day |-> PeriodOf[d]]
<1>1. f \in Surjection(Day, Period)
  BY DEF Surjection, Period
<1> HIDE DEF f
<1> QED BY <1>1, DayFinite, FS_Surjection

----------------------------------------------------------------------------
(* How opening and crediting keep a book matched. *)

(* The credits accrue() posts. *)
CreditOn(b, due, d) ==
    Credited(b, Cardinality({k \in due : k <= d})) - Credited(b, Cardinality({k \in due : k <= d}) - 1)
CreditEntries(b, p, due) == {Entry("CREDIT", p, d, CreditOn(b, due, d)) : d \in due}

(* They are new, and come to what is added to the entitlement. *)
LEMMA CreditsPosted ==
    ASSUME NEW x \in Books, NEW p \in Period, IsFiniteSet(x.ledger),
           NEW b \in Balance, b.policy # NoPolicy,
           NEW due \in SUBSET Day, \A d \in due : ~Exists(x.ledger, "CREDIT", p, d),
           NEW es, es = CreditEntries(b, p, due)
    PROVE  /\ es \in SUBSET EntryRecord /\ IsFiniteSet(es) /\ x.ledger \cap es = {}
           /\ \A e \in es : e.kind = "CREDIT" /\ e.period = p
           /\ Total(DaysOf, es) = Credited(b, Cardinality(due))
           /\ Credited(b, Cardinality(due)) \in Nat
<1> DEFINE c == [n \in Nat |-> Credited(b, n)]
           upTo(d) == Cardinality({k \in due : k <= d})
           f == [d \in due |-> c[upTo(d)] - c[upTo(d) - 1]]
           h == [d \in due |-> Entry("CREDIT", p, d, f[d])]
<1>1. IsFiniteSet(due) /\ Cardinality(due) \in Nat
  BY DayFinite
<1>2. c \in [Nat -> Nat] /\ \A n \in Nat : c[n] = Credited(b, n)
  BY CreditedType
<1>3. c[0] = 0
  <2>1. b.policy.days \in Nat /\ b.policy.cap \in Nat \cup {NoLimit} /\ Available(b) \in Int
    BY DEF Balance, PolicyRecord, Available
  <2>2. 0 * b.policy.days = 0
    <3> DEFINE k == b.policy.days
    <3>1. k \in Nat BY <2>1
    <3> HIDE DEF k
    <3>2. 0 * k = 0 BY <3>1
    <3> QED BY <3>2 DEF k
  <2> HIDE DEF Available
  <2>3. Credited(b, 0) = 0
    BY <2>1, <2>2, LeaveAssumption DEF Credited, Smaller, Larger
  <2> QED BY <1>2, <2>3
<1> HIDE DEF c
<1>4. \A d \in due : upTo(d) \in Nat /\ upTo(d) # 0
  <2> TAKE d \in due
  <2>1. IsFiniteSet({k \in due : k <= d}) /\ d \in {k \in due : k <= d}
    <3>1. {k \in due : k <= d} \in SUBSET due /\ d \in Int
      BY <1>1 DEF Day
    <3> QED BY <1>1, <3>1, FS_Subset
  <2>2. {k \in due : k <= d} # {}
    BY <2>1
  <2> QED BY <2>1, <2>2, FS_EmptySet, FS_CardinalityType
<1>5. \A d \in due : f[d] \in Int /\ f[d] = Credited(b, upTo(d)) - Credited(b, upTo(d) - 1)
  BY <1>2, <1>4
<1>6. Total(f, due) = c[Cardinality(due)]
  <2>1. due \in SUBSET Nat /\ c \in [Nat -> Int]
    BY <1>1, <1>2 DEF Day
  <2>2. \A d \in due : f[d] = c[Cardinality({k \in due : k <= d})] - c[Cardinality({k \in due : k <= d}) - 1]
    OBVIOUS
  <2> HIDE DEF f
  <2>3. Total(f, due) = c[Cardinality(due)] - c[0]
    BY <1>1, <2>1, <2>2, Telescope
  <2> QED BY <1>1, <1>2, <1>3, <2>3
<1>7. /\ \A e \in es : \E d \in due : e = Entry("CREDIT", p, d, f[d])
      /\ \A d \in due : Entry("CREDIT", p, d, f[d]) \in es
  <2>1. \A d \in due : f[d] = CreditOn(b, due, d)
    BY <1>5 DEF CreditOn
  <2> HIDE DEF f
  <2> QED BY <2>1 DEF CreditEntries
<1> HIDE DEF f, upTo
<1>8. \A d \in due : h[d] = Entry("CREDIT", p, d, f[d]) /\ h[d] \in EntryRecord
  <2> TAKE d \in due
  <2>1. d \in Nat
    BY <1>1 DEF Day
  <2> QED BY <1>5, <2>1 DEF Entry, EntryRecord, CreditKinds
<1>9. h \in Bijection(due, es)
  <2>1. \A d \in due : h[d].for = d
    BY DEF Entry
  <2>2. h \in [due -> es] /\ \A e \in es : \E d \in due : h[d] = e
    BY <1>7
  <2> HIDE DEF h
  <2>3. h \in Injection(due, es)
    BY <2>1, <2>2 DEF Injection, IsInjective
  <2> QED BY <2>2, <2>3 DEF Bijection, Surjection
<1>10. \A d \in due : f[d] = DaysOf[h[d]]
  BY <1>8 DEF DaysOf, Entry
<1>11. \A e \in es : \E d \in due : e = h[d]
  BY <1>7
<1>12. x.ledger \cap es = {}
  <2> SUFFICES ASSUME NEW d \in due, h[d] \in x.ledger PROVE FALSE
    BY <1>11
  <2>1. ~Exists(x.ledger, "CREDIT", p, d)
    OBVIOUS
  <2> QED BY <1>8, <2>1 DEF Exists, Entry
<1>13. \A e \in es : e \in EntryRecord /\ e.kind = "CREDIT" /\ e.period = p
  BY <1>8, <1>11 DEF Entry
<1> HIDE DEF h
<1>14. IsFiniteSet(es) /\ Total(f, due) = Total(DaysOf, es)
  BY <1>1, <1>5, <1>9, <1>10, TotalThrough
<1> QED BY <1>1, <1>2, <1>6, <1>12, <1>13, <1>14

(* What a balance that may not exist yet amounts to. *)
Entitlement(b) == IF b = NoBalance THEN 0 ELSE b.entitlement
UsedOf(b) == IF b = NoBalance THEN 0 ELSE b.used

(* When entries are posted a balance without any stays as it is, and any    *)
(* other agrees once it has moved by as much.                               *)
LEMMA PostAgrees ==
    ASSUME NEW x \in Books, Matched(x),
           NEW es \in SUBSET EntryRecord, IsFiniteSet(es), x.ledger \cap es = {},
           NEW p \in Period
    PROVE  /\ IsFiniteSet(x.ledger \cup es)
           /\ (\A e \in es : e.period # p) => Agrees(x.balance[p], x.ledger \cup es, p)
           /\ \A c : /\ c # NoBalance
                      /\ c.entitlement = Entitlement(x.balance[p]) + Posted(es, p, CreditKinds)
                      /\ c.used = UsedOf(x.balance[p]) - Posted(es, p, UseKinds)
                      => Agrees(c, x.ledger \cup es, p)
<1>1. x.ledger \in SUBSET EntryRecord /\ IsFiniteSet(x.ledger) /\ Agrees(x.balance[p], x.ledger, p)
  BY DEF Books, Matched
<1>2. IsFiniteSet(x.ledger \cup es)
  BY <1>1, FS_Union
<1>3. ASSUME \A e \in es : e.period # p PROVE Agrees(x.balance[p], x.ledger \cup es, p)
  <2>1. \A kinds : Entries(x.ledger \cup es, p, kinds) = Entries(x.ledger, p, kinds)
    BY <1>3 DEF Entries
  <2> QED BY <1>1, <2>1 DEF Agrees, Posted
<1>4. ASSUME NEW c, c # NoBalance,
             c.entitlement = Entitlement(x.balance[p]) + Posted(es, p, CreditKinds),
             c.used = UsedOf(x.balance[p]) - Posted(es, p, UseKinds)
      PROVE  Agrees(c, x.ledger \cup es, p)
  <2>1. /\ Posted(x.ledger \cup es, p, CreditKinds) = Posted(x.ledger, p, CreditKinds) + Posted(es, p, CreditKinds)
        /\ Posted(x.ledger, p, CreditKinds) \in Int
    BY <1>1, Posting
  <2>2. /\ Posted(x.ledger \cup es, p, UseKinds) = Posted(x.ledger, p, UseKinds) + Posted(es, p, UseKinds)
        /\ Posted(x.ledger, p, UseKinds) \in Int
    BY <1>1, Posting
  <2>3. Posted(es, p, CreditKinds) \in Int /\ Posted(es, p, UseKinds) \in Int
    <3>1. IsFiniteSet({}) /\ {} \in SUBSET EntryRecord
      BY FS_EmptySet
    <3> QED BY <3>1, Posting
  <2>4. /\ Entitlement(x.balance[p]) = Posted(x.ledger, p, CreditKinds)
        /\ UsedOf(x.balance[p]) = -Posted(x.ledger, p, UseKinds)
    <3>1. CASE x.balance[p] = NoBalance
      <4>1. Entries(x.ledger, p, CreditKinds \cup UseKinds) = {}
        BY <1>1, <3>1 DEF Agrees
      <4>2. Entries(x.ledger, p, CreditKinds) = {} /\ Entries(x.ledger, p, UseKinds) = {}
        BY <4>1 DEF Entries
      <4>3. Posted(x.ledger, p, CreditKinds) = 0 /\ Posted(x.ledger, p, UseKinds) = 0
        BY <4>2, TotalNone DEF Posted
      <4>4. Entitlement(x.balance[p]) = 0 /\ UsedOf(x.balance[p]) = 0
        BY <3>1, Zenon DEF Entitlement, UsedOf
      <4>5. \A j, k \in Int : j = 0 - k => j = -k
        OBVIOUS
      <4>6. UsedOf(x.balance[p]) = 0 - Posted(x.ledger, p, UseKinds) /\ UsedOf(x.balance[p]) \in Int
        BY <4>3, <4>4
      <4>7. UsedOf(x.balance[p]) = -Posted(x.ledger, p, UseKinds)
        BY <2>2, <4>5, <4>6
      <4> QED BY <4>3, <4>4, <4>7
    <3>2. CASE x.balance[p] # NoBalance
      BY <1>1, <3>2 DEF Entitlement, UsedOf, Agrees
    <3> QED BY <3>1, <3>2
  <2>5. /\ c.entitlement = Posted(x.ledger \cup es, p, CreditKinds)
        /\ c.used = -Posted(x.ledger \cup es, p, UseKinds)
    BY <1>4, <2>1, <2>2, <2>3, <2>4
  <2> QED BY <1>4, <2>5 DEF Agrees
<1> QED BY <1>2, <1>3, <1>4

(* Entries of one period are posted, and its balance moves by as much. *)
LEMMA PutMatched ==
    ASSUME NEW x \in Books, Matched(x), NEW p \in Period,
           NEW es \in SUBSET EntryRecord, IsFiniteSet(es), x.ledger \cap es = {},
           \A e \in es : e.period = p,
           NEW c, c # NoBalance,
           c.entitlement = Entitlement(x.balance[p]) + Posted(es, p, CreditKinds),
           c.used = UsedOf(x.balance[p]) - Posted(es, p, UseKinds),
           NEW y, y = [balance |-> Put(x, p, c), ledger |-> x.ledger \cup es]
    PROVE  Matched(y)
<1>1. Agrees(c, x.ledger \cup es, p) /\ IsFiniteSet(x.ledger \cup es)
  BY PostAgrees
<1>2. ASSUME NEW q \in Period, q # p PROVE Agrees(x.balance[q], x.ledger \cup es, q)
  BY <1>2, PostAgrees
<1> QED BY <1>1, <1>2 DEF Matched, Put

(* No entries come to nothing. *)
LEMMA PostedNone ==
    ASSUME NEW p
    PROVE  \A kinds : Posted({}, p, kinds) = 0
<1>1. \A kinds : Entries({}, p, kinds) = {}
  BY DEF Entries
<1> QED BY <1>1, TotalNone DEF Posted

(* accrue(): what the credits add to the entitlement is what they are posted as. *)
LEMMA AccrueMatched ==
    ASSUME today \in Day, NEW x \in Books, NEW p \in Period, x.balance[p] # NoBalance, Matched(x)
    PROVE  /\ Matched(Accrue(x, p))
           /\ \A e \in Accrue(x, p).ledger \ x.ledger : e.period = p
<1>1. PICK b \in Balance : b = x.balance[p]
  BY DEF Books
<1>2. CASE b.manual \/ b.policy = NoPolicy
  BY <1>1, <1>2 DEF Accrue
<1>3. CASE ~(b.manual \/ b.policy = NoPolicy)
  <2>1. PICK due \in SUBSET Day : due = DueCredits(x, p)
    <3>1. DueCredits(x, p) \in SUBSET Day
      BY <1>1, <1>3 DEF DueCredits, Balance, PolicyRecord
    <3> QED BY <3>1
  <2>2. PICK es : es = CreditEntries(b, p, due)
    OBVIOUS
  <2>3. PICK n : n = Credited(b, Cardinality(due))
    OBVIOUS
  <2>4. PICK c : c = [b EXCEPT !.entitlement = @ + n]
    OBVIOUS
  <2>5. Accrue(x, p) = [balance |-> Put(x, p, c), ledger |-> x.ledger \cup es]
    BY <1>1, <1>3, <2>1, <2>2, <2>3, <2>4 DEF Accrue, CreditEntries, CreditOn
  <2>6. \A d \in due : ~Exists(x.ledger, "CREDIT", p, d)
    BY <2>1 DEF DueCredits
  <2>7. /\ es \in SUBSET EntryRecord /\ IsFiniteSet(es) /\ x.ledger \cap es = {}
        /\ \A e \in es : e.kind = "CREDIT" /\ e.period = p
        /\ Total(DaysOf, es) = n
        /\ n \in Nat
    BY <1>3, <2>2, <2>3, <2>6, CreditsPosted DEF Matched
  <2>8. c \in Balance /\ c.entitlement = b.entitlement + n /\ c.used = b.used
    BY <2>4, <2>7 DEF Balance
  <2>9. Posted(es, p, CreditKinds) = n /\ Posted(es, p, UseKinds) = 0
    <3>1. Entries(es, p, CreditKinds) = es /\ Entries(es, p, UseKinds) = {}
      BY <2>7 DEF Entries, CreditKinds, UseKinds
    <3> QED BY <2>7, <3>1, TotalNone DEF Posted
  <2>10. /\ c # NoBalance
         /\ c.entitlement = Entitlement(x.balance[p]) + Posted(es, p, CreditKinds)
         /\ c.used = UsedOf(x.balance[p]) - Posted(es, p, UseKinds)
    BY <1>1, <2>8, <2>9, NoBalanceAssumption DEF Entitlement, UsedOf, Balance
  <2>11. Matched(Accrue(x, p))
    BY <2>5, <2>7, <2>10, PutMatched
  <2> QED BY <2>5, <2>7, <2>11
<1> QED BY <1>2, <1>3

(* One entry opens a balance, or nothing does. *)
LEMMA OpenMatched ==
    ASSUME TypeOK, NEW x \in Books, NEW p \in Period, x.balance[p] = NoBalance, Matched(x)
    PROVE  Matched(Open(x, p))
<1>1. today \in Day /\ policy \in PolicyRecord \cup {NoPolicy} /\ PeriodOf[today] \in Nat
  BY LeaveAssumption DEF TypeOK
<1>2. /\ NewBalance \in Balance /\ NewBalance # NoBalance
      /\ NewBalance.used = 0 /\ NewBalance.entitlement = 0
  <2>1. Uncapped \in PolicyRecord
    BY DEF Uncapped, PolicyRecord
  <2>2. NewBalance \in Balance /\ NewBalance.used = 0 /\ NewBalance.entitlement = 0
    BY <1>1, <2>1 DEF NewBalance, Balance
  <2> QED BY <2>2, NoBalanceAssumption
<1>3. x.ledger \in SUBSET EntryRecord /\ IsFiniteSet(x.ledger)
  BY DEF Books, Matched
<1>4. \A e \in x.ledger : e.period # p
  <2>1. Entries(x.ledger, p, CreditKinds \cup UseKinds) = {}
    BY DEF Matched, Agrees
  <2> QED BY <1>3, <2>1 DEF Entries, EntryRecord
<1> DEFINE new == [balance |-> Put(x, p, NewBalance), ledger |-> x.ledger]
<1>5. new \in Books /\ new.balance[p] = NewBalance /\ \A q \in Period : q # p => new.balance[q] = x.balance[q]
  BY <1>2, <1>3 DEF Books, Put
<1>6. Matched(new)
  <2>1. /\ Posted({}, p, CreditKinds) = 0 /\ Posted({}, p, UseKinds) = 0
        /\ IsFiniteSet({}) /\ x.ledger \cup {} = x.ledger
    BY PostedNone, FS_EmptySet
  <2> QED BY <1>2, <2>1, PutMatched DEF Entitlement, UsedOf
<1>7. CASE ~Carries(x, p)
  BY <1>6, <1>7 DEF Open
<1>8. CASE Carries(x, p)
  <2> DEFINE prior == Accrue(new, p - 1)
             days == CarriedDays(prior.balance[p - 1])
             b == [NewBalance EXCEPT !.entitlement = days]
             e == Entry("CARRY_FORWARD", p, p, days)
             y == [balance |-> Put(prior, p, b), ledger |-> prior.ledger \cup {e}]
  <2>1. Open(x, p) = y
    BY <1>8 DEF Open
  <2>2. p - 1 \in Period /\ p - 1 # p /\ p \in Nat
    BY <1>8, PeriodType DEF Carries
  <2>3. new.balance[p - 1] # NoBalance
    BY <1>8, <2>2 DEF Carries, Put
  <2>4. /\ prior \in Books /\ prior.balance[p - 1] # NoBalance
        /\ prior.balance[p] = NewBalance
        /\ Matched(prior)
        /\ \A f \in prior.ledger : f.period # p
    <3> HIDE DEF new
    <3>1. /\ prior \in Books /\ prior.balance[p - 1] # NoBalance
          /\ prior.balance[p] = NewBalance
      BY <1>1, <1>5, <2>2, <2>3, AccrueGrows
    <3>2. Matched(prior) /\ \A f \in prior.ledger \ new.ledger : f.period = p - 1
      BY <1>1, <1>5, <1>6, <2>2, <2>3, AccrueMatched
    <3>3. \A f \in new.ledger : f.period # p
      BY <1>4 DEF new
    <3>4. \A f \in prior.ledger : f.period # p
      BY <2>2, <3>2, <3>3
    <3> QED BY <3>1, <3>2, <3>4
  <2> HIDE DEF prior
  <2>5. days \in Nat
    <3>1. prior.balance[p - 1] \in Balance
      BY <2>2, <2>4 DEF Books
    <3>2. Available(prior.balance[p - 1]) \in Int
      BY <3>1 DEF Balance, Available
    <3>3. policy.maxCarry \in Nat /\ policy.cap \in Nat \cup {NoLimit}
      BY <1>1, <1>8 DEF Carries, PolicyRecord
    <3> QED BY <3>2, <3>3 DEF CarriedDays, Smaller, Larger
  <2> HIDE DEF days
  <2>6. b \in Balance /\ b.used = 0 /\ b.entitlement = days /\ b # NoBalance
    <3>1. b \in Balance
      BY <1>2, <2>5 DEF Balance
    <3> QED BY <1>2, <3>1, NoBalanceAssumption DEF Balance
  <2>7. e \in EntryRecord /\ e.period = p /\ e.days = days /\ e.kind = "CARRY_FORWARD"
    BY <2>2, <2>5 DEF EntryRecord, CreditKinds, Entry
  <2> HIDE DEF b, e
  <2>8. {e} \in SUBSET EntryRecord /\ IsFiniteSet({e}) /\ prior.ledger \cap {e} = {}
    BY <2>4, <2>7, FS_Singleton
  <2>9. Posted({e}, p, CreditKinds) = days /\ Posted({e}, p, UseKinds) = 0
    <3>1. Entries({e}, p, CreditKinds) = {e} /\ Entries({e}, p, UseKinds) = {}
      BY <2>7 DEF Entries, CreditKinds, UseKinds
    <3>2. DaysOf[e] \in Int /\ DaysOf[e] = days
      BY <2>7 DEF DaysOf, EntryRecord
    <3>3. Total(DaysOf, {e}) = days /\ Total(DaysOf, {}) = 0
      BY <3>2, TotalOne, TotalNone
    <3> QED BY <3>1, <3>3 DEF Posted
  <2>10. Matched(y)
    BY <1>2, <2>4, <2>5, <2>6, <2>7, <2>8, <2>9, PutMatched DEF Entitlement, UsedOf
  <2> QED BY <2>1, <2>10
<1> QED BY <1>7, <1>8

(* ensure() as a whole. *)
LEMMA EnsureMatched ==
    ASSUME TypeOK, NEW x \in Books, NEW p \in Period, Matched(x)
    PROVE  Matched(Ensure(x, p))
<1> DEFINE y == IF x.balance[p] = NoBalance THEN Open(x, p)
                ELSE IF x.balance[p].policy = NoPolicy THEN Configured(x, p)
                ELSE x
<1>1. y \in Books /\ y.balance[p] # NoBalance /\ Matched(y)
  <2>1. CASE x.balance[p] = NoBalance
    BY <2>1, OpenGrows, OpenMatched
  <2>2. CASE x.balance[p] # NoBalance /\ x.balance[p].policy = NoPolicy
    <3> DEFINE b == [x.balance[p] EXCEPT !.policy = policy]
    <3>1. x.balance[p] \in Balance /\ policy \in PolicyRecord \cup {NoPolicy}
      BY <2>2, LeaveAssumption DEF Books, TypeOK
    <3>2. b \in Balance
      BY <3>1 DEF Balance
    <3>3. b # NoBalance /\ b.used = x.balance[p].used /\ b.entitlement = x.balance[p].entitlement
      BY <3>1, <3>2, NoBalanceAssumption DEF Balance
    <3>4. y = [balance |-> Put(x, p, b), ledger |-> x.ledger]
      BY <2>2 DEF Configured
    <3>5. Agrees(x.balance[p], x.ledger, p)
      BY DEF Matched
    <3> HIDE DEF b, y
    <3>6. Agrees(b, x.ledger, p)
      BY <2>2, <3>3, <3>5 DEF Agrees
    <3>7. \A q \in Period : Agrees(y.balance[q], y.ledger, q)
      BY <3>4, <3>6 DEF Put, Matched
    <3> QED BY <3>2, <3>3, <3>4, <3>7 DEF Books, Put, Matched
  <2>3. CASE x.balance[p] # NoBalance /\ x.balance[p].policy # NoPolicy
    BY <2>3
  <2> QED BY <2>1, <2>2, <2>3
<1>2. Ensure(x, p) = Accrue(y, p) /\ today \in Day
  BY DEF Ensure, TypeOK
<1> HIDE DEF y
<1> QED BY <1>1, <1>2, AccrueMatched

LEMMA EnsureAllMatched ==
    ASSUME TypeOK, NEW ps \in SUBSET Period, ps # {}, AtMostTwo(ps), Matched(Book)
    PROVE  Matched(EnsureAll(ps))
<1> DEFINE p == Earliest(ps)
           q == Latest(ps)
           x == Ensure(Book, p)
           y == Ensure(x, q)
<1>1. p \in Period /\ q \in Period
  BY PeriodType, EarliestLatest
<1>2. x \in Books /\ Matched(x)
  BY <1>1, BookType, EnsureGrows, EnsureMatched
<1>3. Matched(y)
  BY <1>1, <1>2, EnsureMatched
<1>4. EnsureAll(ps) = IF p = q THEN x ELSE y
  BY DEF EnsureAll
<1> HIDE DEF p, q, x, y
<1> QED BY <1>2, <1>3, <1>4

(* A request touches at most two periods. *)
LEMMA TouchedFew ==
    ASSUME TypeOK, NEW r \in Request
    PROVE  AtMostTwo(Touched(r))
<1>1. \A a, b, c \in span[r] :
          PeriodOf[a] = PeriodOf[b] \/ PeriodOf[b] = PeriodOf[c] \/ PeriodOf[a] = PeriodOf[c]
  <2>1. CASE span[r] \in Span
    BY <2>1, LeaveAssumption
  <2>2. CASE span[r] \in {{}, {1}}
    BY <2>2
  <2> QED BY <2>1, <2>2 DEF TypeOK
<1> QED BY <1>1 DEF AtMostTwo, Touched, Chargeable

----------------------------------------------------------------------------
(* The steps. *)

(* Allocations are numbered, so no two adjustments share a key. *)
Numbered == \A e \in ledger : e.kind = "ADJUSTMENT" => e.for \in 0..(allocations - 1)
MInv == Matched(Book) /\ Numbered

(* own() *)
LEMMA ReadOwnMatched ==
    ASSUME IInv, MInv, ReadOwn
    PROVE  MInv'
<1> DEFINE y == Ensure(Book, PeriodOf[today])
<1>1. /\ TypeOK /\ NotEarly /\ balance' = y.balance /\ ledger' = y.ledger /\ allocations' = allocations
  BY DEF IInv, ReadOwn, Write
<1>2. PeriodOf[today] \in Period
  BY <1>1, PeriodType DEF TypeOK
<1>3. y \in Books /\ Grows(Book, y) /\ Matched(y)
  BY <1>1, <1>2, BookType, EnsureGrows, EnsureMatched DEF MInv
<1> HIDE DEF y
<1>4. \A e \in y.ledger : e \in ledger \/ e.kind \in {"CREDIT", "CARRY_FORWARD"}
  BY <1>1, <1>3, GrownLedger
<1>5. Matched(Book)'
  BY <1>1, <1>3 DEF Matched, Book, Agrees, Posted, Entries
<1>6. Numbered'
  BY <1>1, <1>4 DEF MInv, Numbered
<1> QED BY <1>5, <1>6 DEF MInv

(* Entries that one request makes, one in each of its periods. *)
RequestEntries(kind, r, ps, n) == {Entry(kind, p, r, n[p]) : p \in ps}
PostsUse(es, use, r, ps, n) ==
    /\ es \in SUBSET EntryRecord /\ IsFiniteSet(es)
    /\ \A e \in es : e.kind = use /\ e.for = r /\ e.period \in ps
    /\ \A p \in ps : Posted(es, p, CreditKinds) = 0 /\ Posted(es, p, UseKinds) = n[p]
LEMMA RequestPosted ==
    ASSUME NEW use \in UseKinds, NEW r \in Request, NEW ps \in SUBSET Period, NEW n, \A p \in ps : n[p] \in Int
    PROVE  PostsUse(RequestEntries(use, r, ps, n), use, r, ps, n)
<1>1. PICK es : es = RequestEntries(use, r, ps, n)
  OBVIOUS
<1> DEFINE h == [p \in ps |-> Entry(use, p, r, n[p])]
<1>2. \A p \in ps : h[p] = Entry(use, p, r, n[p]) /\ h[p] \in EntryRecord
  BY DEF Entry, EntryRecord
<1>3. \A e \in es : \E p \in ps : e = h[p]
  BY <1>1 DEF RequestEntries
<1>4. \A p \in ps : h[p] \in es
  BY <1>1 DEF RequestEntries
<1>5. h \in Surjection(ps, es)
  BY <1>3, <1>4 DEF Surjection
<1>6. \A p \in ps : h[p].kind = use /\ h[p].for = r /\ h[p].period = p /\ h[p].days = n[p]
  BY <1>2 DEF Entry
<1> HIDE DEF h
<1>7. IsFiniteSet(es)
  BY <1>5, PeriodFinite, FS_Subset, FS_Surjection
<1>8. ASSUME NEW p \in ps PROVE Posted(es, p, CreditKinds) = 0 /\ Posted(es, p, UseKinds) = n[p]
  <2>1. Entries(es, p, CreditKinds) = {}
    BY <1>3, <1>6 DEF Entries, CreditKinds, UseKinds
  <2>2. Entries(es, p, UseKinds) = {h[p]}
    BY <1>3, <1>4, <1>6 DEF Entries
  <2>3. DaysOf[h[p]] \in Int /\ DaysOf[h[p]] = n[p]
    BY <1>2, <1>6 DEF DaysOf
  <2>4. Total(DaysOf, {h[p]}) = n[p] /\ Total(DaysOf, {}) = 0
    BY <2>3, TotalOne, TotalNone
  <2> QED BY <2>1, <2>2, <2>4 DEF Posted
<1> QED BY <1>1, <1>2, <1>3, <1>6, <1>7, <1>8 DEF PostsUse

(* A decision moves the use of each of its periods by what it posts. *)
Moves(x, y, ps, n) ==
    \A p \in Period : IF p \in ps THEN /\ x.balance[p] # NoBalance
                                     /\ y.balance[p] # NoBalance
                                     /\ y.balance[p].entitlement = x.balance[p].entitlement
                                     /\ y.balance[p].used = x.balance[p].used - n[p]
                      ELSE y.balance[p] = x.balance[p]
LEMMA DecisionMatched ==
    ASSUME NEW x \in Books, Matched(x), NEW ps \in SUBSET Period, NEW n, \A p \in ps : n[p] \in Int,
           NEW es, NEW use, NEW r, PostsUse(es, use, r, ps, n), x.ledger \cap es = {},
           NEW y, y.ledger = x.ledger \cup es, Moves(x, y, ps, n)
    PROVE  Matched(y)
<1>1. /\ es \in SUBSET EntryRecord /\ IsFiniteSet(es) /\ \A e \in es : e.period \in ps
      /\ \A p \in ps : Posted(es, p, CreditKinds) = 0 /\ Posted(es, p, UseKinds) = n[p]
  BY DEF PostsUse
<1>2. ASSUME NEW p \in Period PROVE Agrees(y.balance[p], x.ledger \cup es, p)
  <2>1. CASE p \in ps
    <3>1. Posted(es, p, CreditKinds) = 0 /\ Posted(es, p, UseKinds) = n[p] /\ n[p] \in Int
      BY <1>1, <2>1
    <3>2. x.balance[p] \in Balance /\ x.balance[p].entitlement \in Int /\ x.balance[p].used \in Int
      BY <2>1 DEF Moves, Books, Balance
    <3>3. /\ y.balance[p].entitlement = Entitlement(x.balance[p]) + Posted(es, p, CreditKinds)
          /\ y.balance[p].used = UsedOf(x.balance[p]) - Posted(es, p, UseKinds)
      BY <2>1, <3>1, <3>2 DEF Moves, Entitlement, UsedOf
    <3>4. \A c : /\ c # NoBalance
                 /\ c.entitlement = Entitlement(x.balance[p]) + Posted(es, p, CreditKinds)
                 /\ c.used = UsedOf(x.balance[p]) - Posted(es, p, UseKinds)
                 => Agrees(c, x.ledger \cup es, p)
      BY <1>1, PostAgrees
    <3>5. y.balance[p] # NoBalance
      BY <2>1 DEF Moves
    <3> QED BY <3>3, <3>4, <3>5
  <2>2. CASE p \notin ps
    <3>1. \A e \in es : e.period # p
      BY <1>1, <2>2
    <3>2. Agrees(x.balance[p], x.ledger \cup es, p)
      BY <1>1, <3>1, PostAgrees
    <3> QED BY <2>2, <3>2 DEF Moves
  <2> QED BY <2>1, <2>2
<1>3. IsFiniteSet(x.ledger \cup es)
  BY <1>1, FS_Union DEF Matched
<1> QED BY <1>2, <1>3 DEF Matched

(* applyDecision() for an approval: a new deduction in each of its periods. *)
LEMMA ApproveMatched ==
    ASSUME IInv, MInv, NEW r \in Request, Approve(r)
    PROVE  MInv'
<1> DEFINE y == EnsureAll(Touched(r))
           es == {Entry("DEDUCTION", p, r, -DaysIn(r, p)) : p \in Touched(r)}
           c(p) == [y.balance[p] EXCEPT !.used = @ + DaysIn(r, p)]
<1>1. /\ TypeOK /\ Debited /\ NotEarly
      /\ status[r] = "PENDING" /\ Touched(r) # {}
      /\ balance' = [p \in Period |-> IF p \in Touched(r) THEN c(p) ELSE y.balance[p]]
      /\ ledger' = y.ledger \cup es
      /\ allocations' = allocations
  BY DEF IInv, Approve
<1>2. /\ Touched(r) \in SUBSET Period /\ y \in Books /\ Grows(Book, y)
      /\ \A p \in Touched(r) : y.balance[p] # NoBalance
  BY <1>1, ApproveBook
<1>3. Matched(y)
  <2>1. AtMostTwo(Touched(r))
    BY <1>1, TouchedFew
  <2> QED BY <1>1, <1>2, <2>1, EnsureAllMatched DEF MInv
<1>4. PICK ps \in SUBSET Period : ps = Touched(r)
  BY <1>2
<1>5. PICK n : n = [p \in ps |-> -DaysIn(r, p)]
  OBVIOUS
<1>6. \A p \in ps : DaysIn(r, p) \in Nat /\ n[p] = -DaysIn(r, p) /\ n[p] \in Int
  BY <1>1, <1>4, <1>5, DaysType
<1>7. PICK f : f = es
  OBVIOUS
<1>8. f = RequestEntries("DEDUCTION", r, ps, n)
  BY <1>4, <1>6, <1>7 DEF RequestEntries
<1>9. PostsUse(f, "DEDUCTION", r, ps, n)
  <2>1. "DEDUCTION" \in UseKinds
    BY DEF UseKinds
  <2>2. PostsUse(RequestEntries("DEDUCTION", r, ps, n), "DEDUCTION", r, ps, n)
    BY <1>6, <2>1, RequestPosted
  <2> QED BY <1>8, <2>2
<1>10. \A e \in y.ledger : e \in ledger \/ e.kind \in {"CREDIT", "CARRY_FORWARD"}
  <2> HIDE DEF y
  <2> QED BY <1>1, <1>2, GrownLedger
<1>11. y.ledger \cap f = {}
  <2>1. \A e \in ledger : e.kind = "DEDUCTION" => e.for # r
    BY <1>1 DEF Debited, Deductions
  <2> QED BY <1>9, <1>10, <2>1 DEF PostsUse
<1>12. PICK x \in Books : x = y
  BY <1>2
<1>13. PICK z : z = Book'
  OBVIOUS
<1>14. z.ledger = x.ledger \cup f
  BY <1>1, <1>7, <1>12, <1>13 DEF Book
<1>15. ASSUME NEW p \in Period
       PROVE  IF p \in ps THEN /\ x.balance[p] # NoBalance
                               /\ z.balance[p] # NoBalance
                               /\ z.balance[p].entitlement = x.balance[p].entitlement
                               /\ z.balance[p].used = x.balance[p].used - n[p]
              ELSE z.balance[p] = x.balance[p]
  <2>1. z.balance[p] = IF p \in ps THEN c(p) ELSE y.balance[p]
    BY <1>1, <1>4, <1>13 DEF Book
  <2>2. CASE p \in ps
    <3>1. x.balance[p] \in Balance /\ x.balance[p] # NoBalance
      BY <1>2, <1>4, <1>12, <2>2 DEF Books
    <3>2. PICK b \in Balance : b = x.balance[p]
      BY <3>1
    <3>3. PICK k \in Nat : k = DaysIn(r, p)
      BY <1>6, <2>2
    <3>4. z.balance[p] = [b EXCEPT !.used = @ + k]
      BY <1>12, <2>1, <2>2, <3>2, <3>3
    <3>5. [b EXCEPT !.used = @ + k] \in Balance
      BY DEF Balance
    <3>6. z.balance[p] # NoBalance /\ z.balance[p].used = b.used + k /\ z.balance[p].entitlement = b.entitlement
      BY <3>4, <3>5, NoBalanceAssumption DEF Balance
    <3>7. b.used + k = b.used - n[p]
      <4>1. b.used \in Int /\ n[p] = -k
        BY <1>6, <2>2, <3>3 DEF Balance
      <4> QED BY <4>1
    <3> QED BY <2>2, <3>1, <3>2, <3>6, <3>7
  <2>3. CASE p \notin ps
    BY <1>12, <2>1, <2>3
  <2> QED BY <2>2, <2>3
<1>16. Matched(z)
  <2>1. Matched(x) /\ x.ledger \cap f = {}
    BY <1>3, <1>11, <1>12
  <2>2. Moves(x, z, ps, n)
    BY <1>15 DEF Moves
  <2> QED BY <1>6, <1>9, <1>14, <2>1, <2>2, DecisionMatched
<1>17. Numbered'
  <2>1. \A e \in ledger' : e.kind = "ADJUSTMENT" => e \in ledger
    BY <1>1, <1>7, <1>9, <1>10 DEF PostsUse
  <2> QED BY <1>1, <2>1 DEF MInv, Numbered
<1> QED BY <1>13, <1>16, <1>17 DEF MInv, Matched, Agrees, Posted, Entries

(* applyDecision() for a cancellation: a new refund of each deduction. *)
LEMMA CancelMatched ==
    ASSUME IInv, MInv, NEW r \in Request, Cancel(r)
    PROVE  MInv'
<1> DEFINE es == {Entry("REFUND", p, r, Refund(r, p)) : p \in RefundedIn(r)}
           c(p) == [balance[p] EXCEPT !.used = @ - Refund(r, p)]
<1>1. /\ TypeOK /\ Debited
      /\ status[r] = "APPROVED"
      /\ balance' = [p \in Period |-> IF p \in RefundedIn(r) THEN c(p) ELSE balance[p]]
      /\ ledger' = ledger \cup es
      /\ allocations' = allocations
  BY DEF IInv, Cancel
<1>2. /\ RefundedIn(r) \in SUBSET Period
      /\ \A p \in RefundedIn(r) : Refund(r, p) \in Nat /\ balance[p] # NoBalance
  BY <1>1, RefundType
<1>3. PICK ps \in SUBSET Period : ps = RefundedIn(r)
  BY <1>2
<1>4. PICK n : n = [p \in ps |-> Refund(r, p)]
  OBVIOUS
<1>5. \A p \in ps : n[p] = Refund(r, p) /\ n[p] \in Int /\ balance[p] # NoBalance
  BY <1>2, <1>3, <1>4
<1>6. PICK f : f = es
  OBVIOUS
<1>7. f = RequestEntries("REFUND", r, ps, n)
  BY <1>3, <1>5, <1>6 DEF RequestEntries
<1>8. PostsUse(f, "REFUND", r, ps, n)
  <2>1. "REFUND" \in UseKinds
    BY DEF UseKinds
  <2> QED BY <1>5, <1>7, <2>1, RequestPosted
<1>9. ledger \cap f = {}
  <2>1. \A e \in ledger : e.kind = "REFUND" => e.for # r
    BY <1>1 DEF Debited, Refunds
  <2> QED BY <1>8, <2>1 DEF PostsUse
<1>10. PICK x \in Books : x = Book
  BY <1>1, BookType
<1>11. PICK z : z = Book'
  OBVIOUS
<1>12. z.ledger = x.ledger \cup f
  BY <1>1, <1>6, <1>10, <1>11 DEF Book
<1>13. ASSUME NEW p \in Period
       PROVE  IF p \in ps THEN /\ x.balance[p] # NoBalance
                               /\ z.balance[p] # NoBalance
                               /\ z.balance[p].entitlement = x.balance[p].entitlement
                               /\ z.balance[p].used = x.balance[p].used - n[p]
              ELSE z.balance[p] = x.balance[p]
  <2>1. z.balance[p] = (IF p \in ps THEN c(p) ELSE balance[p]) /\ x.balance[p] = balance[p]
    BY <1>1, <1>3, <1>10, <1>11 DEF Book
  <2>2. CASE p \in ps
    <3>1. x.balance[p] \in Balance /\ x.balance[p] # NoBalance
      BY <1>5, <2>1, <2>2 DEF Books
    <3>2. PICK b \in Balance : b = x.balance[p]
      BY <3>1
    <3>3. PICK k \in Int : k = n[p]
      BY <1>5, <2>2
    <3>4. z.balance[p] = [b EXCEPT !.used = @ - k]
      BY <1>5, <2>1, <2>2, <3>2, <3>3
    <3>5. [b EXCEPT !.used = @ - k] \in Balance
      BY DEF Balance
    <3>6. z.balance[p] # NoBalance /\ z.balance[p].used = b.used - k /\ z.balance[p].entitlement = b.entitlement
      BY <3>4, <3>5, NoBalanceAssumption DEF Balance
    <3> QED BY <2>2, <3>1, <3>2, <3>3, <3>6
  <2>3. CASE p \notin ps
    BY <2>1, <2>3
  <2> QED BY <2>2, <2>3
<1>14. Matched(z)
  <2>1. Matched(x) /\ x.ledger \cap f = {}
    BY <1>9, <1>10 DEF MInv, Book
  <2>2. Moves(x, z, ps, n)
    BY <1>13 DEF Moves
  <2> QED BY <1>5, <1>8, <1>12, <2>1, <2>2, DecisionMatched
<1>15. Numbered'
  <2>1. \A e \in ledger' : e.kind = "ADJUSTMENT" => e \in ledger
    BY <1>1, <1>6, <1>8 DEF PostsUse
  <2> QED BY <1>1, <2>1 DEF MInv, Numbered
<1> QED BY <1>11, <1>14, <1>15 DEF MInv, Matched, Agrees, Posted, Entries

(* allocate(): an opening entry of a new balance, or a new adjustment. *)
LEMMA AllocateMatched ==
    ASSUME IInv, MInv, NEW p \in Period, NEW days \in Allocation, Allocate(p, days)
    PROVE  MInv'
<1> DEFINE before == balance[p]
           had == IF before = NoBalance THEN 0 ELSE before.entitlement
           kind == IF before = NoBalance THEN "OPENING" ELSE "ADJUSTMENT"
           entry == Entry(kind, p, allocations, days - had)
           after == IF before = NoBalance
                    THEN [entitlement |-> days, used |-> 0, manual |-> TRUE, policy |-> NoPolicy]
                    ELSE [before EXCEPT !.entitlement = days, !.manual = TRUE]
<1>1. /\ TypeOK
      /\ balance' = [balance EXCEPT ![p] = after]
      /\ ledger' = ledger \cup {entry}
      /\ allocations' = allocations + 1
  BY DEF IInv, Allocate
<1>2. days \in Nat /\ allocations \in Nat
  BY <1>1, LeaveAssumption DEF TypeOK
<1>3. PICK x \in Books : x = Book
  BY <1>1, BookType
<1>4. Matched(x) /\ x.balance = balance /\ x.ledger = ledger
  BY <1>3 DEF MInv, Book
<1>5. before \in Balance \cup {NoBalance}
  BY <1>1 DEF TypeOK
<1>6. had = Entitlement(before) /\ had \in Int
  BY <1>5 DEF Entitlement, Balance
<1>7. PICK c : c = after
  OBVIOUS
<1>8. c # NoBalance /\ c.entitlement = days /\ c.used = UsedOf(before) /\ UsedOf(before) \in Int
  <2>1. CASE before = NoBalance
    <3>1. NoPolicy \in PolicyRecord \cup {NoPolicy} /\ TRUE \in BOOLEAN
      OBVIOUS
    <3>2. c = [entitlement |-> days, used |-> 0, manual |-> TRUE, policy |-> NoPolicy]
      BY <1>7, <2>1
    <3>3. c \in Balance
      BY <1>2, <3>1, <3>2 DEF Balance
    <3>4. UsedOf(before) = 0
      BY <2>1, Zenon DEF UsedOf
    <3>5. c.entitlement = days /\ c.used = 0
      BY <3>2
    <3>6. c # NoBalance
      BY <3>3, NoBalanceAssumption
    <3> HIDE DEF before
    <3> QED BY <3>4, <3>5, <3>6
  <2>2. CASE before # NoBalance
    <3>1. PICK a \in Balance : a = before
      BY <1>5, <2>2
    <3>2. PICK one : one = [a EXCEPT !.entitlement = days]
      OBVIOUS
    <3>3. one \in Balance /\ one.entitlement = days /\ one.used = a.used
      BY <1>2, <3>2 DEF Balance
    <3>4. c = [one EXCEPT !.manual = TRUE]
      BY <1>7, <2>2, <3>1, <3>2
    <3>5. c \in Balance /\ c.entitlement = days /\ c.used = a.used
      BY <3>3, <3>4 DEF Balance
    <3>6. UsedOf(before) = a.used /\ a.used \in Int
      BY <2>2, <3>1 DEF UsedOf, Balance
    <3> QED BY <3>5, <3>6, NoBalanceAssumption
  <2> QED BY <2>1, <2>2
<1>9. PICK e \in EntryRecord : e = entry
  <2>1. kind \in CreditKinds /\ days - had \in Int
    BY <1>2, <1>6 DEF CreditKinds
  <2> HIDE DEF kind, had
  <2>2. entry \in EntryRecord
    BY <1>2, <2>1 DEF Entry, EntryRecord
  <2> QED BY <2>2
<1>10. /\ e.period = p /\ e.days = days - had /\ e.for = allocations
       /\ e.kind = IF before = NoBalance THEN "OPENING" ELSE "ADJUSTMENT"
  BY <1>9 DEF Entry
<1> HIDE DEF had, kind, entry, after, before
<1>11. /\ {e} \in SUBSET EntryRecord /\ IsFiniteSet({e})
       /\ \A f \in {e} : f.period = p
  BY <1>10, FS_Singleton
<1>12. x.ledger \cap {e} = {}
  <2>1. CASE before = NoBalance
    <3>1. Entries(ledger, p, CreditKinds \cup UseKinds) = {}
      BY <1>4, <2>1 DEF Matched, Agrees, before
    <3>2. e \notin ledger
      BY <1>10, <3>1 DEF Entries, EntryRecord
    <3> QED BY <1>4, <3>2
  <2>2. CASE before # NoBalance
    <3>1. \A f \in ledger : f.kind = "ADJUSTMENT" => f.for # allocations
      BY <1>2 DEF MInv, Numbered
    <3> QED BY <1>4, <1>10, <2>2, <3>1
  <2> QED BY <2>1, <2>2
<1>13. Posted({e}, p, CreditKinds) = days - had /\ Posted({e}, p, UseKinds) = 0
  <2>1. Entries({e}, p, CreditKinds) = {e} /\ Entries({e}, p, UseKinds) = {}
    BY <1>10 DEF Entries, CreditKinds, UseKinds
  <2>2. DaysOf[e] = days - had /\ DaysOf[e] \in Int
    BY <1>2, <1>6, <1>10 DEF DaysOf
  <2>3. Total(DaysOf, {e}) = days - had /\ Total(DaysOf, {}) = 0
    BY <2>2, TotalOne, TotalNone
  <2> QED BY <2>1, <2>3 DEF Posted
<1>14. /\ c.entitlement = Entitlement(x.balance[p]) + Posted({e}, p, CreditKinds)
       /\ c.used = UsedOf(x.balance[p]) - Posted({e}, p, UseKinds)
  <2>1. Entitlement(x.balance[p]) = had /\ UsedOf(x.balance[p]) = UsedOf(before)
    BY <1>4, <1>6 DEF before
  <2> QED BY <1>2, <1>6, <1>8, <1>13, <2>1
<1>15. PICK z : z = [balance |-> Put(x, p, c), ledger |-> x.ledger \cup {e}]
  OBVIOUS
<1>16. Matched(z)
  BY <1>4, <1>8, <1>11, <1>12, <1>14, <1>15, PutMatched
<1>17. z.balance = balance' /\ z.ledger = ledger'
  <2>1. balance' = Put(x, p, c)
    BY <1>1, <1>4, <1>7 DEF Put, TypeOK
  <2> QED BY <1>1, <1>4, <1>9, <1>15, <2>1
<1>18. Matched(Book)'
  BY <1>16, <1>17 DEF Matched, Book, Agrees, Posted, Entries
<1>19. Numbered'
  BY <1>1, <1>2, <1>9, <1>10 DEF MInv, Numbered
<1> QED BY <1>18, <1>19 DEF MInv

(* Before and right after the migration. *)
LEMMA InitMatched ==
    ASSUME Init
    PROVE  MInv
<1>1. /\ 1 \in Day /\ PeriodOf[1] \in Period /\ PeriodOf[1] \in Nat /\ LegacyUse \in Nat
      /\ today = 1 /\ allocations = 0
  BY LeaveAssumption, PeriodType DEF Init, Day
<1>2. TypeOK
  BY InitIInv DEF IInv
<1>3. PICK b : b = [entitlement |-> LegacyUse, used |-> LegacyUse, manual |-> TRUE, policy |-> NoPolicy]
  OBVIOUS
<1>4. b # NoBalance /\ b.entitlement = LegacyUse /\ b.used = LegacyUse
  <2>1. LegacyUse \in Int /\ TRUE \in BOOLEAN /\ NoPolicy \in PolicyRecord \cup {NoPolicy}
    BY <1>1
  <2>2. b \in Balance
    BY <1>3, <2>1 DEF Balance
  <2> QED BY <1>3, <2>2, NoBalanceAssumption
<1>5. balance = [p \in Period |-> IF legacy # {} /\ p = PeriodOf[1] THEN b ELSE NoBalance]
  BY <1>3 DEF Init
<1>6. PICK e, f : /\ e = Entry("OPENING", PeriodOf[1], PeriodOf[1], LegacyUse)
                  /\ f = Entry("LEGACY_USED", PeriodOf[1], PeriodOf[1], -LegacyUse)
  OBVIOUS
<1>7. /\ e.kind = "OPENING" /\ f.kind = "LEGACY_USED"
      /\ e.period = PeriodOf[1] /\ f.period = PeriodOf[1]
      /\ e.days = LegacyUse /\ f.days = -LegacyUse
      /\ e \in EntryRecord /\ f \in EntryRecord
  BY <1>1, <1>6 DEF Entry, EntryRecord, CreditKinds, UseKinds
<1>8. ledger = IF legacy = {} THEN {} ELSE {e, f}
  BY <1>6 DEF Init
<1>9. IsFiniteSet(ledger)
  <2>1. IsFiniteSet({}) /\ IsFiniteSet({e})
    BY FS_EmptySet, FS_Singleton
  <2>2. IsFiniteSet({e} \cup {f}) /\ {e, f} = {e} \cup {f}
    BY <2>1, FS_AddElement
  <2> QED BY <1>8, <2>1, <2>2
<1>10. ASSUME NEW p \in Period PROVE Agrees(balance[p], ledger, p)
  <2>1. CASE legacy # {} /\ p = PeriodOf[1]
    <3>1. Entries(ledger, p, CreditKinds) = {e} /\ Entries(ledger, p, UseKinds) = {f}
      BY <1>7, <1>8, <2>1 DEF Entries, CreditKinds, UseKinds
    <3>2. /\ DaysOf[e] = LegacyUse /\ DaysOf[f] = -LegacyUse
          /\ DaysOf[e] \in Int /\ DaysOf[f] \in Int
      BY <1>1, <1>7 DEF DaysOf
    <3>3. Posted(ledger, p, CreditKinds) = LegacyUse /\ Posted(ledger, p, UseKinds) = -LegacyUse
      BY <3>1, <3>2, TotalOne DEF Posted
    <3>4. balance[p] = b
      BY <1>5, <2>1
    <3>5. LegacyUse = -(-LegacyUse)
      BY <1>1
    <3> QED BY <1>4, <3>3, <3>4, <3>5 DEF Agrees
  <2>2. CASE ~(legacy # {} /\ p = PeriodOf[1])
    <3>1. balance[p] = NoBalance
      BY <1>5, <2>2
    <3>2. Entries(ledger, p, CreditKinds \cup UseKinds) = {}
      BY <1>7, <1>8, <2>2 DEF Entries
    <3> QED BY <3>1, <3>2 DEF Agrees
  <2> QED BY <2>1, <2>2
<1>11. Numbered
  BY <1>7, <1>8 DEF Numbered
<1> QED BY <1>9, <1>10, <1>11 DEF MInv, Matched, Book

(* Steps that neither balances nor entries take part in. *)
LEMMA QuietMatched ==
    ASSUME MInv, UNCHANGED <<balance, ledger, allocations>>
    PROVE  MInv'
BY DEF MInv, Matched, Book, Agrees, Posted, Entries, Numbered

(* Every step keeps the balances what their entries say. *)
LEMMA StepMatched ==
    ASSUME IInv, MInv, [Next]_vars
    PROVE  MInv'
<1>1. ASSUME NEW r \in Request, NEW s \in Span, NEW h \in Half, RequestLeave(r, s, h) PROVE MInv'
  BY <1>1, QuietMatched DEF RequestLeave
<1>2. ASSUME NEW r \in Request, Decide(r) PROVE MInv'
  <2>1. CASE Approve(r)
    BY <2>1, ApproveMatched
  <2>2. CASE Reject(r)
    BY <2>2, QuietMatched DEF Reject
  <2>3. CASE Withdraw(r)
    BY <2>3, QuietMatched DEF Withdraw
  <2>4. CASE Cancel(r)
    BY <2>4, CancelMatched
  <2> QED BY <1>2, <2>1, <2>2, <2>3, <2>4 DEF Decide
<1>3. ASSUME NEW p \in Period, NEW n \in Allocation, Allocate(p, n) PROVE MInv'
  BY <1>3, AllocateMatched
<1>4. CASE ReadOwn
  BY <1>4, ReadOwnMatched
<1>5. ASSUME NEW new \in Policy \cup {NoPolicy}, Configure(new) PROVE MInv'
  BY <1>5, QuietMatched DEF Configure
<1>6. CASE NextDay
  BY <1>6, QuietMatched DEF NextDay
<1>7. CASE UNCHANGED vars
  BY <1>7, QuietMatched DEF vars
<1> QED BY <1>1, <1>2, <1>3, <1>4, <1>5, <1>6, <1>7 DEF Next

(* The sums of the property are those of the invariant. *)
LEMMA MatchedBalances == TypeOK /\ MInv => BalancesMatchLedger
<1> SUFFICES ASSUME TypeOK, MInv, NEW p \in Period
             PROVE  IF p \in Exist
                    THEN /\ balance[p].entitlement = Amount(EntriesOf(p, CreditKinds))
                         /\ balance[p].used = -Amount(EntriesOf(p, UseKinds))
                    ELSE EntriesOf(p, CreditKinds \cup UseKinds) = {}
  BY DEF BalancesMatchLedger
<1>1. ledger \in SUBSET EntryRecord /\ IsFiniteSet(ledger) /\ Agrees(balance[p], ledger, p)
  BY DEF TypeOK, EntryRecord, MInv, Matched, Book
<1>2. \A kinds : EntriesOf(p, kinds) = Entries(ledger, p, kinds)
  BY DEF EntriesOf, Entries
<1>3. ASSUME NEW kinds PROVE Amount(EntriesOf(p, kinds)) = Posted(ledger, p, kinds)
  <2>1. PICK S : S = Entries(ledger, p, kinds)
    OBVIOUS
  <2>2. S \in SUBSET ledger
    BY <2>1 DEF Entries
  <2>3. S \in SUBSET EntryRecord /\ IsFiniteSet(S)
    BY <1>1, <2>2, FS_Subset
  <2>4. Amount(S) = Total(DaysOf, S)
    BY <2>3, AmountIsTotal
  <2> QED BY <1>2, <2>1, <2>4 DEF Posted
<1> QED BY <1>1, <1>2, <1>3 DEF Agrees, Exist

(* Each balance is what its ledger says: no lazy credit, carry-forward,     *)
(* capped credit, adjustment or refund moves one without the other, however *)
(* often a balance is read (LeaveBalanceService).                           *)
THEOREM BalancesFollowLedger == Spec => []BalancesMatchLedger
<1>1. Init => MInv
  BY InitMatched
<1>2. IInv /\ MInv /\ [Next]_vars => MInv'
  BY StepMatched
<1>3. IInv /\ MInv => BalancesMatchLedger
  BY MatchedBalances DEF IInv
<1> QED BY <1>1, <1>2, <1>3, Invariance, PTL DEF Spec
=============================================================================
