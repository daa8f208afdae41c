----------------------------- MODULE LeaveLedger -----------------------------
(***************************************************************************)
(* The leave of one staff member and one leave type: the requests, the      *)
(* balance of each period and the ledger behind the balances.  Every        *)
(* request, decision, allocation and reading of balances is one             *)
(* Serializable transaction (operationsTransaction), so one action; a       *)
(* transaction that throws leaves nothing behind.  What remains hard is the *)
(* order: balances are opened, credited and carried forward lazily, by      *)
(* whatever transaction touches them first.                                 *)
(*                                                                          *)
(* Days are numbered, and a day belongs to one period: the calendar or the  *)
(* academic year, one of the two throughout.  Amounts count half days.      *)
(* A credit is due on the days a policy names (see leaveCreditSchedule);    *)
(* joining dates and proration only change those days and amounts.          *)
(***************************************************************************)
EXTENDS Integers, FiniteSets, FiniteSetsExt

CONSTANTS
    Request,         \* leave requests
    LastDay,         \* the calendar ends
    PeriodOf,        \* the period of each day
    Off,             \* holidays and weekly off days
    Span,            \* the sets of days a request may ask for
    Policy,          \* policies a manager may configure for the leave type
    NoPolicy,        \* the leave type has no policy
    NoBalance,       \* the balance of a period does not exist
    NoLimit,         \* maximumBalance is null
    Allocation,      \* entitlements a manager may set by hand
    MaxAllocations,  \* bound on those
    LegacyUse        \* days used before there was a ledger

Day == 1..LastDay
Period == {PeriodOf[d] : d \in Day}

(* A LeavePolicy: "due" holds the days on which "days" are credited. *)
PolicyRecord ==
    [days : Nat, due : SUBSET Day, carry : BOOLEAN, maxCarry : Nat,
     cap : Nat \cup {NoLimit}, paid : BOOLEAN, negative : BOOLEAN,
     half : BOOLEAN, countOff : BOOLEAN]

ASSUME LeaveAssumption ==
    /\ LastDay \in Nat \ {0}
    /\ PeriodOf \in [Day -> Nat]
    /\ \A c, d \in Day : c <= d => PeriodOf[c] <= PeriodOf[d]
    /\ Off \in SUBSET Day
    /\ Span \in SUBSET (SUBSET Day)
    /\ \A s \in Span : \A a, b, c \in s :   \* a year at most: two periods
          PeriodOf[a] = PeriodOf[b] \/ PeriodOf[b] = PeriodOf[c] \/ PeriodOf[a] = PeriodOf[c]
    /\ Policy \in SUBSET PolicyRecord
    /\ NoPolicy \notin PolicyRecord
    /\ NoLimit \notin Nat
    /\ Allocation \in SUBSET Nat
    /\ MaxAllocations \in Nat
    /\ LegacyUse \in Nat

Balance == [entitlement : Int, used : Int, manual : BOOLEAN,
            policy : PolicyRecord \cup {NoPolicy}]
ASSUME NoBalanceAssumption == NoBalance \notin Balance

VARIABLES
    today,       \* the date at the school
    policy,      \* the configured policy, or NoPolicy
    balance,     \* StaffLeaveBalance of each period
    ledger,      \* LeaveLedger
    status,      \* StaffLeaveRequest.status, "NONE" before it is made
    span,        \* the days asked for
    half,        \* StaffLeaveRequest.halfDay
    charged,     \* StaffLeaveRequest.chargedDays
    legacy,      \* requests debited before there was a ledger
    allocations  \* allocations made so far

requestVars == <<status, span, half, charged>>
vars == <<today, policy, balance, ledger, requestVars, legacy, allocations>>

----------------------------------------------------------------------------

Half == {"NONE", "MORNING", "AFTERNOON"}
CreditKinds == {"OPENING", "CREDIT", "CARRY_FORWARD", "ADJUSTMENT"}
UseKinds == {"DEDUCTION", "REFUND", "LEGACY_USED"}

TypeOK ==
    /\ today \in Day
    /\ policy \in Policy \cup {NoPolicy}
    /\ balance \in [Period -> Balance \cup {NoBalance}]
    /\ ledger \in SUBSET [kind : CreditKinds \cup UseKinds, period : Period,
                          for : Nat \cup Request, days : Int]
    /\ status \in [Request -> {"NONE", "PENDING", "APPROVED", "REJECTED", "CANCELLED"}]
    /\ span \in [Request -> Span \cup {{}, {1}}]
    /\ half \in [Request -> Half]
    /\ charged \in [Request -> Nat]
    /\ legacy \in SUBSET Request
    /\ allocations \in Nat

----------------------------------------------------------------------------
(* The ledger.  An entry is identified by its dedupeKey: the kind, the      *)
(* balance and what it was made for.                                        *)

Entry(kind, p, for, days) == [kind |-> kind, period |-> p, for |-> for, days |-> days]
Exists(entries, kind, p, for) ==
    \E e \in entries : e.kind = kind /\ e.period = p /\ e.for = for

Amount(entries) == MapThenSumSet(LAMBDA e : e.days, entries)

Larger(a, b) == IF a >= b THEN a ELSE b
Smaller(a, b) == IF a <= b THEN a ELSE b

Available(b) == b.entitlement - b.used

(* A book is what a transaction reads and writes: balances and entries.     *)
Book == [balance |-> balance, ledger |-> ledger]

----------------------------------------------------------------------------
(* Opening and crediting a balance: accrue() and ensure() *)

DueCredits_Again(book, p) ==
    {d \in book.balance[p].policy.due : PeriodOf[d] = p /\ d <= today}
DueCredits(book, p) ==
    {d \in book.balance[p].policy.due :
        /\ PeriodOf[d] = p
        /\ d <= today
        /\ ~Exists(book.ledger, "CREDIT", p, d)}

(* What n credits come to under the cap. *)
Credited(b, n) ==
    IF b.policy.cap = NoLimit THEN n * b.policy.days
    ELSE Smaller(n * b.policy.days, Larger(0, b.policy.cap - Available(b)))

Put(book, p, b) == [q \in Period |-> IF q = p THEN b ELSE book.balance[q]]

(* The credits are posted in the order of their dates, each clipped to what *)
(* the cap leaves, and posted even when that is nothing.                    *)
Accrue(book, p) ==
    LET b == book.balance[p]
        due == DueCredits(book, p)
        upTo(d) == Cardinality({c \in due : c <= d})
    IN IF b.manual \/ b.policy = NoPolicy THEN book
       ELSE [balance |-> Put(book, p, [b EXCEPT !.entitlement =
                                          @ + Credited(b, Cardinality(due))]),
             ledger |-> book.ledger \cup
                 {Entry("CREDIT", p, d, Credited(b, upTo(d)) - Credited(b, upTo(d) - 1))
                     : d \in due}]

Uncapped == [days |-> 0, due |-> {}, carry |-> FALSE, maxCarry |-> 0,
             cap |-> NoLimit, paid |-> TRUE, negative |-> TRUE, half |-> TRUE,
             countOff |-> FALSE]

(* A balance of an unconfigured type is manual and uncapped for good. *)
NewBalance ==
    [entitlement |-> 0, used |-> 0, manual |-> policy = NoPolicy,
     policy |-> IF policy = NoPolicy THEN Uncapped ELSE policy]

CarriedDays_Signed(b) == Smaller(Available(b), policy.maxCarry)
CarriedDays(b) ==
    LET most == Smaller(Available(b), policy.maxCarry) IN
    Larger(0, IF policy.cap = NoLimit THEN most ELSE Smaller(most, policy.cap))

Carries(book, p) ==
    /\ policy # NoPolicy
    /\ policy.carry
    /\ PeriodOf[today] >= p
    /\ p - 1 \in Period
    /\ book.balance[p - 1] # NoBalance

(* Days are carried from the period before when a balance is opened, and    *)
(* only once its period has begun; the period before keeps them.            *)
Open(book, p) ==
    LET new == [balance |-> Put(book, p, NewBalance), ledger |-> book.ledger]
        prior == Accrue(new, p - 1)
        days == CarriedDays(prior.balance[p - 1])
    IN IF Carries(book, p)
       THEN [balance |-> Put(prior, p, [NewBalance EXCEPT !.entitlement = days]),
             ledger |-> prior.ledger \cup {Entry("CARRY_FORWARD", p, p, days)}]
       ELSE new

Configured(book, p) ==
    [balance |-> Put(book, p, [book.balance[p] EXCEPT !.policy = policy]),
     ledger |-> book.ledger]

Ensure(book, p) ==
    Accrue(IF book.balance[p] = NoBalance THEN Open(book, p)
           ELSE IF book.balance[p].policy = NoPolicy THEN Configured(book, p)
           ELSE book,
           p)

Write(book) ==
    /\ balance' = book.balance
    /\ ledger' = book.ledger

----------------------------------------------------------------------------
(* Before the ledger was introduced a balance was an entitlement and its    *)
(* use; the migration turned both into entries of no request.               *)

Init ==
    /\ today = 1
    /\ policy \in Policy \cup {NoPolicy}
    /\ legacy \in {{}} \cup {{r} : r \in Request}
    /\ status = [r \in Request |-> IF r \in legacy THEN "APPROVED" ELSE "NONE"]
    /\ charged = [r \in Request |-> IF r \in legacy THEN LegacyUse ELSE 0]
    /\ span = [r \in Request |-> IF r \in legacy THEN {1} ELSE {}]
    /\ half = [r \in Request |-> "NONE"]
    /\ LET b == [entitlement |-> LegacyUse, used |-> LegacyUse, manual |-> TRUE,
                 policy |-> NoPolicy]
           p1 == PeriodOf[1]
       IN /\ balance = [p \in Period |-> IF legacy # {} /\ p = p1 THEN b ELSE NoBalance]
          /\ ledger = IF legacy = {} THEN {}
                      ELSE {Entry("OPENING", p1, p1, LegacyUse),
                            Entry("LEGACY_USED", p1, p1, -LegacyUse)}
    /\ allocations = 0

Active == {r \in Request : status[r] \in {"PENDING", "APPROVED"}}

(* A morning and an afternoon of one date do not overlap. *)
Overlap(q, days, h) ==
    /\ span[q] \cap days # {}
    /\ half[q] = "NONE" \/ h = "NONE" \/ half[q] = h

RequestLeave(r, days, h) ==
    /\ status[r] = "NONE"
    /\ h # "NONE" => Cardinality(days) = 1
    /\ \A q \in Active : ~Overlap(q, days, h)
    /\ status' = [status EXCEPT ![r] = "PENDING"]
    /\ span' = [span EXCEPT ![r] = days]
    /\ half' = [half EXCEPT ![r] = h]
    /\ UNCHANGED <<today, policy, balance, ledger, charged, legacy, allocations>>

Chargeable(r) ==
    {d \in span[r] : d \notin Off \/ (policy # NoPolicy /\ policy.countOff)}

Touched(r) == {PeriodOf[d] : d \in Chargeable(r)}
PerDay(r) == IF half[r] = "NONE" THEN 2 ELSE 1
DaysIn(r, p) == PerDay(r) * Cardinality({d \in Chargeable(r) : PeriodOf[d] = p})
ChargedDays_Signed(r) == -PerDay(r) * Cardinality(Chargeable(r))
ChargedDays(r) == PerDay(r) * Cardinality(Chargeable(r))

Enforced(b) == b.policy = NoPolicy \/ (b.policy.paid /\ ~b.policy.negative)
Sufficient_Some(b, days) == Enforced(b) => Available(b) > 0
Sufficient(b, days) == Enforced(b) => Available(b) >= days

Earliest(ps) == CHOOSE p \in ps : \A q \in ps : p <= q
Latest(ps) == CHOOSE p \in ps : \A q \in ps : q <= p

(* The balances of the dates are opened in the order of the dates. *)
EnsureAll(ps) ==
    LET book == Ensure(Book, Earliest(ps)) IN
    IF Earliest(ps) = Latest(ps) THEN book ELSE Ensure(book, Latest(ps))

Approve(r) ==
    LET book == EnsureAll(Touched(r)) IN
    /\ status[r] = "PENDING"
    /\ half[r] # "NONE" /\ policy # NoPolicy => policy.half
    /\ Touched(r) # {}
    /\ \A p \in Touched(r) : Sufficient(book.balance[p], DaysIn(r, p))
    /\ balance' = [p \in Period |->
                      IF p \in Touched(r)
                      THEN [book.balance[p] EXCEPT !.used = @ + DaysIn(r, p)]
                      ELSE book.balance[p]]
    /\ ledger' = book.ledger \cup
                     {Entry("DEDUCTION", p, r, -DaysIn(r, p)) : p \in Touched(r)}
    /\ status' = [status EXCEPT ![r] = "APPROVED"]
    /\ charged' = [charged EXCEPT ![r] = ChargedDays(r)]
    /\ UNCHANGED <<today, policy, span, half, legacy, allocations>>

Reject(r) ==
    /\ status[r] = "PENDING"
    /\ status' = [status EXCEPT ![r] = "REJECTED"]
    /\ UNCHANGED <<today, policy, balance, ledger, span, half, charged, legacy, allocations>>

Withdraw(r) ==
    /\ status[r] = "PENDING"
    /\ status' = [status EXCEPT ![r] = "CANCELLED"]
    /\ UNCHANGED <<today, policy, balance, ledger, span, half, charged, legacy, allocations>>

Debits(r) == {e \in ledger : e.kind = "DEDUCTION" /\ e.for = r}

(* What cancelling r gives back in period p: what was deducted, whatever    *)
(* the calendar or the policy says now.                                     *)
Refund_Recomputed(r, p) == IF p \in Touched(r) THEN DaysIn(r, p) ELSE 0
Refund(r, p) ==
    IF r \in legacy THEN (IF p = PeriodOf[1] THEN charged[r] ELSE 0)
    ELSE -(CHOOSE e \in Debits(r) : e.period = p).days

RefundedIn(r) ==
    IF r \in legacy THEN {PeriodOf[1]} ELSE {e.period : e \in Debits(r)}

Cancel(r) ==
    /\ status[r] = "APPROVED"
    /\ balance' = [p \in Period |->
                      IF p \in RefundedIn(r)
                      THEN [balance[p] EXCEPT !.used = @ - Refund(r, p)]
                      ELSE balance[p]]
    /\ ledger' = ledger \cup {Entry("REFUND", p, r, Refund(r, p)) : p \in RefundedIn(r)}
    /\ status' = [status EXCEPT ![r] = "CANCELLED"]
    /\ charged' = [charged EXCEPT ![r] = 0]
    /\ UNCHANGED <<today, policy, span, half, legacy, allocations>>

(* A manager sets an entitlement by hand; scheduled credits end. *)
Allocate(p, days) ==
    LET before == balance[p]
        had == IF before = NoBalance THEN 0 ELSE before.entitlement
    IN
    /\ allocations < MaxAllocations
    /\ before # NoBalance /\ Enforced(before) => days >= before.used
    /\ balance' = [balance EXCEPT ![p] =
                      IF before = NoBalance
                      THEN [entitlement |-> days, used |-> 0, manual |-> TRUE, policy |-> NoPolicy]
                      ELSE [before EXCEPT !.entitlement = days, !.manual = TRUE]]
    /\ ledger' = ledger \cup
          {Entry(IF before = NoBalance THEN "OPENING" ELSE "ADJUSTMENT",
                 p, allocations, days - had)}
    /\ allocations' = allocations + 1
    /\ UNCHANGED <<today, policy, requestVars, legacy>>

(* Reading one's own balances opens and credits that of today, for a        *)
(* configured type.                                                         *)
ReadOwn ==
    /\ policy # NoPolicy
    /\ Write(Ensure(Book, PeriodOf[today]))
    /\ UNCHANGED <<today, policy, requestVars, legacy, allocations>>

Configure(new) ==
    /\ policy' = new
    /\ UNCHANGED <<today, balance, ledger, requestVars, legacy, allocations>>

NextDay ==
    /\ today < LastDay
    /\ today' = today + 1
    /\ UNCHANGED <<policy, balance, ledger, requestVars, legacy, allocations>>

Decide(r) == Approve(r) \/ Reject(r) \/ Withdraw(r) \/ Cancel(r)

Next ==
    \/ \E r \in Request, s \in Span, h \in Half : RequestLeave(r, s, h)
    \/ \E r \in Request : Decide(r)
    \/ \E p \in Period, n \in Allocation : Allocate(p, n)
    \/ ReadOwn
    \/ \E new \in Policy \cup {NoPolicy} : Configure(new)
    \/ NextDay

Spec == Init /\ [][Next]_vars

----------------------------------------------------------------------------
(* Properties *)

Exist == {p \in Period : balance[p] # NoBalance}
EntriesOf(p, kinds) == {e \in ledger : e.period = p /\ e.kind \in kinds}

(* Each balance is what its ledger says: no lazy credit, carry-forward,     *)
(* capped credit, adjustment or refund moves one without the other, however *)
(* often a balance is read.                                                 *)
BalancesMatchLedger ==
    \A p \in Period :
        IF p \in Exist
        THEN /\ balance[p].entitlement = Amount(EntriesOf(p, CreditKinds))
             /\ balance[p].used = -Amount(EntriesOf(p, UseKinds))
        ELSE EntriesOf(p, CreditKinds \cup UseKinds) = {}

(* Two approvals never overspend a balance that is paid and may not go      *)
(* negative, nor do a cap, a change of policy, an allocation or a           *)
(* cancellation leave it overspent.                                         *)
NoOverspend ==
    \A p \in Exist : Enforced(balance[p]) => balance[p].used <= balance[p].entitlement

(* Cancelling gives back what approving took in each period, once, and      *)
(* nothing else does: neither the calendar nor the policy of the day of the *)
(* cancellation has a say.                                                  *)
RefundedWhenCancelled ==
    \A e \in ledger : e.kind = "DEDUCTION" =>
        /\ status[e.for] \in {"APPROVED", "CANCELLED"}
        /\ status[e.for] = "CANCELLED" <=>
              \E f \in ledger : /\ f.kind = "REFUND"
                                /\ f.for = e.for
                                /\ f.period = e.period
                                /\ f.days = -e.days

(* Credits and carried days are never posted before their date.             *)
NotEarly ==
    \A e \in ledger :
        /\ e.kind = "CREDIT" => e.for \in 1..today
        /\ e.kind = "CARRY_FORWARD" => e.period <= PeriodOf[today]

(* What request r holds of period p while it is approved: the deductions on *)
(* record, or the days debited before there was a ledger.                   *)
Taken(r, p) == IF status[r] = "APPROVED" /\ p \in RefundedIn(r) THEN Refund(r, p) ELSE 0

Entitled == [p \in Period |-> IF p \in Exist THEN balance[p].entitlement ELSE 0]
Used == [p \in Period |-> IF p \in Exist THEN balance[p].used ELSE 0]
Held == [r \in Request |-> [p \in Period |-> Taken(r, p)]]
Limited == {p \in Exist : Enforced(balance[p])}

Abstract == INSTANCE LeaveAccount WITH
    Claim <- Request, Account <- Period,
    entitled <- Entitled, used <- Used, held <- Held, limited <- Limited

(* The ledger and its lazily opened balances behave like the accounts of    *)
(* LeaveAccount: whatever a transaction opens, credits or carries on its    *)
(* way, and whatever changed since, the use of a balance moves only by all  *)
(* that a request takes or by just what it took, no entitlement is ever     *)
(* negative (a CHECK constraint of StaffLeaveBalance), and a balance that   *)
(* has a limit is within it.                                                *)
ImplementsAccount == Abstract!Spec

(* docs/school-operations.md: carry-forward comes from an existing balance. *)
(* The days stay there as well: leave in the old period, requested late or  *)
(* approved late, spends them a second time.                                *)
SpentOnce ==
    (\A p \in Exist : Enforced(balance[p])) =>
        MapThenSumSet(LAMBDA p : balance[p].used, Exist)
            <= Amount({e \in ledger : e.kind \in CreditKinds \ {"CARRY_FORWARD"}})
=============================================================================
