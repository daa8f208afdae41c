--------------------------- MODULE EnrollmentSeats ---------------------------
(***************************************************************************)
(* The seats of a school: enrolments, sections, the capacity policy and the *)
(* plans by which a class is divided into sections.  Joining, moving,       *)
(* confirming a plan, promoting and numbering are transactions at isolation *)
(* level Serializable (admissionsTransaction), so one action each; a plan   *)
(* is previewed in one transaction and confirmed in a later one, and        *)
(* anything may happen between.  Deferred database triggers check a section *)
(* when the transaction commits: Fits(s)'.                                  *)
(*                                                                          *)
(* An enrolment is a student in an academic year (they are unique).  Row    *)
(* versions and update times are kept as what a plan has seen and is still  *)
(* so: "seen" enrolments, "fresh" sections.  A capacity that is not set is  *)
(* the empty set.                                                           *)
(***************************************************************************)
EXTENDS Integers, FiniteSets, FiniteSetsExt

CONSTANTS
    Student, Section, SchoolClass,
    ClassOf,         \* the class of each section
    Room,            \* the room of each section
    Group,           \* academic groups
    LastYear,        \* academic years, in order of their start dates
    Capacity,        \* capacities that are typed in
    CapacityPolicy,  \* policies a manager may save; the first one is FirstPolicy
    FirstPolicy,
    RequireSection,  \* admissionsPolicy.requireSectionOnJoin
    Planner,         \* people with a plan on their screen
    NoSection, NoPlan,
    FirstClass, FirstSection, FirstEnrolled,  \* the school at the beginning
    MaxRoll,         \* bound on roll numbers
    MaxBatch,        \* bound on the enrolments of a batch
    MaxSeatChanges   \* bound on the number of steps

AcademicYear == 1..LastYear
Enrolment == Student \X AcademicYear
Roll == 0..MaxRoll      \* 0: no roll number

ClassRow == [year : AcademicYear, group : Group, status : {"ACTIVE", "INACTIVE"}]
SectionRow == [status : {"NONE", "ACTIVE", "INACTIVE"},
               capacity : {{}} \cup {{n} : n \in Capacity}]
EnrolmentRow == [status : {"NONE", "ACTIVE", "WITHDRAWN", "TRANSFERRED", "PROMOTED"},
                 class : SchoolClass, section : Section \cup {NoSection}, roll : Roll]

ASSUME SeatsAssumption ==
    /\ IsFiniteSet(Student) /\ LastYear \in Nat /\ MaxRoll \in Nat /\ Capacity \subseteq Nat
    /\ NoSection \notin Section /\ ClassOf \in [Section -> SchoolClass]
    /\ \A q \in CapacityPolicy : /\ q.default \subseteq Capacity /\ IsFiniteSet(q.rules)
                                 /\ \A r \in q.rules : r.maximum \in Capacity /\ r.reserved \in Nat

(* Enrolments are in sections that exist, and roll numbers of a section differ. *)
Housed(rows, sections) == \A e \in Enrolment :
    rows[e].section \in Section => sections[rows[e].section].status # "NONE"
RollsDiffer(rows) == \A d, e \in Enrolment :
    /\ d # e /\ d[2] = e[2]
    /\ rows[d].section = rows[e].section /\ rows[d].section # NoSection
    /\ rows[d].roll # 0
    => rows[d].roll # rows[e].roll
ASSUME FirstSchool ==
    /\ FirstClass \in [SchoolClass -> ClassRow] /\ FirstSection \in [Section -> SectionRow]
    /\ FirstPolicy \in CapacityPolicy /\ FirstEnrolled \in [Enrolment -> EnrolmentRow]
    /\ Housed(FirstEnrolled, FirstSection) /\ RollsDiffer(FirstEnrolled)

VARIABLES
    class,      \* rows of SchoolClass
    section,    \* rows of Section
    policy,     \* SchoolSetting.sectionCapacityPolicy
    enrolled,   \* rows of StudentEnrollment
    plan,       \* what each planner previewed
    edited,     \* history: classes whose year or group was edited
    overlooked, \* history: enrolments a confirmed plan concerned and its preview did not show
    seatChanges

seatsVars == <<class, section, policy, enrolled, plan, edited, overlooked, seatChanges>>
rowVars == <<class, section, policy, edited>>

-----------------------------------------------------------------------------
(* capacity-rules.ts: all ceilings that apply are hard, reserved seats come off. *)
ClassScope(c) == {<<"ACADEMIC_LEVEL", class[c].group>>, <<"GRADE", c>>}
Scope(s) == ClassScope(ClassOf[s]) \cup {<<"CLASSROOM", Room[s]>>, <<"SECTION", s>>}
Matches(c, scope) == {r \in policy.rules : r.year = class[c].year /\ <<r.level, r.target>> \in scope}
Maxima(rules, own) == own \cup policy.default \cup {r.maximum : r \in rules}
Usable(rules, own) == Max({0, Min(Maxima(rules, own)) - Max({0} \cup {r.reserved : r \in rules})})
HasCapacity(s) == Maxima(Matches(ClassOf[s], Scope(s)), section[s].capacity) # {}
EffectiveCapacity(s) == Usable(Matches(ClassOf[s], Scope(s)), section[s].capacity)

Active == {e \in Enrolment : enrolled[e].status = "ACTIVE"}
Occupants(s, y) == {e \in Active : e[2] = y /\ enrolled[e].section = s}
Occupied(s, y) == Cardinality(Occupants(s, y))
Unassigned(c, y) == {e \in Active : e[2] = y /\ enrolled[e].class = c /\ enrolled[e].section = NoSection}

(* The trigger "admissions_check_capacity" of a section that was written, and of the *)
(* section of an active enrolment that was written.                                 *)
Fits(s) == HasCapacity(s) => \A y \in AcademicYear : Occupied(s, y) <= EffectiveCapacity(s)
Checked_Raised(S) == \A s \in S : (Fits(s)' \/ section[s] # section'[s])
Checked(S) == \A s \in S : Fits(s)'

ActiveSections(c) == {s \in Section : ClassOf[s] = c /\ section[s].status = "ACTIVE"}

(* A section somebody is about to be placed in. *)
Open(s, c, y) ==
    /\ s \in Section /\ ClassOf[s] = c
    /\ section[s].status = "ACTIVE"
    /\ class[c].year = y
    /\ HasCapacity(s)

(* assignSectionRoll: free among the rolls of all other enrolments of the section, *)
(* whatever their status; the next one unless a number is asked for.               *)
RollsUsed_OfActive(s, y, except) ==
    {enrolled[e].roll : e \in {d \in Occupants(s, y) : d \notin except}} \ {0}
RollsUsed(s, y, except) ==
    {enrolled[e].roll : e \in {d \in Enrolment : d \notin except /\ d[2] = y /\ enrolled[d].section = s}} \ {0}
NextRoll(s, y, except) == 1 + Max({0} \cup RollsUsed(s, y, except))
RollFor(s, y, except) == IF s = NoSection THEN {0} ELSE (1..MaxRoll) \ RollsUsed(s, y, except)

(* A batch is numbered row by row, e going to section to[e]: automatically means the  *)
(* numbers that follow the highest.                                                   *)
Beside(B, to, e) == {d \in B : to[d] = to[e] /\ d[2] = e[2] /\ to[e] # NoSection}
Numbers(B, to, roll, automatic) == \A e \in B :
    /\ roll[e] \in RollFor(to[e], e[2], B)
    /\ \A d \in Beside(B, to, e) \ {e} : roll[d] # roll[e]
    /\ automatic /\ to[e] # NoSection =>
          roll[e] < NextRoll(to[e], e[2], B) + Cardinality(Beside(B, to, e))

(* Writing the sections S and raising the versions of E makes plans stale. *)
Stale_Moves(S, E) == [p \in Planner |->
    IF plan[p] = NoPlan THEN NoPlan ELSE [plan[p] EXCEPT !.seen = @ \ E]]
Stale(S, E) == [p \in Planner |->
    IF plan[p] = NoPlan THEN NoPlan ELSE [plan[p] EXCEPT !.fresh = @ \ S, !.seen = @ \ E]]

Counted == seatChanges < MaxSeatChanges /\ seatChanges' = seatChanges + 1
-----------------------------------------------------------------------------
SeatsInit ==
    /\ class = FirstClass
    /\ section = FirstSection
    /\ policy = FirstPolicy
    /\ enrolled = FirstEnrolled
    /\ plan = [p \in Planner |-> NoPlan]
    /\ edited = {}
    /\ overlooked = {}
    /\ seatChanges = 0
    /\ \A s \in Section : Fits(s)   \* the triggers have checked what was written

(* autoAssignOnJoin: a section with a free seat and the lowest count or utilisation. *)
Load(s, y) == IF policy.utilisation
              THEN (1000 * Occupied(s, y)) \div Max({1, EffectiveCapacity(s)})
              ELSE Occupied(s, y)
Vacant(c, y) == {s \in Section : Open(s, c, y) /\ Occupied(s, y) < EffectiveCapacity(s)}
Automatic(c, y) ==
    IF policy.auto /\ Vacant(c, y) # {}
    THEN {s \in Vacant(c, y) : \A t \in Vacant(c, y) : Load(s, y) <= Load(t, y)}
    ELSE {NoSection}

(* StudentAdmissionsService.create: a new student, placed by hand or automatically. *)
Join(e, c, s, roll) ==
    /\ Counted
    /\ \A y \in AcademicYear : enrolled[<<e[1], y>>].status = "NONE"
    /\ class[c].year = e[2]
    /\ \/ s # NoSection /\ Open(s, c, e[2]) /\ Occupied(s, e[2]) < EffectiveCapacity(s)
       \/ s \in Automatic(c, e[2])
    /\ RequireSection => s # NoSection
    /\ roll \in RollFor(s, e[2], {})
    /\ enrolled' = [enrolled EXCEPT ![e] =
          [status |-> "ACTIVE", class |-> c, section |-> s, roll |-> roll]]
    /\ UNCHANGED <<rowVars, overlooked>>
    /\ LET written == {s} \cup (IF policy.auto /\ s \in Automatic(c, e[2])
                               THEN ActiveSections(c) ELSE {})
       IN plan' = Stale(written, {}) /\ Checked(written \ {NoSection})

(* StudentIntakeService.confirm: an uploaded list joins in one transaction.  Sections   *)
(* are created when the demand of the class exceeds its usable seats (sectionProposal). *)
(* The preview is taken again and must be the same, so a list is confirmed in the state *)
(* it was shown in.  Who is not placed while seats are left is placed automatically.    *)
Norm(c) == Maxima(Matches(c, ClassScope(c)), {})
Proposed(c, extra, new) ==
    LET demand == Cardinality({e \in Active : e[2] = class[c].year /\ enrolled[e].class = c}) + extra
        shortage == demand - MapThenSumSet(EffectiveCapacity, ActiveSections(c))
        seats == Usable(Matches(c, ClassScope(c)), {})
    IN /\ \A s \in ActiveSections(c) : HasCapacity(s) /\ Occupied(s, class[c].year) <= EffectiveCapacity(s)
       /\ \A s \in new : section[s].status = "NONE" /\ ClassOf[s] = c
       /\ new # {} => Norm(c) # {} /\ seats > 0 /\ shortage > (Cardinality(new) - 1) * seats
       /\ shortage > 0 => Norm(c) # {} /\ shortage <= Cardinality(new) * seats
ConfirmIntake(B, c, new, to, roll) ==
    /\ Counted
    /\ B # {} /\ class[c].status = "ACTIVE"
    /\ \A e \in B : /\ class[c].year = e[2]
                    /\ \A y \in AcademicYear : enrolled[<<e[1], y>>].status = "NONE"
                    /\ to[e] \in ActiveSections(c) \cup new \cup {NoSection}
                    /\ RequireSection => to[e] # NoSection
    /\ Proposed(c, Cardinality(B), new)
    /\ Numbers(B, to, roll, TRUE)
    /\ section' = [s \in Section |-> IF s \in new
                     THEN [status |-> "ACTIVE", capacity |-> {Min(Norm(c))}] ELSE section[s]]
    /\ enrolled' = [e \in Enrolment |-> IF e \in B
          THEN [status |-> "ACTIVE", class |-> c, section |-> to[e], roll |-> roll[e]]
          ELSE enrolled[e]]
    /\ plan' = Stale(ActiveSections(c), {})
    /\ UNCHANGED <<class, policy, edited, overlooked>>
    /\ Checked(ActiveSections(c) \cup new)
    /\ policy.auto /\ NoSection \in {to[e] : e \in B} =>
          \A s \in ActiveSections(c) \cup new, y \in {class[c].year} :
             (Occupied(s, y) >= EffectiveCapacity(s))'

(* EnrollmentAllocationService.preview, and what the planner then changes of it: the  *)
(* sections of the plan (those that do not exist are to be created) and capacities.   *)
Preview(p, c, capacity) ==
    /\ Counted
    /\ DOMAIN capacity # {}
    /\ \A s \in DOMAIN capacity : ClassOf[s] = c /\ section[s].status # "INACTIVE"
    /\ LET existing == {s \in DOMAIN capacity : section[s].status = "ACTIVE"}
           y == class[c].year
       IN plan' = [plan EXCEPT ![p] =
              [class |-> c, year |-> y, policy |-> policy, capacity |-> capacity,
               existing |-> existing, fresh |-> existing, seen |-> Unassigned(c, y),
               occupants |-> UNION {Occupants(s, y) : s \in existing}]]
    /\ UNCHANGED <<rowVars, enrolled, overlooked>>

(* What moveInTransaction writes: enrolment e of B goes to section to[e] of class c.  *)
Moved(B, c, to, roll) == [e \in Enrolment |-> IF e \in B
    THEN [enrolled[e] EXCEPT !.class = c, !.section = to[e], !.roll = roll[e]] ELSE enrolled[e]]
MayMove(B, c, to) == \A e \in B :
    /\ e \in Active
    /\ class[c].year = e[2] /\ class[c].status = "ACTIVE"
    /\ <<c, to[e]>> # <<enrolled[e].class, enrolled[e].section>>
    /\ RequireSection => to[e] # NoSection
    /\ e \in DOMAIN policy.allowed => to[e] \in policy.allowed[e] \cup {NoSection}

(* EnrollmentAllocationService.confirm: the plan's sections are as previewed, and the  *)
(* enrolments assigned or put on the waiting list are exactly the unassigned ones. The *)
(* policy is compared only for a client that sends the one it was shown.               *)
Confirm(p, to, roll, compared) ==
    /\ Counted
    /\ plan[p] # NoPlan
    /\ LET c == plan[p].class
           y == plan[p].year
           S == DOMAIN plan[p].capacity
           B == DOMAIN to
       IN /\ class[c].year = y
          /\ compared => policy = plan[p].policy
          /\ plan[p].existing = plan[p].fresh
          /\ \A s \in S \ plan[p].existing : section[s].status = "NONE"
          /\ Unassigned(c, y) = plan[p].seen
          /\ B \subseteq Unassigned(c, y)
          /\ \A e \in B : to[e] \in S
          /\ section' = [s \in Section |-> IF s \in S
                THEN [status |-> "ACTIVE", capacity |-> {plan[p].capacity[s]}] ELSE section[s]]
          /\ MayMove(B, c, to) /\ Numbers(B, to, roll, TRUE)
          /\ enrolled' = Moved(B, c, to, roll)
          /\ overlooked' = overlooked \cup
                ((UNION {Occupants(s, y) : s \in plan[p].existing}) \ plan[p].occupants)
          /\ plan' = [Stale({to[e] : e \in B} \cup {s \in S : section'[s] # section[s]}, B)
                      EXCEPT ![p] = NoPlan]
          /\ UNCHANGED <<class, policy, edited>>
          /\ Checked(S)
          /\ \A s \in S, z \in {y} : Occupied(s, z)' <= plan[p].capacity[s]

(* EnrollmentAllocationService.move, also from StudentsService.updateEnrollment: a     *)
(* batch changes places at once, so that full sections may exchange students.          *)
Move(B, c, to, roll) ==
    /\ Counted
    /\ B # {}
    /\ MayMove(B, c, to)
    /\ \A e \in B : to[e] # NoSection => Open(to[e], c, e[2])
    /\ Numbers(B, to, roll, FALSE)
    /\ enrolled' = Moved(B, c, to, roll)
    /\ plan' = Stale({to[e] : e \in B}, B)
    /\ UNCHANGED <<rowVars, overlooked>>
    /\ Checked({to[e] : e \in B} \ {NoSection})

(* The rest of updateEnrollment, and of a move to the same place: another roll number, *)
(* or a status; an enrolment that ended stays ended.                                   *)
Renumber(e, roll) ==
    /\ Counted
    /\ enrolled[e].status # "NONE" /\ enrolled[e].section # NoSection
    /\ class[ClassOf[enrolled[e].section]].year = e[2]
    /\ roll \in RollFor(enrolled[e].section, e[2], {e})
    /\ enrolled' = [enrolled EXCEPT ![e] = [enrolled[e] EXCEPT !.roll = roll]]
    /\ plan' = Stale({enrolled[e].section}, {e})
    /\ UNCHANGED <<rowVars, overlooked>>
    /\ Checked({enrolled[e].section})
SetStatus(e, status) ==
    /\ Counted
    /\ enrolled[e].status \notin {"NONE", status}
    /\ status \in {"TRANSFERRED", "WITHDRAWN"}
    /\ enrolled' = [enrolled EXCEPT ![e] = [enrolled[e] EXCEPT !.status = status]]
    /\ plan' = Stale({}, {e})
    /\ UNCHANGED <<rowVars, overlooked>>

(* StudentsService.remove: the row's version is not raised. *)
Withdraw(student) ==
    /\ Counted
    /\ \E e \in Active : e[1] = student
    /\ enrolled' = [e \in Enrolment |-> IF e \in Active /\ e[1] = student
                      THEN [enrolled[e] EXCEPT !.status = "WITHDRAWN"] ELSE enrolled[e]]
    /\ UNCHANGED <<rowVars, plan, overlooked>>

(* EnrollmentAllocationService.promote: a later year, one class and at most one section. *)
Promote(B, c, s, roll) ==
    /\ Counted
    /\ B # {} /\ B \subseteq Active
    /\ class[c].status = "ACTIVE"
    /\ LET y == class[c].year
           new == {<<e[1], y>> : e \in B}
           to == [n \in new |-> s]
       IN /\ \A e \in B : e[2] < y /\ enrolled[<<e[1], y>>].status = "NONE"
          /\ \A d, e \in B : d[1] = e[1] => d = e
          /\ RequireSection => s # NoSection
          /\ s # NoSection => /\ Open(s, c, y)
                              /\ Occupied(s, y) + Cardinality(B) <= EffectiveCapacity(s)
          /\ DOMAIN roll = new /\ Numbers(new, to, roll, TRUE)
          /\ enrolled' = [e \in Enrolment |->
                IF e \in new THEN [status |-> "ACTIVE", class |-> c, section |-> s, roll |-> roll[e]]
                ELSE IF e \in B THEN [enrolled[e] EXCEPT !.status = "PROMOTED"]
                ELSE enrolled[e]]
          /\ plan' = Stale({s}, B)
    /\ UNCHANGED <<rowVars, overlooked>>

(* SectionsService.rollNumbers: those of the section without a number get the next ones. *)
GenerateRolls(s, y, roll) ==
    /\ Counted
    /\ section[s].status = "ACTIVE" /\ class[ClassOf[s]].year = y
    /\ LET B == {e \in Occupants(s, y) : enrolled[e].roll = 0 /\ enrolled[e].class = ClassOf[s]}
       IN /\ DOMAIN roll = B /\ B # {}
          /\ Numbers(B, [e \in B |-> s], roll, TRUE)
          /\ enrolled' = [e \in Enrolment |-> IF e \in B
                            THEN [enrolled[e] EXCEPT !.roll = roll[e]] ELSE enrolled[e]]
          /\ plan' = Stale({s}, B)
    /\ UNCHANGED <<rowVars, overlooked>>
    /\ Checked({s})

(* saveCapacityPolicy, with the trigger on SchoolSetting: scopes and constraints must   *)
(* refer to what exists, and no section may already hold more than it would allow.      *)
ValidPolicy(q) ==
    /\ \A r \in q.rules : \E s \in Section :
          section[s].status # "NONE" /\ r.year = class[ClassOf[s]].year /\ <<r.level, r.target>> \in Scope(s)
    /\ \A e \in DOMAIN q.allowed : e \in Active /\ \A s \in q.allowed[e] :
          section[s].status = "ACTIVE" /\ ClassOf[s] = enrolled[e].class
SavePolicy(q) ==
    /\ Counted
    /\ q # policy
    /\ ValidPolicy(q)
    /\ policy' = q
    /\ UNCHANGED <<class, section, edited, enrolled, plan, overlooked>>
    /\ Checked(Section)

(* SectionsService.create, update and remove. *)
CreateSection(s, status, capacity) ==
    /\ Counted
    /\ section[s].status = "NONE"
    /\ class[ClassOf[s]].status = "ACTIVE"
    /\ section' = [section EXCEPT ![s] = [status |-> status, capacity |-> capacity]]
    /\ UNCHANGED <<class, policy, edited, enrolled, plan, overlooked>>
UpdateSection(s, status, capacity) ==
    /\ Counted
    /\ section[s].status # "NONE"
    /\ capacity = {} => section[s].capacity = {}
    /\ section' = [section EXCEPT ![s] = [status |-> status, capacity |-> capacity]]
    /\ plan' = Stale({s}, {})
    /\ UNCHANGED <<class, policy, edited, enrolled, overlooked>>
    /\ Checked({s})
RemoveSection(s) ==
    /\ Counted
    /\ section[s].status # "NONE"
    /\ \A e \in Enrolment : enrolled[e].section # s
    /\ section' = [section EXCEPT ![s] = [status |-> "NONE", capacity |-> {}]]
    /\ plan' = Stale({s}, {})
    /\ UNCHANGED <<class, policy, edited, enrolled, overlooked>>

(* ClassesService.update: a single statement; nothing checks the sections' seats. *)
EditClass(c, row) ==
    /\ Counted
    /\ row # class[c]
    /\ class' = [class EXCEPT ![c] = row]
    /\ edited' = edited \cup {k \in {c} : <<row.year, row.group>> # <<class[c].year, class[c].group>>}
    /\ UNCHANGED <<section, policy, enrolled, plan, overlooked>>

Newcomers(y) == {<<st, y>> : st \in {u \in Student : \A z \in AcademicYear : enrolled[<<u, z>>].status = "NONE"}}
Places(c) == {s \in Section : ClassOf[s] = c} \cup {NoSection}
Batches(E) == {B \in SUBSET E : Cardinality(B) <= MaxBatch}
SeatsNext ==
    \/ \E c \in SchoolClass : \E e \in Newcomers(class[c].year), s \in Places(c) :
          \E roll \in RollFor(s, e[2], {}) : Join(e, c, s, roll)
    \/ \E c \in SchoolClass : \E B \in Batches(Newcomers(class[c].year)) :
          \E new \in SUBSET (Places(c) \ {NoSection}), to \in [B -> Places(c)], roll \in [B -> Roll] :
             ConfirmIntake(B, c, new, to, roll)
    \/ \E p \in Planner, c \in SchoolClass : \E S \in SUBSET (Places(c) \ {NoSection}) :
          \E capacity \in [S -> Capacity] : Preview(p, c, capacity)
    \/ \E p \in {q \in Planner : plan[q] # NoPlan} : \E B \in Batches(plan[p].seen) :
          \E to \in [B -> DOMAIN plan[p].capacity], roll \in [B -> Roll], compared \in BOOLEAN :
             Confirm(p, to, roll, compared)
    \/ \E B \in Batches(Active), c \in SchoolClass :
          \E to \in [B -> Places(c)], roll \in [B -> Roll] : Move(B, c, to, roll)
    \/ \E e \in Enrolment : \E roll \in RollFor(enrolled[e].section, e[2], {e}) : Renumber(e, roll)
    \/ \E e \in Enrolment, status \in {"TRANSFERRED", "WITHDRAWN"} : SetStatus(e, status)
    \/ \E student \in Student : Withdraw(student)
    \/ \E B \in Batches(Active), c \in SchoolClass : \E s \in Places(c) :
          \E roll \in [{<<e[1], class[c].year>> : e \in B} -> Roll] : Promote(B, c, s, roll)
    \/ \E s \in Section, y \in AcademicYear : \E B \in Batches(Occupants(s, y)) :
          \E roll \in [B -> Roll] : GenerateRolls(s, y, roll)
    \/ \E q \in CapacityPolicy : SavePolicy(q)
    \/ \E s \in Section, status \in {"ACTIVE", "INACTIVE"}, capacity \in {{}} \cup {{n} : n \in Capacity} :
          CreateSection(s, status, capacity) \/ UpdateSection(s, status, capacity)
    \/ \E s \in Section : RemoveSection(s)
    \/ \E c \in SchoolClass, row \in ClassRow : EditClass(c, row)

SeatsSpec == SeatsInit /\ [][SeatsNext]_seatsVars
-----------------------------------------------------------------------------
(* The rows of the tables and the plans are well formed. *)
SeatsTypeOK ==
    /\ class \in [SchoolClass -> ClassRow]
    /\ section \in [Section -> SectionRow]
    /\ policy \in CapacityPolicy
    /\ enrolled \in [Enrolment -> EnrolmentRow]
    /\ edited \subseteq SchoolClass
    /\ overlooked \subseteq Enrolment

(* "PostgreSQL guards enforcing effective capacity even on older write paths": no       *)
(* section ever holds more active students of a year than the section, the policy and   *)
(* the room allow, unless the year or group of its class was edited (ClassesService     *)
(* .update checks nothing).                                                              *)
WithinSeats == \A s \in Section : ClassOf[s] \notin edited => Fits(s)

(* Two enrolments of a section and year never have the same roll number, whichever of   *)
(* joining, moving in batches, promoting, generating and editing gave it, and also when *)
(* one of them has ended: attendance and marks refer to it.  Numbers are compared as    *)
(* numbers; the unique index compares them as they are written.                         *)
RollsUnique == RollsDiffer(enrolled)

(* A confirmed plan fills no section with somebody in it whom the preview did not show: *)
(* joining, moving and promoting write the section, so the plan is out of date.         *)
NothingOverlooked == overlooked = {}
=============================================================================
