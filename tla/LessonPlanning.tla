--------------------------- MODULE LessonPlanning ---------------------------
(***************************************************************************)
(* The teaching plans of the programs (subjects) of one section.            *)
(* WorkflowService.plan reads the program, its sessions and those of the    *)
(* other programs, computes a plan, and writes it in a transaction under    *)
(* the lock of the section: two steps here.  Every other operation is one   *)
(* transaction that claims the program's revision, so that nothing of the   *)
(* program changed since it was read: one step each.  A claim makes the     *)
(* plans fail that were computed from the revision before.                  *)
(* A slot is a period of a date, numbered by date and start; which slots a  *)
(* program is offered (its published timetable or else its calendar, its    *)
(* terms, without holidays and events) may change at any time.              *)
(***************************************************************************)
EXTENDS Integers, Sequences, FiniteSets, FiniteSetsExt

CONSTANTS
    Program, NoPlan,
    MaxDateSlot, Overlapping,   \* pairs of different slots that overlap
    Offered,                \* [Program -> what it may be offered: the slots of each term]
    Topics,                 \* [Program -> its topics by term, in the order of the curriculum]
    TermOf,                 \* of each topic: the number of its unit's term; terms do not overlap
    Periods, Requires,      \* of each topic: its periods, the topics before it
    RevisionPeriods,        \* slots at the end of each term that are left free
    MaxPlanningSteps        \* bound

DateSlot == 1..MaxDateSlot
Topic(p) == {Topics[p][i] : i \in DOMAIN Topics[p]}
ASSUME TopicsAssumption == \A p \in Program :
    /\ Topics[p] \in Seq(Topic(p))
    /\ \A offered \in Offered[p], t \in Topic(p) : TermOf[t] \in DOMAIN offered /\ offered[TermOf[t]] \subseteq DateSlot
LessonStatus == {"EMPTY", "DRAFT", "APPROVED"}
NoSession == [status |-> "NONE", topic |-> "-", lesson |-> "EMPTY", reviewed |-> FALSE]

VARIABLES
    program,       \* rows of AcademicProgram: status and whether reviewed
    session,       \* rows of AcademicTeachingSession by program and slot
    planning,      \* a plan that is computed and not yet saved
    prepared,      \* history: sessions whose lesson was approved
    planningSteps

planningVars == <<program, session, planning, prepared, planningSteps>>
-----------------------------------------------------------------------------
Meet(a, b) == a = b \/ {a, b} \in Overlapping
Claimed(p) == /\ planningSteps < MaxPlanningSteps /\ planningSteps' = planningSteps + 1
              /\ planning' = [planning EXCEPT ![p] = NoPlan]

PlanningInit ==
    /\ program = [p \in Program |-> [status |-> "NONE", reviewed |-> FALSE]]
    /\ session = [p \in Program |-> [s \in DateSlot |-> NoSession]]
    /\ planning = [p \in Program |-> NoPlan]
    /\ prepared = {} /\ planningSteps = 0

(* create, analyze, review, updateCalendar (a review that may come after approval), approve. *)
SetProgram(p, from, row) ==
    /\ Claimed(p)
    /\ program[p].status \in from
    /\ program' = [program EXCEPT ![p] = row]
    /\ UNCHANGED <<session, prepared>>
CreateProgram(p) == SetProgram(p, {"NONE"}, [status |-> "DRAFT", reviewed |-> FALSE])
Analyze(p) == SetProgram(p, {"DRAFT"}, [status |-> "DRAFT", reviewed |-> FALSE])
ReviewProgram(p) == SetProgram(p, {"DRAFT", "APPROVED"}, [program[p] EXCEPT !.reviewed = TRUE])
ApproveProgram(p) == /\ program[p].reviewed
                     /\ SetProgram(p, {"DRAFT"}, [program[p] EXCEPT !.status = "APPROVED"])

(* buildTeachingPlan: the topics in order, each in its term from the first free slot  *)
(* after those it requires and after its own sessions that stay; done is what counts  *)
(* of them.                                                                            *)
OnTime(free) == {s \in free : Cardinality({x \in free : x > s}) >= RevisionPeriods}
TaughtIn(done, t) == {x.slot : x \in {d \in done : d.topic = t}}
TeachTopic(t, usable, stay, before) ==
    LET needed == Max({0, Periods[t] - Cardinality(stay)})
        barrier == Max({0} \cup stay \cup {before.until[q] : q \in Requires[t]})
        room == {s \in usable : s > before.last /\ s > barrier}
        taken == {s \in room : Cardinality({x \in room : x < s}) < needed}
        upTo == Max({barrier} \cup taken)
    IN [last |-> IF needed = 0 THEN before.last ELSE Max({before.last, upTo}),
        until |-> [before.until EXCEPT ![t] = upTo],
        new |-> before.new \cup {[slot |-> s, topic |-> t] : s \in taken},
        short |-> before.short \/ Cardinality(taken) < needed]
Teach(p, free, done) ==
    LET After[i \in 0..Len(Topics[p])] ==
          IF i = 0 THEN [last |-> 0, until |-> [t \in Topic(p) |-> 0], new |-> {}, short |-> FALSE]
          ELSE TeachTopic(Topics[p][i], OnTime(free[TermOf[Topics[p][i]]]), TaughtIn(done, Topics[p][i]), After[i - 1])
    IN After[Len(Topics[p])]

Planned(q) == {s \in DateSlot : session[q][s].status \in {"PLANNED", "COMPLETED"}}
Protected_IfTaught(p, from) ==
    {s \in DateSlot : session[p][s].status = "COMPLETED" \/ (session[p][s].status # "NONE" /\ s < from)}
Protected(p, from) == {s \in DateSlot : session[p][s].status # "NONE" /\
                          (session[p][s].status = "COMPLETED" \/ session[p][s].lesson # "EMPTY" \/ s < from)}
StartPlan(p, offered, from) ==
    /\ program[p].status = "APPROVED"
    /\ planning[p] = NoPlan
    /\ LET kept == Protected(p, from)
           counted == {s \in kept : session[p][s].status = "COMPLETED" \/ (session[p][s].status = "PLANNED" /\ s >= from)}
           free == [term \in DOMAIN offered |-> {s \in offered[term] \ kept :
                       s >= from /\ \A q \in Program \ {p} : \A x \in Planned(q) : ~Meet(s, x)}]
           plan == Teach(p, free, {[slot |-> s, topic |-> session[p][s].topic] : s \in counted})
       IN /\ ~plan.short
          /\ planning' = [planning EXCEPT ![p] = [new |-> plan.new, kept |-> kept]]
    /\ UNCHANGED <<program, session, prepared, planningSteps>>
(* The other programs may have been planned meanwhile. *)
Concurrent_SameSlot(p) == \E q \in Program \ {p} : \E x \in planning[p].new : x.slot \in Planned(q)
Concurrent(p) == \E q \in Program \ {p} : \E x \in planning[p].new, s \in Planned(q) : Meet(x.slot, s)
SavePlan(p) ==
    /\ planning[p] # NoPlan
    /\ ~Concurrent(p)
    /\ Claimed(p)
    /\ session' = [session EXCEPT ![p] = [s \in DateSlot |->
          IF \E x \in planning[p].new : x.slot = s
            THEN [NoSession EXCEPT !.status = "PLANNED", !.topic = (CHOOSE x \in planning[p].new : x.slot = s).topic]
          ELSE IF s \in planning[p].kept THEN session[p][s] ELSE NoSession]]
    /\ UNCHANGED <<program, prepared>>
GiveUp(p) == /\ planning[p] # NoPlan
             /\ planning' = [planning EXCEPT ![p] = NoPlan]
             /\ UNCHANGED <<program, session, prepared, planningSteps>>

SetSession(p, s, row) ==
    /\ session[p][s].status # "NONE"
    /\ Claimed(p)
    /\ session' = [session EXCEPT ![p][s] = row]
    /\ UNCHANGED program
Progress(p, s, status) ==
    /\ program[p].status = "APPROVED"
    /\ status = "COMPLETED" => session[p][s].lesson = "APPROVED"
    /\ SetSession(p, s, [session[p][s] EXCEPT !.status = status])
    /\ UNCHANGED prepared
(* generateLesson (reviewed FALSE) and reviewLesson (reviewed TRUE) *)
DraftLesson(p, s, reviewed) ==
    /\ session[p][s].lesson # "APPROVED"
    /\ SetSession(p, s, [session[p][s] EXCEPT !.lesson = "DRAFT", !.reviewed = reviewed])
    /\ UNCHANGED prepared
ApproveLesson(p, s) ==
    /\ session[p][s].reviewed /\ session[p][s].lesson = "DRAFT"
    /\ SetSession(p, s, [session[p][s] EXCEPT !.lesson = "APPROVED"])
    /\ prepared' = prepared \cup {<<p, s>>}

PlanningNext == \E p \in Program :
    \/ CreateProgram(p) \/ Analyze(p) \/ ReviewProgram(p) \/ ApproveProgram(p)
    \/ \E offered \in Offered[p], from \in DateSlot : StartPlan(p, offered, from)
    \/ SavePlan(p) \/ GiveUp(p)
    \/ \E s \in DateSlot :
         \/ \E status \in {"COMPLETED", "POSTPONED", "RETEACH"} : Progress(p, s, status)
         \/ \E reviewed \in BOOLEAN : DraftLesson(p, s, reviewed)
         \/ ApproveLesson(p, s)

PlanningSpec == PlanningInit /\ [][PlanningNext]_planningVars
-----------------------------------------------------------------------------
(* Programs and sessions are well formed, and nothing counts as taught before its *)
(* lesson was approved.                                                            *)
PlanningTypeOK ==
    /\ program \in [Program -> [status : {"NONE", "DRAFT", "APPROVED"}, reviewed : BOOLEAN]]
    /\ \A p \in Program, s \in DateSlot :
          /\ session[p][s].topic \in Topic(p) \cup {"-"} /\ session[p][s].lesson \in LessonStatus
          /\ session[p][s].status = "COMPLETED" => session[p][s].lesson = "APPROVED"

(* No two subjects of the section are planned for overlapping periods, although their *)
(* plans are computed before the lock is taken ...                                     *)
Ahead(p) == {s \in DateSlot : session[p][s].status = "PLANNED"}
PlannedApart == \A p, q \in Program : p # q => \A a \in Ahead(p), b \in Ahead(q) : ~Meet(a, b)
(* ... and no replanning throws away a lesson that was approved. *)
PreparedKept == \A x \in prepared : session[x[1]][x[2]].lesson = "APPROVED"
ReplanIsSafe == PlannedApart /\ PreparedKept
=============================================================================
