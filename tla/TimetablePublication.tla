------------------------ MODULE TimetablePublication ------------------------
(***************************************************************************)
(* School timings, who may teach whom, and the timetables made of both: a   *)
(* timetable is searched for, stored as a draft, published and archived,    *)
(* while timings, teaching profiles and subject teachers are edited.  One   *)
(* subject per class, one section per class and one weekday: a timetable    *)
(* names the teacher of every teaching slot.  The search is an optimiser:   *)
(* any result that validate() accepts may come out of it.  A request that   *)
(* checks first and writes in another transaction, or in none, is asked     *)
(* for and carried out in two steps.                                        *)
(***************************************************************************)
EXTENDS Integers, FiniteSets, FiniteSetsExt

CONSTANTS
    Teacher, NoTeacher, Taught,    \* Taught: the sections
    Slot, Layout,                  \* a layout gives every slot its start and end
    MaxTimings, MaxPlans, MaxSetupEdits, MaxPlanSteps,  \* bounds
    FirstTiming, FirstTimingRow, FirstTaughtBy, FirstPlan

Timing == 1..MaxTimings            \* PeriodTimingTemplate
Plan == 1..MaxPlans                \* TimetablePlan, in the order of generatedAt
TimingRow == [status : {"NONE", "DRAFT", "ACTIVE", "INACTIVE", "ARCHIVED", "REMOVED"},
              family : Timing, version : Nat, layout : Layout, serial : 0..MaxSetupEdits]
RowState == {"NONE", "ACTIVE", "ENDED"}
SubjectRow == Teacher \X {"PRIMARY", "SUPPORT", "UNNAMED"}   \* a teacher and an assignmentRole
PlanRow == [status : {"NONE", "DRAFT", "PUBLISHED", "ARCHIVED"}, section : Taught, timing : Timing,
            lessons : [Slot -> Teacher \cup {NoTeacher}], affected : BOOLEAN, reassigned : BOOLEAN]
NoSearch == [sections |-> {}]
(* What a request carries from its checks to its writes; number: which edit it is. *)
SetupRequest ==
    LET number == 1..MaxSetupEdits  some == SUBSET Taught
    IN  [op : {"update"}, number : number, timing : Timing, layout : Layout, sections : some]
          \cup [op : {"version"}, number : number, row : TimingRow, sections : some]
          \cup [op : {"status"}, number : number, timing : Timing, status : {"ACTIVE", "INACTIVE", "ARCHIVED"}, sections : some]
          \cup [op : {"assign"}, number : number, timing : Timing, sections : some]
          \cup [op : {"academics"}, number : number, section : Taught, teacher : Teacher]
          \cup [op : {"config"}, number : number, section : Taught, eligible : SUBSET Teacher]
          \cup [op : {"replace"}, number : number, section : Taught, primary : SUBSET Teacher,
                desired : SUBSET SubjectRow, removed : SUBSET SubjectRow]

VARIABLES
    timing, timingRow,     \* templates; their assignments to sections
    capable, working,      \* teaching profiles; active teachers
    taughtBy, restricted,  \* subject assignments; eligibleTeacherIds of the class subject
    plan, lastPlan,
    search,                \* a generation that has not stored its result
    publishing,            \* a plan whose publication was asked for; 0: none
    setupAsked,            \* requests whose checks have passed and that have not written
    setupEdits, planSteps
timetableVars == <<timing, timingRow, capable, working, taughtBy, restricted, plan, lastPlan,
                   search, publishing, setupAsked, setupEdits, planSteps>>
timingVars == <<timing, timingRow>>
teacherVars == <<capable, working, taughtBy, restricted>>
planVars == <<plan, lastPlan, search, publishing>>
-----------------------------------------------------------------------------
CountedPlan == planSteps < MaxPlanSteps /\ planSteps' = planSteps + 1 /\ UNCHANGED <<setupAsked, setupEdits>>
SetupStep == setupEdits < MaxSetupEdits /\ setupEdits' = setupEdits + 1 /\ UNCHANGED planSteps
CountedSetup == SetupStep /\ UNCHANGED setupAsked
AskSetup(q) ==
    /\ SetupStep /\ setupAsked' = setupAsked \cup {q}
    /\ UNCHANGED <<timingVars, teacherVars, planVars>>
Carried(q, op) == q.op = op /\ setupAsked' = setupAsked \ {q} /\ UNCHANGED <<setupEdits, planSteps>>

Exists(x) == timing[x].status \notin {"NONE", "REMOVED"}
ActiveRows(s) == {r \in SubjectRow : taughtBy[s][r] = "ACTIVE"}
Overlap(a, b) == a.start < b.end /\ b.start < a.end
(* The slots of one layout are in order and do not overlap: validateSlots. *)
ASSUME LayoutAssumption ==
    /\ \A l \in Layout : \A i, j \in Slot : l[i].start < l[i].end /\ (i # j => ~Overlap(l[i], l[j]))
    /\ NoTeacher \notin Teacher
(* The first timings and timetables are well formed, and published ones do not clash. *)
ASSUME FirstTimetables ==
    /\ {MaxTimings, MaxPlans, MaxSetupEdits} \subseteq Nat /\ IsFiniteSet(Taught)
    /\ FirstTiming \in [Timing -> TimingRow]
    /\ FirstTimingRow \in [Timing -> [Taught -> RowState]] /\ FirstTaughtBy \in [Taught -> [SubjectRow -> RowState]]
    /\ FirstPlan \in [Plan -> PlanRow]
    /\ \A p \in Plan : FirstPlan[p].status # "NONE" => FirstTiming[FirstPlan[p].timing].status \notin {"NONE", "REMOVED"}
    /\ \A p, q \in Plan : \A i, j \in Slot : LET f == FirstPlan[p]  g == FirstPlan[q] IN
         p # q /\ f.status = "PUBLISHED" /\ g.status = "PUBLISHED" /\ f.lessons[i] = g.lessons[j] /\ f.lessons[i] # NoTeacher =>
           ~Overlap(FirstTiming[f.timing].layout[i], FirstTiming[g.timing].layout[j])

(* The templates that may time a section: an active assignment of an active template. *)
TimingsOf(s) == {x \in Timing : timing[x].status = "ACTIVE" /\ timingRow[x][s] = "ACTIVE"}
(* eligibleTeachers: responsible for the class and its subject, and named by the class *)
(* subject if it names any.                                                            *)
Eligible(s) == {t \in working : s \in capable[t] /\ (restricted[s] # {} => t \in restricted[s])}

(* externalTimetablePlanIds: what reserves teachers outside the sections S. *)
LivePlans(s) == {p \in Plan : plan[p].section = s /\ plan[p].status \in {"DRAFT", "PUBLISHED"}}
External(S) ==
    UNION {{p \in LivePlans(s) : plan[p].status = "PUBLISHED" \/ p = Max(LivePlans(s))} : s \in Taught \ S}

(* A lesson of x and one of y, taught by the same teacher, at the same time. *)
Clash(x, lx, y, ly) ==
    \E i, j \in Slot : lx[i] = ly[j] /\ lx[i] # NoTeacher /\ Overlap(timing[x].layout[i], timing[y].layout[j])

(* validate(): the timetables of the sections S, in the timings at, keep the mandatory rules. *)
Valid(S, at, lessons) ==
    /\ \A s \in S : at[s] \in TimingsOf(s) /\ \A i \in Slot : lessons[s][i] \in Eligible(s)
    /\ \A s, r \in S : s # r => ~Clash(at[s], lessons[s], at[r], lessons[r])
    /\ \A s \in S, p \in External(S) : ~Clash(at[s], lessons[s], plan[p].timing, plan[p].lessons)

TimetableInit ==
    /\ timing = FirstTiming
    /\ timingRow = FirstTimingRow
    /\ capable = [t \in Teacher |-> Taught] /\ working = Teacher
    /\ taughtBy = FirstTaughtBy /\ restricted = [s \in Taught |-> {}]
    /\ plan = FirstPlan /\ lastPlan = Cardinality({p \in Plan : FirstPlan[p].status # "NONE"})
    /\ search = NoSearch /\ publishing = 0 /\ setupAsked = {} /\ setupEdits = 0 /\ planSteps = 0

(* Timings.  A template that was removed does not come back. *)
Free(x) == timing[x].status = "NONE" /\ \A y \in Timing : timing[y].status = "NONE" => x <= y
CreateTiming(l) ==
    /\ CountedSetup
    /\ \E x \in Timing :
        /\ Free(x)
        /\ timing' = [timing EXCEPT ![x] = [status |-> "DRAFT", family |-> x, version |-> 1, layout |-> l, serial |-> 0]]
    /\ UNCHANGED <<timingRow, teacherVars, planVars>>

(* A template that timetables refer to is not changed: the change becomes its next version, *)
(* and takes over the assignments.                                                          *)
Used_ByDrafts(x) == \E p \in Plan : plan[p].status = "DRAFT" /\ plan[p].timing = x
Used(x) == \E p \in Plan : plan[p].status # "NONE" /\ plan[p].timing = x
Assigned(x) == {s \in Taught : timingRow[x][s] = "ACTIVE"}
LatestVersion(x) == Max({timing[y].version : y \in {z \in Timing : Exists(z) /\ timing[z].family = timing[x].family}})
NextVersion(row, S) ==
    \E y \in Timing :
        /\ Free(y)
        /\ \A z \in Timing : Exists(z) /\ timing[z].family = row.family => timing[z].version # row.version
        /\ timing' = [timing EXCEPT ![y] = [row EXCEPT !.status = "DRAFT", !.serial = 0]]
        /\ timingRow' = [timingRow EXCEPT ![y] = [s \in Taught |-> IF s \in S THEN "ACTIVE" ELSE "NONE"]]
AskUpdate(x, l) ==
    /\ Exists(x) /\ l # timing[x].layout
    /\ AskSetup([op |-> "update", number |-> setupEdits + 1, timing |-> x, layout |-> l, sections |-> Assigned(x)])
UpdateTiming(q) ==
    LET x == q.timing IN
    /\ Carried(q, "update") /\ Exists(x)
    /\ IF Used(x)
       THEN NextVersion([timing[x] EXCEPT !.version = LatestVersion(x) + 1, !.layout = q.layout], q.sections)
       ELSE /\ timing' = [timing EXCEPT ![x].layout = q.layout, ![x].serial = q.number]
            /\ UNCHANGED timingRow
    /\ UNCHANGED <<teacherVars, planVars>>
(* version(): the assignments that were ended come back too. *)
AskVersion(x) ==
    /\ Exists(x)
    /\ AskSetup([op |-> "version", number |-> setupEdits + 1, row |-> [timing[x] EXCEPT !.version = @ + 1], sections |-> {s \in Taught : timingRow[x][s] # "NONE"}])
NewTimingVersion(q) ==
    /\ Carried(q, "version") /\ NextVersion(q.row, q.sections)
    /\ UNCHANGED <<teacherVars, planVars>>
AskStatus(x, status) ==
    /\ Exists(x)
    /\ AskSetup([op |-> "status", number |-> setupEdits + 1, timing |-> x, status |-> status, sections |-> Assigned(x)])
SetTimingStatus(q) ==
    LET x == q.timing IN
    /\ Carried(q, "status") /\ Exists(x)
    /\ timing' = [timing EXCEPT ![x].status = q.status]
    /\ timingRow' = [y \in Timing |-> [s \in Taught |->
           IF /\ q.status = "ACTIVE" /\ s \in q.sections /\ y # x /\ Exists(y)
              /\ timing[y].family = timing[x].family /\ timingRow[y][s] = "ACTIVE"
           THEN "ENDED" ELSE timingRow[y][s]]]
    /\ UNCHANGED <<teacherVars, planVars>>
(* Two requests may both find a section without timing. *)
AskToAssign(x, S) ==
    /\ Exists(x) /\ S # {} /\ \A s \in S, y \in Timing : timingRow[y][s] # "ACTIVE"
    /\ AskSetup([op |-> "assign", number |-> setupEdits + 1, timing |-> x, sections |-> S])
AssignTiming(q) ==
    /\ Carried(q, "assign") /\ Exists(q.timing)
    /\ timingRow' = [timingRow EXCEPT ![q.timing] = [s \in Taught |-> IF s \in q.sections THEN "ACTIVE" ELSE @[s]]]
    /\ UNCHANGED <<timing, teacherVars, planVars>>
UnassignTiming(x, s) ==
    /\ CountedSetup /\ timingRow[x][s] = "ACTIVE"
    /\ timingRow' = [timingRow EXCEPT ![x][s] = "ENDED"]
    /\ UNCHANGED <<timing, teacherVars, planVars>>
RemoveTiming(x) ==
    /\ CountedSetup /\ Exists(x) /\ ~Used(x)
    /\ timing' = [timing EXCEPT ![x].status = "REMOVED"]
    /\ timingRow' = [timingRow EXCEPT ![x] = [s \in Taught |-> "NONE"]]
    /\ UNCHANGED <<teacherVars, planVars>>

(* Teachers. *)
SaveTeachingSetup(t, S) ==
    /\ CountedSetup /\ capable' = [capable EXCEPT ![t] = S]
    /\ UNCHANGED <<working, taughtBy, restricted, timingVars, planVars>>
SetTeacherStatus(t) ==
    /\ CountedSetup /\ working' = IF t \in working THEN working \ {t} ELSE working \cup {t}
    /\ UNCHANGED <<capable, taughtBy, restricted, timingVars, planVars>>
AskSubjectConfig(s, T) ==
    /\ \A t \in T : t \in working /\ (s \in capable[t] \/ \E r \in ActiveRows(s) : r[1] = t)
    /\ AskSetup([op |-> "config", number |-> setupEdits + 1, section |-> s, eligible |-> T])
SaveSubjectConfig(q) ==
    /\ Carried(q, "config")
    /\ restricted' = [restricted EXCEPT ![q.section] = q.eligible]
    /\ UNCHANGED <<capable, working, taughtBy, timingVars, planVars>>
(* An assignment that has ended still counts as a duplicate. *)
AskAcademics(t, s) ==
    /\ t \in working /\ s \in capable[t] /\ \A r \in SubjectRow : r[1] = t => taughtBy[s][r] = "NONE"
    /\ AskSetup([op |-> "academics", number |-> setupEdits + 1, section |-> s, teacher |-> t])
AssignAcademics(q) ==
    /\ Carried(q, "academics")
    /\ taughtBy' = [taughtBy EXCEPT ![q.section][<<q.teacher, "UNNAMED">>] = "ACTIVE"]
    /\ UNCHANGED <<capable, working, restricted, timingVars, planVars>>
Teaches(t, s) == \E p \in Plan : plan[p].status # "NONE" /\ plan[p].section = s /\ \E i \in Slot : plan[p].lessons[i] = t
RemoveSubjectAssignment(t, s) ==
    /\ CountedSetup /\ ~Teaches(t, s)
    /\ \E r \in ActiveRows(s) : r[1] = t /\ taughtBy' = [taughtBy EXCEPT ![s][r] = "ENDED"]
    /\ UNCHANGED <<capable, working, restricted, timingVars, planVars>>
(* replaceSubjectTeachers: the new primary teacher takes over the lessons of those whose    *)
(* assignment goes, in every timetable of the section, published ones included; without one *)
(* they must have none.                                                                      *)
AskToReplace(s, primary, support) ==
    LET desired == (primary \X {"PRIMARY"}) \cup (support \X {"SUPPORT"})
        removed == ActiveRows(s) \ desired
    IN /\ Cardinality(primary) <= 1
       /\ \A t \in primary \cup support : t \in working /\ s \in capable[t]
       /\ primary = {} => \A r \in removed : ~Teaches(r[1], s)
       /\ AskSetup([op |-> "replace", number |-> setupEdits + 1, section |-> s, primary |-> primary, desired |-> desired, removed |-> removed])
TakenOver(row, gone, t) ==
    [row EXCEPT !.reassigned = @ \/ row.status = "PUBLISHED",
                !.lessons = [i \in Slot |-> IF @[i] \in gone THEN t ELSE @[i]]]
ReplaceSubjectTeachers(q) ==
    LET gone == {r[1] : r \in q.removed} \ q.primary
        taken(p) == plan[p].status # "NONE" /\ plan[p].section = q.section /\ \E i \in Slot : plan[p].lessons[i] \in gone
    IN /\ Carried(q, "replace")
       /\ taughtBy' = [taughtBy EXCEPT ![q.section] =
              [r \in SubjectRow |-> IF r \in q.desired THEN "ACTIVE" ELSE IF r \in q.removed THEN "ENDED" ELSE @[r]]]
       /\ plan' = IF q.primary = {} THEN plan
                  ELSE [p \in Plan |-> IF taken(p) THEN TakenOver(plan[p], gone, CHOOSE t \in q.primary : TRUE) ELSE plan[p]]
       /\ UNCHANGED <<capable, working, restricted, timingVars, lastPlan, search, publishing>>

(* Timetables.  The search reads its context and runs outside the transaction that stores *)
(* what it found, which reads the context again.                                           *)
Search(S) ==
    /\ CountedPlan /\ search = NoSearch /\ S # {}
    /\ \E at \in [S -> Timing], lessons \in [S -> [Slot -> Teacher]] :
        /\ Valid(S, at, lessons)
        /\ search' = [sections |-> S, at |-> at, lessons |-> lessons, serial |-> [s \in S |-> timing[at[s]].serial]]
    /\ UNCHANGED <<timingVars, teacherVars, plan, lastPlan, publishing>>
StillThere(f) == \A s \in f.sections : timing[f.at[s]].serial = f.serial[s]
StoreDrafts ==
    /\ CountedPlan /\ search # NoSearch
    /\ search' = NoSearch
    /\ IF StillThere(search) /\ Valid(search.sections, search.at, search.lessons)
       THEN /\ lastPlan + Cardinality(search.sections) <= MaxPlans
            /\ \E order \in [search.sections -> lastPlan + 1..lastPlan + Cardinality(search.sections)] :
                /\ \A s, r \in search.sections : s # r => order[s] # order[r]
                /\ plan' = [p \in Plan |->
                       IF \E s \in search.sections : order[s] = p
                       THEN LET s == CHOOSE r \in search.sections : order[r] = p
                            IN [status |-> "DRAFT", section |-> s, timing |-> search.at[s],
                                lessons |-> search.lessons[s], affected |-> FALSE, reassigned |-> FALSE]
                       ELSE plan[p]]
            /\ lastPlan' = lastPlan + Cardinality(search.sections)
       ELSE UNCHANGED <<plan, lastPlan>>
    /\ UNCHANGED <<timingVars, teacherVars, publishing>>

(* TimetablePlanningService.save: the drafts of the class are affected. *)
SaveRequirements(s) ==
    /\ CountedPlan /\ TimingsOf(s) # {}
    /\ plan' = [p \in Plan |-> IF plan[p].section = s /\ plan[p].status = "DRAFT"
                                THEN [plan[p] EXCEPT !.affected = TRUE] ELSE plan[p]]
    /\ UNCHANGED <<timingVars, teacherVars, lastPlan, search, publishing>>
RemoveEntry(p, i) ==
    /\ CountedPlan /\ plan[p].status # "NONE" /\ plan[p].lessons[i] # NoTeacher
    /\ plan' = [plan EXCEPT ![p].lessons[i] = NoTeacher]
    /\ UNCHANGED <<timingVars, teacherVars, lastPlan, search, publishing>>

(* Publishing archives what was in force in the same sections. *)
InForce(P) ==
    [p \in Plan |-> IF p \in P THEN [plan[p] EXCEPT !.status = "PUBLISHED"]
                    ELSE IF plan[p].status = "PUBLISHED" /\ \E q \in P : plan[q].section = plan[p].section
                    THEN [plan[p] EXCEPT !.status = "ARCHIVED"] ELSE plan[p]]
ValidPlans(P) ==
    LET of(s) == CHOOSE p \in P : plan[p].section = s
        S == {plan[p].section : p \in P}
    IN Valid(S, [s \in S |-> plan[of(s)].timing], [s \in S |-> plan[of(s)].lessons])
(* The conflicts of one plan are read before the transaction that publishes it. *)
AskToPublish(p) ==
    /\ CountedPlan /\ publishing = 0 /\ plan[p].status # "NONE" /\ ~plan[p].affected
    /\ publishing' = p
    /\ UNCHANGED <<timingVars, teacherVars, plan, lastPlan, search>>
Publish ==
    /\ CountedPlan /\ publishing # 0
    /\ publishing' = 0
    /\ plan' = IF plan[publishing].status = "DRAFT" /\ ValidPlans({publishing}) THEN InForce({publishing}) ELSE plan
    /\ UNCHANGED <<timingVars, teacherVars, lastPlan, search>>
PublishAll(P) ==
    /\ CountedPlan /\ P # {}
    /\ \A p \in P : /\ plan[p].status = "DRAFT" /\ ~plan[p].affected
                    /\ \A q \in Plan : q > p /\ plan[q].section = plan[p].section => plan[q].status = "NONE"
    /\ ValidPlans(P)
    /\ plan' = InForce(P)
    /\ UNCHANGED <<timingVars, teacherVars, lastPlan, search, publishing>>
RemovePlans(P) ==
    /\ CountedPlan /\ P # {} /\ \A p \in P : plan[p].status # "NONE"
    /\ plan' = [p \in Plan |-> IF p \in P THEN [plan[p] EXCEPT !.status = "NONE"] ELSE plan[p]]
    /\ UNCHANGED <<timingVars, teacherVars, lastPlan, search, publishing>>

TimetableNext ==
    \/ \E l \in Layout : CreateTiming(l)
    \/ \E x \in Timing :
        \/ \E l \in Layout : AskUpdate(x, l)
        \/ \E status \in {"ACTIVE", "INACTIVE", "ARCHIVED"} : AskStatus(x, status)
        \/ \E S \in SUBSET Taught : AskToAssign(x, S)
        \/ \E s \in Taught : UnassignTiming(x, s)
        \/ AskVersion(x) \/ RemoveTiming(x)
    \/ \E t \in Teacher :
        \/ \E S \in SUBSET Taught : SaveTeachingSetup(t, S)
        \/ SetTeacherStatus(t)
        \/ \E s \in Taught : AskAcademics(t, s) \/ RemoveSubjectAssignment(t, s)
    \/ \E s \in Taught :
        \/ \E T \in SUBSET Teacher : AskSubjectConfig(s, T)
        \/ \E primary, support \in SUBSET Teacher : AskToReplace(s, primary, support)
        \/ SaveRequirements(s)
    \/ \E q \in setupAsked :
        \/ UpdateTiming(q) \/ NewTimingVersion(q) \/ SetTimingStatus(q) \/ AssignTiming(q)
        \/ AssignAcademics(q) \/ SaveSubjectConfig(q) \/ ReplaceSubjectTeachers(q)
    \/ \E S \in SUBSET {s \in Taught : TimingsOf(s) # {}} : Search(S)
    \/ StoreDrafts \/ Publish
    \/ \E p \in Plan : AskToPublish(p) \/ \E i \in Slot : RemoveEntry(p, i)
    \/ \E P \in SUBSET Plan : PublishAll(P) \/ (RemovePlans(P) /\ (Cardinality(P) = 1 \/ P = {p \in Plan : plan[p].status # "NONE"}))
TimetableSpec == TimetableInit /\ [][TimetableNext]_timetableVars
-----------------------------------------------------------------------------
(* Types, for timings, teachers and timetables. *)
TimetableTypeOK ==
    /\ timing \in [Timing -> TimingRow]
    /\ timingRow \in [Timing -> [Taught -> RowState]]
    /\ capable \in [Teacher -> SUBSET Taught] /\ working \subseteq Teacher
    /\ taughtBy \in [Taught -> [SubjectRow -> RowState]] /\ restricted \in [Taught -> SUBSET Teacher]
    /\ plan \in [Plan -> PlanRow] /\ lastPlan \in 0..MaxPlans /\ publishing \in 0..MaxPlans
    /\ search = NoSearch \/ search.sections \in (SUBSET Taught) \ {{}}
    /\ setupAsked \subseteq SetupRequest

Undisturbed == {p \in Plan : plan[p].status = "PUBLISHED" /\ ~plan[p].reassigned}
(* No teacher has lessons of two published timetables at the same time, at the times their *)
(* templates say now, unless subject teachers were replaced in one while it was published:  *)
(* publishing validates against drafts and published plans of other sections only, one at   *)
(* a time or together, templates are edited and versioned meanwhile on checks made earlier, *)
(* and replaceSubjectTeachers rewrites published lessons without looking.                    *)
PublishedDoNotClash ==
    \A p, q \in Undisturbed : p # q =>
        ~Clash(plan[p].timing, plan[p].lessons, plan[q].timing, plan[q].lessons)
=============================================================================
