----------------------------- MODULE MCTeaching -----------------------------
(* Instances of the modules about teaching, and about who may call what, for TLC.  The   *)
(* modules share no state, so a behaviour moves one of them, the part it chose at the    *)
(* beginning: what is checked of the sum of the state spaces holds of their product.     *)
EXTENDS StaffPresence, TimetablePublication, AssessmentWorkflow, LessonPlanning, SchoolStructure, RequestAccess, TLC

CONSTANTS sam, mo, tia, tom, s1, s2, y1, y2, y3, k1, k2, k3, sa, sb, sc, ma, en, hi, cy, pl, adm, tch, sup, h1, h2
VARIABLE part

(* sam is marked by the managers sam and mo; changes that are valid one by one. *)
mcScope == [m \in Manager |-> Staff]
mcPolicy == [mode |-> "BOTH", overrides |-> TRUE, corrections |-> TRUE, location |-> FALSE, coordinates |-> TRUE, early |-> FALSE]
mcChange == {("location" :> TRUE) @@ ("mode" :> "ADMIN_ONLY") @@ ("overrides" :> FALSE), "coordinates" :> FALSE}

(* Two slots, at two possible times; section s1 has a published timetable, s2 a draft. *)
mcEarly == (1 :> [start |-> 1, end |-> 2]) @@ (2 :> [start |-> 2, end |-> 3])
mcLate == (1 :> [start |-> 2, end |-> 3]) @@ (2 :> [start |-> 3, end |-> 4])
mcLayout == {mcEarly, mcLate}
mcTiming == [x \in Timing |-> [status |-> IF x <= 2 THEN "ACTIVE" ELSE "NONE", family |-> x, version |-> 1, layout |-> mcEarly, serial |-> 0]]
mcTimingRow == [x \in Timing |-> [s \in Taught |-> IF <<x, s>> \in {<<1, s1>>, <<2, s2>>} THEN "ACTIVE" ELSE "NONE"]]
mcTaughtBy == [s \in Taught |-> [r \in SubjectRow |->
   IF <<s, r>> \in {<<s2, <<tia, "PRIMARY">>>>, <<s1, <<tom, "PRIMARY">>>>} THEN "ACTIVE" ELSE "NONE"]]
mcPlan == [p \in Plan |-> [status |-> CASE p = 1 -> "PUBLISHED" [] p = 2 -> "DRAFT" [] OTHER -> "NONE",
   section |-> IF p = 1 THEN s1 ELSE s2, timing |-> IF p = 1 THEN 1 ELSE 2,
   lessons |-> IF p = 1 THEN (1 :> tia) @@ (2 :> tom) ELSE (1 :> tom) @@ (2 :> tia), affected |-> FALSE, reassigned |-> FALSE]]

(* The school's pattern records observations, and marks are added to one exam at most. *)
mcObserved == [terms |-> {"T1", "ANNUAL"}, marks |-> FALSE, competencies |-> TRUE]
mcConfig == {mcObserved, [terms |-> {"T1"}, marks |-> TRUE, competencies |-> TRUE]}
mcPatterns == [s \in {"CLASS", "GROUP", "SCHOOL"} |-> IF s = "SCHOOL" THEN <<mcObserved>> ELSE <<>>]

(* Two subjects of one section, and two terms that end with a period of revision: one    *)
(* subject has a topic in each, the other its only one in the first, where the periods   *)
(* of the one overlap those of the other.                                                *)
mcOffered == "maths" :> {<<{1, 3, 5}, {6, 7}>>} @@ "english" :> {<<{2, 4, 5}, {}>>}
mcTermOf == [t \in {"sums", "products", "verbs"} |-> IF t = "products" THEN 2 ELSE 1]
mcTopics == "maths" :> <<"sums", "products">> @@ "english" :> <<"verbs">>
mcPeriods == [t \in {"sums", "products", "verbs"} |-> 1]
mcRequires == [t \in {"sums", "products", "verbs"} |-> IF t = "products" THEN {"sums"} ELSE {}]

(* Two years with a class each, three subjects of which one is taught and one is still   *)
(* to come; another year, class and section may be created.                              *)
mcMayTeach == [c \in ClassId |-> TeacherId]
mcClasses == (k1 :> [name |-> "1st", year |-> y1, status |-> "ACTIVE"])
          @@ (k2 :> [name |-> "2nd", year |-> y2, status |-> "ACTIVE"]) @@ (k3 :> NoClass)
mcSections == (sa :> k1) @@ (sb :> k1) @@ (sc :> NoClass)
mcSubjects == (ma :> "ACTIVE") @@ (en :> "INACTIVE") @@ (hi :> "NONE")
mcYearSubjects == {<<y1, en>>}
mcClassSubjects == [k \in YearId \X ClassId \X SubjectId |-> IF k = <<y1, k1, ma>> THEN "ACTIVE" ELSE "NONE"]

(* A teacher of school h1 and an account of the platform; one route of each guard.  Of    *)
(* names only the one matters that a guard asks for; the others are "own".                *)
mcHome == (cy :> h1) @@ (pl :> NoHome)
mcRoleAt == (adm :> h1) @@ (tch :> h1) @@ (sup :> NoHome)
mcName == (adm :> "own") @@ (tch :> "own") @@ (sup :> "super-admin")
mcCode == (adm :> "SCHOOL_ADMIN") @@ (tch :> "TEACHER") @@ (sup :> "SUPER_ADMIN")
mcRoutes == {CHOOSE r \in Api : <<r.controller, r.handler>> = name : name \in
  {<<"schools", "findSchoolTeachers">>, <<"schools", "create">>, <<"admissions", "decision">>,
   <<"school-operations", "effective">>, <<"auth", "changePassword">>}}
mcAsked == mcRoutes
mcTeacherRights == {"STAFF_VIEW", "ATTENDANCE_VIEW", "ADMISSIONS_DECIDE"}
mcGrants == (adm :> {}) @@ (sup :> {}) @@ (tch :> mcTeacherRights)
mcGrantable == {{}, mcTeacherRights}
mcHeld == {<<cy, tch>>, <<pl, sup>>}

TeachingInit == /\ part \in {"presence", "timetable", "assessment", "plan", "structure", "access"}
                /\ PresenceInit /\ TimetableInit /\ AssessmentInit /\ PlanningInit /\ StructureInit /\ AccessInit
PresenceMove == part = "presence" /\ PresenceNext /\ UNCHANGED <<timetableVars, assessmentVars, planningVars, structureVars, accessVars>>
TimetableMove == part = "timetable" /\ TimetableNext /\ UNCHANGED <<presenceVars, assessmentVars, planningVars, structureVars, accessVars>>
AssessmentMove == part = "assessment" /\ AssessmentNext /\ UNCHANGED <<presenceVars, timetableVars, planningVars, structureVars, accessVars>>
PlanningMove == part = "plan" /\ PlanningNext /\ UNCHANGED <<presenceVars, timetableVars, assessmentVars, structureVars, accessVars>>
StructureMove == part = "structure" /\ StructureNext /\ UNCHANGED <<presenceVars, timetableVars, assessmentVars, planningVars, accessVars>>
AccessMove == part = "access" /\ AccessNext /\ UNCHANGED <<presenceVars, timetableVars, assessmentVars, planningVars, structureVars>>
TeachingNext == (PresenceMove \/ TimetableMove \/ AssessmentMove \/ PlanningMove \/ StructureMove \/ AccessMove) /\ UNCHANGED part
TeachingSpec == TeachingInit /\ [][TeachingNext]_<<part, presenceVars, timetableVars, assessmentVars, planningVars, structureVars, accessVars>>

(* The rows of the part that moves are well formed, and nobody has checked out without   *)
(* having checked in, whichever of marking, punching and approved exceptions wrote the   *)
(* row.                                                                                  *)
TeachingTypeOK ==
  /\ part = "presence" => PresenceTypeOK
  /\ part = "timetable" => TimetableTypeOK
  /\ part = "assessment" => AssessmentTypeOK
  /\ part = "plan" => PlanningTypeOK
  /\ part = "structure" => StructureTypeOK
  /\ part = "access" => AccessTypeOK
=============================================================================
