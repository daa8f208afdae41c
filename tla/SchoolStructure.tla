--------------------------- MODULE SchoolStructure ---------------------------
(***************************************************************************)
(* The frame a school year hangs in: academic years, classes with their     *)
(* sections, subjects, the subjects of a class, and who teaches and leads   *)
(* what.  A request that reads outside its transaction, or checks before it *)
(* writes at isolation level Read Committed, is split where another request *)
(* may come between: it is asked (what it read is kept), checked (the class *)
(* teacher is available) and written, when the unique indexes and foreign   *)
(* keys have the last word.  All other requests are one action.             *)
(*                                                                          *)
(* A class is its row, its name is unique in a year; codes, capacities and  *)
(* academic groups are left out, and the lessons of timetables do not       *)
(* change meanwhile.                                                        *)
(***************************************************************************)
EXTENDS Integers, FiniteSets, FiniteSetsExt, Functions

CONSTANTS
    YearId, ClassId, ClassName, SectionId, SubjectId, TeacherId,
    Clerk,           \* people whose requests overlap
    MayTeach,        \* active teachers allowed to teach each class
    Scheduled,       \* lessons of timetables: <<section, subject, teacher>>
    NoYear, NoClass, WholeClass, NoSubject, NoRow, Idle,
    FirstYears, FirstClasses, FirstSections, FirstSubjects, FirstYearSubjects, FirstClassSubjects,
    MaxMembers,      \* bound on the members of a team
    MaxAssignments,  \* bound on rows of assignments
    MaxStructureSteps, EditCost \* bound on steps; an edit of the frame counts for EditCost

ClassRow == [name : ClassName, year : YearId \cup {NoYear}, status : {"ACTIVE", "INACTIVE"}] \cup {NoClass}
Responsibility == {"LEAD_TEACHER", "ASSISTANT_TEACHER", "SUBJECT_TEACHER"}
AssignmentRow == [teacher : TeacherId, year : YearId, class : ClassId, section : SectionId \cup {WholeClass},
  subject : SubjectId \cup {NoSubject}, type : Responsibility, classTeacher : BOOLEAN, active : BOOLEAN]
RowId == 1..MaxAssignments

ASSUME StructureAssumption ==
  /\ WholeClass \notin SectionId /\ NoClass \notin ClassId
  /\ NoClass \notin [name : ClassName, year : YearId \cup {NoYear}, status : {"ACTIVE", "INACTIVE"}]
  /\ MayTeach \in [ClassId -> SUBSET TeacherId]
ASSUME FirstFrame ==
  /\ FirstYears \subseteq YearId /\ FirstClasses \in [ClassId -> ClassRow] /\ FirstYearSubjects \subseteq FirstYears \X SubjectId
  /\ FirstSections \in [SectionId -> {c \in ClassId : FirstClasses[c] # NoClass} \cup {NoClass}]
  /\ FirstSubjects \in [SubjectId -> {"NONE", "ACTIVE", "INACTIVE"}]
  /\ FirstClassSubjects \in [YearId \X ClassId \X SubjectId -> {"NONE", "ACTIVE", "ENDED"}]

VARIABLES
    years,         \* academic years that exist
    classes,       \* rows of SchoolClass
    sectionOf,     \* the class of every section that exists
    subjects,      \* status of the rows of Subject
    yearSubjects,  \* rows of AcademicYearSubject
    classSubjects, \* rows of ClassSubject, by their unique key
    assignments,   \* rows of TeacherAcademicAssignment
    deleted,       \* identifiers of what was deleted, which nothing else will get
    asked,         \* the request of each clerk
    structureSteps

frameVars == <<years, classes, sectionOf, subjects, yearSubjects>>
keptVars == <<frameVars, classSubjects, deleted>>
structureVars == <<keptVars, assignments, asked, structureSteps>>

-----------------------------------------------------------------------------
ClassesOf(y) == {c \in ClassId : classes[c] # NoClass /\ classes[c].year = y}
SectionsOf(c) == {s \in SectionId : sectionOf[s] = c}
FreeClasses == {c \in ClassId \ deleted : classes[c] = NoClass}
ActiveSubjects == {x \in SubjectId : subjects[x] = "ACTIVE"}
NameTaken(y, n) == \E c \in ClassesOf(y) : classes[c].name = n
Rows == {i \in RowId : assignments[i] # NoRow}
FreeClerks == {k \in Clerk : asked[k] = Idle}
FreeRows == RowId \ (Rows \cup deleted)
Without(I) == [i \in RowId |-> IF i \in I THEN NoRow ELSE assignments[i]]
Key(y, c, x) == <<y, c, x>>

(* The partial unique indexes on TeacherAcademicAssignment. *)
SectionIndex(rows) == \A i, j \in RowId : i # j /\ NoRow \notin {rows[i], rows[j]} => 
  ~(rows[i].classTeacher /\ rows[j].classTeacher /\ rows[i].section # WholeClass
    /\ rows[i].year = rows[j].year /\ rows[i].section = rows[j].section)
TeacherIndex(rows) == \A i, j \in RowId : i # j /\ NoRow \notin {rows[i], rows[j]} =>
  ~(rows[i].classTeacher /\ rows[j].classTeacher /\ rows[i].active /\ rows[j].active
    /\ rows[i].year = rows[j].year /\ rows[i].teacher = rows[j].teacher)
Stored_BySection(rows) == SectionIndex(rows)
Stored(rows) == SectionIndex(rows) /\ TeacherIndex(rows)

(* assertClassTeacherAvailable, and assertAcademicScope *)
Available(t, y, c, s) == \A i \in Rows : LET r == assignments[i] IN
  r.teacher = t /\ r.year = y /\ r.classTeacher /\ r.active => r.class = c /\ r.section = s
InFrame(y, c, s) == y \in years /\ c \in ClassesOf(y) /\ s \in SectionsOf(c)

StructureInit ==
  /\ years = FirstYears /\ classes = FirstClasses /\ sectionOf = FirstSections /\ subjects = FirstSubjects
  /\ yearSubjects = FirstYearSubjects /\ classSubjects = FirstClassSubjects
  /\ deleted = {} /\ assignments = [i \in RowId |-> NoRow] /\ asked = [k \in Clerk |-> Idle] /\ structureSteps = 0

-----------------------------------------------------------------------------
(* Academic years: a year is deleted if nothing but classes refers to it. *)
CreateYear(y) == y \notin years \cup deleted /\ years' = years \cup {y}
  /\ UNCHANGED <<classes, sectionOf, subjects, yearSubjects, classSubjects, deleted, assignments>>

RemoveYear(y) ==
  /\ y \in years
  /\ \A p \in yearSubjects : p[1] # y
  /\ \A k \in DOMAIN classSubjects : k[1] = y => classSubjects[k] = "NONE"
  /\ \A i \in Rows : assignments[i].year # y
  /\ years' = years \ {y} /\ deleted' = deleted \cup {y}
  /\ classes' = [c \in ClassId |-> IF c \in ClassesOf(y) THEN [classes[c] EXCEPT !.year = NoYear] ELSE classes[c]]
  /\ UNCHANGED <<sectionOf, subjects, yearSubjects, classSubjects, assignments>>

AssignYearSubjects(y, X) ==
  /\ y \in years /\ X # {} /\ \A x \in X : subjects[x] # "NONE" /\ <<y, x>> \notin yearSubjects
  /\ yearSubjects' = yearSubjects \cup ({y} \X X)
  /\ UNCHANGED <<years, classes, sectionOf, subjects, classSubjects, deleted, assignments>>

RemoveYearSubject(y, x) ==
  /\ <<y, x>> \in yearSubjects /\ yearSubjects' = yearSubjects \ {<<y, x>>}
  /\ UNCHANGED <<years, classes, sectionOf, subjects, classSubjects, deleted, assignments>>

(* Subjects: one that is in use is made inactive, not deleted. *)
CreateSubject(x) == subjects[x] = "NONE" /\ x \notin deleted /\ subjects' = [subjects EXCEPT ![x] = "ACTIVE"]
  /\ UNCHANGED <<years, classes, sectionOf, yearSubjects, classSubjects, deleted, assignments>>
UpdateSubject(x, status) == subjects[x] # "NONE" /\ subjects' = [subjects EXCEPT ![x] = status]
  /\ UNCHANGED <<years, classes, sectionOf, yearSubjects, classSubjects, deleted, assignments>>

RemoveSubject(x) ==
  /\ subjects[x] # "NONE"
  /\ \A p \in yearSubjects : p[2] # x
  /\ \A k \in DOMAIN classSubjects : k[3] = x => classSubjects[k] # "ACTIVE"
  /\ \A i \in Rows : assignments[i].subject = x => ~assignments[i].active
  /\ \A l \in Scheduled : l[2] # x
  /\ subjects' = [subjects EXCEPT ![x] = "NONE"]
  /\ LET I == {i \in Rows : assignments[i].subject = x} IN assignments' = Without(I) /\ deleted' = deleted \cup I \cup {x}
  /\ classSubjects' = [k \in DOMAIN classSubjects |-> IF k[3] = x THEN "NONE" ELSE classSubjects[k]]
  /\ UNCHANGED <<years, classes, sectionOf, yearSubjects>>

(* Classes: one with its sections and subjects, or several of standard names. *)
NewClasses(y, f, S) ==
  /\ y \in years /\ \A n \in DOMAIN f : ~NameTaken(y, n)
  /\ classes' = [c \in ClassId |-> IF c \in Range(f)
       THEN [name |-> CHOOSE n \in DOMAIN f : f[n] = c, year |-> y, status |-> "ACTIVE"] ELSE classes[c]]
  /\ sectionOf' = [s \in SectionId |-> IF s \in DOMAIN S THEN S[s] ELSE sectionOf[s]]
  /\ UNCHANGED <<years, subjects, yearSubjects, deleted, assignments>>
FreeSections == SectionsOf(NoClass) \ deleted

CreateClass(y, n, c, S, X) ==
  /\ c \in FreeClasses /\ S \subseteq FreeSections /\ X \subseteq ActiveSubjects
  /\ NewClasses(y, [m \in {n} |-> c], [s \in S |-> c])
  /\ classSubjects' = [k \in DOMAIN classSubjects |->
       IF k \in {Key(y, c, x) : x \in X} THEN "ACTIVE" ELSE classSubjects[k]]

CreateBulk(y, f, S) ==
  /\ DOMAIN f # {} /\ Range(f) \subseteq FreeClasses /\ IsInjective(f)
  /\ DOMAIN S \subseteq FreeSections /\ Range(S) \subseteq Range(f)
  /\ \A c, d \in Range(f) : Cardinality({s \in DOMAIN S : S[s] = c}) = Cardinality({s \in DOMAIN S : S[s] = d})
  /\ NewClasses(y, f, S) /\ UNCHANGED classSubjects

UpdateClass(c, y, status) ==
  /\ classes[c] # NoClass /\ y \in years /\ (classes[c].year = y \/ ~NameTaken(y, classes[c].name))
  /\ classes' = [classes EXCEPT ![c].year = y, ![c].status = status]
  /\ UNCHANGED <<years, sectionOf, subjects, yearSubjects, classSubjects, deleted, assignments>>

RemoveClass(c) ==
  /\ classes[c] # NoClass
  /\ \A k \in DOMAIN classSubjects : k[2] = c => classSubjects[k] = "NONE"
  /\ \A i \in Rows : assignments[i].class # c
  /\ \A l \in Scheduled : sectionOf[l[1]] # c
  /\ classes' = [classes EXCEPT ![c] = NoClass] /\ deleted' = deleted \cup {c} \cup SectionsOf(c)
  /\ sectionOf' = [s \in SectionId |-> IF sectionOf[s] = c THEN NoClass ELSE sectionOf[s]]
  /\ UNCHANGED <<years, subjects, yearSubjects, classSubjects, assignments>>

(* SectionsService.remove takes the assignments of the section along. *)
DropSection(s) ==
  /\ sectionOf[s] # NoClass /\ \A l \in Scheduled : l[1] # s
  /\ sectionOf' = [sectionOf EXCEPT ![s] = NoClass]
  /\ LET I == {i \in Rows : assignments[i].section = s} IN assignments' = Without(I) /\ deleted' = deleted \cup I \cup {s}
  /\ UNCHANGED <<years, classes, subjects, yearSubjects, classSubjects>>

-----------------------------------------------------------------------------
(* The subjects of a class: the rows are read when asked, the difference is written. *)
AskSubjects(k, y, c, X) ==
  /\ k \in FreeClerks /\ y \in years /\ c \in ClassesOf(y) /\ X \subseteq ActiveSubjects
  /\ asked' = [asked EXCEPT ![k] = [op |-> "subjects", phase |-> "checked", year |-> y, class |-> c,
       removed |-> {x \in SubjectId \ X : classSubjects[Key(y, c, x)] = "ACTIVE"},
       created |-> {x \in X : classSubjects[Key(y, c, x)] = "NONE"},
       revived |-> {x \in X : classSubjects[Key(y, c, x)] = "ENDED"}]]
  /\ UNCHANGED <<keptVars, assignments>>

ReplaceSubjects(q) ==
  LET key(x) == Key(q.year, q.class, x)
      ended == {key(x) : x \in {z \in q.removed : classSubjects[key(z)] = "ACTIVE"}}
  IN /\ classes[q.class] # NoClass /\ q.year \in years
     /\ \A x \in q.created : classSubjects[key(x)] = "NONE" /\ subjects[x] # "NONE"
     /\ \A x \in q.revived : classSubjects[key(x)] # "NONE"
     /\ classSubjects' = [k \in DOMAIN classSubjects |-> CASE k \in ended -> "ENDED"
          [] k \in {key(x) : x \in q.created \cup q.revived} -> "ACTIVE" [] OTHER -> classSubjects[k]]
     /\ assignments' = [i \in RowId |-> IF i \in Rows /\ assignments[i].year = q.year /\ assignments[i].class = q.class
          /\ assignments[i].subject \in q.removed THEN [assignments[i] EXCEPT !.active = FALSE] ELSE assignments[i]]

-----------------------------------------------------------------------------
(* TeachersService.assignAcademics: a teacher gets a subject, a section to lead as class *)
(* teacher, or both; the subject's row need not be active.                               *)
NewRow(t, y, c, s, x, lead) == [teacher |-> t, year |-> y, class |-> c, section |-> s, subject |-> x,
  type |-> "SUBJECT_TEACHER", classTeacher |-> lead, active |-> TRUE]
SameRow(r, n) == [r EXCEPT !.active = TRUE, !.type = n.type] = n

AskAssign(k, t, y, c, s, x, lead) ==
  /\ k \in FreeClerks /\ t \in MayTeach[c] /\ y \in years /\ c \in ClassesOf(y)
  /\ s \in SectionsOf(c) \cup {WholeClass} /\ (lead => s # WholeClass) /\ (lead \/ x # NoSubject)
  /\ x # NoSubject => classSubjects[Key(y, c, x)] # "NONE"
  /\ lead => Available(t, y, c, s)
  /\ \A i \in Rows : ~SameRow(assignments[i], NewRow(t, y, c, s, x, lead))
  /\ asked' = [asked EXCEPT ![k] = [op |-> "assign", phase |-> "checked", row |-> NewRow(t, y, c, s, x, lead)]]
  /\ UNCHANGED <<keptVars, assignments>>

Added(row, rows) == [rows EXCEPT ![Min(FreeRows)] = row]
Assign(q) ==
  /\ FreeRows # {} /\ q.row.year \in years /\ classes[q.row.class] # NoClass
  /\ q.row.section # WholeClass => sectionOf[q.row.section] # NoClass
  /\ q.row.subject # NoSubject => subjects[q.row.subject] # "NONE"
  /\ assignments' = Added(q.row, assignments) /\ UNCHANGED classSubjects

(* TeachersService.replaceClassTeacher: the row of the former class teacher ends, or no *)
(* longer leads if it is for a subject too.  What was read before the check is only that *)
(* the section is there, which the foreign keys repeat.                                  *)
AskClassTeacher(k, t, y, c, s) ==
  /\ k \in FreeClerks /\ InFrame(y, c, s) /\ t \in MayTeach[c] /\ Available(t, y, c, s)
  /\ asked' = [asked EXCEPT ![k] = [op |-> "classTeacher", phase |-> "checked", lead |-> t, year |-> y, class |-> c, section |-> s]]
  /\ UNCHANGED <<keptVars, assignments>>

Stepped(r, q) == IF ~(r.year = q.year /\ r.section = q.section /\ r.classTeacher /\ r.active) THEN r
                 ELSE IF r.subject = NoSubject THEN [r EXCEPT !.active = FALSE] ELSE [r EXCEPT !.classTeacher = FALSE]
ReplaceClassTeacher(q) ==
  LET stepped == [i \in RowId |-> IF i \in Rows THEN Stepped(assignments[i], q) ELSE NoRow] IN
  /\ FreeRows # {} /\ q.year \in years /\ sectionOf[q.section] # NoClass
  /\ assignments' = Added([NewRow(q.lead, q.year, q.class, q.section, NoSubject, TRUE) EXCEPT !.type = "LEAD_TEACHER"], stepped)
  /\ UNCHANGED classSubjects

(* TeachingAssignmentsService.replaceTeachingTeam: members are teachers with their        *)
(* responsibilities; rows that are not wanted end, former ones are taken up again.        *)
InTeam(r, y, s) == r.year = y /\ r.section = s /\ r.subject = NoSubject
Unwanted(y, s, members) == {i \in Rows : InTeam(assignments[i], y, s) /\ assignments[i].active
                                         /\ <<assignments[i].teacher, assignments[i].type>> \notin members}
AskTeam(k, y, c, s, members) ==
  /\ k \in FreeClerks /\ InFrame(y, c, s) /\ \A m \in members : m[1] \in MayTeach[c]
  /\ Cardinality({m \in members : m[2] = "LEAD_TEACHER"}) <= 1
  /\ \A i \in Unwanted(y, s, members), l \in Scheduled : ~(l[1] = s /\ l[3] = assignments[i].teacher)
  /\ asked' = [asked EXCEPT ![k] = [op |-> "team", phase |-> "asked", year |-> y, class |-> c, section |-> s,
       members |-> members, removed |-> Unwanted(y, s, members), lead |-> {m[1] : m \in {n \in members : n[2] = "LEAD_TEACHER"}}]]
  /\ UNCHANGED <<keptVars, assignments>>

Former(m, q) == {i \in Rows : InTeam(assignments[i], q.year, q.section) /\ <<assignments[i].teacher, assignments[i].type>> = m}
MemberRow(m, q) == [NewRow(m[1], q.year, q.class, q.section, NoSubject, m[2] = "LEAD_TEACHER") EXCEPT !.type = m[2]]
ReplaceTeam(q) ==
  /\ q.year \in years /\ sectionOf[q.section] # NoClass
  /\ \E at \in [q.members -> RowId] :
       /\ IsInjective(at)
       /\ \A m \in q.members : IF Former(m, q) # {} THEN at[m] \in Former(m, q) ELSE at[m] \in FreeRows
       /\ assignments' = [i \in RowId |-> IF i \in Range(at) THEN MemberRow(CHOOSE m \in q.members : at[m] = i, q)
            ELSE IF i \in Rows /\ i \in q.removed THEN [assignments[i] EXCEPT !.active = FALSE] ELSE assignments[i]]
  /\ UNCHANGED classSubjects

(* The rest of a request: the check inside its transaction, and the writes, which the     *)
(* constraints may refuse; the clerk is told and nothing is written.                      *)
CheckLead(k) ==
  /\ asked[k] # Idle /\ asked[k].phase = "asked"
  /\ asked' = [asked EXCEPT ![k] = IF \A t \in @.lead : Available(t, @.year, @.class, @.section)
                                   THEN [@ EXCEPT !.phase = "checked"] ELSE Idle]
  /\ UNCHANGED <<keptVars, assignments>>

Writes(q) == \/ q.op = "subjects" /\ ReplaceSubjects(q)
             \/ q.op = "assign" /\ Assign(q)
             \/ q.op = "classTeacher" /\ ReplaceClassTeacher(q)
             \/ q.op = "team" /\ ReplaceTeam(q)
Write(k) ==
  /\ asked[k] # Idle /\ asked[k].phase = "checked" /\ asked' = [asked EXCEPT ![k] = Idle] /\ UNCHANGED <<frameVars, deleted>>
  /\ Writes(asked[k]) /\ Stored(assignments')
Refuse(k) == asked[k] # Idle /\ asked' = [asked EXCEPT ![k] = Idle] /\ UNCHANGED <<keptVars, assignments>>

(* TeachersService.removeSubjectAssignment and removeAssignment: a class teacher's row *)
(* without its subject is that of a lead teacher.                                      *)
WithoutSubject(r) == IF r.classTeacher THEN [r EXCEPT !.subject = NoSubject, !.type = "LEAD_TEACHER"]
                                       ELSE [r EXCEPT !.active = FALSE]
EndSubjectAssignment(i) ==
  /\ i \in Rows /\ assignments[i].active /\ assignments[i].subject # NoSubject
  /\ ~\E l \in Scheduled : /\ l[2] = assignments[i].subject /\ l[3] = assignments[i].teacher
                           /\ assignments[i].section \in {l[1], WholeClass}
  /\ assignments' = [assignments EXCEPT ![i] = WithoutSubject(@)]
  /\ UNCHANGED keptVars
RemoveAssignment(i) ==
  /\ i \in Rows /\ assignments[i].subject = NoSubject /\ assignments' = Without({i}) /\ deleted' = deleted \cup {i}
  /\ UNCHANGED <<frameVars, classSubjects>>
RemoveClassTeacher(y, c, s) ==
  /\ InFrame(y, c, s)
  /\ LET I == {i \in Rows : assignments[i].year = y /\ assignments[i].section = s /\ assignments[i].classTeacher}
     IN assignments' = Without(I) /\ deleted' = deleted \cup I
  /\ UNCHANGED <<frameVars, classSubjects>>

-----------------------------------------------------------------------------
Team == {M \in SUBSET (TeacherId \X {"LEAD_TEACHER", "SUBJECT_TEACHER"}) : Cardinality(M) <= MaxMembers}
FrameStep ==
  \/ \E y \in YearId : CreateYear(y) \/ RemoveYear(y)
  \/ \E y \in years, X \in SUBSET SubjectId : AssignYearSubjects(y, X)
  \/ \E p \in yearSubjects : RemoveYearSubject(p[1], p[2])
  \/ \E x \in SubjectId : CreateSubject(x) \/ RemoveSubject(x) \/ \E status \in {"ACTIVE", "INACTIVE"} : UpdateSubject(x, status)
  \/ \E y \in years, n \in ClassName, c \in FreeClasses : \E S \in SUBSET FreeSections, X \in SUBSET ActiveSubjects : CreateClass(y, n, c, S, X)
  \/ \E y \in years : \E N \in SUBSET ClassName, S \in SUBSET FreeSections :
       \E f \in [N -> FreeClasses] : \E g \in [S -> Range(f)] : CreateBulk(y, f, g)
  \/ \E c \in ClassId, y \in years, status \in {"ACTIVE", "INACTIVE"} : UpdateClass(c, y, status)
  \/ \E c \in ClassId : RemoveClass(c)
  \/ \E s \in SectionId : DropSection(s)

RequestStep ==
  \/ \E k \in FreeClerks, y \in years : \E c \in ClassesOf(y) :
       \/ \E X \in SUBSET ActiveSubjects : AskSubjects(k, y, c, X)
       \/ \E t \in MayTeach[c], s \in SectionsOf(c) \cup {WholeClass}, x \in SubjectId \cup {NoSubject}, lead \in BOOLEAN :
            AskAssign(k, t, y, c, s, x, lead)
       \/ \E s \in SectionsOf(c) : \/ \E t \in MayTeach[c] : AskClassTeacher(k, t, y, c, s)
                                   \/ \E M \in Team : AskTeam(k, y, c, s, M)
  \/ \E k \in Clerk : CheckLead(k) \/ Write(k) \/ Refuse(k)
RosterStep ==
  \/ \E i \in RowId : EndSubjectAssignment(i) \/ RemoveAssignment(i)
  \/ \E y \in YearId, c \in ClassId, s \in SectionId : RemoveClassTeacher(y, c, s)

Counted(cost) == structureSteps + cost <= MaxStructureSteps /\ structureSteps' = structureSteps + cost
StructureNext == \/ Counted(EditCost) /\ FrameStep /\ UNCHANGED asked
                 \/ Counted(1) /\ RosterStep /\ UNCHANGED asked
                 \/ Counted(1) /\ RequestStep
StructureSpec == StructureInit /\ [][StructureNext]_structureVars

-----------------------------------------------------------------------------
(* The rows are well formed, and refer to years, classes, sections and subjects that exist. *)
StructureTypeOK ==
  /\ years \subseteq YearId /\ classes \in [ClassId -> ClassRow] /\ sectionOf \in [SectionId -> ClassId \cup {NoClass}]
  /\ subjects \in [SubjectId -> {"NONE", "ACTIVE", "INACTIVE"}] /\ yearSubjects \subseteq years \X SubjectId
  /\ classSubjects \in [YearId \X ClassId \X SubjectId -> {"NONE", "ACTIVE", "ENDED"}]
  /\ assignments \in [RowId -> AssignmentRow \cup {NoRow}]
  /\ \A i \in Rows : LET r == assignments[i] IN
       /\ r.year \in years /\ classes[r.class] # NoClass
       /\ r.section # WholeClass => sectionOf[r.section] = r.class
       /\ r.subject # NoSubject => subjects[r.subject] # "NONE"

(* However requests for class teachers and for teaching teams overlap, a section never     *)
(* has two active lead teachers in a year, nobody leads two sections in a year, and the    *)
(* lead teacher of a section is always its class teacher.                                  *)
OneLead ==
  \A i, j \in Rows : LET r == assignments[i]  q == assignments[j] IN
    /\ r.type = "LEAD_TEACHER" /\ r.active => r.classTeacher /\ r.subject = NoSubject
    /\ r.type = "LEAD_TEACHER" /\ q.type = "LEAD_TEACHER" /\ r.active /\ q.active /\ r.year = q.year
       /\ (r.section = q.section \/ r.teacher = q.teacher) => i = j
=============================================================================
