---------------------------- MODULE AccessRoutes ----------------------------
(***************************************************************************)
(* The routes of the backend and the rights they ask for, one table per     *)
(* controller.  A row names the handlers that ask for the same rights, and  *)
(* whether their path names a school.  A route is guarded by                *)
(*    NONE         nothing;                                                 *)
(*    TOKEN        JwtAuthGuard alone: the service asks nothing else but    *)
(*                 whose data it is;                                        *)
(*    PERMISSION   JwtAuthGuard and PermissionsGuard;                       *)
(*    ROLE         JwtAuthGuard and RolesGuard;                             *)
(*    SCHOOL       JwtAuthGuard and AdmissionsSchoolGuard, or the same      *)
(*                 question asked by the service (AssessmentService.require);*)
(*    OPERATIONS   JwtAuthGuard and then OperationsAccessService, which the *)
(*                 service asks.                                            *)
(* A handler that asks for less when the caller acts for himself has two    *)
(* rows.  What a handler does with the rows of other people is left to the  *)
(* modules about its service.                                               *)
(***************************************************************************)

(* A right that no role grants: what asks for it is for administrators. *)
AdminOnly == "(administrators only)"

(* A row needs every right of one of its alternatives. *)
Needs(rights, handlers) == [need : {{rights}}, handler : handlers, inPath : {FALSE}]
InSchool(rights, handlers) == [need : {{rights}}, handler : handlers, inPath : {TRUE}]
AnyOf(rights, handlers) == [need : {{{x} : x \in rights}}, handler : handlers, inPath : {FALSE}]
Open(handlers) == Needs({}, handlers)
Guarded(controller, guard, rows) ==
  {[controller |-> controller, guard |-> guard, handler |-> r.handler, need |-> r.need, inPath |-> r.inPath] : r \in UNION rows}

(* The rights the database is seeded with, which the roles of a school may grant. *)
Catalogue == {"ASSESSMENT_CONFIGURE", "ASSESSMENT_REVIEW", "ASSESSMENT_APPROVE",
    "ASSESSMENT_PUBLISH", "ASSESSMENT_CORRECT", "ADMISSIONS_VIEW", "ADMISSIONS_MANAGE",
    "ADMISSIONS_DECIDE", "ADMISSIONS_JOIN", "ADMISSIONS_FEES_RECORD", "ADMISSIONS_FEES_VERIFY",
    "ADMISSIONS_SETTINGS_MANAGE", "ENROLLMENT_ALLOCATE", "ENROLLMENT_MOVE", "ENROLLMENT_PROMOTE",
    "STAFF_CATEGORY_MANAGE", "staff.attendance.view", "staff.attendance.mark",
    "staff.attendance.override", "staff.attendance.manage", "students.import.view",
    "students.import.manage", "students.import.commit", "students.import.rollback",
    "staff.attendance.policy.manage", "staff.leave.policy.manage", "staff.leave.request",
    "staff.leave.approve", "timetable.substitution.view", "timetable.substitution.generate",
    "timetable.substitution.approve", "timetable.substitution.override",
    "timetable.substitution.cancel", "operations.dashboard.view", "operations.tasks.manage",
    "DASHBOARD_VIEW", "SCHOOL_PROFILE_VIEW", "SCHOOL_PROFILE_UPDATE", "ACADEMIC_YEAR_VIEW",
    "ACADEMIC_YEAR_CREATE", "ACADEMIC_YEAR_UPDATE", "CLASS_VIEW", "CLASS_CREATE", "CLASS_UPDATE",
    "CLASS_DELETE", "SECTION_VIEW", "SECTION_CREATE", "SECTION_UPDATE", "SECTION_DELETE",
    "SUBJECT_VIEW", "SUBJECT_CREATE", "SUBJECT_UPDATE", "SUBJECT_DELETE", "CLASS_SUBJECT_VIEW",
    "CLASS_SUBJECT_MANAGE", "TEACHING_TEAM_VIEW", "TEACHING_TEAM_MANAGE", "SUBJECT_TEACHER_VIEW",
    "SUBJECT_TEACHER_MANAGE", "CLASS_ATTENDANCE_MANAGE", "CLASS_OBSERVATION_MANAGE",
    "SUBJECT_HOMEWORK_MANAGE", "SUBJECT_MARKS_MANAGE", "STAFF_VIEW", "STAFF_CREATE",
    "STAFF_UPDATE", "STAFF_DELETE", "ROLE_VIEW", "ROLE_CREATE", "ROLE_UPDATE", "ROLE_DELETE",
    "ROLE_PERMISSION_MANAGE", "STUDENT_VIEW", "STUDENT_CREATE", "STUDENT_UPDATE",
    "STUDENT_DELETE", "PARENT_VIEW", "PARENT_CREATE", "PARENT_UPDATE", "TIMETABLE_VIEW",
    "TIMETABLE_MANAGE", "ATTENDANCE_VIEW", "ATTENDANCE_MARK", "ATTENDANCE_UPDATE", "EXAM_VIEW",
    "EXAM_CREATE", "EXAM_UPDATE", "MARKS_VIEW", "MARKS_UPDATE", "REPORT_VIEW", "EVENT_VIEW",
    "EVENT_MANAGE", "NOTIFICATION_VIEW", "NOTIFICATION_MANAGE", "AUDIT_VIEW", "HOMEWORK_VIEW",
    "HOMEWORK_MANAGE", "LESSON_PLAN_VIEW", "LESSON_PLAN_MANAGE", "LESSON_PLAN_APPROVE",
    "COMMUNICATION_VIEW", "COMMUNICATION_MANAGE", "PERIOD_TEMPLATE_VIEW",
    "PERIOD_TEMPLATE_CREATE", "PERIOD_TEMPLATE_UPDATE", "PERIOD_TEMPLATE_ACTIVATE",
    "PERIOD_TEMPLATE_DELETE", "PERIOD_TEMPLATE_ASSIGN", "PERIOD_TEMPLATE_SECTION_OVERRIDE",
    "TIMETABLE_GENERATE", "TIMETABLE_UPDATE", "TIMETABLE_PUBLISH"}

-----------------------------------------------------------------------------
WorkflowApi ==
    Guarded("academic-programs", "PERMISSION", {
        Needs({"LESSON_PLAN_VIEW"}, {"list", "get"}),
        Needs({"LESSON_PLAN_MANAGE"}, {"create", "analyze", "review", "plan", "progress",
            "lesson", "reviewLesson"}),
        Needs({"LESSON_PLAN_APPROVE"}, {"approve", "calendar", "approveLesson"}),
        Needs({"HOMEWORK_MANAGE", "EXAM_CREATE"}, {"paper"}),
        Needs({"HOMEWORK_MANAGE", "EXAM_UPDATE"}, {"reviewPaper", "publishPaper"}),
        Needs({"MARKS_UPDATE"}, {"marks"}),
        Needs({"REPORT_VIEW"}, {"evidence"}),
        Needs({"LESSON_PLAN_MANAGE", "REPORT_VIEW"}, {"intervention", "close"}),
        Needs({"REPORT_VIEW", "COMMUNICATION_MANAGE"}, {"insight"}),
        Needs({"COMMUNICATION_MANAGE"}, {"reviewInsight", "publishInsight"})})
ParentInsightsApi ==
    Guarded("parent-insights", "TOKEN", {
        Open({"insights"})})
AcademicYearsApi ==
    Guarded("academic-years", "PERMISSION", {
        Needs({"ACADEMIC_YEAR_CREATE"}, {"create"}),
        Needs({"ACADEMIC_YEAR_VIEW"}, {"findAll", "findOne"}),
        Needs({"SUBJECT_UPDATE"}, {"assignSubjects", "removeSubject"}),
        Needs({"SUBJECT_VIEW"}, {"findSubjects"}),
        InSchool({"ACADEMIC_YEAR_VIEW"}, {"findBySchool"}),
        Needs({"ACADEMIC_YEAR_UPDATE"}, {"update", "remove"})})
AiApi ==
    Guarded("ai", "PERMISSION", {
        Needs({"LESSON_PLAN_MANAGE"}, {"generate"})})
AppApi ==
    Guarded("app", "NONE", {
        Open({"getHello"})})
AttendanceApi ==
    Guarded("attendance", "PERMISSION", {
        Needs({"ATTENDANCE_MARK"}, {"markStudents"}),
        Needs({"ATTENDANCE_VIEW"}, {"students"})})
    \cup Guarded("attendance", "OPERATIONS", {
        Open({"selfPolicy", "exceptions (own)", "requestException", "decideException (own)",
            "checkOut", "checkIn"}),
        Needs({"staff.attendance.override"}, {"exceptions", "decideException"}),
        Needs({"staff.attendance.view"}, {"roster", "history", "staff"}),
        Needs({"staff.attendance.mark"}, {"bulk", "markStaff"}),
        Needs({"staff.attendance.manage", "(administrators only)"}, {"lock"})})
    \cup Guarded("attendance", "TOKEN", {
        Open({"own"})})
SchoolOperationsApi ==
    Guarded("school-operations", "OPERATIONS", {
        Needs({"staff.attendance.view"}, {"report"}),
        Needs({"staff.attendance.policy.manage"}, {"lookups"}),
        Open({"clock", "leaves (own)", "decide (own)", "leaveLedger (own)", "balances",
            "tasks (own)", "taskStatus (own)", "effective (own)", "myDay"}),
        AnyOf({"staff.attendance.policy.manage", "staff.leave.policy.manage"}, {"policy",
            "savePolicy"}),
        Needs({"staff.attendance.manage", "(administrators only)"}, {"scopes", "saveScope"}),
        Needs({"staff.leave.approve"}, {"leaves", "decide", "leaveLedger"}),
        Needs({"staff.leave.request"}, {"request"}),
        Needs({"staff.leave.policy.manage"}, {"saveBalance"}),
        Needs({"operations.tasks.manage"}, {"tasks", "task", "taskStatus"}),
        Needs({"timetable.substitution.view"}, {"effective"}),
        Needs({"operations.dashboard.view"}, {"overview"}),
        Needs({"timetable.substitution.cancel"}, {"override"})})
AuditApi ==
    Guarded("audit-logs", "PERMISSION", {
        Needs({"AUDIT_VIEW"}, {"list"})})
AuthApi ==
    Guarded("auth", "NONE", {
        Open({"register", "login"})})
    \cup Guarded("auth", "TOKEN", {
        Open({"changePassword", "me"})})
ClassWorkspaceApi ==
    Guarded("class-workspace", "PERMISSION", {
        Needs({"CLASS_SUBJECT_VIEW", "SUBJECT_TEACHER_VIEW"}, {"setup"}),
        Needs({"CLASS_SUBJECT_MANAGE", "SUBJECT_TEACHER_MANAGE"}, {"saveSetup"}),
        Needs({"CLASS_VIEW"}, {"workspaces", "dashboard"}),
        Needs({"STUDENT_VIEW"}, {"students"}),
        Needs({"STAFF_UPDATE"}, {"assignTeacher", "removeTeacher"}),
        Needs({"STAFF_VIEW"}, {"classTeacher"}),
        Needs({"TEACHING_TEAM_VIEW"}, {"teachingTeam", "workload"}),
        Needs({"TEACHING_TEAM_MANAGE"}, {"replaceTeachingTeam"}),
        Needs({"SUBJECT_TEACHER_VIEW"}, {"subjectTeachers"}),
        Needs({"SUBJECT_TEACHER_MANAGE"}, {"replaceSubjectTeachers"})})
SchoolClassesApi ==
    Guarded("classes", "PERMISSION", {
        Needs({"CLASS_CREATE"}, {"createBulk", "create"}),
        Needs({"CLASS_VIEW"}, {"findAll", "findOne"}),
        InSchool({"CLASS_VIEW"}, {"findBySchool"}),
        Needs({"CLASS_UPDATE"}, {"update"}),
        Needs({"CLASS_DELETE"}, {"remove"})})
ClassSubjectsApi ==
    Guarded("class-subjects", "PERMISSION", {
        Needs({"CLASS_SUBJECT_VIEW"}, {"findSubjects", "availableSubjects"}),
        Needs({"CLASS_SUBJECT_MANAGE"}, {"replaceSubjects"})})
ClassroomManagementApi ==
    Guarded("classroom", "PERMISSION", {
        Needs({"HOMEWORK_VIEW"}, {"homework"}),
        Needs({"HOMEWORK_MANAGE"}, {"createHomework", "updateHomework"}),
        Needs({"LESSON_PLAN_VIEW"}, {"lessons"}),
        Needs({"LESSON_PLAN_MANAGE"}, {"createLesson"}),
        Needs({"LESSON_PLAN_APPROVE"}, {"updateLesson"}),
        Needs({"COMMUNICATION_VIEW"}, {"announcements"}),
        Needs({"COMMUNICATION_MANAGE"}, {"createAnnouncement", "updateAnnouncement"}),
        Needs({"EVENT_VIEW"}, {"calendar"}),
        Needs({"REPORT_VIEW"}, {"analysis"}),
        Needs({"CLASS_VIEW"}, {"settings"}),
        Needs({"CLASS_UPDATE"}, {"updateSettings"})})
DashboardApi ==
    Guarded("dashboard", "TOKEN", {
        Open({"myDashboard"})})
    \cup Guarded("dashboard", "PERMISSION", {
        Needs({"DASHBOARD_VIEW"}, {"summary"})})
EventsApi ==
    Guarded("events", "PERMISSION", {
        Needs({"EVENT_MANAGE"}, {"create", "update", "remove"}),
        Needs({"EVENT_VIEW"}, {"list"})})
AssessmentApi ==
    Guarded("assessments", "SCHOOL", {
        Needs({"ASSESSMENT_CONFIGURE"}, {"aiPolicy", "saveAiPolicy", "pattern"}),
        Needs({"MARKS_UPDATE"}, {"generate", "reviewAi", "openTerm", "preview", "marks", "sheet",
            "observations", "transition (submit)"}),
        Needs({"MARKS_VIEW"}, {"patterns", "list", "terms", "detail", "observationHistory"}),
        Needs({"EXAM_CREATE"}, {"create"}),
        Needs({"REPORT_VIEW"}, {"report", "consolidated"}),
        Needs({"ASSESSMENT_REVIEW"}, {"transition (review)", "transition (return)"}),
        Needs({"ASSESSMENT_APPROVE"}, {"transition (approve)"}),
        Needs({"ASSESSMENT_PUBLISH"}, {"transition (publish)"}),
        Needs({"ASSESSMENT_CORRECT"}, {"transition (reopen)"}),
        Needs({"EXAM_UPDATE"}, {"schedule"})})
    \cup Guarded("assessments", "TOKEN", {
        Open({"parent", "parentPdf"})})
ExamsApi ==
    Guarded("exams", "PERMISSION", {
        Needs({"EXAM_CREATE"}, {"create"}),
        Needs({"EXAM_VIEW"}, {"list"}),
        Needs({"EXAM_UPDATE"}, {"subject"}),
        Needs({"MARKS_UPDATE"}, {"marks"}),
        Needs({"MARKS_VIEW"}, {"results"})})
NotificationsApi ==
    Guarded("notifications", "PERMISSION", {
        Needs({"NOTIFICATION_MANAGE"}, {"create", "sent"}),
        Needs({"NOTIFICATION_VIEW"}, {"list", "read"})})
ParentPortalApi ==
    Guarded("parent", "TOKEN", {
        Open({"children", "dashboard", "attendance"})})
ParentsApi ==
    Guarded("parents", "PERMISSION", {
        Needs({"PARENT_CREATE"}, {"create", "onboard"}),
        Needs({"PARENT_VIEW"}, {"findAll", "findOne"}),
        Needs({"PARENT_UPDATE"}, {"update", "remove", "verifyConsent", "linkStudent",
            "unlinkStudent"})})
    \cup Guarded("parents", "TOKEN", {
        Open({"myStudents", "enrollmentDashboard"})})
PeriodTemplatesApi ==
    Guarded("period-templates", "PERMISSION", {
        Needs({"PERIOD_TEMPLATE_CREATE"}, {"preview", "create"}),
        Needs({"PERIOD_TEMPLATE_VIEW"}, {"list", "resolve", "one"}),
        Needs({"PERIOD_TEMPLATE_UPDATE"}, {"affected", "update", "version", "remove"}),
        Needs({"PERIOD_TEMPLATE_ACTIVATE"}, {"status"}),
        Needs({"PERIOD_TEMPLATE_ASSIGN"}, {"assign", "unassign"}),
        Needs({"PERIOD_TEMPLATE_SECTION_OVERRIDE"}, {"override"})})
PermissionsApi ==
    Guarded("permissions", "TOKEN", {
        Open({"findAll"})})
ReportsApi ==
    Guarded("reports", "PERMISSION", {
        Needs({"REPORT_VIEW"}, {"students", "attendance", "staff"})})
RolesApi ==
    Guarded("roles", "PERMISSION", {
        InSchool({"ROLE_CREATE"}, {"create"}),
        InSchool({"ROLE_VIEW"}, {"all", "one", "permissions"}),
        InSchool({"ROLE_UPDATE"}, {"update"}),
        InSchool({"ROLE_DELETE"}, {"remove"}),
        InSchool({"ROLE_PERMISSION_MANAGE"}, {"replace"})})
SchoolSettingsApi ==
    Guarded("school-settings", "PERMISSION", {
        Needs({"SCHOOL_PROFILE_UPDATE"}, {"create", "update", "remove"}),
        Needs({"SCHOOL_PROFILE_VIEW"}, {"findAll", "findOne"}),
        InSchool({"SCHOOL_PROFILE_VIEW"}, {"findBySchoolId"})})
SchoolsApi ==
    Guarded("schools", "PERMISSION", {
        Needs({"SCHOOL_PROFILE_VIEW"}, {"findCurrent"}),
        Needs({"SCHOOL_PROFILE_UPDATE"}, {"updateCurrent"}),
        InSchool({"STUDENT_VIEW"}, {"findSchoolStudents"}),
        InSchool({"STAFF_VIEW"}, {"findSchoolTeachers"}),
        InSchool({"PARENT_VIEW"}, {"findSchoolParents"}),
        InSchool({"SCHOOL_PROFILE_VIEW"}, {"findProfileOptions", "findUserProfileOptions"}),
        InSchool({"SCHOOL_PROFILE_UPDATE"}, {"createProfileOption", "updateProfileOption",
            "removeProfileOption", "addUserProfileOption", "removeUserProfileOption"})})
    \cup Guarded("schools", "ROLE", {
        Needs({"super-admin"}, {"create", "findAll", "findOne", "update", "remove"})})
SectionsApi ==
    Guarded("sections", "PERMISSION", {
        Needs({"STUDENT_VIEW"}, {"previewRolls"}),
        Needs({"STUDENT_UPDATE"}, {"generateRolls"}),
        Needs({"SECTION_CREATE"}, {"create"}),
        Needs({"SECTION_VIEW"}, {"findAll", "findOne", "findByClass"}),
        InSchool({"SECTION_VIEW"}, {"findBySchool"}),
        Needs({"SECTION_UPDATE"}, {"update"}),
        Needs({"SECTION_DELETE"}, {"remove"})})
StaffApi ==
    Guarded("staff", "OPERATIONS", {
        AnyOf({"STAFF_VIEW", "STAFF_CREATE", "STAFF_UPDATE", "STAFF_CATEGORY_MANAGE"},
            {"categoriesList"})})
    \cup Guarded("staff", "PERMISSION", {
        InSchool({"STAFF_CATEGORY_MANAGE"}, {"categoryCreate"}),
        InSchool({"STAFF_CREATE"}, {"create"}),
        InSchool({"STAFF_VIEW"}, {"all", "one"}),
        InSchool({"STAFF_UPDATE"}, {"update"}),
        InSchool({"STAFF_DELETE"}, {"deactivate"})})
AdmissionsCrmApi ==
    Guarded("admissions", "SCHOOL", {
        Needs({"ADMISSIONS_VIEW"}, {"lookups", "dashboard", "settings", "enquiries", "enquiry",
            "applications", "application", "download"}),
        Needs({"ADMISSIONS_SETTINGS_MANAGE"}, {"saveSettings"}),
        Needs({"ADMISSIONS_MANAGE"}, {"createEnquiry", "followup", "createApplication",
            "amendApplication", "upload"}),
        Needs({"ADMISSIONS_DECIDE"}, {"decision"}),
        Needs({"ADMISSIONS_JOIN"}, {"confirm", "join"}),
        Needs({"ADMISSIONS_FEES_RECORD"}, {"payment"}),
        Needs({"ADMISSIONS_FEES_VERIFY"}, {"verify", "waive"})})
EnrollmentAllocationApi ==
    Guarded("enrollment-planning", "SCHOOL", {
        Needs({"ADMISSIONS_MANAGE"}, {"intakePreview", "intakeConfirm"}),
        Needs({"STUDENT_VIEW"}, {"lookups", "list", "history"}),
        Needs({"ENROLLMENT_ALLOCATE"}, {"suggest", "preview", "confirm"}),
        Needs({"ENROLLMENT_MOVE"}, {"move"}),
        Needs({"ENROLLMENT_PROMOTE"}, {"promote"}),
        Needs({"SECTION_UPDATE"}, {"capacityPolicy"})})
StudentAdmissionsApi ==
    Guarded("student-admissions", "SCHOOL", {
        Needs({"STUDENT_CREATE", "ADMISSIONS_MANAGE", "ADMISSIONS_DECIDE", "ADMISSIONS_JOIN"},
            {"create"})})
StudentMigrationApi ==
    Guarded("student-migrations", "SCHOOL", {
        Needs({"students.import.view"}, {"lookups", "capabilities", "usage", "policy", "template",
            "list", "detail", "source", "rows", "allocation", "report"}),
        Needs({"students.import.manage"}, {"savePolicy", "create", "upload", "extract", "mapping",
            "edit", "validate", "sections"}),
        Needs({"students.import.commit"}, {"commit"}),
        Needs({"students.import.rollback"}, {"rollbackImpact", "rollback"})})
StudentsApi ==
    Guarded("students", "PERMISSION", {
        Needs({"STUDENT_CREATE"}, {"create"}),
        Needs({"STUDENT_VIEW"}, {"findAll", "findOne", "enrollments"}),
        Needs({"STUDENT_UPDATE"}, {"update"}),
        Needs({"STUDENT_DELETE"}, {"remove"}),
        Needs({"STUDENT_UPDATE", "ENROLLMENT_PROMOTE"}, {"enroll"}),
        Needs({"STUDENT_UPDATE", "ENROLLMENT_MOVE"}, {"updateEnrollment"})})
SubjectsApi ==
    Guarded("subjects", "PERMISSION", {
        Needs({"SUBJECT_CREATE"}, {"create"}),
        Needs({"SUBJECT_VIEW"}, {"findAll", "findOne"}),
        InSchool({"SUBJECT_VIEW"}, {"findBySchool"}),
        Needs({"SUBJECT_UPDATE"}, {"update"}),
        Needs({"SUBJECT_DELETE"}, {"remove"})})
SyllabusApi ==
    Guarded("syllabi", "PERMISSION", {
        Needs({"SUBJECT_VIEW"}, {"terms"}),
        Needs({"ACADEMIC_YEAR_UPDATE"}, {"createTerm"}),
        Needs({"LESSON_PLAN_MANAGE"}, {"upload", "review", "approve", "discard"}),
        Needs({"LESSON_PLAN_VIEW"}, {"list", "topics", "get"})})
TeachersApi ==
    Guarded("teachers", "PERMISSION", {
        Needs({"STAFF_CREATE"}, {"create"}),
        Needs({"STAFF_VIEW"}, {"findAll", "options", "findOne", "assignments"}),
        Needs({"STAFF_UPDATE"}, {"update", "teachingSetup", "eligibility", "capabilities",
            "assign", "removeAssignment"}),
        Needs({"STAFF_DELETE"}, {"remove"}),
        Needs({"SUBJECT_TEACHER_MANAGE"}, {"removeSubjectAssignment"})})
CoverageApi ==
    Guarded("teacher-cover", "TOKEN", {
        Open({"alerts", "readAlert", "acknowledge"})})
    \cup Guarded("teacher-cover", "OPERATIONS", {
        Needs({"timetable.substitution.view"}, {"schedule", "list"}),
        AnyOf({"staff.attendance.view", "timetable.substitution.view"}, {"policy"}),
        Needs({"staff.attendance.manage", "(administrators only)"}, {"savePolicy"}),
        Needs({"timetable.substitution.generate", "timetable.substitution.view"}, {"refresh"}),
        Needs({"timetable.substitution.approve"}, {"assign"}),
        Needs({"timetable.substitution.cancel"}, {"cancel"})})
TimetablePlanningApi ==
    Guarded("timetable-planning", "PERMISSION", {
        Needs({"TIMETABLE_VIEW"}, {"r", "plans"}),
        Needs({"TIMETABLE_UPDATE"}, {"save", "removeAll", "remove"}),
        Needs({"TIMETABLE_GENERATE"}, {"generate"}),
        Needs({"TIMETABLE_PUBLISH"}, {"publishAll", "publish"})})
TimetableRulesApi ==
    Guarded("timetable-rules", "PERMISSION", {
        Needs({"TIMETABLE_VIEW"}, {"groupWorkspace", "simple", "settings", "teacher", "subjects",
            "staffing", "validate"}),
        Needs({"STAFF_UPDATE", "TIMETABLE_UPDATE"}, {"saveGroupWorkspace"}),
        Needs({"SUBJECT_UPDATE"}, {"classifySubjects"}),
        Needs({"TIMETABLE_UPDATE", "CLASS_SUBJECT_MANAGE"}, {"saveSimple"}),
        Needs({"TIMETABLE_UPDATE"}, {"save", "saveTeacher", "saveSubject"}),
        Needs({"TIMETABLE_GENERATE"}, {"generate"})})
TimetableApi ==
    Guarded("timetable", "PERMISSION", {
        Needs({"TIMETABLE_MANAGE"}, {"period", "create", "remove"}),
        Needs({"TIMETABLE_VIEW"}, {"periods", "list"})})
UsersApi ==
    Guarded("users", "PERMISSION", {
        Needs({"STAFF_CREATE"}, {"create"}),
        Needs({"STAFF_VIEW"}, {"findAll", "findOne"}),
        Needs({"STAFF_UPDATE"}, {"update"}),
        Needs({"STAFF_DELETE"}, {"remove"}),
        Needs({"ROLE_VIEW"}, {"findRoles"}),
        Needs({"ROLE_PERMISSION_MANAGE"}, {"addRole", "removeRole"})})

-----------------------------------------------------------------------------
Api == UNION {WorkflowApi, ParentInsightsApi, AcademicYearsApi, AiApi, AppApi, AttendanceApi,
    SchoolOperationsApi, AuditApi, AuthApi, ClassWorkspaceApi, SchoolClassesApi, ClassSubjectsApi,
    ClassroomManagementApi, DashboardApi, EventsApi, AssessmentApi, ExamsApi, NotificationsApi,
    ParentPortalApi, ParentsApi, PeriodTemplatesApi, PermissionsApi, ReportsApi, RolesApi,
    SchoolSettingsApi, SchoolsApi, SectionsApi, StaffApi, AdmissionsCrmApi,
    EnrollmentAllocationApi, StudentAdmissionsApi, StudentMigrationApi, StudentsApi, SubjectsApi,
    SyllabusApi, TeachersApi, CoverageApi, TimetablePlanningApi, TimetableRulesApi, TimetableApi,
    UsersApi}

(* Every right that a route asks for can be granted: otherwise only administrators could  *)
(* ever use it.  Only the greeting, registration and sign-in are open.  A path that names *)
(* a school is left to PermissionsGuard, the one guard that compares it.                  *)
ASSUME RoutesAskForKnownRights ==
  \A r \in Api : /\ r.guard # "ROLE" => UNION r.need \subseteq Catalogue \cup {AdminOnly}
                 /\ r.guard = "NONE" => r.handler \in {"getHello", "register", "login"}
                 /\ r.inPath => r.guard = "PERMISSION"
=============================================================================
