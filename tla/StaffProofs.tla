----------------------------- MODULE StaffProofs -----------------------------
(***************************************************************************)
(* Staff, and what their accounts may do: reports of absences, the lock of *)
(* the day and the policy in force, for any staff, managers and changes of *)
(* the policy; who teaches and leads what, for any years, classes,         *)
(* sections, subjects and teachers and however the clerks' requests        *)
(* overlap; and that rights are current, for any accounts, roles, routes   *)
(* and rights.                                                             *)
(***************************************************************************)
EXTENDS StaffPresence, SchoolStructure, RequestAccess, TLAPS

(* Every document that is about to be written was validated as it is. *)
DraftsAreValid ==
  /\ policyDraft = [m \in Manager |-> policyDraft[m]]
  /\ \A m \in Manager : policyDraft[m] # NoDraft => ValidAttendancePolicy(policyDraft[m].document)
PresenceInv == AwayIsNotified /\ LockedDayStands /\ DraftsAreValid /\ PolicyInForceValid

-----------------------------------------------------------------------------
(* What saving attendance does to the records, whoever saves it: it needs an open day, *)
(* and reports who is newly away under the version that made them so.                   *)
LEMMA BulkReports ==
  ASSUME NEW S, NEW rows, NEW self, Bulk(S, rows, self), AwayIsNotified
  PROVE  ~dayLocked /\ AwayIsNotified'
<1>1. ~dayLocked
  BY DEF Bulk, Unlocked
<1> DEFINE changed == {s \in S : rows[s].status # attendance[s].status}
<1>2. /\ attendance' = [s \in Staff |-> IF s \in S THEN rows[s] ELSE attendance[s]]
      /\ since' = [s \in Staff |-> IF s \in changed THEN rows[s].version ELSE since[s]]
      /\ notified' = notified \cup {AbsenceKey(s, rows[s].version) : s \in {t \in changed : rows[t].status \in Away}}
  BY DEF Bulk
<1>3. ASSUME NEW s \in Staff, attendance'[s].status \in Away
      PROVE  <<s, since'[s]>> \in notified'
  <2>1. CASE s \in changed
    <3>1. rows[s].status \in Away /\ since'[s] = rows[s].version
      BY <1>2, <1>3, <2>1
    <3>2. AbsenceKey(s, rows[s].version) \in notified'
      BY <1>2, <2>1, <3>1
    <3> QED
      BY <3>1, <3>2 DEF AbsenceKey
  <2>2. CASE s \notin changed
    <3>1. attendance[s].status \in Away /\ since'[s] = since[s]
      BY <1>2, <1>3, <2>2
    <3> QED
      BY <1>2, <3>1 DEF AwayIsNotified
  <2> QED
    BY <2>1, <2>2
<1> QED
  BY <1>1, <1>3 DEF AwayIsNotified

Settled == UNCHANGED <<dayLocked, sealed, attendancePolicy, policyDraft>>
Quiet == UNCHANGED recordVars

(* A save of attendance, by a manager, by a punch or with an approved exception ... *)
LEMMA SavingStep ==
  ASSUME NEW S, NEW rows, NEW self, Bulk(S, rows, self), Settled, PresenceInv
  PROVE  PresenceInv'
<1>1. ~dayLocked' /\ AwayIsNotified'
  BY BulkReports DEF PresenceInv, Settled
<1>2. LockedDayStands'
  BY <1>1 DEF LockedDayStands
<1>3. DraftsAreValid' /\ PolicyInForceValid'
  BY DEF PresenceInv, Settled, DraftsAreValid, PolicyInForceValid
<1> QED
  BY <1>1, <1>2, <1>3 DEF PresenceInv

(* ... and a step that leaves all of it alone. *)
LEMMA OtherStep ==
  ASSUME Quiet, Settled, PresenceInv
  PROVE  PresenceInv'
BY DEF PresenceInv, Quiet, Settled, recordVars, AwayIsNotified, LockedDayStands, DraftsAreValid, PolicyInForceValid

(* The records on a locked day are the ones it was locked with. *)
LEMMA LockStep ==
  ASSUME NEW locked \in BOOLEAN, LockDay(locked), PresenceInv
  PROVE  PresenceInv'
<1>1. AwayIsNotified' /\ DraftsAreValid' /\ PolicyInForceValid'
  BY DEF LockDay, PresenceInv, recordVars, AwayIsNotified, DraftsAreValid, PolicyInForceValid
<1>2. LockedDayStands'
  BY DEF LockDay, PresenceInv, recordVars, LockedDayStands
<1> QED
  BY <1>1, <1>2 DEF PresenceInv

(* A draft of the policy is validated as a whole, and a save puts a draft in force. *)
LEMMA SettingsStep ==
  ASSUME NEW m \in Manager,
         WriteSettings(m) \/ \E change \in PolicyChange : ReadSettings(m, change),
         PresenceInv
  PROVE  PresenceInv'
<1>1. Quiet /\ UNCHANGED <<dayLocked, sealed>>
  BY DEF WriteSettings, ReadSettings, Quiet
<1>2. AwayIsNotified' /\ LockedDayStands'
  BY <1>1 DEF PresenceInv, Quiet, recordVars, AwayIsNotified, LockedDayStands
<1>3. DraftsAreValid' /\ PolicyInForceValid'
  <2>1. CASE WriteSettings(m)
    <3>1. ValidAttendancePolicy(attendancePolicy')
      BY <2>1 DEF WriteSettings, Written, PresenceInv, DraftsAreValid
    <3>2. /\ policyDraft' = [d \in Manager |-> policyDraft'[d]]
          /\ \A d \in Manager : policyDraft'[d] = IF d = m THEN NoDraft ELSE policyDraft[d]
      BY <2>1 DEF WriteSettings, PresenceInv, DraftsAreValid
    <3> QED
      BY <3>1, <3>2 DEF PresenceInv, DraftsAreValid, PolicyInForceValid
  <2>2. ASSUME NEW change \in PolicyChange, ReadSettings(m, change)
        PROVE  DraftsAreValid' /\ PolicyInForceValid'
    <3> DEFINE document == change @@ attendancePolicy
    <3>1. ValidAttendancePolicy(document) /\ UNCHANGED attendancePolicy
      BY <2>2 DEF ReadSettings
    <3> HIDE DEF document
    <3>2. policyDraft' = [policyDraft EXCEPT ![m] = [document |-> document, change |-> change]]
      BY <2>2 DEF ReadSettings, document
    <3>3. /\ policyDraft' = [d \in Manager |-> policyDraft'[d]]
          /\ policyDraft'[m].document = document
          /\ \A d \in Manager \ {m} : policyDraft'[d] = policyDraft[d]
      BY <3>2 DEF PresenceInv, DraftsAreValid
    <3> QED
      BY <3>1, <3>3 DEF PresenceInv, DraftsAreValid, PolicyInForceValid
  <2> QED
    BY <2>1, <2>2
<1> QED
  BY <1>2, <1>3 DEF PresenceInv

-----------------------------------------------------------------------------
(* At first nobody is away, the day is open and the first policy is in force. *)
LEMMA PresenceStart == PresenceInit => PresenceInv
<1> SUFFICES ASSUME PresenceInit PROVE PresenceInv
  OBVIOUS
<1>1. AwayIsNotified
  BY DEF PresenceInit, AwayIsNotified, Away
<1>2. LockedDayStands /\ DraftsAreValid
  BY DEF PresenceInit, LockedDayStands, DraftsAreValid
<1>3. PolicyInForceValid
  BY ValidAtFirst DEF PresenceInit, PolicyInForceValid
<1> QED
  BY <1>1, <1>2, <1>3 DEF PresenceInv

(* Every step keeps the invariant. *)
LEMMA PresenceStep == PresenceInv /\ [PresenceNext]_presenceVars => PresenceInv'
<1> SUFFICES ASSUME PresenceInv, [PresenceNext]_presenceVars PROVE PresenceInv'
  OBVIOUS
<1>1. ASSUME NEW m \in Manager, NEW S \in SUBSET Staff, NEW status \in MarkedStatus,
             NEW in \in {AsBefore, 0, clock}, NEW out \in {AsBefore, 0, clock}, MarkStaff(m, S, status, in, out)
      PROVE  PresenceInv'
  BY <1>1, SavingStep DEF MarkStaff, Settled
<1>2. ASSUME NEW s \in Staff, NEW kind \in Kind, NEW inside \in BOOLEAN, Punch(s, kind, inside)
      PROVE  PresenceInv'
  BY <1>2, SavingStep DEF Punch, Settled
<1>3. ASSUME NEW r \in Request, NEW s \in Staff, NEW kind \in ExceptionKind,
             NEW in \in {0, 1, clock}, NEW out \in {0, 1, clock}, RequestException(r, s, kind, in, out)
      PROVE  PresenceInv'
  BY <1>3, OtherStep DEF RequestException, Settled, Quiet
<1>4. ASSUME NEW m \in Manager, NEW r \in Request, NEW status \in MarkedStatus,
             NEW in \in {0, clock}, NEW out \in {0, clock}, ApproveException(m, r, status, in, out)
      PROVE  PresenceInv'
  BY <1>4, SavingStep DEF ApproveException, Settled
<1>5. ASSUME NEW r \in Request, NEW status \in {"REJECTED", "CANCELLED"}, CloseException(r, status)
      PROVE  PresenceInv'
  BY <1>5, OtherStep DEF CloseException, Settled, Quiet
<1>6. ASSUME NEW s \in Staff, NEW part \in LeavePart, SetLeave(s, part)
      PROVE  PresenceInv'
  BY <1>6, OtherStep DEF SetLeave, Settled, Quiet
<1>7. CASE TimePasses
  BY <1>7, OtherStep DEF TimePasses, Settled, Quiet
<1>8. CASE UNCHANGED presenceVars
  BY <1>8, OtherStep DEF presenceVars, recordVars, Settled, Quiet
<1> QED
  BY <1>1, <1>2, <1>3, <1>4, <1>5, <1>6, <1>7, <1>8, LockStep, SettingsStep DEF PresenceNext

(* The invariant holds always. *)
LEMMA PresenceStays == PresenceSpec => []PresenceInv
BY PresenceStart, PresenceStep, PTL DEF PresenceSpec

(* StaffAttendanceService.bulk reports everybody who is newly away, once per version of   *)
(* the record: whoever is away has been reported since last becoming so.                  *)
THEOREM AbsencesReported == PresenceSpec => []AwayIsNotified
BY PresenceStays, PTL DEF PresenceInv

(* "Attendance is locked": no marking, punch or approved exception changes a record until *)
(* the day is reopened.                                                                   *)
THEOREM LockedDaysStand == PresenceSpec => []LockedDayStands
BY PresenceStays, PTL DEF PresenceInv

(* However the saves of the policy overlap, the document in force is one that was          *)
(* validated as a whole.                                                                   *)
THEOREM PoliciesAreValid == PresenceSpec => []PolicyInForceValid
BY PresenceStays, PTL DEF PresenceInv

-----------------------------------------------------------------------------
(* The records of the day are well formed, and times are times of the day. *)
DayFormed == PresenceTypeOK /\ clock \in Clock

(* A new row has the next version, and keeps the times it is not given. *)
LEMMA NextIsRow ==
  ASSUME DayFormed, NEW s \in Staff, NEW status \in AttendanceStatus,
         NEW in \in 0..MaxClock \cup {AsBefore}, NEW out \in 0..MaxClock \cup {AsBefore}
  PROVE  Next_(s, status, in, out) \in AttendanceRow
<1>1. attendance[s] \in AttendanceRow
  BY DEF DayFormed, PresenceTypeOK
<1>2. attendance[s].in \in 0..MaxClock /\ attendance[s].out \in 0..MaxClock /\ attendance[s].version + 1 \in Nat
  BY <1>1 DEF AttendanceRow
<1> QED
  BY <1>2 DEF Next_, AttendanceRow

(* Saving attendance writes rows in order, and reports versions. *)
LEMMA BulkFormed ==
  ASSUME DayFormed, NEW S \in SUBSET Staff, NEW rows, NEW self, Bulk(S, rows, self), \A s \in S : rows[s] \in AttendanceRow
  PROVE  /\ attendance' \in [Staff -> AttendanceRow]
         /\ \A s \in Staff : attendance'[s].out # 0 => attendance'[s].in \in 1..attendance'[s].out
         /\ notified' \subseteq Staff \X Nat
<1> DEFINE changed == {s \in S : rows[s].status # attendance[s].status}
<1>1. /\ \A s \in S : InOrder(rows[s])
      /\ attendance' = [s \in Staff |-> IF s \in S THEN rows[s] ELSE attendance[s]]
      /\ notified' = notified \cup {AbsenceKey(s, rows[s].version) : s \in {t \in changed : rows[t].status \in Away}}
  BY DEF Bulk
<1>2. attendance' \in [Staff -> AttendanceRow]
  BY <1>1 DEF DayFormed, PresenceTypeOK
<1>3. ASSUME NEW s \in Staff, attendance'[s].out # 0 PROVE attendance'[s].in \in 1..attendance'[s].out
  <2>1. CASE s \in S
    <3>1. attendance'[s] = rows[s] /\ rows[s] \in AttendanceRow
      BY <1>1, <2>1
    <3>2. rows[s].in # 0 /\ rows[s].in <= rows[s].out /\ rows[s].in \in Int /\ rows[s].in >= 0 /\ rows[s].out \in Int
      BY <1>1, <1>3, <2>1, <3>1 DEF InOrder, AttendanceRow
    <3> QED
      BY <3>1, <3>2
  <2>2. CASE s \notin S
    BY <1>1, <1>3, <2>2 DEF DayFormed, PresenceTypeOK
  <2> QED
    BY <2>1, <2>2
<1>4. notified' \subseteq Staff \X Nat
  <2>1. \A s \in S : AbsenceKey(s, rows[s].version) \in Staff \X Nat
    BY DEF AbsenceKey, AttendanceRow
  <2> QED
    BY <1>1, <2>1 DEF DayFormed, PresenceTypeOK
<1> QED
  BY <1>2, <1>3, <1>4

(* Every step writes rows: only an approved exception and a punch give them other times *)
(* than a manager's.                                                                     *)
LEMMA DayStep ==
  ASSUME DayFormed, [PresenceNext]_presenceVars
  PROVE  DayFormed'
<1>1. \A x \in {0, 1, clock} : x \in 0..MaxClock
  BY StaffAssumption DEF DayFormed, Clock
<1>2. ASSUME NEW m \in Manager, NEW S \in SUBSET Staff, NEW status \in MarkedStatus,
             NEW in \in {AsBefore, 0, clock}, NEW out \in {AsBefore, 0, clock}, MarkStaff(m, S, status, in, out)
      PROVE  DayFormed'
  <2>1. PICK rows : rows = [s \in S |-> Next_(s, status, in, out)]
    OBVIOUS
  <2>2. Bulk(S, rows, FALSE) /\ UNCHANGED <<punch, exception, clock>>
    BY <1>2, <2>1 DEF MarkStaff
  <2>3. \A s \in S : rows[s] \in AttendanceRow
    BY <1>1, <2>1, NextIsRow, StaffAssumption
  <2> QED
    BY <2>2, <2>3, BulkFormed DEF DayFormed, PresenceTypeOK
<1>3. ASSUME NEW s \in Staff, NEW kind \in Kind, NEW inside \in BOOLEAN, Punch(s, kind, inside)
      PROVE  DayFormed'
  <2>1. PICK rows : rows = [t \in {s} |->
          IF kind = "CHECK_IN" THEN Next_(s, IF clock > LateAfter THEN "LATE" ELSE "PRESENT", clock, AsBefore)
                               ELSE Next_(s, attendance[s].status, AsBefore, clock)]
    OBVIOUS
  <2>2. /\ Bulk({s}, rows, TRUE) /\ UNCHANGED <<exception, clock>>
        /\ punch' = [punch EXCEPT ![s] = @ \cup {kind}]
    BY <1>3, <2>1 DEF Punch
  <2>3. /\ Next_(s, "LATE", clock, AsBefore) \in AttendanceRow /\ Next_(s, "PRESENT", clock, AsBefore) \in AttendanceRow
    BY <1>1, NextIsRow DEF AttendanceStatus
  <2>4. attendance[s].status \in AttendanceStatus
    BY DEF DayFormed, PresenceTypeOK, AttendanceRow
  <2>5. Next_(s, attendance[s].status, AsBefore, clock) \in AttendanceRow
    BY <1>1, <2>4, NextIsRow
  <2>6. \A t \in {s} : rows[t] \in AttendanceRow
    BY <2>1, <2>3, <2>5
  <2>7. PICK S \in SUBSET Staff : S = {s}
    OBVIOUS
  <2>8. /\ attendance' \in [Staff -> AttendanceRow]
        /\ \A t \in Staff : attendance'[t].out # 0 => attendance'[t].in \in 1..attendance'[t].out
        /\ notified' \subseteq Staff \X Nat
    BY <2>2, <2>6, <2>7, BulkFormed
  <2>9. punch' \in [Staff -> SUBSET Kind]
    BY <2>2 DEF DayFormed, PresenceTypeOK
  <2> QED
    BY <2>2, <2>8, <2>9 DEF DayFormed, PresenceTypeOK
<1>4. ASSUME NEW r \in Request, NEW s \in Staff, NEW kind \in ExceptionKind,
             NEW in \in {0, 1, clock}, NEW out \in {0, 1, clock}, RequestException(r, s, kind, in, out)
      PROVE  DayFormed'
  <2>1. PICK row : row = [staff |-> s, kind |-> kind, in |-> in, out |-> out, status |-> "PENDING"]
    OBVIOUS
  <2>2. row \in RequestRow
    BY <1>1, <2>1 DEF RequestRow
  <2>3. exception' = [exception EXCEPT ![r] = row] /\ UNCHANGED <<attendance, notified, punch, clock>>
    BY <1>4, <2>1 DEF RequestException, recordVars
  <2> QED
    BY <2>2, <2>3 DEF DayFormed, PresenceTypeOK
<1>5. ASSUME NEW r \in Request, NEW status \in {"APPROVED", "REJECTED", "CANCELLED"},
             exception' = [exception EXCEPT ![r].status = status]
      PROVE  exception' \in [Request -> RequestRow]
  <2>1. exception[r] \in RequestRow
    BY DEF DayFormed, PresenceTypeOK
  <2>2. PICK row : row = [exception[r] EXCEPT !.status = status]
    OBVIOUS
  <2>3. row \in RequestRow
    BY <2>1, <2>2 DEF RequestRow
  <2>4. exception' = [exception EXCEPT ![r] = row]
    BY <1>5, <2>2
  <2> QED
    BY <2>3, <2>4 DEF DayFormed, PresenceTypeOK
<1>6. ASSUME NEW m \in Manager, NEW r \in Request, NEW status \in MarkedStatus,
             NEW in \in {0, clock}, NEW out \in {0, clock}, ApproveException(m, r, status, in, out)
      PROVE  DayFormed'
  <2>1. exception[r] \in RequestRow
    BY DEF DayFormed, PresenceTypeOK
  <2>2. PICK s \in Staff : s = exception[r].staff
    BY <2>1 DEF RequestRow
  <2>3. PICK checkIn, checkOut, rows : /\ checkIn = Confirmed(in, exception[r].in)
                                       /\ checkOut = Confirmed(out, exception[r].out)
                                       /\ rows = [t \in {s} |-> Next_(s, status, checkIn, checkOut)]
    OBVIOUS
  <2>4. /\ Bulk({s}, rows, FALSE) /\ UNCHANGED <<punch, clock>>
        /\ exception' = [exception EXCEPT ![r].status = "APPROVED"]
    BY <1>6, <2>2, <2>3 DEF ApproveException
  <2>5. checkIn \in 0..MaxClock \cup {AsBefore} /\ checkOut \in 0..MaxClock \cup {AsBefore}
    BY <1>1, <2>1, <2>3 DEF RequestRow, Confirmed
  <2>6. Next_(s, status, checkIn, checkOut) \in AttendanceRow
    BY <2>5, NextIsRow, StaffAssumption
  <2>7. \A t \in {s} : rows[t] \in AttendanceRow
    BY <2>3, <2>6
  <2>8. PICK S \in SUBSET Staff : S = {s}
    OBVIOUS
  <2>9. /\ attendance' \in [Staff -> AttendanceRow]
        /\ \A t \in Staff : attendance'[t].out # 0 => attendance'[t].in \in 1..attendance'[t].out
        /\ notified' \subseteq Staff \X Nat
    BY <2>4, <2>7, <2>8, BulkFormed
  <2> QED
    BY <1>5, <2>4, <2>9 DEF DayFormed, PresenceTypeOK
<1>7. ASSUME NEW r \in Request, NEW status \in {"REJECTED", "CANCELLED"}, CloseException(r, status)
      PROVE  DayFormed'
  <2>1. exception' = [exception EXCEPT ![r].status = status] /\ UNCHANGED <<attendance, notified, punch, clock>>
    BY <1>7 DEF CloseException, recordVars
  <2> QED
    BY <1>5, <2>1 DEF DayFormed, PresenceTypeOK
<1>8. ASSUME UNCHANGED <<attendance, notified, punch, exception, clock>> PROVE DayFormed'
  BY <1>8 DEF DayFormed, PresenceTypeOK
<1>9. CASE TimePasses
  <2>1. clock' = clock + 1 /\ clock < MaxClock /\ UNCHANGED <<attendance, notified, punch, exception>>
    BY <1>9 DEF TimePasses, recordVars
  <2> QED
    BY <2>1, StaffAssumption DEF DayFormed, PresenceTypeOK, Clock
<1>10. ASSUME NEW s \in Staff, NEW part \in LeavePart, SetLeave(s, part) PROVE DayFormed'
  BY <1>8, <1>10 DEF SetLeave, recordVars
<1>11. ASSUME NEW locked \in BOOLEAN, LockDay(locked) PROVE DayFormed'
  BY <1>8, <1>11 DEF LockDay, recordVars
<1>12. ASSUME NEW m \in Manager, WriteSettings(m) \/ \E change \in PolicyChange : ReadSettings(m, change)
       PROVE  DayFormed'
  BY <1>8, <1>12 DEF ReadSettings, WriteSettings, recordVars
<1>13. CASE UNCHANGED presenceVars
  BY <1>8, <1>13 DEF presenceVars, recordVars
<1> QED
  BY <1>2, <1>3, <1>4, <1>6, <1>7, <1>9, <1>10, <1>11, <1>12, <1>13 DEF PresenceNext

(* The records of a day are well formed, and nobody has left without having come, nor     *)
(* before: whichever of marking, punching and approved exceptions wrote the row           *)
(* (validation in StaffAttendanceService.bulk).                                           *)
THEOREM DayWellFormed == PresenceSpec => []PresenceTypeOK
<1>1. PresenceInit => DayFormed
  <2>1. (CHOOSE s \in Staff : TRUE) \in Staff
    BY StaffAssumption
  <2> QED
    BY <2>1, StaffAssumption DEF PresenceInit, DayFormed, PresenceTypeOK, Clock, AttendanceRow, AttendanceStatus,
       RequestRow, ExceptionKind
<1>2. DayFormed /\ [PresenceNext]_presenceVars => DayFormed'
  BY DayStep
<1>3. DayFormed => PresenceTypeOK
  BY DEF DayFormed
<1> QED
  BY <1>1, <1>2, <1>3, PTL DEF PresenceSpec

-----------------------------------------------------------------------------
(* Class teachers, teaching teams and the frame of the school year. *)
(* A lead teacher's row is that of the section's class teacher, and the class teacher of *)
(* a section is never that of the whole class.                                            *)
LeadRow(r) == /\ r.type = "LEAD_TEACHER" /\ r.active => r.classTeacher /\ r.subject = NoSubject
              /\ r.classTeacher => r.section # WholeClass
LeadRows(rows) == \A i \in RowId : rows[i] # NoRow => LeadRow(rows[i])
RowTypes(rows) == rows \in [RowId -> AssignmentRow \cup {NoRow}]

(* What a clerk's request is made of. *)
ClerkAsks == [op : {"subjects"}, phase : {"checked"}, year : YearId, class : ClassId,
        removed : SUBSET SubjectId, created : SUBSET SubjectId, revived : SUBSET SubjectId]
  \cup [op : {"assign"}, phase : {"checked"},
        row : {r \in AssignmentRow : r.type = "SUBJECT_TEACHER" /\ LeadRow(r)}]
  \cup [op : {"classTeacher"}, phase : {"checked"}, lead : TeacherId, year : YearId, class : ClassId, section : SectionId]
  \cup [op : {"team"}, phase : {"asked", "checked"}, year : YearId, class : ClassId, section : SectionId,
        members : SUBSET (TeacherId \X Responsibility), removed : SUBSET RowId, lead : SUBSET TeacherId]
AsksFormed == asked \in [Clerk -> ClerkAsks \cup {Idle}]

RosterInv == RowTypes(assignments) /\ LeadRows(assignments) /\ Stored(assignments) /\ AsksFormed

-----------------------------------------------------------------------------
(* What the unique indexes forbid does not come about by ending rows, by taking the class *)
(* teacher from them or by deleting them.                                                  *)
Weaker(r, old) == /\ old # NoRow /\ r.year = old.year /\ r.section = old.section /\ r.teacher = old.teacher
                  /\ (r.classTeacher => old.classTeacher) /\ (r.active => old.active)
LEMMA WeakerStored ==
  ASSUME NEW rows, NEW old, Stored(old), \A i \in RowId : rows[i] = NoRow \/ rows[i] = old[i] \/ Weaker(rows[i], old[i])
  PROVE  Stored(rows)
<1>1. ASSUME NEW i \in RowId, rows[i] # NoRow
      PROVE  /\ old[i] # NoRow /\ rows[i].year = old[i].year /\ rows[i].section = old[i].section
             /\ rows[i].teacher = old[i].teacher
             /\ (rows[i].classTeacher => old[i].classTeacher) /\ (rows[i].active => old[i].active)
  BY <1>1 DEF Weaker
<1>2. SectionIndex(rows)
  BY <1>1 DEF SectionIndex, Stored
<1>3. TeacherIndex(rows)
  BY <1>1 DEF TeacherIndex, Stored
<1> QED
  BY <1>2, <1>3 DEF Stored

(* So the invariant is kept by a step that only weakens rows ... *)
LEMMA WeakeningStep ==
  ASSUME RosterInv, UNCHANGED asked, assignments' = [i \in RowId |-> assignments'[i]],
         \A i \in RowId : \/ assignments'[i] \in {NoRow, assignments[i]}
                          \/ assignments'[i] \in AssignmentRow /\ Weaker(assignments'[i], assignments[i]) /\ LeadRow(assignments'[i])
  PROVE  RosterInv'
<1>1. Stored(assignments')
  <2> DEFINE rows == assignments'
  <2>1. \A i \in RowId : rows[i] = NoRow \/ rows[i] = assignments[i] \/ Weaker(rows[i], assignments[i])
    OBVIOUS
  <2>2. PICK old : old = assignments
    OBVIOUS
  <2>3. Stored(old) /\ \A i \in RowId : rows[i] = NoRow \/ rows[i] = old[i] \/ Weaker(rows[i], old[i])
    BY <2>1, <2>2 DEF RosterInv
  <2> HIDE DEF rows
  <2>4. PICK new : new = rows
    OBVIOUS
  <2>5. Stored(new)
    BY <2>3, <2>4, WeakerStored
  <2> QED
    BY <2>4, <2>5 DEF rows
<1>2. RowTypes(assignments')
  BY DEF RosterInv, RowTypes
<1>3. LeadRows(assignments')
  BY DEF RosterInv, LeadRows
<1>4. AsksFormed'
  BY DEF RosterInv, AsksFormed
<1> QED
  BY <1>1, <1>2, <1>3, <1>4 DEF RosterInv, RowTypes, LeadRows, Stored, SectionIndex, TeacherIndex

(* ... like the frame, which takes the rows along of what it deletes, ... *)
LEMMA FrameRoster ==
  ASSUME RosterInv, FrameStep, UNCHANGED asked
  PROVE  RosterInv'
<1>1. assignments' = assignments \/ \E I : assignments' = Without(I)
  BY DEF FrameStep, CreateYear, RemoveYear, AssignYearSubjects, RemoveYearSubject, CreateSubject, RemoveSubject, UpdateSubject,
         CreateClass, CreateBulk, NewClasses, UpdateClass, RemoveClass, DropSection
<1>2. assignments = [i \in RowId |-> assignments[i]]
  BY DEF RosterInv, RowTypes
<1>3. /\ assignments' = [i \in RowId |-> assignments'[i]]
      /\ \A i \in RowId : assignments'[i] \in {NoRow, assignments[i]}
  <2>1. CASE assignments' = assignments
    BY <1>2, <2>1
  <2>2. CASE \E I : assignments' = Without(I)
    BY <2>2 DEF Without
  <2> QED
    BY <1>1, <2>1, <2>2
<1> QED
  BY <1>3, WeakeningStep

(* ... and the ends of assignments. *)
LEMMA RosterSteps ==
  ASSUME RosterInv, RosterStep, UNCHANGED asked
  PROVE  RosterInv'
<1>1. assignments = [i \in RowId |-> assignments[i]] /\ \A i \in RowId : assignments[i] \in AssignmentRow \cup {NoRow}
  BY DEF RosterInv, RowTypes
<1>2. ASSUME NEW i \in RowId, EndSubjectAssignment(i)
      PROVE  RosterInv'
  <2>1. assignments[i] # NoRow /\ assignments[i] \in AssignmentRow /\ LeadRow(assignments[i])
    BY <1>1, <1>2 DEF EndSubjectAssignment, Rows, RosterInv, LeadRows
  <2>2. assignments' = [assignments EXCEPT ![i] = WithoutSubject(assignments[i])]
    BY <1>2 DEF EndSubjectAssignment
  <2>3. /\ WithoutSubject(assignments[i]) \in AssignmentRow
        /\ Weaker(WithoutSubject(assignments[i]), assignments[i]) /\ LeadRow(WithoutSubject(assignments[i]))
    <3> DEFINE r == assignments[i]
    <3>1. CASE r.classTeacher
      BY <2>1, <3>1 DEF WithoutSubject, Weaker, LeadRow, AssignmentRow, Responsibility
    <3>2. CASE ~r.classTeacher
      BY <2>1, <3>2 DEF WithoutSubject, Weaker, LeadRow, AssignmentRow
    <3> QED
      BY <3>1, <3>2
  <2>4. /\ assignments' = [j \in RowId |-> assignments'[j]]
        /\ \A j \in RowId : assignments'[j] = IF j = i THEN WithoutSubject(assignments[i]) ELSE assignments[j]
    BY <1>1, <2>2
  <2> QED
    BY <2>3, <2>4, WeakeningStep
<1>3. ASSUME NEW I, assignments' = Without(I)
      PROVE  RosterInv'
  <2>1. /\ assignments' = [i \in RowId |-> assignments'[i]]
        /\ \A i \in RowId : assignments'[i] \in {NoRow, assignments[i]}
    BY <1>3 DEF Without
  <2> QED
    BY <2>1, WeakeningStep
<1> QED
  BY <1>2, <1>3 DEF RosterStep, RemoveAssignment, RemoveClassTeacher

-----------------------------------------------------------------------------
(* A new row for a class teacher names a section, and one that leads is a class teacher's. *)
LEMMA NewRows ==
  \A t \in TeacherId, y \in YearId, c \in ClassId, s \in SectionId \cup {WholeClass}, x \in SubjectId \cup {NoSubject},
     lead \in BOOLEAN, type \in Responsibility :
    (lead => s # WholeClass) /\ (type = "LEAD_TEACHER" => lead /\ x = NoSubject) =>
      LET row == [NewRow(t, y, c, s, x, lead) EXCEPT !.type = type] IN row \in AssignmentRow /\ LeadRow(row)
<1> SUFFICES ASSUME NEW t \in TeacherId, NEW y \in YearId, NEW c \in ClassId, NEW s \in SectionId \cup {WholeClass},
                    NEW x \in SubjectId \cup {NoSubject}, NEW lead \in BOOLEAN, NEW type \in Responsibility,
                    lead => s # WholeClass, type = "LEAD_TEACHER" => lead /\ x = NoSubject
             PROVE  LET row == [NewRow(t, y, c, s, x, lead) EXCEPT !.type = type] IN row \in AssignmentRow /\ LeadRow(row)
  OBVIOUS
<1> QED
  BY DEF NewRow, AssignmentRow, LeadRow, Responsibility

(* What is asked is well formed. *)
LEMMA AskingRoster ==
  ASSUME RosterInv, NEW k \in FreeClerks, NEW y \in years, NEW c \in ClassesOf(y), years \subseteq YearId,
         \/ \E X \in SUBSET ActiveSubjects : AskSubjects(k, y, c, X)
         \/ \E t \in MayTeach[c], s \in SectionsOf(c) \cup {WholeClass}, x \in SubjectId \cup {NoSubject}, lead \in BOOLEAN :
              AskAssign(k, t, y, c, s, x, lead)
         \/ \E s \in SectionsOf(c) : \/ \E t \in MayTeach[c] : AskClassTeacher(k, t, y, c, s)
                                     \/ \E M \in Team : AskTeam(k, y, c, s, M)
  PROVE  RosterInv'
<1>1. y \in YearId /\ c \in ClassId /\ k \in Clerk
  BY DEF ClassesOf, FreeClerks
<1>2. UNCHANGED assignments /\ \E q \in ClerkAsks : asked' = [asked EXCEPT ![k] = q]
  <2>1. ASSUME NEW X \in SUBSET ActiveSubjects, AskSubjects(k, y, c, X)
        PROVE  UNCHANGED assignments /\ \E q \in ClerkAsks : asked' = [asked EXCEPT ![k] = q]
    <3>1. X \subseteq SubjectId
      BY DEF ActiveSubjects
    <3> QED
      BY <1>1, <2>1, <3>1 DEF AskSubjects, ClerkAsks
  <2>2. ASSUME NEW t \in MayTeach[c], NEW s \in SectionsOf(c) \cup {WholeClass}, NEW x \in SubjectId \cup {NoSubject},
               NEW lead \in BOOLEAN, AskAssign(k, t, y, c, s, x, lead)
        PROVE  UNCHANGED assignments /\ \E q \in ClerkAsks : asked' = [asked EXCEPT ![k] = q]
    <3>1. t \in TeacherId /\ s \in SectionId \cup {WholeClass} /\ (lead => s # WholeClass)
      BY <1>1, <2>2, StructureAssumption DEF SectionsOf, AskAssign
    <3>2. NewRow(t, y, c, s, x, lead) \in {r \in AssignmentRow : r.type = "SUBJECT_TEACHER" /\ LeadRow(r)}
      BY <1>1, <3>1 DEF NewRow, AssignmentRow, Responsibility, LeadRow
    <3> QED
      BY <2>2, <3>2 DEF AskAssign, ClerkAsks
  <2>3. ASSUME NEW s \in SectionsOf(c), NEW t \in MayTeach[c], AskClassTeacher(k, t, y, c, s)
        PROVE  UNCHANGED assignments /\ \E q \in ClerkAsks : asked' = [asked EXCEPT ![k] = q]
    <3>1. t \in TeacherId /\ s \in SectionId
      BY <1>1, <2>3, StructureAssumption DEF SectionsOf
    <3> QED
      BY <1>1, <2>3, <3>1 DEF AskClassTeacher, ClerkAsks
  <2>4. ASSUME NEW s \in SectionsOf(c), NEW M \in Team, AskTeam(k, y, c, s, M)
        PROVE  UNCHANGED assignments /\ \E q \in ClerkAsks : asked' = [asked EXCEPT ![k] = q]
    <3>1. s \in SectionId /\ M \in SUBSET (TeacherId \X Responsibility) /\ Unwanted(y, s, M) \in SUBSET RowId
      BY <2>4 DEF SectionsOf, Team, Unwanted, Rows, Responsibility
    <3>2. {m[1] : m \in {n \in M : n[2] = "LEAD_TEACHER"}} \in SUBSET TeacherId
      BY <3>1
    <3> QED
      BY <1>1, <2>4, <3>1, <3>2 DEF AskTeam, ClerkAsks
  <2> QED
    BY <2>1, <2>2, <2>3, <2>4
<1>3. AsksFormed'
  BY <1>1, <1>2 DEF RosterInv, AsksFormed
<1> QED
  BY <1>2, <1>3 DEF RosterInv, RowTypes, LeadRows, Stored, SectionIndex, TeacherIndex

(* A request that is checked or refused. *)
LEMMA AnsweredRoster ==
  ASSUME RosterInv, NEW k \in Clerk, CheckLead(k) \/ Refuse(k)
  PROVE  RosterInv'
<1>1. asked[k] \in ClerkAsks \/ asked[k] = Idle
  BY DEF RosterInv, AsksFormed
<1>2. UNCHANGED assignments /\ \E q \in ClerkAsks \cup {Idle} : asked' = [asked EXCEPT ![k] = q]
  <2>1. CASE CheckLead(k)
    <3>1. asked[k] \in ClerkAsks /\ asked[k].phase = "asked"
      BY <1>1, <2>1 DEF CheckLead
    <3>2. [asked[k] EXCEPT !.phase = "checked"] \in ClerkAsks
      BY <3>1 DEF ClerkAsks
    <3>3. \E q \in {Idle, [asked[k] EXCEPT !.phase = "checked"]} : asked' = [asked EXCEPT ![k] = q]
      BY <2>1 DEF CheckLead
    <3> QED
      BY <2>1, <3>2, <3>3 DEF CheckLead
  <2>2. CASE Refuse(k)
    BY <2>2 DEF Refuse
  <2> QED
    BY <2>1, <2>2
<1>3. AsksFormed'
  BY <1>2 DEF RosterInv, AsksFormed
<1> QED
  BY <1>2, <1>3 DEF RosterInv, RowTypes, LeadRows, Stored, SectionIndex, TeacherIndex

(* A request that is written: its rows are well formed, and the indexes have the last word. *)
LEMMA WrittenRoster ==
  ASSUME RosterInv, NEW k \in Clerk, Write(k)
  PROVE  RosterInv'
<1> DEFINE q == asked[k]
<1>1. q \in ClerkAsks /\ Writes(q) /\ Stored(assignments') /\ asked' = [asked EXCEPT ![k] = Idle]
  BY DEF Write, RosterInv, AsksFormed
<1>2. AsksFormed'
  BY <1>1 DEF RosterInv, AsksFormed
<1>3. /\ assignments = [i \in RowId |-> assignments[i]]
      /\ \A i \in RowId : assignments[i] \in AssignmentRow \cup {NoRow}
      /\ \A i \in RowId : assignments[i] # NoRow => LeadRow(assignments[i])
  BY DEF RosterInv, RowTypes, LeadRows
<1> HIDE DEF q
<1> DEFINE Kept(i) == assignments'[i] \in {NoRow, assignments[i]} \cup {r \in AssignmentRow : LeadRow(r)}
<1>4. assignments' = [i \in RowId |-> assignments'[i]] /\ \A i \in RowId : Kept(i)
  <2>1. CASE q.op = "subjects" /\ ReplaceSubjects(q)
    <3>1. ASSUME NEW r \in AssignmentRow, LeadRow(r)
          PROVE  [r EXCEPT !.active = FALSE] \in AssignmentRow /\ LeadRow([r EXCEPT !.active = FALSE])
      BY <3>1 DEF AssignmentRow, LeadRow
    <3>2. /\ assignments' = [i \in RowId |-> assignments'[i]]
          /\ \A i \in RowId : \/ assignments'[i] = assignments[i]
                              \/ i \in Rows /\ assignments'[i] = [assignments[i] EXCEPT !.active = FALSE]
      BY <2>1 DEF ReplaceSubjects
    <3> QED
      BY <1>3, <3>1, <3>2 DEF Rows
  <2>2. CASE q.op = "assign" /\ Assign(q)
    <3>1. q.row \in AssignmentRow /\ LeadRow(q.row)
      BY <1>1, <2>2 DEF ClerkAsks
    <3>2. assignments' = [assignments EXCEPT ![Min(FreeRows)] = q.row]
      BY <2>2 DEF Assign, Added
    <3> QED
      BY <1>3, <3>1, <3>2
  <2>3. CASE q.op = "classTeacher" /\ ReplaceClassTeacher(q)
    <3>1. q.lead \in TeacherId /\ q.year \in YearId /\ q.class \in ClassId /\ q.section \in SectionId
      BY <1>1, <2>3 DEF ClerkAsks
    <3> DEFINE row == [NewRow(q.lead, q.year, q.class, q.section, NoSubject, TRUE) EXCEPT !.type = "LEAD_TEACHER"]
               stepped == [i \in RowId |-> IF i \in Rows THEN Stepped(assignments[i], q) ELSE NoRow]
    <3>2. row \in AssignmentRow /\ LeadRow(row)
      BY <3>1, NewRows, StructureAssumption DEF Responsibility
    <3>3. ASSUME NEW r \in AssignmentRow, LeadRow(r)
          PROVE  Stepped(r, q) \in AssignmentRow /\ LeadRow(Stepped(r, q))
      BY <3>3 DEF Stepped, AssignmentRow, LeadRow, Responsibility
    <3>4. assignments' = [stepped EXCEPT ![Min(FreeRows)] = row]
      BY <2>3 DEF ReplaceClassTeacher, Added
    <3>5. \A i \in RowId : stepped[i] = NoRow \/ (stepped[i] \in AssignmentRow /\ LeadRow(stepped[i]))
      BY <1>3, <3>3 DEF Rows
    <3> HIDE DEF row, stepped
    <3>6. stepped = [i \in RowId |-> stepped[i]]
      BY DEF stepped
    <3> QED
      BY <3>2, <3>4, <3>5, <3>6
  <2>4. CASE q.op = "team" /\ ReplaceTeam(q)
    <3>1. q.year \in YearId /\ q.class \in ClassId /\ q.section \in SectionId /\ q.members \in SUBSET (TeacherId \X Responsibility)
      BY <1>1, <2>4 DEF ClerkAsks
    <3>2. ASSUME NEW m \in q.members
          PROVE  MemberRow(m, q) \in AssignmentRow /\ LeadRow(MemberRow(m, q))
      BY <3>1, NewRows, StructureAssumption DEF MemberRow
    <3>3. ASSUME NEW r \in AssignmentRow, LeadRow(r)
          PROVE  [r EXCEPT !.active = FALSE] \in AssignmentRow /\ LeadRow([r EXCEPT !.active = FALSE])
      BY <3>3 DEF AssignmentRow, LeadRow
    <3>4. PICK at \in [q.members -> RowId] :
            assignments' = [i \in RowId |-> IF i \in Range(at) THEN MemberRow(CHOOSE m \in q.members : at[m] = i, q)
              ELSE IF i \in Rows /\ i \in q.removed THEN [assignments[i] EXCEPT !.active = FALSE] ELSE assignments[i]]
      BY <2>4 DEF ReplaceTeam
    <3>5. \A i \in Range(at) : (CHOOSE m \in q.members : at[m] = i) \in q.members
      BY DEF Range
    <3>6. ASSUME NEW i \in RowId
          PROVE  Kept(i)
      <4>1. CASE i \in Range(at)
        BY <3>2, <3>4, <3>5, <4>1
      <4>2. CASE i \notin Range(at)
        BY <1>3, <3>3, <3>4, <4>2 DEF Rows
      <4> QED
        BY <4>1, <4>2
    <3> QED
      BY <3>4, <3>6
  <2> QED
    BY <1>1, <2>1, <2>2, <2>3, <2>4 DEF Writes
<1>5. RowTypes(assignments')
  BY <1>3, <1>4 DEF RowTypes
<1>6. LeadRows(assignments')
  BY <1>3, <1>4 DEF LeadRows
<1> QED
  BY <1>1, <1>2, <1>5, <1>6 DEF RosterInv, RowTypes, LeadRows, Stored, SectionIndex, TeacherIndex

-----------------------------------------------------------------------------
(* What the frame is made of, ... *)
FrameTypes ==
  /\ years \subseteq YearId /\ classes \in [ClassId -> ClassRow] /\ sectionOf \in [SectionId -> ClassId \cup {NoClass}]
  /\ subjects \in [SubjectId -> {"NONE", "ACTIVE", "INACTIVE"}] /\ yearSubjects \subseteq years \X SubjectId
  /\ classSubjects \in [YearId \X ClassId \X SubjectId -> {"NONE", "ACTIVE", "ENDED"}]
  /\ \A s \in SectionId : sectionOf[s] # NoClass => classes[sectionOf[s]] # NoClass

(* ... that a row refers to what exists, and that a request for a section still finds it  *)
(* in its class, or finds it deleted for good: a section is never created under the       *)
(* identifier of one that was deleted.                                                     *)
Refers(r) == /\ r.year \in years /\ classes[r.class] # NoClass
             /\ r.section # WholeClass => sectionOf[r.section] = r.class
             /\ r.subject # NoSubject => subjects[r.subject] # "NONE"
Placed(s, c) == s # WholeClass => sectionOf[s] = c \/ (sectionOf[s] = NoClass /\ s \in deleted)
AskPlaced(q) == /\ q.op \in {"classTeacher", "team"} => Placed(q.section, q.class)
                /\ q.op = "assign" => Placed(q.row.section, q.row.class)
RowsRefer == \A i \in RowId : assignments[i] # NoRow => Refers(assignments[i])
AsksPlaced == \A k \in Clerk : asked[k] # Idle => AskPlaced(asked[k])
StructureInv == RosterInv /\ FrameTypes /\ RowsRefer /\ AsksPlaced

(* A section that a request names stays where it is unless it is deleted. *)
SectionsStay == \A s \in SectionId : \/ sectionOf'[s] = sectionOf[s]
                                     \/ sectionOf[s] = NoClass /\ s \notin deleted
                                     \/ sectionOf'[s] = NoClass /\ s \in deleted'
LEMMA AskStaysPlaced ==
  ASSUME RosterInv, AsksPlaced, SectionsStay, deleted \subseteq deleted', UNCHANGED asked
  PROVE  AsksPlaced'
<1>1. \A s \in SectionId, c \in ClassId : Placed(s, c) => Placed(s, c)'
  BY StructureAssumption DEF Placed, SectionsStay
<1>2. ASSUME NEW k \in Clerk, asked[k] # Idle
      PROVE  AskPlaced(asked[k])'
  <2>1. asked[k] \in ClerkAsks /\ AskPlaced(asked[k])
    BY <1>2 DEF RosterInv, AsksFormed, AsksPlaced
  <2>2. CASE asked[k].op \in {"classTeacher", "team"}
    <3>1. asked[k].section \in SectionId /\ asked[k].class \in ClassId
      BY <2>1, <2>2 DEF ClerkAsks
    <3> QED
      BY <1>1, <2>1, <2>2, <3>1 DEF AskPlaced
  <2>3. CASE asked[k].op = "assign"
    <3>1. asked[k].row.section \in SectionId \cup {WholeClass} /\ asked[k].row.class \in ClassId
      BY <2>1, <2>3 DEF ClerkAsks, AssignmentRow
    <3> QED
      BY <1>1, <2>1, <2>3, <3>1 DEF AskPlaced, Placed
  <2> QED
    BY <2>2, <2>3 DEF AskPlaced
<1> QED
  BY <1>2 DEF AsksPlaced

(* Years and subjects: what a row refers to is not deleted, or the row goes with it. *)
LEMMA YearSteps ==
  ASSUME StructureInv, UNCHANGED asked,
         \/ \E y \in YearId : CreateYear(y) \/ RemoveYear(y)
         \/ \E y \in years, X \in SUBSET SubjectId : AssignYearSubjects(y, X)
         \/ \E p \in yearSubjects : RemoveYearSubject(p[1], p[2])
  PROVE  FrameTypes' /\ RowsRefer' /\ AsksPlaced'
<1> USE DEF StructureInv
<1>1. UNCHANGED <<sectionOf, subjects, classSubjects, assignments>> /\ deleted \subseteq deleted'
  BY DEF CreateYear, RemoveYear, AssignYearSubjects, RemoveYearSubject
<1>2. AsksPlaced'
  BY <1>1, AskStaysPlaced DEF SectionsStay
<1>3. ASSUME NEW y \in YearId, CreateYear(y)
      PROVE  FrameTypes' /\ RowsRefer'
  BY <1>1, <1>3 DEF CreateYear, FrameTypes, RowsRefer, Refers
<1>4. ASSUME NEW y \in YearId, RemoveYear(y)
      PROVE  FrameTypes' /\ RowsRefer'
  <2>1. ASSUME NEW c \in ClassId
        PROVE  classes'[c] \in ClassRow /\ (classes[c] # NoClass => classes'[c] # NoClass)
    <3>1. CASE c \in ClassesOf(y)
      <4>1. classes[c] \in [name : ClassName, year : YearId \cup {NoYear}, status : {"ACTIVE", "INACTIVE"}]
        BY <3>1 DEF ClassesOf, FrameTypes, ClassRow
      <4>2. classes'[c] = [classes[c] EXCEPT !.year = NoYear]
        BY <1>4, <3>1 DEF RemoveYear
      <4>3. classes'[c] \in [name : ClassName, year : YearId \cup {NoYear}, status : {"ACTIVE", "INACTIVE"}]
        BY <4>1, <4>2
      <4> QED
        BY <4>3, StructureAssumption DEF ClassRow
    <3>2. CASE c \notin ClassesOf(y)
      BY <1>4, <3>2 DEF RemoveYear, FrameTypes
    <3> QED
      BY <3>1, <3>2
  <2>2. classes' \in [ClassId -> ClassRow]
    BY <1>4, <2>1 DEF RemoveYear
  <2>3. yearSubjects' \subseteq years' \X SubjectId /\ years' \subseteq YearId
    BY <1>4 DEF RemoveYear, FrameTypes
  <2>4. FrameTypes'
    BY <1>1, <2>1, <2>2, <2>3 DEF FrameTypes
  <2>5. ASSUME NEW i \in RowId, assignments[i] # NoRow
        PROVE  Refers(assignments[i])'
    <3>1. Refers(assignments[i]) /\ assignments[i].year # y /\ assignments[i].class \in ClassId
      BY <1>4, <2>5 DEF RowsRefer, RemoveYear, Rows, RosterInv, RowTypes, AssignmentRow
    <3> QED
      BY <1>1, <1>4, <2>1, <3>1 DEF Refers, RemoveYear
  <2> QED
    BY <1>1, <2>4, <2>5 DEF RowsRefer
<1>5. ASSUME NEW y \in years, NEW X \in SUBSET SubjectId, AssignYearSubjects(y, X)
      PROVE  FrameTypes' /\ RowsRefer'
  BY <1>1, <1>5 DEF AssignYearSubjects, FrameTypes, RowsRefer, Refers
<1>6. ASSUME NEW p \in yearSubjects, RemoveYearSubject(p[1], p[2])
      PROVE  FrameTypes' /\ RowsRefer'
  BY <1>1, <1>6 DEF RemoveYearSubject, FrameTypes, RowsRefer, Refers
<1> QED
  BY <1>2, <1>3, <1>4, <1>5, <1>6

LEMMA SubjectSteps ==
  ASSUME StructureInv, UNCHANGED asked, NEW x \in SubjectId,
         CreateSubject(x) \/ RemoveSubject(x) \/ \E status \in {"ACTIVE", "INACTIVE"} : UpdateSubject(x, status)
  PROVE  FrameTypes' /\ RowsRefer' /\ AsksPlaced'
<1> USE DEF StructureInv
<1>1. UNCHANGED <<years, classes, sectionOf, yearSubjects>> /\ deleted \subseteq deleted'
  BY DEF CreateSubject, RemoveSubject, UpdateSubject
<1>2. AsksPlaced'
  BY <1>1, AskStaysPlaced DEF SectionsStay
<1>3. CASE CreateSubject(x) \/ \E status \in {"ACTIVE", "INACTIVE"} : UpdateSubject(x, status)
  <2>1. UNCHANGED <<assignments, classSubjects>> /\ \E status \in {"ACTIVE", "INACTIVE"} : subjects' = [subjects EXCEPT ![x] = status]
    BY <1>3 DEF CreateSubject, UpdateSubject
  <2>2. \A z \in SubjectId : subjects[z] # "NONE" => subjects'[z] # "NONE"
    BY <2>1 DEF FrameTypes
  <2>3. FrameTypes'
    BY <1>1, <2>1 DEF FrameTypes
  <2>4. ASSUME NEW i \in RowId, assignments[i] # NoRow
        PROVE  Refers(assignments[i])'
    <3>1. Refers(assignments[i]) /\ assignments[i].subject \in SubjectId \cup {NoSubject}
      BY <2>4 DEF RowsRefer, RosterInv, RowTypes, AssignmentRow
    <3> QED
      BY <1>1, <2>1, <2>2, <3>1 DEF Refers
  <2> QED
    BY <1>2, <2>1, <2>3, <2>4 DEF RowsRefer
<1>4. CASE RemoveSubject(x)
  <2> DEFINE I == {i \in Rows : assignments[i].subject = x}
  <2>1. /\ assignments' = Without(I) /\ subjects' = [subjects EXCEPT ![x] = "NONE"]
        /\ classSubjects' = [k \in DOMAIN classSubjects |-> IF k[3] = x THEN "NONE" ELSE classSubjects[k]]
    BY <1>4 DEF RemoveSubject
  <2>2. FrameTypes'
    BY <1>1, <2>1 DEF FrameTypes
  <2>3. ASSUME NEW i \in RowId, assignments'[i] # NoRow
        PROVE  Refers(assignments[i])' 
    <3>1. assignments'[i] = assignments[i] /\ assignments[i] # NoRow /\ assignments[i].subject # x
      BY <2>1, <2>3 DEF Without, Rows
    <3>2. Refers(assignments[i]) /\ assignments[i].subject \in SubjectId \cup {NoSubject}
      BY <3>1 DEF RowsRefer, RosterInv, RowTypes, AssignmentRow
    <3>3. assignments[i].subject # NoSubject => subjects'[assignments[i].subject] # "NONE"
      BY <2>1, <3>1, <3>2 DEF Refers, FrameTypes
    <3> QED
      BY <1>1, <3>1, <3>2, <3>3 DEF Refers
  <2> QED
    BY <1>2, <2>2, <2>3 DEF RowsRefer
<1> QED
  BY <1>2, <1>3, <1>4

(* Classes: only a class that is not there is created, and only sections that never were. *)
LEMMA NewClassesStep ==
  ASSUME StructureInv, UNCHANGED asked, NEW y, NEW N \in SUBSET ClassName, NEW T \in SUBSET FreeSections,
         NEW f \in [N -> FreeClasses], NEW g \in [T -> Range(f)], NewClasses(y, f, g),
         classSubjects' \in [YearId \X ClassId \X SubjectId -> {"NONE", "ACTIVE", "ENDED"}]
  PROVE  FrameTypes' /\ RowsRefer' /\ AsksPlaced'
<1> USE DEF StructureInv
<1>1. UNCHANGED <<years, subjects, yearSubjects, deleted, assignments>> /\ y \in YearId
  BY DEF NewClasses, FrameTypes
<1>2. \A c \in Range(f) : c \in ClassId /\ classes[c] = NoClass
  BY DEF Range, FreeClasses
<1>3. ASSUME NEW c \in ClassId
      PROVE  /\ classes'[c] \in ClassRow
             /\ classes'[c] = IF c \in Range(f) THEN classes'[c] ELSE classes[c]
             /\ c \in Range(f) => classes'[c] # NoClass
  <2>1. CASE c \in Range(f)
    <3>1. (CHOOSE n \in DOMAIN f : f[n] = c) \in ClassName
      BY <2>1 DEF Range
    <3>2. classes'[c] = [name |-> CHOOSE n \in DOMAIN f : f[n] = c, year |-> y, status |-> "ACTIVE"]
      BY <2>1 DEF NewClasses
    <3>3. classes'[c] \in [name : ClassName, year : YearId \cup {NoYear}, status : {"ACTIVE", "INACTIVE"}]
      BY <1>1, <3>1, <3>2
    <3> QED
      BY <2>1, <3>3, StructureAssumption DEF ClassRow
  <2>2. CASE c \notin Range(f)
    BY <2>2 DEF NewClasses, FrameTypes
  <2> QED
    BY <2>1, <2>2
<1>4. \A c \in ClassId : classes[c] # NoClass => classes'[c] = classes[c]
  BY <1>2, <1>3
<1>5. \A s \in SectionId : sectionOf'[s] = IF s \in T THEN g[s] ELSE sectionOf[s]
  BY DEF NewClasses
<1>6. \A s \in T : s \in SectionId /\ sectionOf[s] = NoClass /\ s \notin deleted /\ g[s] \in Range(f)
  BY DEF FreeSections, SectionsOf
<1>7. FrameTypes'
  <2>1. classes' \in [ClassId -> ClassRow]
    BY <1>3 DEF NewClasses
  <2>2. sectionOf' \in [SectionId -> ClassId \cup {NoClass}]
    BY <1>2, <1>6 DEF NewClasses, FrameTypes
  <2>3. ASSUME NEW s \in SectionId, sectionOf'[s] # NoClass
        PROVE  classes'[sectionOf'[s]] # NoClass
    BY <1>2, <1>3, <1>4, <1>5, <1>6, <2>3 DEF FrameTypes
  <2> QED
    BY <1>1, <2>1, <2>2, <2>3 DEF FrameTypes
<1>8. ASSUME NEW i \in RowId, assignments[i] # NoRow
      PROVE  Refers(assignments[i])'
  <2>1. /\ Refers(assignments[i]) /\ assignments[i].class \in ClassId
        /\ assignments[i].section \in SectionId \cup {WholeClass}
    BY <1>8 DEF RowsRefer, RosterInv, RowTypes, AssignmentRow
  <2>2. assignments[i].section # WholeClass => sectionOf'[assignments[i].section] = assignments[i].class
    BY <1>5, <1>6, <2>1, StructureAssumption DEF Refers
  <2> QED
    BY <1>1, <1>4, <2>1, <2>2 DEF Refers
<1>9. AsksPlaced'
  BY <1>1, <1>5, <1>6, AskStaysPlaced DEF SectionsStay
<1> QED
  BY <1>1, <1>7, <1>8, <1>9 DEF RowsRefer

LEMMA ClassSteps ==
  ASSUME StructureInv, UNCHANGED asked,
         \/ \E y \in years, n \in ClassName, c \in FreeClasses :
              \E S \in SUBSET FreeSections, X \in SUBSET ActiveSubjects : CreateClass(y, n, c, S, X)
         \/ \E y \in years : \E N \in SUBSET ClassName, S \in SUBSET FreeSections :
              \E f \in [N -> FreeClasses] : \E g \in [S -> Range(f)] : CreateBulk(y, f, g)
         \/ \E c \in ClassId, y \in years, status \in {"ACTIVE", "INACTIVE"} : UpdateClass(c, y, status)
         \/ \E c \in ClassId : RemoveClass(c)
         \/ \E s \in SectionId : DropSection(s)
  PROVE  FrameTypes' /\ RowsRefer' /\ AsksPlaced'
<1> USE DEF StructureInv
<1>1. ASSUME NEW y \in years, NEW n \in ClassName, NEW c \in FreeClasses,
             NEW S \in SUBSET FreeSections, NEW X \in SUBSET ActiveSubjects, CreateClass(y, n, c, S, X)
      PROVE  FrameTypes' /\ RowsRefer' /\ AsksPlaced'
  <2> DEFINE f == [m \in {n} |-> c]
             g == [s \in S |-> c]
  <2>1. {n} \in SUBSET ClassName /\ f \in [{n} -> FreeClasses] /\ g \in [S -> Range(f)] /\ NewClasses(y, f, g)
    BY <1>1 DEF CreateClass, Range
  <2>2. classSubjects' \in [YearId \X ClassId \X SubjectId -> {"NONE", "ACTIVE", "ENDED"}]
    BY <1>1 DEF CreateClass, FrameTypes
  <2> HIDE DEF f, g
  <2> QED
    BY <2>1, <2>2, NewClassesStep
<1>2. ASSUME NEW y \in years, NEW N \in SUBSET ClassName, NEW S \in SUBSET FreeSections,
             NEW f \in [N -> FreeClasses], NEW g \in [S -> Range(f)], CreateBulk(y, f, g)
      PROVE  FrameTypes' /\ RowsRefer' /\ AsksPlaced'
  <2>1. NewClasses(y, f, g) /\ classSubjects' \in [YearId \X ClassId \X SubjectId -> {"NONE", "ACTIVE", "ENDED"}]
    BY <1>2 DEF CreateBulk, FrameTypes
  <2> QED
    BY <2>1, NewClassesStep
<1>3. ASSUME NEW c \in ClassId, NEW y \in years, NEW status \in {"ACTIVE", "INACTIVE"}, UpdateClass(c, y, status)
      PROVE  FrameTypes' /\ RowsRefer' /\ AsksPlaced'
  <2>1. UNCHANGED <<years, sectionOf, subjects, yearSubjects, classSubjects, deleted, assignments>>
    BY <1>3 DEF UpdateClass
  <2>2. [classes[c] EXCEPT !.year = y, !.status = status]
          \in [name : ClassName, year : YearId \cup {NoYear}, status : {"ACTIVE", "INACTIVE"}]
    <3>1. classes[c] \in [name : ClassName, year : YearId \cup {NoYear}, status : {"ACTIVE", "INACTIVE"}] /\ y \in YearId
      BY <1>3 DEF UpdateClass, FrameTypes, ClassRow
    <3> QED
      BY <3>1
  <2>3. /\ classes' \in [ClassId -> ClassRow]
        /\ \A d \in ClassId : classes[d] # NoClass => classes'[d] # NoClass
    BY <1>3, <2>2, StructureAssumption DEF UpdateClass, FrameTypes, ClassRow
  <2>4. FrameTypes'
    BY <2>1, <2>3 DEF FrameTypes
  <2>5. ASSUME NEW i \in RowId, assignments[i] # NoRow
        PROVE  Refers(assignments[i])'
    BY <2>1, <2>3, <2>5 DEF RowsRefer, Refers, RosterInv, RowTypes, AssignmentRow
  <2>6. AsksPlaced'
    BY <2>1, AskStaysPlaced DEF SectionsStay
  <2> QED
    BY <2>1, <2>4, <2>5, <2>6 DEF RowsRefer
<1>4. ASSUME NEW c \in ClassId, RemoveClass(c)
      PROVE  FrameTypes' /\ RowsRefer' /\ AsksPlaced'
  <2>1. UNCHANGED <<years, subjects, yearSubjects, classSubjects, assignments>> /\ deleted \subseteq deleted'
    BY <1>4 DEF RemoveClass
  <2>2. /\ classes' \in [ClassId -> ClassRow]
        /\ \A d \in ClassId : d # c => classes'[d] = classes[d]
    BY <1>4 DEF RemoveClass, FrameTypes, ClassRow
  <2>3. /\ sectionOf' \in [SectionId -> ClassId \cup {NoClass}]
        /\ \A s \in SectionId : sectionOf'[s] = IF sectionOf[s] = c THEN NoClass ELSE sectionOf[s]
    BY <1>4 DEF RemoveClass, FrameTypes
  <2>4. FrameTypes'
    BY <2>1, <2>2, <2>3 DEF FrameTypes
  <2>5. ASSUME NEW i \in RowId, assignments[i] # NoRow
        PROVE  Refers(assignments[i])'
    <3>1. Refers(assignments[i]) /\ assignments[i].class # c /\ assignments[i].class \in ClassId
      BY <1>4, <2>5 DEF RowsRefer, RemoveClass, Rows, RosterInv, RowTypes, AssignmentRow
    <3>2. assignments[i].section # WholeClass => assignments[i].section \in SectionId
      BY <2>5 DEF RosterInv, RowTypes, AssignmentRow
    <3> QED
      BY <2>1, <2>2, <2>3, <3>1, <3>2 DEF Refers
  <2>6. \A s \in SectionId : sectionOf[s] = c => s \in deleted'
    BY <1>4 DEF RemoveClass, SectionsOf
  <2>7. AsksPlaced'
    BY <2>1, <2>3, <2>6, AskStaysPlaced DEF SectionsStay
  <2> QED
    BY <2>1, <2>4, <2>5, <2>7 DEF RowsRefer
<1>5. ASSUME NEW s \in SectionId, DropSection(s)
      PROVE  FrameTypes' /\ RowsRefer' /\ AsksPlaced'
  <2> DEFINE I == {i \in Rows : assignments[i].section = s}
  <2>1. /\ UNCHANGED <<years, classes, subjects, yearSubjects, classSubjects>> /\ deleted \subseteq deleted' /\ s \in deleted'
        /\ assignments' = Without(I)
    BY <1>5 DEF DropSection
  <2>2. /\ sectionOf' \in [SectionId -> ClassId \cup {NoClass}]
        /\ \A z \in SectionId : sectionOf'[z] = IF z = s THEN NoClass ELSE sectionOf[z]
    BY <1>5 DEF DropSection, FrameTypes
  <2>3. FrameTypes'
    BY <2>1, <2>2 DEF FrameTypes
  <2>4. ASSUME NEW i \in RowId, assignments'[i] # NoRow
        PROVE  Refers(assignments[i])'
    <3>1. assignments'[i] = assignments[i] /\ assignments[i] # NoRow /\ assignments[i].section # s
      BY <2>1, <2>4 DEF Without, Rows
    <3>2. Refers(assignments[i]) /\ assignments[i].section \in SectionId \cup {WholeClass}
      BY <3>1 DEF RowsRefer, RosterInv, RowTypes, AssignmentRow
    <3> QED
      BY <2>1, <2>2, <3>1, <3>2 DEF Refers
  <2>5. AsksPlaced'
    BY <2>1, <2>2, AskStaysPlaced DEF SectionsStay
  <2> QED
    BY <2>3, <2>4, <2>5 DEF RowsRefer
<1> QED
  BY <1>1, <1>2, <1>3, <1>4, <1>5

(* The ends of assignments leave the frame alone, and requests keep what they name. *)
LEMMA RosterRefers ==
  ASSUME StructureInv, RosterStep, UNCHANGED asked
  PROVE  FrameTypes' /\ RowsRefer' /\ AsksPlaced'
<1> USE DEF StructureInv
<1>1. UNCHANGED <<frameVars, classSubjects>> /\ deleted \subseteq deleted'
  BY DEF RosterStep, EndSubjectAssignment, RemoveAssignment, RemoveClassTeacher, keptVars
<1>2. FrameTypes' /\ AsksPlaced'
  BY <1>1, AskStaysPlaced DEF FrameTypes, frameVars, SectionsStay
<1>3. ASSUME NEW i \in RowId, assignments'[i] # NoRow
      PROVE  Refers(assignments[i])'
  <2>1. CASE \E j \in RowId : EndSubjectAssignment(j)
    <3>1. PICK j \in RowId : EndSubjectAssignment(j)
      BY <2>1
    <3>2. assignments[j] \in AssignmentRow /\ Refers(assignments[j])
      BY <3>1 DEF EndSubjectAssignment, Rows, RosterInv, RowTypes, RowsRefer
    <3>3. assignments'[i] = IF i = j THEN WithoutSubject(assignments[j]) ELSE assignments[i]
      BY <3>1 DEF EndSubjectAssignment, RosterInv, RowTypes
    <3>4. LET r == WithoutSubject(assignments[j]) IN
            /\ r.year = assignments[j].year /\ r.class = assignments[j].class /\ r.section = assignments[j].section
            /\ r.subject \in {assignments[j].subject, NoSubject}
      BY <3>2 DEF WithoutSubject, AssignmentRow
    <3> QED
      BY <1>1, <1>3, <3>2, <3>3, <3>4 DEF Refers, RowsRefer, frameVars
  <2>2. CASE \E I : assignments' = Without(I)
    BY <1>1, <1>3, <2>2 DEF Without, RowsRefer, Refers, frameVars
  <2> QED
    BY <2>1, <2>2 DEF RosterStep, RemoveAssignment, RemoveClassTeacher
<1> QED
  BY <1>2, <1>3 DEF RowsRefer

(* A request names a section that is in its class when it is asked, ... *)
LEMMA AskedPlaced ==
  ASSUME StructureInv, UNCHANGED <<keptVars, assignments>>, NEW k \in Clerk, NEW q, q = Idle \/ AskPlaced(q),
         asked' = [asked EXCEPT ![k] = q]
  PROVE  FrameTypes' /\ RowsRefer' /\ AsksPlaced'
<1> USE DEF StructureInv, keptVars, frameVars
<1>1. FrameTypes' /\ RowsRefer'
  BY DEF FrameTypes, RowsRefer, Refers
<1>2. \A p : AskPlaced(p) => AskPlaced(p)'
  BY DEF AskPlaced, Placed
<1>3. \A l \in Clerk : asked'[l] = IF l = k THEN q ELSE asked[l]
  BY DEF RosterInv, AsksFormed
<1>4. ASSUME NEW l \in Clerk, asked'[l] # Idle
      PROVE  AskPlaced(asked'[l])
  BY <1>3, <1>4 DEF AsksPlaced
<1>5. AsksPlaced'
  BY <1>2, <1>4 DEF AsksPlaced, AskPlaced, Placed
<1> QED
  BY <1>1, <1>5

LEMMA AskingRefers ==
  ASSUME StructureInv, NEW k \in FreeClerks, NEW y \in years, NEW c \in ClassesOf(y),
         \/ \E X \in SUBSET ActiveSubjects : AskSubjects(k, y, c, X)
         \/ \E t \in MayTeach[c], s \in SectionsOf(c) \cup {WholeClass}, x \in SubjectId \cup {NoSubject}, lead \in BOOLEAN :
              AskAssign(k, t, y, c, s, x, lead)
         \/ \E s \in SectionsOf(c) : \/ \E t \in MayTeach[c] : AskClassTeacher(k, t, y, c, s)
                                     \/ \E M \in Team : AskTeam(k, y, c, s, M)
  PROVE  FrameTypes' /\ RowsRefer' /\ AsksPlaced'
<1>1. UNCHANGED <<keptVars, assignments>> /\ k \in Clerk
  BY DEF AskSubjects, AskAssign, AskClassTeacher, AskTeam, FreeClerks
<1>2. \E q : AskPlaced(q) /\ asked' = [asked EXCEPT ![k] = q]
  <2>1. ASSUME NEW X \in SUBSET ActiveSubjects, AskSubjects(k, y, c, X)
        PROVE  \E q : AskPlaced(q) /\ asked' = [asked EXCEPT ![k] = q]
    <3>1. PICK q : q.op = "subjects" /\ asked' = [asked EXCEPT ![k] = q]
      BY <2>1 DEF AskSubjects
    <3> QED
      BY <3>1 DEF AskPlaced
  <2>2. ASSUME NEW t \in MayTeach[c], NEW s \in SectionsOf(c) \cup {WholeClass}, NEW x \in SubjectId \cup {NoSubject},
               NEW lead \in BOOLEAN, AskAssign(k, t, y, c, s, x, lead)
        PROVE  \E q : AskPlaced(q) /\ asked' = [asked EXCEPT ![k] = q]
    <3>1. PICK q : q = [op |-> "assign", phase |-> "checked", row |-> NewRow(t, y, c, s, x, lead)] /\ asked' = [asked EXCEPT ![k] = q]
      BY <2>2 DEF AskAssign
    <3>2. q.op = "assign" /\ q.row.section = s /\ q.row.class = c
      BY <3>1 DEF NewRow
    <3> QED
      BY <3>1, <3>2 DEF AskPlaced, Placed, SectionsOf
  <2>3. ASSUME NEW s \in SectionsOf(c),
               \/ \E t \in MayTeach[c] : AskClassTeacher(k, t, y, c, s)
               \/ \E M \in Team : AskTeam(k, y, c, s, M)
        PROVE  \E q : AskPlaced(q) /\ asked' = [asked EXCEPT ![k] = q]
    <3>1. PICK q : q.section = s /\ q.class = c /\ q.op # "assign" /\ asked' = [asked EXCEPT ![k] = q]
      BY <2>3 DEF AskClassTeacher, AskTeam
    <3> QED
      BY <3>1 DEF AskPlaced, Placed, SectionsOf
  <2> QED
    BY <2>1, <2>2, <2>3
<1> QED
  BY <1>1, <1>2, AskedPlaced

(* ... and checking the request changes nothing about it. *)
LEMMA AnsweredRefers ==
  ASSUME StructureInv, NEW k \in Clerk, CheckLead(k) \/ Refuse(k)
  PROVE  FrameTypes' /\ RowsRefer' /\ AsksPlaced'
<1>1. UNCHANGED <<keptVars, assignments>> /\ asked[k] # Idle
  BY DEF CheckLead, Refuse
<1>2. \E q : (q = Idle \/ AskPlaced(q)) /\ asked' = [asked EXCEPT ![k] = q]
  <2>1. CASE CheckLead(k)
    <3>1. asked[k] \in ClerkAsks /\ AskPlaced(asked[k]) /\ asked[k].phase = "asked"
      BY <1>1, <2>1 DEF StructureInv, RosterInv, AsksFormed, AsksPlaced, CheckLead
    <3>2. AskPlaced([asked[k] EXCEPT !.phase = "checked"])
      BY <3>1 DEF ClerkAsks, AskPlaced
    <3>3. \E q \in {Idle, [asked[k] EXCEPT !.phase = "checked"]} : asked' = [asked EXCEPT ![k] = q]
      BY <2>1 DEF CheckLead
    <3> QED
      BY <3>2, <3>3
  <2>2. CASE Refuse(k)
    BY <2>2 DEF Refuse
  <2> QED
    BY <2>1, <2>2
<1> QED
  BY <1>1, <1>2, AskedPlaced

(* What is written refers to what the foreign keys find, in the class it was asked for. *)
LEMMA WrittenRefers ==
  ASSUME StructureInv, NEW k \in Clerk, Write(k)
  PROVE  FrameTypes' /\ RowsRefer' /\ AsksPlaced'
<1> USE DEF StructureInv
<1> DEFINE q == asked[k]
<1>1. /\ q \in ClerkAsks /\ AskPlaced(q) /\ Writes(q) /\ asked' = [asked EXCEPT ![k] = Idle]
      /\ UNCHANGED <<frameVars, deleted>>
  BY DEF Write, RosterInv, AsksFormed, AsksPlaced
<1>2. AsksPlaced'
  <2>1. \A l \in Clerk : asked'[l] # Idle => asked'[l] = asked[l]
    BY <1>1 DEF RosterInv, AsksFormed
  <2>2. \A p : AskPlaced(p) => AskPlaced(p)'
    BY <1>1 DEF AskPlaced, Placed, frameVars
  <2>3. ASSUME NEW l \in Clerk, asked'[l] # Idle
        PROVE  AskPlaced(asked'[l])
    BY <2>1, <2>3 DEF AsksPlaced
  <2> QED
    BY <1>1, <2>3 DEF AsksPlaced, AskPlaced, Placed, frameVars
<1>3. \A i \in RowId : assignments[i] # NoRow => Refers(assignments[i]) /\ assignments[i] \in AssignmentRow
  BY DEF RowsRefer, RosterInv, RowTypes
<1>4. assignments = [i \in RowId |-> assignments[i]]
  BY DEF RosterInv, RowTypes
<1> HIDE DEF q
<1>5. \A s \in SectionId, c \in ClassId : Placed(s, c) /\ sectionOf[s] # NoClass => sectionOf[s] = c /\ classes[c] # NoClass
  BY StructureAssumption DEF Placed, FrameTypes
<1>6. classSubjects' \in [YearId \X ClassId \X SubjectId -> {"NONE", "ACTIVE", "ENDED"}] /\ \A i \in RowId : assignments'[i] # NoRow => Refers(assignments'[i])
  <2>1. CASE q.op = "subjects" /\ ReplaceSubjects(q)
    <3>1. classSubjects' \in [YearId \X ClassId \X SubjectId -> {"NONE", "ACTIVE", "ENDED"}]
      BY <2>1 DEF ReplaceSubjects, FrameTypes
    <3>2. \A i \in RowId : \/ assignments'[i] = assignments[i]
                           \/ i \in Rows /\ assignments'[i] = [assignments[i] EXCEPT !.active = FALSE]
      BY <2>1 DEF ReplaceSubjects
    <3>3. ASSUME NEW r \in AssignmentRow, Refers(r)
          PROVE  Refers([r EXCEPT !.active = FALSE])
      BY <3>3 DEF AssignmentRow, Refers
    <3> QED
      BY <1>3, <3>1, <3>2, <3>3 DEF Rows
  <2>2. CASE q.op = "assign" /\ Assign(q)
    <3>1. q.row \in AssignmentRow
      BY <1>1, <2>2 DEF ClerkAsks
    <3>2. Refers(q.row)
      <4>1. q.row.section # WholeClass => q.row.section \in SectionId /\ q.row.class \in ClassId /\ Placed(q.row.section, q.row.class)
        BY <1>1, <2>2, <3>1 DEF AskPlaced, AssignmentRow
      <4> QED
        BY <1>5, <2>2, <4>1 DEF Refers, Assign
    <3>3. assignments' = [assignments EXCEPT ![Min(FreeRows)] = q.row] /\ UNCHANGED classSubjects
      BY <2>2 DEF Assign, Added
    <3> QED
      BY <1>3, <1>4, <3>2, <3>3 DEF FrameTypes
  <2>3. CASE q.op = "classTeacher" /\ ReplaceClassTeacher(q)
    <3>1. /\ q.year \in years /\ q.class \in ClassId /\ q.section \in SectionId /\ sectionOf[q.section] # NoClass
          /\ Placed(q.section, q.class)
      BY <1>1, <2>3 DEF ClerkAsks, AskPlaced, ReplaceClassTeacher
    <3> DEFINE row == [NewRow(q.lead, q.year, q.class, q.section, NoSubject, TRUE) EXCEPT !.type = "LEAD_TEACHER"]
               stepped == [i \in RowId |-> IF i \in Rows THEN Stepped(assignments[i], q) ELSE NoRow]
    <3>2. row.year = q.year /\ row.class = q.class /\ row.section = q.section /\ row.subject = NoSubject
      BY DEF NewRow
    <3>3. Refers(row)
      BY <1>5, <3>1, <3>2 DEF Refers
    <3>4. ASSUME NEW r \in AssignmentRow, Refers(r)
          PROVE  Refers(Stepped(r, q))
      BY <3>4 DEF Stepped, AssignmentRow, Refers
    <3>5. assignments' = [stepped EXCEPT ![Min(FreeRows)] = row] /\ UNCHANGED classSubjects
      BY <2>3 DEF ReplaceClassTeacher, Added
    <3>6. \A i \in RowId : stepped[i] = NoRow \/ Refers(stepped[i])
      BY <1>3, <3>4 DEF Rows
    <3> HIDE DEF row, stepped
    <3>7. stepped = [i \in RowId |-> stepped[i]]
      BY DEF stepped
    <3> QED
      BY <3>3, <3>5, <3>6, <3>7 DEF FrameTypes
  <2>4. CASE q.op = "team" /\ ReplaceTeam(q)
    <3>1. /\ q.year \in years /\ q.class \in ClassId /\ q.section \in SectionId /\ sectionOf[q.section] # NoClass
          /\ Placed(q.section, q.class)
      BY <1>1, <2>4 DEF ClerkAsks, AskPlaced, ReplaceTeam
    <3>2. ASSUME NEW m
          PROVE  Refers(MemberRow(m, q))
      <4>1. LET r == MemberRow(m, q) IN r.year = q.year /\ r.class = q.class /\ r.section = q.section /\ r.subject = NoSubject
        BY DEF MemberRow, NewRow
      <4> QED
        BY <1>5, <3>1, <4>1 DEF Refers
    <3>3. ASSUME NEW r \in AssignmentRow, Refers(r)
          PROVE  Refers([r EXCEPT !.active = FALSE])
      BY <3>3 DEF AssignmentRow, Refers
    <3>4. PICK at \in [q.members -> RowId] :
            assignments' = [i \in RowId |-> IF i \in Range(at) THEN MemberRow(CHOOSE m \in q.members : at[m] = i, q)
              ELSE IF i \in Rows /\ i \in q.removed THEN [assignments[i] EXCEPT !.active = FALSE] ELSE assignments[i]]
      BY <2>4 DEF ReplaceTeam
    <3>5. UNCHANGED classSubjects
      BY <2>4 DEF ReplaceTeam
    <3>6. ASSUME NEW i \in RowId, assignments'[i] # NoRow
          PROVE  Refers(assignments'[i])
      <4>1. CASE i \in Range(at)
        BY <3>2, <3>4, <4>1
      <4>2. CASE i \notin Range(at)
        BY <1>3, <3>3, <3>4, <3>6, <4>2 DEF Rows
      <4> QED
        BY <4>1, <4>2
    <3> QED
      BY <3>5, <3>6 DEF FrameTypes
  <2> QED
    BY <1>1, <2>1, <2>2, <2>3, <2>4 DEF Writes
<1>7. FrameTypes'
  BY <1>1, <1>6 DEF FrameTypes, frameVars
<1>8. RowsRefer'
  BY <1>1, <1>6 DEF RowsRefer, Refers, frameVars
<1> QED
  BY <1>2, <1>7, <1>8

-----------------------------------------------------------------------------
(* The first frame is well formed, nobody is assigned and nothing is asked. *)
LEMMA StructureStart == StructureInit => StructureInv
<1> SUFFICES ASSUME StructureInit PROVE StructureInv
  OBVIOUS
<1>1. RosterInv
  BY DEF StructureInit, RosterInv, RowTypes, LeadRows, Stored, SectionIndex, TeacherIndex, AsksFormed
<1>2. FrameTypes
  BY FirstFrame DEF StructureInit, FrameTypes
<1>3. RowsRefer /\ AsksPlaced
  BY DEF StructureInit, RowsRefer, AsksPlaced
<1> QED
  BY <1>1, <1>2, <1>3 DEF StructureInv

(* Every step keeps the invariant. *)
LEMMA StructureStep == StructureInv /\ [StructureNext]_structureVars => StructureInv'
<1> SUFFICES ASSUME StructureInv, [StructureNext]_structureVars PROVE StructureInv'
  OBVIOUS
<1>1. CASE FrameStep /\ UNCHANGED asked
  <2>1. RosterInv'
    BY <1>1, FrameRoster DEF StructureInv
  <2>2. FrameTypes' /\ RowsRefer' /\ AsksPlaced'
    BY <1>1, YearSteps, SubjectSteps, ClassSteps DEF FrameStep
  <2> QED
    BY <2>1, <2>2 DEF StructureInv
<1>2. CASE RosterStep /\ UNCHANGED asked
  BY <1>2, RosterSteps, RosterRefers DEF StructureInv
<1>3. CASE RequestStep
  <2>1. ASSUME NEW k \in FreeClerks, NEW y \in years, NEW c \in ClassesOf(y),
               \/ \E X \in SUBSET ActiveSubjects : AskSubjects(k, y, c, X)
               \/ \E t \in MayTeach[c], s \in SectionsOf(c) \cup {WholeClass}, x \in SubjectId \cup {NoSubject}, lead \in BOOLEAN :
                    AskAssign(k, t, y, c, s, x, lead)
               \/ \E s \in SectionsOf(c) : \/ \E t \in MayTeach[c] : AskClassTeacher(k, t, y, c, s)
                                           \/ \E M \in Team : AskTeam(k, y, c, s, M)
        PROVE  StructureInv'
    <3>1. RosterInv'
      BY <2>1, AskingRoster DEF StructureInv, FrameTypes
    <3>2. FrameTypes' /\ RowsRefer' /\ AsksPlaced'
      BY <2>1, AskingRefers
    <3> QED
      BY <3>1, <3>2 DEF StructureInv
  <2>2. ASSUME NEW k \in Clerk, CheckLead(k) \/ Refuse(k)
        PROVE  StructureInv'
    BY <2>2, AnsweredRoster, AnsweredRefers DEF StructureInv
  <2>3. ASSUME NEW k \in Clerk, Write(k)
        PROVE  StructureInv'
    BY <2>3, WrittenRoster, WrittenRefers DEF StructureInv
  <2> QED
    BY <1>3, <2>1, <2>2, <2>3 DEF RequestStep
<1>4. CASE UNCHANGED structureVars
  <2>1. UNCHANGED <<years, classes, sectionOf, subjects, yearSubjects, classSubjects, deleted, assignments, asked>>
    BY <1>4 DEF structureVars, keptVars, frameVars
  <2>2. RosterInv'
    BY <2>1 DEF StructureInv, RosterInv, RowTypes, LeadRows, Stored, SectionIndex, TeacherIndex, AsksFormed
  <2>3. FrameTypes' /\ RowsRefer'
    BY <2>1 DEF StructureInv, FrameTypes, RowsRefer, Refers
  <2>4. AsksPlaced'
    BY <2>1 DEF StructureInv, AsksPlaced, AskPlaced, Placed
  <2> QED
    BY <2>2, <2>3, <2>4 DEF StructureInv
<1> QED
  BY <1>1, <1>2, <1>3, <1>4 DEF StructureNext

(* The invariant holds always. *)
LEMMA StructureStays == StructureSpec => []StructureInv
BY StructureStart, StructureStep, PTL DEF StructureSpec

(* However the requests of TeachersService and TeachingAssignmentsService overlap, the     *)
(* unique indexes leave a section one active lead teacher in a year, who is its class       *)
(* teacher, and a teacher one section to lead.                                              *)
THEOREM OneLeadTeacher == StructureSpec => []OneLead
<1>1. StructureInv => OneLead
  <2> SUFFICES ASSUME StructureInv, NEW i \in Rows, NEW j \in Rows
               PROVE  LET r == assignments[i]  q == assignments[j] IN
                        /\ r.type = "LEAD_TEACHER" /\ r.active => r.classTeacher /\ r.subject = NoSubject
                        /\ r.type = "LEAD_TEACHER" /\ q.type = "LEAD_TEACHER" /\ r.active /\ q.active /\ r.year = q.year
                           /\ (r.section = q.section \/ r.teacher = q.teacher) => i = j
    BY DEF OneLead
  <2>1. i \in RowId /\ j \in RowId /\ assignments[i] # NoRow /\ assignments[j] # NoRow
    BY DEF Rows
  <2>2. LeadRow(assignments[i]) /\ LeadRow(assignments[j]) /\ SectionIndex(assignments) /\ TeacherIndex(assignments)
    BY <2>1 DEF StructureInv, RosterInv, LeadRows, Stored
  <2> QED
    BY <2>1, <2>2 DEF LeadRow, SectionIndex, TeacherIndex
<1> QED
  BY <1>1, StructureStays, PTL

(* Years, classes, sections and subjects come and go, and requests are written long after  *)
(* they were checked: an assignment still refers to what exists, and to a section in the    *)
(* class the assignment names.                                                              *)
THEOREM AssignmentsRefer == StructureSpec => []StructureTypeOK
<1>1. StructureInv => StructureTypeOK
  BY DEF StructureInv, FrameTypes, RosterInv, RowTypes, RowsRefer, Refers, StructureTypeOK, Rows
<1> QED
  BY <1>1, StructureStays, PTL

-----------------------------------------------------------------------------
(* Rights are current.  What the first guard found and what holds now are moments of   *)
(* the request: every edit adds what holds after it, so each query is of its time.      *)
Phases == {"IDLE", "SENT", "KNOWN"}

(* The records that are read and written have their fields. *)
Requests == [phase : Phases, route : Asked \cup {NoRoute}, path : School \cup {NoHome},
             exempt : BOOLEAN, roles : SUBSET RoleTexts]
Formed ==
  /\ asking \in [Caller -> Requests]
  /\ moments \in [Caller -> SUBSET Moments]
  /\ roleName \in [Role -> RoleName] /\ roleCode \in [Role -> RoleCode]

(* A request on its way is of a route, and its moments hold what is so now, *)
(* that its account was known once JwtAuthGuard let it pass, and that the   *)
(* roles found then sufficed for the routes that ask no more than them.     *)
OnTheWay(c) ==
  asking[c].phase # "IDLE" =>
    /\ asking[c].route \in Asked
    /\ Nowadays(c, asking[c]) \subseteq moments[c]
    /\ asking[c].phase = "KNOWN" =>
         /\ "known" \in moments[c]
         /\ asking[c].route.guard = "ROLE" /\ RolesGuard(asking[c]) => "able" \in moments[c]

AccessInv == Formed /\ (\A c \in Caller : OnTheWay(c)) /\ RightsAreCurrent

(* What the guards admit is able, or fit, at that moment. *)
LEMMA AdmittedNow ==
  ASSUME NEW c \in Caller, NEW req, Admits(c, req), req.route.guard # "TOKEN", req.route.guard # "ROLE"
  PROVE  /\ req.route.guard = "PERMISSION" =>
              "able" \in Nowadays(c, req) /\ (req.route.inPath => HomeOf[c] \in {NoHome, req.path})
         /\ req.route.guard \in {"SCHOOL", "OPERATIONS"} => "fit" \in Nowadays(c, req)
<1>1. ASSUME req.route.guard = "PERMISSION"
      PROVE  "able" \in Nowadays(c, req) /\ (req.route.inPath => HomeOf[c] \in {NoHome, req.path})
  <2>1. PermissionsGuard(c, req)
    BY <1>1 DEF Admits
  <2>2. Suffice(HeldBy(c), req.route)
    BY <1>1, <2>1 DEF PermissionsGuard, Suffice, Covers
  <2> QED BY <2>1, <2>2 DEF PermissionsGuard, Nowadays
<1>2. ASSUME req.route.guard = "SCHOOL"
      PROVE  "fit" \in Nowadays(c, req)
  <2>1. AdmissionsSchoolGuard(c, req)
    BY <1>2 DEF Admits
  <2>2. OfHome(c) \subseteq OfHomeOrPlatform(c)
    BY DEF OfHome, OfHomeOrPlatform
  <2>3. Granted(OfHome(c)) \subseteq Granted(OfHomeOrPlatform(c))
    BY <2>2 DEF Granted
  <2>4. Suffice(OfHomeOrPlatform(c), req.route)
    BY <1>2, <2>1, <2>2, <2>3 DEF AdmissionsSchoolGuard, Suffice, Covers, HasCode, Administrators
  <2> QED BY <2>1, <2>4 DEF AdmissionsSchoolGuard, Nowadays
<1>3. ASSUME req.route.guard = "OPERATIONS"
      PROVE  "fit" \in Nowadays(c, req)
  <2>1. OperationsAccess(c, req)
    BY <1>3 DEF Admits
  <2>2. Suffice(OfHomeOrPlatform(c), req.route)
    BY <1>3, <2>1 DEF OperationsAccess, Suffice
  <2> QED BY <2>1, <2>2 DEF OperationsAccess, Nowadays
<1> QED BY <1>1, <1>2, <1>3

(* What holds of a caller depends on nothing but the rights, the route and  *)
(* the address.                                                             *)
LEMMA SameRights ==
  ASSUME NEW c \in Caller, UNCHANGED <<activeCallers, roleActive, grants, held, roleName, roleCode>>,
         c \in mustChange' <=> c \in mustChange,
         asking'[c].route = asking[c].route, asking'[c].exempt = asking[c].exempt
  PROVE  Nowadays(c, asking[c])' = Nowadays(c, asking[c])
<1>1. HeldBy(c)' = HeldBy(c) /\ OfHomeOrPlatform(c)' = OfHomeOrPlatform(c)
  BY DEF HeldBy, OfHomeOrPlatform
<1>2. Suffice(HeldBy(c), asking[c].route)' <=> Suffice(HeldBy(c), asking[c].route)
  BY <1>1 DEF Suffice, Granted, HasCode, Texts
<1>3. Suffice(OfHomeOrPlatform(c), asking[c].route)' <=> Suffice(OfHomeOrPlatform(c), asking[c].route)
  BY <1>1 DEF Suffice, Granted, HasCode, Texts
<1>4. (c \in activeCallers /\ (c \in mustChange => asking[c].exempt))'
        <=> c \in activeCallers /\ (c \in mustChange => asking[c].exempt)
  OBVIOUS
<1> QED BY <1>2, <1>3, <1>4 DEF Nowadays

(* A caller whose request and rights stay is where it was. *)
LEMMA Waits ==
  ASSUME NEW c \in Caller, OnTheWay(c), UNCHANGED <<activeCallers, roleActive, grants, held, roleName, roleCode>>,
         c \in mustChange' <=> c \in mustChange,
         asking'[c] = asking[c], moments'[c] = moments[c]
  PROVE  OnTheWay(c)'
<1>1. Nowadays(c, asking[c])' = Nowadays(c, asking[c])
  BY SameRights
<1> QED BY <1>1 DEF OnTheWay, RolesGuard

(* Before the first request. *)
LEMMA InitAccess == AccessInit => AccessInv
<1> SUFFICES ASSUME AccessInit PROVE AccessInv
  OBVIOUS
<1>1. Formed
  BY RightsAssumption DEF AccessInit, Formed, Requests, NoAsking, Phases
<1>2. \A c \in Caller : OnTheWay(c)
  BY DEF AccessInit, OnTheWay, NoAsking
<1>3. RightsAreCurrent
  BY DEF AccessInit, RightsAreCurrent, NoAnswer
<1> QED BY <1>1, <1>2, <1>3 DEF AccessInv

(* An edit: what holds after it is added to the moments of every request. *)
LEMMA EditedStep ==
  ASSUME AccessInv, Edited, roleName' \in [Role -> RoleName], roleCode' \in [Role -> RoleCode]
  PROVE  AccessInv'
<1>1. /\ asking' = asking /\ answered' = answered
      /\ \A c \in Caller : moments'[c] = IF asking[c].phase = "IDLE" THEN moments[c]
                                        ELSE moments[c] \cup Nowadays(c, asking[c])'
      /\ moments' = [c \in Caller |-> moments'[c]]
  BY DEF Edited
<1>2. \A c \in Caller : Nowadays(c, asking[c])' \subseteq Moments
  BY DEF Nowadays, Moments
<1>3. Formed'
  <2>1. \A c \in Caller : moments'[c] \in SUBSET Moments
    BY <1>1, <1>2 DEF AccessInv, Formed
  <2> QED BY <1>1, <2>1 DEF AccessInv, Formed
<1>4. ASSUME NEW c \in Caller PROVE OnTheWay(c)'
  <2>1. OnTheWay(c)
    BY DEF AccessInv
  <2> QED BY <1>1, <2>1 DEF OnTheWay, RolesGuard
<1>5. RightsAreCurrent'
  BY <1>1 DEF AccessInv, RightsAreCurrent
<1> QED BY <1>3, <1>4, <1>5 DEF AccessInv

(* A request is sent; the answer to an earlier one is no longer looked at. *)
LEMMA AskStep ==
  ASSUME AccessInv, NEW c \in Caller, Ask(c)
  PROVE  AccessInv'
<1>1. PICK route \in Asked, path \in School \cup {NoHome}, exempt \in BOOLEAN :
         LET req == [phase |-> "SENT", route |-> route, path |-> path, exempt |-> exempt, roles |-> {}] IN
         asking' = [asking EXCEPT ![c] = req] /\ moments' = [moments EXCEPT ![c] = Nowadays(c, req)]
  BY DEF Ask, Named
<1> DEFINE req == [phase |-> "SENT", route |-> route, path |-> path, exempt |-> exempt, roles |-> {}]
<1>2. answered' = NoAnswer /\ UNCHANGED <<activeCallers, mustChange, roleActive, grants, held, roleName, roleCode>>
  BY DEF Ask, rightsVars
<1>3. /\ asking' = [asking EXCEPT ![c] = req] /\ moments' = [moments EXCEPT ![c] = Nowadays(c, req)]
      /\ req \in Requests /\ req.phase = "SENT" /\ req.route \in Asked
      /\ Nowadays(c, req) \subseteq Moments
  BY <1>1 DEF Nowadays, Moments, Requests, Phases
<1> HIDE DEF req
<1>4. Formed'
  BY <1>2, <1>3 DEF AccessInv, Formed
<1>5. ASSUME NEW d \in Caller PROVE OnTheWay(d)'
  <2>1. CASE d # c
    BY <1>2, <1>3, <2>1, Waits DEF AccessInv, Formed
  <2>2. CASE d = c
    <3>1. asking'[d] = req /\ moments'[d] = Nowadays(d, req)
      BY <1>3, <2>2 DEF AccessInv, Formed
    <3>2. Nowadays(d, asking[d])' = Nowadays(d, req)
      BY <1>2, <3>1 DEF Nowadays, Suffice, Granted, HasCode, Texts, HeldBy, OfHomeOrPlatform
    <3> QED BY <1>3, <3>1, <3>2 DEF OnTheWay
  <2> QED BY <2>1, <2>2
<1>6. RightsAreCurrent'
  BY <1>2 DEF RightsAreCurrent, NoAnswer
<1> QED BY <1>4, <1>5, <1>6 DEF AccessInv

(* A request that is dismissed leaves nothing. *)
LEMMA DismissStep ==
  ASSUME AccessInv, NEW c \in Caller, Dismiss(c), UNCHANGED <<activeCallers, roleActive, grants, held, roleName, roleCode>>,
         \A d \in Caller \ {c} : d \in mustChange' <=> d \in mustChange, RightsAreCurrent'
  PROVE  AccessInv'
<1>1. Formed'
  BY DEF AccessInv, Formed, Requests, Dismiss, NoAsking, Phases
<1>2. ASSUME NEW d \in Caller PROVE OnTheWay(d)'
  <2>1. CASE d # c
    BY <2>1, Waits DEF AccessInv, Formed, Dismiss
  <2>2. CASE d = c
    BY <2>2 DEF AccessInv, Formed, Dismiss, NoAsking, OnTheWay
  <2> QED BY <2>1, <2>2
<1> QED BY <1>1, <1>2 DEF AccessInv

(* JwtAuthGuard: the account is known, and the roles are those held now. *)
LEMMA AuthenticateStep ==
  ASSUME AccessInv, NEW c \in Caller, Authenticate(c)
  PROVE  AccessInv'
<1>1. /\ asking[c].phase = "SENT" /\ answered' = answered
      /\ UNCHANGED <<activeCallers, mustChange, roleActive, grants, held, roleName, roleCode>>
  BY DEF Authenticate, rightsVars
<1>2. RightsAreCurrent'
  BY <1>1 DEF AccessInv, RightsAreCurrent
<1>3. CASE c \in signedIn /\ Known(c, asking[c])
  <2> DEFINE a == [asking[c] EXCEPT !.phase = "KNOWN", !.roles = Texts(HeldBy(c))]
  <2>1. asking' = [asking EXCEPT ![c] = a] /\ moments' = moments
    BY <1>3 DEF Authenticate
  <2>2. asking[c] \in Requests /\ Texts(HeldBy(c)) \in SUBSET RoleTexts
    <3>1. \A r \in HeldBy(c) : roleName[r] \in RoleName /\ roleCode[r] \in RoleCode
      BY DEF AccessInv, Formed, HeldBy
    <3> QED BY <3>1 DEF AccessInv, Formed, Texts, RoleTexts
  <2>3. /\ a \in Requests /\ a.phase = "KNOWN" /\ a.route = asking[c].route
        /\ a.exempt = asking[c].exempt /\ a.roles = Texts(HeldBy(c))
    BY <2>2 DEF Phases, Requests
  <2> HIDE DEF a
  <2>4. Formed'
    BY <1>1, <2>1, <2>3 DEF AccessInv, Formed
  <2>5. ASSUME NEW d \in Caller PROVE OnTheWay(d)'
    <3>1. CASE d # c
      BY <1>1, <2>1, <3>1, Waits DEF AccessInv, Formed
    <3>2. CASE d = c
      <4>1. asking'[d] = a /\ moments'[d] = moments[c]
        BY <2>1, <3>2 DEF AccessInv, Formed
      <4>2. Nowadays(d, asking[d])' = Nowadays(c, asking[c])
        BY <1>1, <2>3, <3>2, <4>1, SameRights
      <4>3. asking[c].route \in Asked /\ Nowadays(c, asking[c]) \subseteq moments[c]
        BY <1>1 DEF AccessInv, OnTheWay
      <4>4. "known" \in Nowadays(c, asking[c])
        BY <1>3 DEF Known, Nowadays
      <4>5. asking[c].route.guard = "ROLE" /\ RolesGuard(a) => "able" \in Nowadays(c, asking[c])
        BY <2>3 DEF RolesGuard, Nowadays, Suffice
      <4> QED BY <2>3, <4>1, <4>2, <4>3, <4>4, <4>5 DEF OnTheWay, RolesGuard
    <3> QED BY <3>1, <3>2
  <2> QED BY <1>2, <2>4, <2>5 DEF AccessInv
<1>4. CASE ~(c \in signedIn /\ Known(c, asking[c]))
  <2>1. Dismiss(c)
    BY <1>4 DEF Authenticate
  <2> QED BY <1>1, <1>2, <2>1, DismissStep
<1> QED BY <1>3, <1>4

(* The request is served on what held since it was sent. *)
LEMMA ServeStep ==
  ASSUME AccessInv, NEW c \in Caller, Serve(c)
  PROVE  AccessInv'
<1> DEFINE req == asking[c]
<1>1. /\ req.phase = "KNOWN" /\ Admits(c, req) /\ Dismiss(c)
      /\ answered'.route = req.route /\ answered'.since = moments[c]
      /\ answered'.own = (req.route.inPath => HomeOf[c] \in {NoHome, req.path})
      /\ \A d \in Caller \ {c} : d \in mustChange' <=> d \in mustChange
      /\ UNCHANGED <<activeCallers, roleActive, grants, held, roleName, roleCode>>
  BY DEF Serve
<1>2. /\ req.route \in Asked /\ Nowadays(c, req) \subseteq moments[c] /\ "known" \in moments[c]
      /\ req.route.guard = "ROLE" /\ RolesGuard(req) => "able" \in moments[c]
  BY <1>1 DEF AccessInv, OnTheWay
<1>3. req.route.inPath => req.route.guard = "PERMISSION"
  BY <1>2, AskedOfApi, RoutesAskForKnownRights
<1> HIDE DEF req
<1>4. req.route.guard = "ROLE" => "able" \in moments[c]
  BY <1>1, <1>2 DEF Admits
<1>5. req.route.guard = "PERMISSION" =>
        "able" \in moments[c] /\ (req.route.inPath => HomeOf[c] \in {NoHome, req.path})
  BY <1>1, <1>2, AdmittedNow
<1>6. req.route.guard \in {"SCHOOL", "OPERATIONS"} => "fit" \in moments[c]
  BY <1>1, <1>2, AdmittedNow
<1>7. RightsAreCurrent'
  <2>1. answered'.own
    BY <1>1, <1>3, <1>5
  <2> QED BY <1>1, <1>2, <1>4, <1>5, <1>6, <2>1 DEF RightsAreCurrent
<1> QED BY <1>1, <1>7, DismissStep

(* Every step. *)
LEMMA AccessStep == AccessInv /\ [AccessNext]_accessVars => AccessInv'
<1> SUFFICES ASSUME AccessInv, [AccessNext]_accessVars PROVE AccessInv'
  OBVIOUS
<1>1. ASSUME UNCHANGED <<activeCallers, mustChange, roleActive, grants, held, roleName, roleCode, asking, moments, answered>>
      PROVE  AccessInv'
  <2>1. Formed' /\ RightsAreCurrent'
    BY <1>1 DEF AccessInv, Formed, RightsAreCurrent
  <2>2. \A c \in Caller : OnTheWay(c)'
    BY <1>1, Waits DEF AccessInv
  <2> QED BY <2>1, <2>2 DEF AccessInv
<1>2. ASSUME NEW c \in Caller, SignIn(c) \/ TokenExpires(c) PROVE AccessInv'
  BY <1>1, <1>2 DEF SignIn, TokenExpires, rightsVars
<1>3. ASSUME NEW c \in Caller, TurnAway(c) PROVE AccessInv'
  <2>1. RightsAreCurrent'
    BY <1>3 DEF TurnAway, AccessInv, RightsAreCurrent
  <2> QED BY <1>3, <2>1, DismissStep DEF TurnAway, rightsVars
<1>4. ASSUME NEW c \in Caller, NEW r \in Role, GiveRole(c, r) \/ TakeRole(c, r) \/ ReplaceRole(c, r)
      PROVE  AccessInv'
  BY <1>4, EditedStep DEF GiveRole, TakeRole, ReplaceRole, AccessInv, Formed
<1>5. ASSUME NEW c \in Caller, SetAccountStatus(c) PROVE AccessInv'
  BY <1>5, EditedStep DEF SetAccountStatus, AccessInv, Formed
<1>6. ASSUME NEW r \in Role, UpdateRole(r) \/ ReplaceGrants(r) PROVE AccessInv'
  <2>1. Edited /\ roleName' \in [Role -> RoleName] /\ roleCode' \in [Role -> RoleCode]
    BY <1>6 DEF UpdateRole, ReplaceGrants, AccessInv, Formed
  <2> QED BY <2>1, EditedStep
<1>7. CASE UNCHANGED accessVars
  BY <1>1, <1>7 DEF accessVars, rightsVars
<1> QED BY <1>2, <1>3, <1>4, <1>5, <1>6, <1>7, AskStep, AuthenticateStep, ServeStep DEF AccessNext

(* Whatever routes are called and however the edits of administrators fall  *)
(* between JwtAuthGuard, the second guard and the service, a request is     *)
(* served on rights that its caller had since it was sent, and none is      *)
(* served on those of another school's path (the guards of auth/).          *)
THEOREM RequestsOnCurrentRights == AccessSpec => []RightsAreCurrent
<1>1. AccessInv => RightsAreCurrent
  BY DEF AccessInv
<1> QED BY <1>1, InitAccess, AccessStep, PTL DEF AccessSpec

-----------------------------------------------------------------------------
(* The rows the guards ask are well formed, and so is what a request was served on. *)
RightsFormed ==
  /\ activeCallers \subseteq Caller /\ mustChange \subseteq Caller /\ signedIn \subseteq Caller
  /\ roleActive \subseteq Role /\ grants \in [Role -> SUBSET Catalogue] /\ held \subseteq Caller \X Role
  /\ answered \in [route : Asked \cup {NoRoute}, own : BOOLEAN, since : SUBSET Moments]

(* A request serves what its row says, and the edits of administrators give roles that *)
(* exist the rights of the catalogue.                                                   *)
LEMMA RightsStep ==
  ASSUME AccessInv, RightsFormed, [AccessNext]_accessVars
  PROVE  RightsFormed'
<1>1. ASSUME NEW c \in Caller, SignIn(c) \/ TokenExpires(c) \/ Ask(c) \/ Authenticate(c) \/ TurnAway(c)
      PROVE  RightsFormed'
  <2>1. UNCHANGED <<activeCallers, mustChange, roleActive, grants, held, roleName, roleCode>> /\ signedIn' \subseteq Caller
    BY <1>1 DEF SignIn, TokenExpires, Ask, Authenticate, TurnAway, rightsVars, RightsFormed
  <2>2. answered' = answered \/ answered' = NoAnswer
    BY <1>1 DEF SignIn, TokenExpires, Ask, Authenticate, TurnAway
  <2>3. NoAnswer \in [route : Asked \cup {NoRoute}, own : BOOLEAN, since : SUBSET Moments]
    BY DEF NoAnswer
  <2> QED
    BY <2>1, <2>2, <2>3 DEF RightsFormed
<1>2. ASSUME NEW c \in Caller, Serve(c) PROVE RightsFormed'
  <2>1. /\ UNCHANGED <<activeCallers, roleActive, grants, held, signedIn>> /\ mustChange' \subseteq Caller
        /\ answered' = [route |-> asking[c].route, since |-> moments[c],
                        own |-> (asking[c].route.inPath => HomeOf[c] \in {NoHome, asking[c].path})]
    BY <1>2 DEF Serve, RightsFormed
  <2>2. asking[c].route \in Asked \cup {NoRoute} /\ moments[c] \in SUBSET Moments
    BY DEF AccessInv, Formed, Requests
  <2>3. answered' \in [route : Asked \cup {NoRoute}, own : BOOLEAN, since : SUBSET Moments]
    BY <2>1, <2>2
  <2> QED
    BY <2>1, <2>3 DEF RightsFormed
<1>3. ASSUME Edited PROVE UNCHANGED <<mustChange, signedIn, answered>>
  BY <1>3 DEF Edited
<1>4. ASSUME NEW c \in Caller, SetAccountStatus(c) PROVE RightsFormed'
  <2>1. activeCallers' \subseteq Caller /\ UNCHANGED <<mustChange, signedIn, roleActive, grants, held, answered>>
    BY <1>3, <1>4 DEF SetAccountStatus, RightsFormed
  <2> QED
    BY <2>1 DEF RightsFormed
<1>5. ASSUME NEW r \in Role, UpdateRole(r) \/ ReplaceGrants(r) PROVE RightsFormed'
  <2>1. /\ roleActive' \subseteq Role /\ grants' \in [Role -> SUBSET Catalogue]
        /\ UNCHANGED <<activeCallers, mustChange, signedIn, held, answered>>
    BY <1>3, <1>5, RightsAssumption DEF UpdateRole, ReplaceGrants, RightsFormed
  <2> QED
    BY <2>1 DEF RightsFormed
<1>6. ASSUME NEW c \in Caller, NEW r \in Role, GiveRole(c, r) \/ TakeRole(c, r) \/ ReplaceRole(c, r)
      PROVE  RightsFormed'
  <2>1. /\ held' \subseteq Caller \X Role
        /\ UNCHANGED <<activeCallers, mustChange, signedIn, roleActive, grants, answered>>
    BY <1>3, <1>6 DEF GiveRole, TakeRole, ReplaceRole, RightsFormed
  <2> QED
    BY <2>1 DEF RightsFormed
<1>7. CASE UNCHANGED accessVars
  BY <1>7 DEF accessVars, rightsVars, RightsFormed
<1> QED
  BY <1>1, <1>2, <1>4, <1>5, <1>6, <1>7 DEF AccessNext

(* Accounts, roles, rights and the requests on their way are well formed: a role that is *)
(* held exists, and grants rights of the catalogue; a request that was served names a    *)
(* route of the API (the tables and guards of auth/).                                    *)
THEOREM AccessWellFormed == AccessSpec => []AccessTypeOK
<1>1. AccessInit => AccessInv /\ RightsFormed
  BY InitAccess, RightsAssumption DEF AccessInit, RightsFormed, NoAnswer
<1>2. AccessInv /\ RightsFormed /\ [AccessNext]_accessVars => (AccessInv /\ RightsFormed)'
  BY AccessStep, RightsStep
<1>3. AccessInv /\ RightsFormed => AccessTypeOK
  BY DEF AccessInv, Formed, Requests, Phases, RightsFormed, AccessTypeOK
<1> QED
  BY <1>1, <1>2, <1>3, PTL DEF AccessSpec
=============================================================================
