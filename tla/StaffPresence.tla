---------------------------- MODULE StaffPresence ----------------------------
(***************************************************************************)
(* Who of the staff is in the school on one working day: marking by         *)
(* managers, self check-in and check-out, exception requests, the lock of   *)
(* the day and the policy they all obey.  StaffAttendanceService.bulk, the  *)
(* punch that calls it and the decision on an exception are Serializable    *)
(* transactions, so one action each.  Saving the policy is two: it is read, *)
(* merged and validated outside the transaction that writes it.             *)
(* The reassessment of covers that follows every change is DailyCover's.    *)
(***************************************************************************)
EXTENDS Integers, FiniteSets, TLC

CONSTANTS
    Staff, Manager,      \* a manager may be a member of the staff
    InScope,             \* the staff each manager may mark
    MayOverride,         \* managers with staff.attendance.override
    Request, NoDraft,
    MarkedStatus,        \* the statuses that are marked by hand
    FirstAttendancePolicy,
    PolicyChange,        \* changes of the policy: functions on some of its settings
    LateAfter, EndOfDay, \* checkInTime with its grace, checkOutTime
    MaxClock, MaxPresenceSteps  \* bounds

Clock == 1..MaxClock     \* 0: no time
AsBefore == -1               \* a time that a request leaves as it is
Away == {"ABSENT", "HALF_DAY", "ON_LEAVE"}
AttendanceStatus == Away \cup {"NOT_MARKED", "PRESENT", "LATE", "ON_DUTY"}
Kind == {"CHECK_IN", "CHECK_OUT"}
ExceptionKind == {"MISSED_CHECKIN", "EARLY_DEPARTURE", "LOCATION", "CORRECTION"}
LeavePart == {"NONE", "MORNING", "AFTERNOON", "DAY"}
AttendanceRow == [status : AttendanceStatus, in : 0..MaxClock, out : 0..MaxClock, version : Nat]
RequestRow == [staff : Staff, kind : ExceptionKind, in : 0..MaxClock, out : 0..MaxClock,
               status : {"NONE", "PENDING", "APPROVED", "REJECTED", "CANCELLED"}]

VARIABLES
    attendance,    \* rows of StaffAttendance; version 0: none
    punch,         \* AttendancePunch: the kinds each member of the staff has punched
    exception,     \* rows of AttendanceExceptionRequest
    leaveOf,       \* approved leave on the day: none, a half or the whole day
    dayLocked, attendancePolicy,
    policyDraft,   \* what each manager's request has read, merged and validated
    notified,      \* dedupe keys of the notifications of confirmed absences
    since,         \* history: the version at which the status last changed
    sealed,        \* history: the rows when the day was locked
    clock, presenceSteps

presenceVars == <<attendance, punch, exception, leaveOf, dayLocked, attendancePolicy, policyDraft,
                  notified, since, sealed, clock, presenceSteps>>
recordVars == <<attendance, notified, since>>
-----------------------------------------------------------------------------
CountedPresence == presenceSteps < MaxPresenceSteps /\ presenceSteps' = presenceSteps + 1

(* validateAttendancePolicy: locations need the coordinates of the school. *)
ValidAttendancePolicy(p) == p.location => p.coordinates
ASSUME ValidAtFirst == ValidAttendancePolicy(FirstAttendancePolicy)
ASSUME StaffAssumption == Staff # {} /\ MarkedStatus \subseteq AttendanceStatus /\ MaxClock \in Nat \ {0}

PresenceInit ==
    /\ attendance = [s \in Staff |-> [status |-> "NOT_MARKED", in |-> 0, out |-> 0, version |-> 0]]
    /\ punch = [s \in Staff |-> {}]
    /\ exception = [r \in Request |-> [staff |-> CHOOSE s \in Staff : TRUE, kind |-> "MISSED_CHECKIN",
                                       in |-> 0, out |-> 0, status |-> "NONE"]]
    /\ leaveOf = [s \in Staff |-> "NONE"]
    /\ dayLocked = FALSE
    /\ attendancePolicy = FirstAttendancePolicy
    /\ policyDraft = [m \in Manager |-> NoDraft]
    /\ notified = {} /\ since = [s \in Staff |-> 0]
    /\ sealed = attendance
    /\ clock = 1 /\ presenceSteps = 0

(* StaffAttendanceService.bulk: the rows of the staff S become rows, all or none.  Who is *)
(* newly absent, on leave or away for half a day is reported, once per version.           *)
AbsenceKey_PerDay(s, version) == <<s, 1>>
AbsenceKey(s, version) == <<s, version>>
Unlocked_ForManagers(self) == self => ~dayLocked
Unlocked(self) == ~dayLocked
InOrder_IfBoth(row) == row.in # 0 /\ row.out # 0 => row.in <= row.out
InOrder(row) == row.out # 0 => row.in # 0 /\ row.in <= row.out
Bulk(S, rows, self) ==
    /\ Unlocked(self)
    /\ \A s \in S : InOrder(rows[s])
    /\ self => \A s \in S : attendance[s].status \notin {"ABSENT", "ON_LEAVE"}
    /\ attendance' = [s \in Staff |-> IF s \in S THEN rows[s] ELSE attendance[s]]
    /\ LET changed == {s \in S : rows[s].status # attendance[s].status}
       IN /\ since' = [s \in Staff |-> IF s \in changed THEN rows[s].version ELSE since[s]]
          /\ notified' = notified \cup {AbsenceKey(s, rows[s].version) : s \in {t \in changed : rows[t].status \in Away}}
Next_(s, status, in, out) ==
    [status |-> status, version |-> attendance[s].version + 1,
     in |-> IF in = AsBefore THEN attendance[s].in ELSE in, out |-> IF out = AsBefore THEN attendance[s].out ELSE out]

(* A manager marks or corrects: a correction, and any marking where staff check in *)
(* themselves, is an override.                                                     *)
MayMark(m, S) == \A s \in S :
    /\ s \in InScope[m]
    /\ attendance[s].version > 0 \/ attendancePolicy.mode = "STAFF_SELF" =>
          attendancePolicy.overrides /\ m \in MayOverride
MarkStaff(m, S, status, in, out) ==
    /\ CountedPresence
    /\ S # {} /\ MayMark(m, S)
    /\ Bulk(S, [s \in S |-> Next_(s, status, in, out)], FALSE)
    /\ UNCHANGED <<punch, exception, leaveOf, dayLocked, attendancePolicy, policyDraft, sealed, clock>>

(* StaffPunchService.punch: a second punch of a kind, or one that the row already has, *)
(* changes nothing.                                                                    *)
OnLeaveNow(s) == \/ leaveOf[s] = "DAY"
                 \/ leaveOf[s] = "MORNING" /\ clock <= LateAfter
                 \/ leaveOf[s] = "AFTERNOON" /\ clock > LateAfter
Punch(s, kind, inside) ==
    /\ CountedPresence
    /\ attendancePolicy.mode # "ADMIN_ONLY"
    /\ kind \notin punch[s]
    /\ kind = "CHECK_IN" => attendance[s].in = 0 /\ ~OnLeaveNow(s)
    /\ kind = "CHECK_OUT" => /\ attendance[s].in # 0 /\ attendance[s].out = 0
                             /\ attendancePolicy.early => clock >= EndOfDay
    /\ attendancePolicy.location => inside
    /\ Bulk({s}, [t \in {s} |->
          IF kind = "CHECK_IN" THEN Next_(s, IF clock > LateAfter THEN "LATE" ELSE "PRESENT", clock, AsBefore)
                               ELSE Next_(s, attendance[s].status, AsBefore, clock)], TRUE)
    /\ punch' = [punch EXCEPT ![s] = @ \cup {kind}]
    /\ UNCHANGED <<exception, leaveOf, dayLocked, attendancePolicy, policyDraft, sealed, clock>>

RequestException(r, s, kind, in, out) ==
    /\ CountedPresence
    /\ attendancePolicy.corrections
    /\ exception[r].status = "NONE"
    /\ \A q \in Request : exception[q].status = "PENDING" => exception[q].staff # s
    /\ in # 0 /\ out # 0 => in <= out
    /\ exception' = [exception EXCEPT ![r] =
          [staff |-> s, kind |-> kind, in |-> in, out |-> out, status |-> "PENDING"]]
    /\ UNCHANGED <<recordVars, punch, leaveOf, dayLocked, attendancePolicy, policyDraft, sealed, clock>>

(* decideException: never by the one it is about; approving marks the day, at the times *)
(* that the manager confirms instead of those asked for, or at none.                     *)
Confirmed(supplied, asked) == IF supplied # 0 THEN supplied ELSE IF asked # 0 THEN asked ELSE AsBefore
ApproveException(m, r, status, in, out) ==
    /\ CountedPresence
    /\ LET s == exception[r].staff
           checkIn == Confirmed(in, exception[r].in)
           checkOut == Confirmed(out, exception[r].out)
       IN /\ m \in MayOverride /\ s \in InScope[m] /\ m # s
          /\ exception[r].status = "PENDING"
          /\ exception[r].kind = "MISSED_CHECKIN" => checkIn # AsBefore
          /\ exception[r].kind = "EARLY_DEPARTURE" => checkOut # AsBefore
          /\ MayMark(m, {s})
          /\ Bulk({s}, [t \in {s} |-> Next_(s, status, checkIn, checkOut)], FALSE)
    /\ exception' = [exception EXCEPT ![r].status = "APPROVED"]
    /\ UNCHANGED <<punch, leaveOf, dayLocked, attendancePolicy, policyDraft, sealed, clock>>
CloseException(r, status) ==
    /\ CountedPresence
    /\ exception[r].status = "PENDING"
    /\ status = "REJECTED" => \E m \in MayOverride : exception[r].staff \in InScope[m] \ {m}
    /\ exception' = [exception EXCEPT ![r].status = status]
    /\ UNCHANGED <<recordVars, punch, leaveOf, dayLocked, attendancePolicy, policyDraft, sealed, clock>>

(* decideLeave and cancelLeave, as far as check-in depends on them. *)
SetLeave(s, part) ==
    /\ CountedPresence
    /\ leaveOf' = [leaveOf EXCEPT ![s] = part] /\ leaveOf' # leaveOf
    /\ UNCHANGED <<recordVars, punch, exception, dayLocked, attendancePolicy, policyDraft, sealed, clock>>

LockDay(locked) ==
    /\ CountedPresence
    /\ dayLocked' = locked
    /\ sealed' = IF locked /\ ~dayLocked THEN attendance ELSE sealed
    /\ UNCHANGED <<recordVars, punch, exception, leaveOf, attendancePolicy, policyDraft, clock>>

(* settings: the whole document is written, as it was read and merged before. *)
ReadSettings(m, change) ==
    /\ CountedPresence
    /\ policyDraft[m] = NoDraft
    /\ ValidAttendancePolicy(change @@ attendancePolicy)
    /\ policyDraft' = [policyDraft EXCEPT ![m] = [document |-> change @@ attendancePolicy, change |-> change]]
    /\ UNCHANGED <<recordVars, punch, exception, leaveOf, dayLocked, attendancePolicy, sealed, clock>>
Written_Merged(draft) == draft.change @@ attendancePolicy
Written(draft) == draft.document
WriteSettings(m) ==
    /\ policyDraft[m] # NoDraft
    /\ attendancePolicy' = Written(policyDraft[m])
    /\ policyDraft' = [policyDraft EXCEPT ![m] = NoDraft]
    /\ UNCHANGED <<recordVars, punch, exception, leaveOf, dayLocked, sealed, clock, presenceSteps>>

TimePasses ==
    /\ clock < MaxClock /\ clock' = clock + 1
    /\ UNCHANGED <<recordVars, punch, exception, leaveOf, dayLocked, attendancePolicy, policyDraft, sealed, presenceSteps>>

PresenceNext ==
    \/ \E m \in Manager, S \in SUBSET Staff, status \in MarkedStatus, in, out \in {AsBefore, 0, clock} :
          MarkStaff(m, S, status, in, out)
    \/ \E s \in Staff, kind \in Kind, inside \in BOOLEAN : Punch(s, kind, inside)
    \/ \E r \in Request, s \in Staff, kind \in ExceptionKind, in, out \in {0, 1, clock} : RequestException(r, s, kind, in, out)
    \/ \E m \in Manager, r \in Request, status \in MarkedStatus, in, out \in {0, clock} :
          ApproveException(m, r, status, in, out)
    \/ \E r \in Request, status \in {"REJECTED", "CANCELLED"} : CloseException(r, status)
    \/ \E s \in Staff, part \in LeavePart : SetLeave(s, part)
    \/ \E locked \in BOOLEAN : LockDay(locked)
    \/ \E m \in Manager, change \in PolicyChange : ReadSettings(m, change)
    \/ \E m \in Manager : WriteSettings(m)
    \/ TimePasses

PresenceSpec == PresenceInit /\ [][PresenceNext]_presenceVars
-----------------------------------------------------------------------------
(* The rows are well formed; a check-out follows a check-in. *)
PresenceTypeOK ==
    /\ attendance \in [Staff -> AttendanceRow]
    /\ \A s \in Staff : attendance[s].out # 0 => attendance[s].in \in 1..attendance[s].out
    /\ punch \in [Staff -> SUBSET Kind] /\ exception \in [Request -> RequestRow]
    /\ notified \subseteq Staff \X Nat

(* Whoever is away has been reported as away since it last became so: also an absence   *)
(* that was corrected and confirmed again, by hand or by an approved exception.         *)
AwayIsNotified == \A s \in Staff :
    attendance[s].status \in Away => <<s, since[s]>> \in notified

(* "Attendance is locked": whatever way a row could be written, nothing is until the    *)
(* day is reopened.                                                                      *)
LockedDayStands == dayLocked => attendance = sealed

(* The policy in force is valid although managers save it one over the other: the        *)
(* document that was validated is the one that is written.                               *)
PolicyInForceValid == ValidAttendancePolicy(attendancePolicy)
=============================================================================
