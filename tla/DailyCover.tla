------------------------------ MODULE DailyCover ------------------------------
(***************************************************************************)
(* The lessons of one school day and who covers them.  A lesson whose       *)
(* teacher cannot take it gets one TimetableSubstitution row; the worker    *)
(* (tick, every minute), every attendance or leave decision and an explicit *)
(* refresh run reconcile(), which closes rows, keeps the covers that still  *)
(* hold and plans the others; coordinators assign and cancel in between.    *)
(* Each of these is one Serializable transaction, so one action, but an     *)
(* attendance record, a leave, a cancelled lesson or a duty is saved by a   *)
(* transaction of its own, and anything may happen before the next          *)
(* reconcile.  At EndOfDay, local midnight, the day is over for the worker; *)
(* a refresh or a correction of that date may still reconcile it.           *)
(*                                                                          *)
(* Time is a number; attendance is what unavailableForLesson makes of it;   *)
(* ranking is reduced to who is a candidate at all, so the planner may      *)
(* choose any candidate.  Rows of status SCHEDULED and NEEDS_SUBSTITUTE,    *)
(* which only old data have, are treated by the code like APPROVED and      *)
(* UNCOVERED and are left out.                                              *)
(*                                                                          *)
(* An operator X_Variant just before X is X with a bug in it: the variant   *)
(* a property of the runs must notice.  Nothing else uses it.               *)
(***************************************************************************)
EXTENDS Integers, FiniteSets

CONSTANTS
    Teacher,
    Lesson,       \* published lessons and supervision duties of the day
    Duty,         \* daily tasks a manager may give
    Regular,      \* the teacher of each lesson, the holder of each duty
    Begin, End,   \* when each begins and ends
    Suitable,     \* lessons with the teachers whose profile allows them to cover it
    MaxPeriods,   \* the workload limit of a day
    Attendance,   \* what a manager or a teacher may record
    Away,         \* intervals of leave or of a half day
    EndOfDay,     \* midnight
    NoOne,
    MaxChanges    \* bound on the changes of the day, see Change

Time == 0..EndOfDay
Never == EndOfDay + 1

(* From when a teacher counts as able to take their own lessons, from when   *)
(* as a substitute (confirmed present), and until when.                     *)
AttendanceRecord == [teach : 0..Never, cover : 0..Never, until : 0..Never]
NotMarked == [teach |-> 0, cover |-> Never, until |-> Never]

Interval == [from : Time, until : Time]
NotAway == [from |-> 0, until |-> 0]

ASSUME CoverAssumption ==
    /\ EndOfDay \in Nat
    /\ Regular \in [Lesson \cup Duty -> Teacher]
    /\ Lesson \cap Duty = {}
    /\ Begin \in [Lesson \cup Duty -> Time]
    /\ End \in [Lesson \cup Duty -> Time]
    /\ \A i \in Lesson \cup Duty : Begin[i] < End[i]
    /\ Suitable \in SUBSET (Lesson \X Teacher)
    /\ MaxPeriods \in Nat
    /\ Attendance \in SUBSET AttendanceRecord
    /\ Away \in SUBSET Interval
    /\ NoOne \notin Teacher
    /\ IsFiniteSet(Lesson)
    /\ MaxChanges \in Nat

VARIABLES
    now,         \* the school clock; lessons that begin later are still to come
    attendance,  \* StaffAttendance of the day
    away,        \* approved leave or confirmed half day of each teacher
    active,      \* lessons neither cancelled for the day, closed nor unpublished
    duties,      \* StaffDailyTask that are not cancelled
    row,         \* TimetableSubstitution of each lesson
    autoAssign,  \* coveragePolicy.autoAssign
    changes,     \* changes so far
    reconciled   \* nothing has happened since the last pass of reconcile()

contextVars == <<attendance, away, active, duties, autoAssign>>
vars == <<now, contextVars, row, changes, reconciled>>

----------------------------------------------------------------------------

Waiting == {"PROPOSED", "UNCOVERED"}
Open == Waiting \cup {"APPROVED"}
History == {"COMPLETED", "MISSED"}

Row ==
    [status : {"NONE", "CANCELLED"} \cup Open \cup History,
     substitute : Teacher \cup {NoOne},
     source : {"AUTO", "MANUAL", "MANUAL_WORKLOAD_OVERRIDE", "MANUAL_CANCEL"},
     acknowledged : BOOLEAN]

NoRow == [status |-> "NONE", substitute |-> NoOne, source |-> "AUTO", acknowledged |-> FALSE]

TypeOK ==
    /\ now \in Time
    /\ attendance \in [Teacher -> AttendanceRecord]
    /\ away \in [Teacher -> Interval]
    /\ active \in SUBSET Lesson
    /\ duties \in SUBSET Duty
    /\ row \in [Lesson -> Row]
    /\ autoAssign \in BOOLEAN
    /\ changes \in Nat
    /\ reconciled \in BOOLEAN
    /\ \A l \in Lesson : row[l].status \in {"PROPOSED", "APPROVED", "COMPLETED"} =>
          row[l].substitute \in Teacher \ {Regular[l]}

Init ==
    /\ now = 0
    /\ attendance = [t \in Teacher |-> NotMarked]
    /\ away = [t \in Teacher |-> NotAway]
    /\ active = Lesson
    /\ duties = {}
    /\ row = [l \in Lesson |-> NoRow]
    /\ autoAssign \in BOOLEAN
    /\ changes = 0
    /\ reconciled = FALSE

----------------------------------------------------------------------------
(* What the context says of the day: context() and the coverage engine *)

Ended(i) == End[i] <= now
Start(l) == IF Begin[l] >= now THEN Begin[l] ELSE now
Overlap(i, j) == Begin[i] < End[j] /\ Begin[j] < End[i]

Unavailable(from, until, start, end) ==
    start < from \/ start >= until \/ end > until

OnLeave(t, i) == away[t].from < End[i] /\ Begin[i] < away[t].until

(* Lessons whose teacher is confirmed to be unable to take them.  A teacher *)
(* who arrives during a lesson may take the rest of it.                     *)
Targets ==
    {l \in active :
        LET t == Regular[l] IN
        \/ OnLeave(t, l)
        \/ Unavailable(attendance[t].teach, attendance[t].until, Start(l), End[l])}

Covered(l) == row[l].status \in {"APPROVED", "COMPLETED"}

(* Who is busy with what, apart from the covers. *)
Bookings ==
    {<<l, Regular[l]>> : l \in {m \in active \ Targets : ~Covered(m)}}
        \cup {<<d, Regular[d]>> : d \in duties}

Of(t, booked) == {b \in booked : b[2] = t}

(* Reasons nobody can override ... *)
Fit(l, t) ==
    /\ t # Regular[l]
    /\ <<l, t>> \in Suitable
    /\ ~Unavailable(attendance[t].cover, attendance[t].until, Start(l), End[l])
    /\ ~OnLeave(t, l)

(* ... with the rest of the lesson free, and the workload, which an         *)
(* assignment by hand may exceed.                                           *)
Candidate(l, t, booked, override) ==
    /\ Fit(l, t)
    /\ \A b \in Of(t, booked) : ~(Begin[b[1]] < End[l] /\ Start(l) < End[b[1]])
    /\ override \/ Cardinality(Of(t, booked)) < MaxPeriods

----------------------------------------------------------------------------
(* reconcile() *)

(* First loop: rows of lessons that ended, that are no longer taught, or     *)
(* whose teacher is back.  A cover that is under way goes on.               *)
Kept == {l \in active \ Targets : /\ row[l].status = "APPROVED"
                                  /\ Begin[l] < now
                                  /\ ~Ended(l)}
Returned == {l \in active \ Targets : row[l].status \in Open /\ ~Ended(l)} \ Kept

Completed_Late == {l \in Lesson : row[l].status = "APPROVED" /\ End[l] < now}
Completed == {l \in Lesson : row[l].status = "APPROVED" /\ Ended(l)}
Missed == {l \in active : row[l].status \in Waiting /\ Ended(l)}
Dropped_EvenHistory == {l \in Lesson \ active : row[l].status # "NONE"} \ Completed
Dropped == {l \in Lesson \ active : row[l].status \in Open} \ Completed

NewStatus(l) ==
    IF l \in Completed THEN "COMPLETED"
    ELSE IF l \in Missed THEN "MISSED"
    ELSE IF l \in Dropped \cup Returned THEN "CANCELLED"
    ELSE row[l].status

(* What handling the row of l adds to the bookings. *)
Added(l, held) ==
    IF l \in Kept \cup held \/ (l \in active /\ Ended(l) /\ Covered(l))
    THEN {<<l, row[l].substitute>>}
    ELSE IF l \in Returned THEN {<<l, Regular[l]>>}
    ELSE {}

AllAdded(ls, held) == UNION {Added(l, held) : l \in ls}

(* The rows come in any order (findMany names none), and a cover is held     *)
(* when its substitute is still a candidate beside the rows before it.      *)
Orders == {o \in [Lesson -> 1..Cardinality(Lesson)] : \A l, m \in Lesson : o[l] = o[m] => l = m}
Earlier(o, l) == {m \in Lesson : o[m] < o[l]}

Holdable == {l \in Targets : row[l].status = "APPROVED" /\ ~Ended(l)}

Holds_Alone(l, held, o) ==
    Candidate(l, row[l].substitute, Bookings, row[l].source = "MANUAL_WORKLOAD_OVERRIDE")
Holds_ByHand(l, held, o) ==
    \/ row[l].source \in {"MANUAL", "MANUAL_WORKLOAD_OVERRIDE"}
    \/ Candidate(l, row[l].substitute, Bookings \cup AllAdded(Earlier(o, l), held), FALSE)
Holds(l, held, o) ==
    Candidate(l, row[l].substitute, Bookings \cup AllAdded(Earlier(o, l), held),
              row[l].source = "MANUAL_WORKLOAD_OVERRIDE")

IsHeld(held, o) == \A l \in Holdable : l \in held <=> Holds(l, held, o)

(* Second loop: planCover().  Targets are served one after the other, each   *)
(* beside what was booked before; what that can lead to is a plan in which  *)
(* everybody planned is a candidate beside the others and nobody is left    *)
(* who could take an uncovered lesson.                                      *)
CancelledByHand(l) == row[l].status = "CANCELLED" /\ row[l].source = "MANUAL_CANCEL"

Pending_Regenerated(held, regenerate) == {l \in Targets : ~Ended(l) /\ l \notin held}
Pending(held, regenerate) ==
    {l \in Targets : /\ ~Ended(l)
                     /\ l \notin held
                     /\ regenerate \/ ~CancelledByHand(l)}

Planned(plan, l) == {<<m, plan[m]>> : m \in {k \in DOMAIN plan \ {l} : plan[k] # NoOne}}

IsPlan(plan, booked) ==
    \A l \in DOMAIN plan :
        LET beside == booked \cup Planned(plan, l) IN
        IF plan[l] = NoOne THEN \A t \in Teacher : ~Candidate(l, t, beside, FALSE)
        ELSE Candidate(l, plan[l], beside, FALSE)

Saved_Anyhow(t) ==
    [status |-> IF autoAssign THEN "APPROVED" ELSE "PROPOSED",
     substitute |-> t, source |-> "AUTO", acknowledged |-> FALSE]
Saved(t) ==
    [status |-> IF t = NoOne THEN "UNCOVERED"
                ELSE IF autoAssign THEN "APPROVED" ELSE "PROPOSED",
     substitute |-> t, source |-> "AUTO", acknowledged |-> FALSE]

Reconcile(regenerate) ==
    /\ \E held \in SUBSET Holdable, o \in Orders :
        /\ IsHeld(held, o)
        /\ \E plan \in [Pending(held, regenerate) -> Teacher \cup {NoOne}] :
            /\ IsPlan(plan, Bookings \cup AllAdded(Lesson, held))
            /\ row' = [l \in Lesson |->
                          IF l \in DOMAIN plan THEN Saved(plan[l])
                          ELSE [row[l] EXCEPT !.status = NewStatus(l)]]
    /\ reconciled' = TRUE
    /\ UNCHANGED <<now, contextVars, changes>>

----------------------------------------------------------------------------
(* The coordinators and the substitutes *)

CoversBut(l) ==
    {<<m, row[m].substitute>> : m \in {k \in active \ {l} : Covered(k)}}

Assigned_Acknowledged(l, t, override) ==
    [row[l] EXCEPT !.status = "APPROVED", !.substitute = t,
                   !.source = IF override THEN "MANUAL_WORKLOAD_OVERRIDE" ELSE "MANUAL"]
Assigned(l, t, override) ==
    [status |-> "APPROVED", substitute |-> t,
     source |-> IF override THEN "MANUAL_WORKLOAD_OVERRIDE" ELSE "MANUAL",
     acknowledged |-> FALSE]

Assign(l, t, override) ==
    /\ row[l].status \notin {"NONE", "COMPLETED"}
    /\ l \in Targets
    /\ ~Ended(l)
    /\ Candidate(l, t, (Bookings \ {<<l, Regular[l]>>}) \cup CoversBut(l), override)
    /\ ~ (/\ row[l].status = "APPROVED"
          /\ row[l].substitute = t
          /\ override => row[l].source = "MANUAL_WORKLOAD_OVERRIDE")
    /\ row' = [row EXCEPT ![l] = Assigned(l, t, override)]
    /\ reconciled' = FALSE
    /\ UNCHANGED <<now, contextVars, changes>>

Cancel(l) ==
    /\ row[l].status \in Open
    /\ row' = [row EXCEPT ![l].status = "CANCELLED", ![l].source = "MANUAL_CANCEL"]
    /\ reconciled' = FALSE
    /\ UNCHANGED <<now, contextVars, changes>>

Acknowledge(l) ==
    /\ Covered(l)
    /\ ~row[l].acknowledged
    /\ row' = [row EXCEPT ![l].acknowledged = TRUE]
    /\ reconciled' = FALSE
    /\ UNCHANGED <<now, contextVars, changes>>

----------------------------------------------------------------------------
(* What else changes the day, each in its own transaction.  Only what is     *)
(* taken back (RestoreLesson, CancelDuty) does not count as a change.       *)

Change ==
    /\ changes < MaxChanges
    /\ changes' = changes + 1
    /\ reconciled' = FALSE
    /\ UNCHANGED <<now, row>>

(* Attendance marked or corrected, for any number of teachers at once, or    *)
(* punched in and out.                                                      *)
Mark(records) ==
    /\ Change
    /\ attendance' = [t \in Teacher |-> IF t \in DOMAIN records THEN records[t]
                                        ELSE attendance[t]]
    /\ UNCHANGED <<away, active, duties, autoAssign>>

(* A leave approved or cancelled, a half day recorded. *)
DecideLeave(t, interval) ==
    /\ Change
    /\ interval # away[t]
    /\ away' = [away EXCEPT ![t] = interval]
    /\ UNCHANGED <<attendance, active, duties, autoAssign>>

(* A lesson cancelled for the day, closed by an event, or unpublished. *)
DropLesson(l) ==
    /\ Change
    /\ l \in active
    /\ active' = active \ {l}
    /\ UNCHANGED <<attendance, away, duties, autoAssign>>

RestoreLesson(l) ==
    /\ l \notin active
    /\ active' = active \cup {l}
    /\ reconciled' = FALSE
    /\ UNCHANGED <<now, attendance, away, duties, row, autoAssign, changes>>

AddDuty(d) ==
    LET t == Regular[d] IN
    /\ Change
    /\ d \notin duties
    /\ ~OnLeave(t, d)
    /\ ~Unavailable(attendance[t].teach, attendance[t].until, Begin[d], End[d])
    /\ \A l \in active : Regular[l] = t => ~Overlap(l, d)
    /\ \A l \in active :
          row[l].status = "APPROVED" /\ row[l].substitute = t => ~Overlap(l, d)
    /\ \A e \in duties : Regular[e] = t => ~Overlap(e, d)
    /\ duties' = duties \cup {d}
    /\ UNCHANGED <<attendance, away, active, autoAssign>>

CancelDuty(d) ==
    /\ d \in duties
    /\ duties' = duties \ {d}
    /\ reconciled' = FALSE
    /\ UNCHANGED <<now, attendance, away, active, row, autoAssign, changes>>

SavePolicy ==
    /\ Change
    /\ autoAssign' = ~autoAssign
    /\ UNCHANGED <<attendance, away, active, duties>>

Tick ==
    /\ now < EndOfDay
    /\ now' = now + 1
    /\ reconciled' = FALSE
    /\ UNCHANGED <<contextVars, row, changes>>

----------------------------------------------------------------------------

Coordinate(l) ==
    \/ \E t \in Teacher, override \in BOOLEAN : Assign(l, t, override)
    \/ Cancel(l)
    \/ Acknowledge(l)

ChangeContext ==
    \/ \E ts \in SUBSET Teacher : \E records \in [ts -> Attendance] : Mark(records)
    \/ \E t \in Teacher, interval \in Away : DecideLeave(t, interval)
    \/ \E l \in Lesson : DropLesson(l) \/ RestoreLesson(l)
    \/ \E d \in Duty : AddDuty(d) \/ CancelDuty(d)
    \/ SavePolicy

Next ==
    \/ \E regenerate \in BOOLEAN : Reconcile(regenerate)
    \/ \E l \in Lesson : Coordinate(l)
    \/ ChangeContext
    \/ Tick

Spec == Init /\ [][Next]_vars

(* tick() reconciles the current local date of every school every minute,   *)
(* so a failure is repaired by the next pass, but only until midnight: what *)
(* is open then no pass of the worker visits again.  Nothing makes anybody  *)
(* else act.                                                                *)
WorkerPass == now < EndOfDay /\ Reconcile(FALSE)
FairSpec == Spec /\ WF_vars(WorkerPass)

----------------------------------------------------------------------------
(* Properties *)

InForce(l) == l \in active /\ row[l].status = "APPROVED" /\ ~Ended(l)

(* After a reconcile no substitute has two needed covers at the same time,  *)
(* however they came about: planned together, planned beside covers that    *)
(* are held, or left behind by a lesson that was cancelled and restored     *)
(* (override() looks at no cover).                                          *)
CoversDisjoint ==
    \A l, m \in {k \in Targets : InForce(k)} :
        l # m /\ row[l].substitute = row[m].substitute => ~Overlap(l, m)
ReconciledCoversDisjoint == reconciled => CoversDisjoint

(* After a reconcile every needed cover is with someone who is there: a     *)
(* substitute who left, fell absent or went on leave since is replaced.     *)
CoversFit == \A l \in Targets : InForce(l) => Fit(l, row[l].substitute)
ReconciledCoversFit == reconciled => CoversFit

(* What a coordinator cancelled stays cancelled until a coordinator assigns *)
(* somebody or asks for proposals anew: never by what the worker, which     *)
(* passes by every minute, might have done.                                 *)
CancellationStays ==
    [][\A l \in Lesson : CancelledByHand(l) /\ ~CancelledByHand(l)' =>
          /\ ~Reconcile(FALSE)
          /\ \/ Reconcile(TRUE)
             \/ \E t \in Teacher, override \in BOOLEAN : Assign(l, t, override)]_vars

(* A lesson that was given or missed keeps its record, whatever happens to  *)
(* the attendance, the timetable or the lesson afterwards.                  *)
HistoryIsFinal ==
    [][\A l \in Lesson : row[l].status \in History =>
          /\ row'[l].status = row[l].status
          /\ row'[l].substitute = row[l].substitute]_row

(* An acknowledgement is that of the substitute the row names.              *)
AcknowledgedInPerson ==
    [][\A l \in Lesson : row[l].acknowledged /\ row'[l].acknowledged =>
          row'[l].substitute = row[l].substitute]_row

(* No cover stays open for the rest of the day once its lesson is over: the *)
(* worker completes it, reports it missed or cancels it with the lesson,    *)
(* whatever happens to lessons and attendance meanwhile, unless midnight    *)
(* comes before a pass succeeds.                                            *)
EndedIsClosed ==
    \A l \in Lesson :
        (row[l].status \in Open /\ Ended(l)) ~> (row[l].status \notin Open \/ now = EndOfDay)

----------------------------------------------------------------------------
(* What the documentation says and the code does not keep *)

(* docs/school-operations.md: coordinated bookings with overlap prevention  *)
(* enforced.  A lesson given back to its teacher is booked when its row     *)
(* comes, after a cover by the same teacher may have been held.             *)
NobodyTwice ==
    \A l, m \in active :
        /\ InForce(l)
        /\ m \notin Targets /\ ~Covered(m) /\ ~Ended(m)
        /\ Regular[m] = row[l].substitute
        => ~Overlap(l, m)
ReconciledNobodyTwice == reconciled => NobodyTwice
=============================================================================
