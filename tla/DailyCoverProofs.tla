--------------------------- MODULE DailyCoverProofs ---------------------------
(***************************************************************************)
(* Proofs about DailyCover, for any teachers, lessons, duties and times.    *)
(*                                                                          *)
(* TypeOK is inductive: its last part, that a row which names a cover names *)
(* somebody other than the teacher of the lesson, is what the steps need.   *)
(* The action properties follow from it step by step; HistoryIsFinal also    *)
(* needs that history is written after the lesson only.  Reconcile is       *)
(* unfolded once, in Reconciling, into what a pass makes of each row; the   *)
(* order of the rows and the plan appear in the proofs of the two           *)
(* properties about them only.                                              *)
(***************************************************************************)
EXTENDS DailyCover, TLAPS

(* A status is only ever moved by the first loop of reconcile() as NewStatus *)
(* says: a row in force or waiting is closed or left, and a closed row left.*)
LEMMA NewStatusFacts ==
    ASSUME TypeOK, NEW l \in Lesson
    PROVE  /\ NewStatus(l) \in {row[l].status, "COMPLETED", "MISSED", "CANCELLED"}
           /\ NewStatus(l) = "COMPLETED" => row[l].status \in {"APPROVED", "COMPLETED"}
           /\ row[l].status \notin Open => NewStatus(l) = row[l].status
           /\ NewStatus(l) \in Open => NewStatus(l) = row[l].status
<1>1. CASE l \in Completed
  <2>1. NewStatus(l) = "COMPLETED" /\ row[l].status = "APPROVED"
    BY <1>1 DEF NewStatus, Completed
  <2> QED BY <2>1 DEF Open, Waiting
<1>2. CASE l \notin Completed /\ l \in Missed
  <2>1. NewStatus(l) = "MISSED" /\ row[l].status \in Waiting
    BY <1>2 DEF NewStatus, Missed
  <2> QED BY <2>1 DEF Open, Waiting
<1>3. CASE l \notin Completed /\ l \notin Missed /\ (l \in Dropped \/ l \in Returned)
  <2>1. NewStatus(l) = "CANCELLED" /\ row[l].status \in Open
    BY <1>3 DEF NewStatus, Dropped, Returned
  <2> QED BY <2>1 DEF Open, Waiting
<1>4. CASE l \notin Completed /\ l \notin Missed /\ l \notin Dropped /\ l \notin Returned
  <2>1. NewStatus(l) = row[l].status
    BY <1>4 DEF NewStatus
  <2>2. row[l].status # "COMPLETED" \/ row[l].status \in {"APPROVED", "COMPLETED"}
    OBVIOUS
  <2> QED BY <2>1, <2>2
<1> QED BY <1>1, <1>2, <1>3, <1>4

(* What a pass of reconcile() makes of every row: planned anew with a        *)
(* substitute who fits or with nobody, or moved by the first loop, which     *)
(* leaves a needed cover in force only if its substitute fits.              *)
LEMMA Reconciling ==
    ASSUME TypeOK, NEW regenerate \in BOOLEAN, Reconcile(regenerate)
    PROVE  \A l \in Lesson :
             \/ /\ l \in Targets
                /\ ~Ended(l)
                /\ regenerate \/ ~CancelledByHand(l)
                /\ \E t \in Teacher \cup {NoOne} :
                      row'[l] = Saved(t) /\ (t # NoOne => Fit(l, t))
             \/ /\ row'[l] = [row[l] EXCEPT !.status = NewStatus(l)]
                /\ l \in Holdable => Fit(l, row[l].substitute)
<1>1. PICK held \in SUBSET Holdable, o \in Orders :
      /\ IsHeld(held, o)
      /\ \E plan \in [Pending(held, regenerate) -> Teacher \cup {NoOne}] :
            /\ IsPlan(plan, Bookings \cup AllAdded(Lesson, held))
            /\ row' = [l \in Lesson |->
                          IF l \in DOMAIN plan THEN Saved(plan[l])
                          ELSE [row[l] EXCEPT !.status = NewStatus(l)]]
  BY DEF Reconcile
<1>2. PICK plan \in [Pending(held, regenerate) -> Teacher \cup {NoOne}] :
            /\ IsPlan(plan, Bookings \cup AllAdded(Lesson, held))
            /\ row' = [l \in Lesson |->
                          IF l \in DOMAIN plan THEN Saved(plan[l])
                          ELSE [row[l] EXCEPT !.status = NewStatus(l)]]
  BY <1>1
<1> TAKE l \in Lesson
<1>3. CASE l \in DOMAIN plan
  <2>1. l \in Pending(held, regenerate)
    BY <1>3
  <2>2. l \in Targets /\ ~Ended(l) /\ (regenerate \/ ~CancelledByHand(l))
    BY <2>1 DEF Pending
  <2>3. plan[l] \in Teacher \cup {NoOne}
    BY <2>1
  <2>4. row'[l] = Saved(plan[l])
    BY <1>2, <1>3
  <2>5. plan[l] # NoOne => Fit(l, plan[l])
    BY <1>2, <1>3 DEF IsPlan, Candidate
  <2> QED BY <2>2, <2>3, <2>4, <2>5
<1>4. CASE l \notin DOMAIN plan
  <2>1. row'[l] = [row[l] EXCEPT !.status = NewStatus(l)]
    BY <1>2, <1>4
  <2>2. ASSUME l \in Holdable PROVE Fit(l, row[l].substitute)
    <3>1. l \in held
      BY <1>4, <2>2 DEF Holdable, Pending, CancelledByHand
    <3> QED BY <1>1, <2>2, <3>1 DEF IsHeld, Holds, Candidate
  <2> QED BY <2>1, <2>2
<1> QED BY <1>3, <1>4

LEMMA SavedIsRow ==
    ASSUME NEW t \in Teacher \cup {NoOne}, autoAssign \in BOOLEAN
    PROVE  /\ Saved(t) \in Row
           /\ Saved(t).substitute = t
           /\ Saved(t).status \in Open
           /\ Saved(t).acknowledged = FALSE
           /\ Saved(t).status # "UNCOVERED" => t # NoOne
BY DEF Saved, Row, Open, Waiting

(* The rows stay rows, and a named cover is never the teacher of the lesson. *)
RowsOK ==
    /\ row \in [Lesson -> Row]
    /\ \A l \in Lesson : row[l].status \in {"PROPOSED", "APPROVED", "COMPLETED"} =>
          row[l].substitute \in Teacher \ {Regular[l]}

LEMMA ReconcileRows ==
    ASSUME TypeOK, NEW regenerate \in BOOLEAN, Reconcile(regenerate)
    PROVE  RowsOK'
<1>1. row' \in [Lesson -> Row]
  <2>1. \A l \in Lesson : row'[l] \in Row
    <3> TAKE l \in Lesson
    <3>1. CASE \E t \in Teacher \cup {NoOne} : row'[l] = Saved(t)
      BY <3>1, SavedIsRow DEF TypeOK
    <3>2. CASE row'[l] = [row[l] EXCEPT !.status = NewStatus(l)]
      <4>1. row[l] \in Row
        BY DEF TypeOK
      <4>2. NewStatus(l) \in {row[l].status, "COMPLETED", "MISSED", "CANCELLED"}
        BY NewStatusFacts
      <4> QED BY <3>2, <4>1, <4>2 DEF Row, History
    <3> QED BY <3>1, <3>2, Reconciling
  <2>2. row' = [l \in Lesson |-> row'[l]]
    BY DEF Reconcile
  <2> QED BY <2>1, <2>2
<1>2. ASSUME NEW l \in Lesson, row'[l].status \in {"PROPOSED", "APPROVED", "COMPLETED"}
      PROVE  row'[l].substitute \in Teacher \ {Regular[l]}
  <2>1. CASE \E t \in Teacher \cup {NoOne} : row'[l] = Saved(t) /\ (t # NoOne => Fit(l, t))
    <3>1. PICK t \in Teacher \cup {NoOne} : row'[l] = Saved(t) /\ (t # NoOne => Fit(l, t))
      BY <2>1
    <3>2. t # NoOne /\ row'[l].substitute = t
      BY <3>1, <1>2, SavedIsRow DEF TypeOK
    <3> QED BY <3>1, <3>2 DEF Fit
  <2>2. CASE row'[l] = [row[l] EXCEPT !.status = NewStatus(l)]
    <3>1. row[l] \in Row
      BY DEF TypeOK
    <3>2. row'[l].status = NewStatus(l) /\ row'[l].substitute = row[l].substitute
      BY <2>2, <3>1 DEF Row
    <3>3. row[l].status \in {"PROPOSED", "APPROVED", "COMPLETED"}
      BY <3>2, <1>2, NewStatusFacts DEF Open, Waiting
    <3> QED BY <3>2, <3>3 DEF TypeOK
  <2> QED BY <2>1, <2>2, Reconciling
<1> QED BY <1>1, <1>2 DEF RowsOK

LEMMA CoordinateRows ==
    ASSUME TypeOK, NEW l \in Lesson, Coordinate(l)
    PROVE  RowsOK'
<1>1. ASSUME NEW t \in Teacher, NEW override \in BOOLEAN, Assign(l, t, override)
      PROVE  RowsOK'
  <2>1. Assigned(l, t, override) \in Row /\ Assigned(l, t, override).substitute = t
    BY DEF Assigned, Row, Open
  <2>2. t # Regular[l]
    BY <1>1 DEF Assign, Candidate, Fit
  <2>3. row' = [row EXCEPT ![l] = Assigned(l, t, override)]
    BY <1>1 DEF Assign
  <2> QED BY <2>1, <2>2, <2>3 DEF RowsOK, TypeOK
<1>2. ASSUME NEW r \in Row, row' = [row EXCEPT ![l] = r],
             r.status \in {"PROPOSED", "APPROVED", "COMPLETED"}
               => r.substitute \in Teacher \ {Regular[l]}
      PROVE  RowsOK'
  <2>1. row' \in [Lesson -> Row]
    BY <1>2 DEF TypeOK
  <2>2. ASSUME NEW m \in Lesson, row'[m].status \in {"PROPOSED", "APPROVED", "COMPLETED"}
        PROVE  row'[m].substitute \in Teacher \ {Regular[m]}
    <3>1. CASE m = l
      BY <1>2, <2>2, <3>1 DEF TypeOK
    <3>2. CASE m # l
      BY <1>2, <2>2, <3>2 DEF TypeOK
    <3> QED BY <3>1, <3>2
  <2> QED BY <2>1, <2>2 DEF RowsOK
<1>3. row[l] \in Row
  BY DEF TypeOK
<1>4. CASE Cancel(l)
  <2> DEFINE r == [row[l] EXCEPT !.status = "CANCELLED", !.source = "MANUAL_CANCEL"]
  <2>1. row' = [row EXCEPT ![l] = r]
    BY <1>3, <1>4 DEF Cancel, TypeOK, Row
  <2>2. r \in Row /\ r.status = "CANCELLED"
    BY <1>3 DEF Row
  <2> HIDE DEF r
  <2> QED BY <1>2, <2>1, <2>2
<1>5. CASE Acknowledge(l)
  <2> DEFINE r == [row[l] EXCEPT !.acknowledged = TRUE]
  <2>1. row' = [row EXCEPT ![l] = r]
    BY <1>3, <1>5 DEF Acknowledge, TypeOK, Row
  <2>2. r \in Row /\ r.status = row[l].status /\ r.substitute = row[l].substitute
    BY <1>3 DEF Row
  <2> HIDE DEF r
  <2>3. r.status \in {"PROPOSED", "APPROVED", "COMPLETED"}
          => r.substitute \in Teacher \ {Regular[l]}
    BY <2>2 DEF TypeOK
  <2> QED BY <1>2, <2>1, <2>2, <2>3
<1> QED BY <1>1, <1>4, <1>5 DEF Coordinate

(* What the steps do to the day itself is well formed, whatever the rows.    *)
LEMMA ContextTyped ==
    ASSUME TypeOK, ChangeContext
    PROVE  TypeOK'
<1>1. row' = row /\ now' = now /\ reconciled' = FALSE
  BY DEF ChangeContext, Change, Mark, DecideLeave, DropLesson, RestoreLesson, AddDuty,
         CancelDuty, SavePolicy
<1>2. changes' \in Nat
  BY DEF TypeOK, ChangeContext, Change, Mark, DecideLeave, DropLesson, RestoreLesson,
         AddDuty, CancelDuty, SavePolicy
<1>3. ASSUME NEW ts \in SUBSET Teacher, NEW records \in [ts -> Attendance], Mark(records)
      PROVE  TypeOK'
  <2>1. attendance' \in [Teacher -> AttendanceRecord]
    BY <1>3, CoverAssumption DEF Mark, TypeOK
  <2> QED BY <1>1, <1>2, <1>3, <2>1 DEF TypeOK, Mark
<1>4. ASSUME NEW t \in Teacher, NEW interval \in Away, DecideLeave(t, interval)
      PROVE  TypeOK'
  <2>1. away' \in [Teacher -> Interval]
    BY <1>4, CoverAssumption DEF DecideLeave, TypeOK
  <2> QED BY <1>1, <1>2, <1>4, <2>1 DEF TypeOK, DecideLeave
<1>5. ASSUME NEW l \in Lesson, DropLesson(l) \/ RestoreLesson(l)
      PROVE  TypeOK'
  BY <1>1, <1>2, <1>5 DEF TypeOK, DropLesson, RestoreLesson
<1>6. ASSUME NEW d \in Duty, AddDuty(d) \/ CancelDuty(d)
      PROVE  TypeOK'
  BY <1>1, <1>2, <1>6 DEF TypeOK, AddDuty, CancelDuty
<1>7. CASE SavePolicy
  BY <1>1, <1>2, <1>7 DEF TypeOK, SavePolicy
<1> QED BY <1>3, <1>4, <1>5, <1>6, <1>7 DEF ChangeContext

(* Attendance, rows, lessons and duties stay well formed, and no lesson is   *)
(* ever covered by its own teacher.                                         *)
THEOREM TypeCorrect == Spec => []TypeOK
<1>1. Init => TypeOK
  <2> SUFFICES ASSUME Init PROVE TypeOK
    OBVIOUS
  <2>1. attendance \in [Teacher -> AttendanceRecord] /\ away \in [Teacher -> Interval]
    BY CoverAssumption DEF Init, Time, NotMarked, AttendanceRecord, NotAway, Interval, Never
  <2>2. NoRow \in Row /\ NoRow.status = "NONE"
    BY DEF NoRow, Row
  <2>3. row \in [Lesson -> Row] /\ \A l \in Lesson : row[l].status = "NONE"
    BY <2>2 DEF Init
  <2>4. now \in Time /\ active \in SUBSET Lesson /\ duties \in SUBSET Duty /\ changes \in Nat
    BY CoverAssumption DEF Init, Time
  <2>5. autoAssign \in BOOLEAN /\ reconciled \in BOOLEAN
    BY DEF Init
  <2> QED BY <2>1, <2>3, <2>4, <2>5 DEF TypeOK
<1>2. TypeOK /\ [Next]_vars => TypeOK'
  <2> SUFFICES ASSUME TypeOK, [Next]_vars PROVE TypeOK'
    OBVIOUS
  <2>1. ASSUME NEW regenerate \in BOOLEAN, Reconcile(regenerate) PROVE TypeOK'
    <3>1. RowsOK'
      BY <2>1, ReconcileRows
    <3>2. UNCHANGED <<now, contextVars, changes>>
      BY <2>1 DEF Reconcile
    <3>3. reconciled' \in BOOLEAN
      BY <2>1 DEF Reconcile
    <3> QED BY <3>1, <3>2, <3>3 DEF TypeOK, RowsOK, contextVars
  <2>2. ASSUME NEW l \in Lesson, Coordinate(l) PROVE TypeOK'
    <3>1. RowsOK'
      BY <2>2, CoordinateRows
    <3>2. UNCHANGED <<now, contextVars, changes>>
      BY <2>2 DEF Coordinate, Assign, Cancel, Acknowledge
    <3>3. reconciled' \in BOOLEAN
      BY <2>2 DEF Coordinate, Assign, Cancel, Acknowledge
    <3> QED BY <3>1, <3>2, <3>3 DEF TypeOK, RowsOK, contextVars
  <2>3. CASE ChangeContext
    BY <2>3, ContextTyped
  <2>4. CASE Tick
    <3>1. now' \in Time
      BY <2>4, CoverAssumption DEF Tick, TypeOK, Time
    <3>2. UNCHANGED <<contextVars, row, changes>>
      BY <2>4 DEF Tick
    <3>3. reconciled' \in BOOLEAN
      BY <2>4 DEF Tick
    <3> QED BY <3>1, <3>2, <3>3 DEF TypeOK, contextVars
  <2>5. CASE UNCHANGED vars
    BY <2>5 DEF vars, contextVars, TypeOK
  <2> QED BY <2>1, <2>2, <2>3, <2>4, <2>5 DEF Next
<1> QED BY <1>1, <1>2, PTL DEF Spec

(* A record of a lesson given or missed is made after the lesson. *)
HistoryEnded == \A l \in Lesson : row[l].status \in History => Ended(l)

(* The clock only goes forward, and the day keeps its timetable. *)
LEMMA StaysEnded ==
    ASSUME TypeOK, [Next]_vars, NEW l \in Lesson, Ended(l)
    PROVE  Ended(l)'
<1>1. now \in Int /\ End[l] \in Int
  BY CoverAssumption DEF TypeOK, Time
<1>2. now' = now \/ now' = now + 1
  BY DEF Next, Reconcile, Coordinate, Assign, Cancel, Acknowledge, ChangeContext, Change, Mark,
         DecideLeave, DropLesson, RestoreLesson, AddDuty, CancelDuty, SavePolicy, Tick, vars
<1> QED BY <1>1, <1>2 DEF Ended

(* What each step makes of the row of one lesson.                           *)
LEMMA RowStep ==
    ASSUME TypeOK, [Next]_vars, NEW l \in Lesson
    PROVE  \/ row'[l] = row[l]
           \/ \E regenerate \in BOOLEAN : Reconcile(regenerate)
           \/ \E t \in Teacher, override \in BOOLEAN :
                 Assign(l, t, override) /\ row'[l] = Assigned(l, t, override)
           \/ Cancel(l) /\ row'[l].status = "CANCELLED"
           \/ Acknowledge(l) /\ row'[l] = [row[l] EXCEPT !.acknowledged = TRUE]
<1>1. ASSUME NEW m \in Lesson, Coordinate(m), m # l
      PROVE  row'[l] = row[l]
  BY <1>1 DEF Coordinate, Assign, Cancel, Acknowledge, TypeOK
<1>2. ASSUME NEW t \in Teacher, NEW override \in BOOLEAN, Assign(l, t, override)
      PROVE  row'[l] = Assigned(l, t, override)
  BY <1>2 DEF Assign, TypeOK
<1>3. ASSUME Cancel(l)
      PROVE  row'[l].status = "CANCELLED"
  BY <1>3 DEF Cancel, TypeOK, Row
<1>4. ASSUME Acknowledge(l)
      PROVE  row'[l] = [row[l] EXCEPT !.acknowledged = TRUE]
  BY <1>4 DEF Acknowledge, TypeOK, Row
<1>5. CASE ChangeContext \/ Tick \/ UNCHANGED vars
  BY <1>5 DEF ChangeContext, Change, Mark, DecideLeave, DropLesson, RestoreLesson, AddDuty,
              CancelDuty, SavePolicy, Tick, vars
<1> QED BY <1>1, <1>2, <1>3, <1>4, <1>5 DEF Next, Coordinate

(* History is written after the lesson only, by reconcile() and the planner  *)
(* and coordinators leave ended lessons alone.                              *)
LEMMA HistoryStep ==
    ASSUME TypeOK, HistoryEnded, [Next]_vars, NEW l \in Lesson
    PROVE  /\ row'[l].status \in History => Ended(l)'
           /\ row[l].status \in History =>
                 /\ row'[l].status = row[l].status
                 /\ row'[l].substitute = row[l].substitute
<1>0. row[l] \in Row
  BY DEF TypeOK
<1>1. ASSUME NEW regenerate \in BOOLEAN, Reconcile(regenerate)
      PROVE  /\ row'[l].status \in History => Ended(l)
             /\ row[l].status \in History =>
                   /\ row'[l].status = row[l].status
                   /\ row'[l].substitute = row[l].substitute
  <2>1. CASE \E t \in Teacher \cup {NoOne} : row'[l] = Saved(t) /\ ~Ended(l)
    BY <2>1, SavedIsRow DEF HistoryEnded, TypeOK, Open, Waiting, History
  <2>2. CASE row'[l] = [row[l] EXCEPT !.status = NewStatus(l)]
    <3>1. row'[l].status = NewStatus(l) /\ row'[l].substitute = row[l].substitute
      BY <2>2, <1>0 DEF Row
    <3>2. NewStatus(l) \in History => row[l].status \in History \/ Ended(l)
      BY DEF NewStatus, Completed, Missed, History
    <3>3. row[l].status \in History => NewStatus(l) = row[l].status
      BY NewStatusFacts DEF History, Open, Waiting
    <3> QED BY <3>1, <3>2, <3>3 DEF HistoryEnded
  <2> QED BY <1>1, <2>1, <2>2, Reconciling
<1>2. ASSUME NEW t \in Teacher, NEW override \in BOOLEAN, Assign(l, t, override),
             row'[l] = Assigned(l, t, override)
      PROVE  row'[l].status \notin History /\ row[l].status \notin History
  BY <1>2 DEF Assign, Assigned, History, HistoryEnded
<1>3. ASSUME Cancel(l), row'[l].status = "CANCELLED"
      PROVE  row'[l].status \notin History /\ row[l].status \notin History
  BY <1>3 DEF Cancel, History, Open, Waiting
<1>4. ASSUME row'[l] = [row[l] EXCEPT !.acknowledged = TRUE]
      PROVE  row'[l].status = row[l].status /\ row'[l].substitute = row[l].substitute
  BY <1>4, <1>0 DEF Row
<1> QED BY <1>1, <1>2, <1>3, <1>4, RowStep, StaysEnded DEF HistoryEnded

(* A lesson that was given or missed keeps its record.                       *)
THEOREM HistoryKept == Spec => HistoryIsFinal
<1>1. Init => HistoryEnded
  BY DEF Init, HistoryEnded, NoRow, History
<1>2. TypeOK /\ HistoryEnded /\ [Next]_vars => HistoryEnded'
  BY HistoryStep DEF HistoryEnded
<1>3. TypeOK /\ HistoryEnded /\ [Next]_vars =>
        [\A l \in Lesson : row[l].status \in History =>
            /\ row'[l].status = row[l].status
            /\ row'[l].substitute = row[l].substitute]_row
  BY HistoryStep
<1> QED BY <1>1, <1>2, <1>3, TypeCorrect, PTL DEF Spec, HistoryIsFinal

(* What a coordinator cancelled stays cancelled until a coordinator acts.    *)
THEOREM CancellationsStay == Spec => CancellationStays
<1>1. ASSUME TypeOK, [Next]_vars, NEW l \in Lesson, CancelledByHand(l), ~CancelledByHand(l)'
      PROVE  /\ ~Reconcile(FALSE)
             /\ \/ Reconcile(TRUE)
                \/ \E t \in Teacher, override \in BOOLEAN : Assign(l, t, override)
  <2>0. row[l] \in Row /\ row[l].status = "CANCELLED"
    BY <1>1 DEF TypeOK, CancelledByHand
  <2>1. row'[l] # row[l]
    BY <1>1 DEF CancelledByHand
  <2>2. ~Cancel(l) /\ ~Acknowledge(l)
    BY <2>0 DEF Cancel, Acknowledge, Covered, Open, Waiting
  <2>3. ~Reconcile(FALSE)
    <3> SUFFICES ASSUME Reconcile(FALSE) PROVE FALSE
      OBVIOUS
    <3>1. row'[l] = [row[l] EXCEPT !.status = NewStatus(l)]
      BY <1>1, Reconciling
    <3>2. NewStatus(l) = "CANCELLED"
      BY <1>1, <2>0, NewStatusFacts DEF Open, Waiting
    <3> QED BY <1>1, <2>0, <3>1, <3>2 DEF CancelledByHand, Row
  <2> QED BY <1>1, <2>1, <2>2, <2>3, RowStep
<1>2. TypeOK /\ [Next]_vars =>
        [\A l \in Lesson : CancelledByHand(l) /\ ~CancelledByHand(l)' =>
            /\ ~Reconcile(FALSE)
            /\ \/ Reconcile(TRUE)
               \/ \E t \in Teacher, override \in BOOLEAN : Assign(l, t, override)]_vars
  BY <1>1
<1> QED BY <1>2, TypeCorrect, PTL DEF Spec, CancellationStays

(* An acknowledgement is that of the substitute the row names.              *)
THEOREM AcknowledgementsInPerson == Spec => AcknowledgedInPerson
<1>1. ASSUME TypeOK, [Next]_vars, NEW l \in Lesson, row[l].acknowledged, row'[l].acknowledged
      PROVE  row'[l].substitute = row[l].substitute
  <2>0. row[l] \in Row
    BY <1>1 DEF TypeOK
  <2>1. ASSUME NEW regenerate \in BOOLEAN, Reconcile(regenerate)
        PROVE  row'[l].substitute = row[l].substitute
    <3>1. \A t \in Teacher \cup {NoOne} : row'[l] # Saved(t)
      BY <1>1 DEF Saved
    <3>2. row'[l] = [row[l] EXCEPT !.status = NewStatus(l)]
      BY <1>1, <2>1, <3>1, Reconciling
    <3> QED BY <2>0, <3>2 DEF Row
  <2>2. \A t \in Teacher, override \in BOOLEAN : row'[l] # Assigned(l, t, override)
    BY <1>1 DEF Assigned
  <2>3. CASE Cancel(l)
    <3>1. row'[l] = [row[l] EXCEPT !.status = "CANCELLED", !.source = "MANUAL_CANCEL"]
      BY <1>1, <2>0, <2>3 DEF Cancel, TypeOK
    <3> QED BY <2>0, <3>1 DEF Row
  <2>4. CASE row'[l] = [row[l] EXCEPT !.acknowledged = TRUE]
    BY <2>0, <2>4 DEF Row
  <2> QED BY <1>1, <2>1, <2>2, <2>3, <2>4, RowStep
<1>2. TypeOK /\ [Next]_vars =>
        [\A l \in Lesson : row[l].acknowledged /\ row'[l].acknowledged =>
            row'[l].substitute = row[l].substitute]_row
  BY <1>1
<1> QED BY <1>2, TypeCorrect, PTL DEF Spec, AcknowledgedInPerson

(* Only a pass is followed by a state in which a pass was the last thing.   *)
LEMMA LastStep ==
    ASSUME [Next]_vars, reconciled'
    PROVE  UNCHANGED vars \/ \E regenerate \in BOOLEAN : Reconcile(regenerate)
BY DEF Next, Coordinate, Assign, Cancel, Acknowledge, ChangeContext, Change, Mark, DecideLeave,
       DropLesson, RestoreLesson, AddDuty, CancelDuty, SavePolicy, Tick

(* After a reconcile every needed cover is with someone who is there.        *)
THEOREM CoversStayFit == Spec => []ReconciledCoversFit
<1>1. ASSUME TypeOK, NEW regenerate \in BOOLEAN, Reconcile(regenerate)
      PROVE  CoversFit'
  <2>0. now' = now /\ attendance' = attendance /\ away' = away /\ active' = active
    BY <1>1 DEF Reconcile, contextVars
  <2>1. Targets' = Targets
    BY <2>0 DEF Targets, OnLeave, Unavailable, Start
  <2> SUFFICES ASSUME NEW l \in Targets, InForce(l)'
               PROVE  Fit(l, row'[l].substitute)
    BY <2>0, <2>1 DEF CoversFit, Fit, OnLeave, Unavailable, Start
  <2>2. l \in Lesson /\ row[l] \in Row /\ row'[l].status = "APPROVED" /\ ~Ended(l)
    BY <1>1, <2>0 DEF InForce, Ended, Targets, TypeOK
  <2>3. CASE \E t \in Teacher \cup {NoOne} : row'[l] = Saved(t) /\ (t # NoOne => Fit(l, t))
    BY <1>1, <2>2, <2>3, SavedIsRow DEF TypeOK
  <2>4. CASE /\ row'[l] = [row[l] EXCEPT !.status = NewStatus(l)]
             /\ l \in Holdable => Fit(l, row[l].substitute)
    <3>1. row'[l].status = NewStatus(l) /\ row'[l].substitute = row[l].substitute
      BY <2>2, <2>4 DEF Row
    <3>2. row[l].status = "APPROVED"
      BY <1>1, <2>2, <3>1, NewStatusFacts DEF Open
    <3> QED BY <2>2, <2>4, <3>1, <3>2 DEF Holdable
  <2> QED BY <1>1, <2>2, <2>3, <2>4, Reconciling
<1>2. Init => ReconciledCoversFit
  BY DEF Init, ReconciledCoversFit
<1>3. TypeOK /\ ReconciledCoversFit /\ [Next]_vars => ReconciledCoversFit'
  <2> SUFFICES ASSUME TypeOK, ReconciledCoversFit, [Next]_vars, reconciled'
               PROVE  CoversFit'
    BY DEF ReconciledCoversFit
  <2>1. CASE UNCHANGED vars
    <3>1. reconciled /\ UNCHANGED <<now, attendance, away, active, row>>
      BY <2>1 DEF vars, contextVars
    <3>2. Targets' = Targets
      BY <3>1 DEF Targets, OnLeave, Unavailable, Start
    <3> QED BY <3>1, <3>2 DEF ReconciledCoversFit, CoversFit, InForce, Ended, Fit, OnLeave,
               Unavailable, Start
  <2> QED BY <1>1, <2>1, LastStep
<1> QED BY <1>2, <1>3, TypeCorrect, PTL DEF Spec

(* A teacher who is a candidate for a lesson beside a booking of theirs that *)
(* has not ended does not have both at once.                                *)
LEMMA CandidateIsFree ==
    ASSUME TypeOK, NEW l \in Lesson, NEW m \in Lesson, NEW t, NEW booked, NEW override,
           Candidate(l, t, booked, override), <<m, t>> \in booked, ~Ended(m)
    PROVE  ~Overlap(l, m) /\ ~Overlap(m, l)
<1>1. <<m, t>> \in Of(t, booked)
  BY DEF Of
<1>2. ~(Begin[m] < End[l] /\ Start(l) < End[m])
  BY <1>1 DEF Candidate
<1>3. now \in Int /\ Begin[l] \in Int /\ End[l] \in Int /\ Begin[m] \in Int /\ End[m] \in Int
  BY CoverAssumption DEF TypeOK, Time
<1> QED BY <1>2, <1>3 DEF Overlap, Start, Ended

(* A needed cover in force after a pass was planned by it, beside everything *)
(* else planned and held, or held, beside what was held before it.          *)
LEMMA CoversBeside ==
    ASSUME TypeOK, NEW regenerate \in BOOLEAN, Reconcile(regenerate),
           NEW l \in Targets, NEW m \in Targets, l # m,
           row'[l].status = "APPROVED", row'[m].status = "APPROVED", ~Ended(l), ~Ended(m),
           row'[l].substitute = row'[m].substitute
    PROVE  ~Overlap(l, m)
<1> DEFINE t == row'[l].substitute
<1>0. l \in Lesson /\ m \in Lesson /\ row[l] \in Row /\ row[m] \in Row /\ active \in SUBSET Lesson
  BY DEF Targets, TypeOK
<1>1. PICK held \in SUBSET Holdable, o \in Orders :
      /\ IsHeld(held, o)
      /\ \E plan \in [Pending(held, regenerate) -> Teacher \cup {NoOne}] :
            /\ IsPlan(plan, Bookings \cup AllAdded(Lesson, held))
            /\ row' = [k \in Lesson |->
                          IF k \in DOMAIN plan THEN Saved(plan[k])
                          ELSE [row[k] EXCEPT !.status = NewStatus(k)]]
  BY DEF Reconcile
<1>2. PICK plan \in [Pending(held, regenerate) -> Teacher \cup {NoOne}] :
            /\ IsPlan(plan, Bookings \cup AllAdded(Lesson, held))
            /\ row' = [k \in Lesson |->
                          IF k \in DOMAIN plan THEN Saved(plan[k])
                          ELSE [row[k] EXCEPT !.status = NewStatus(k)]]
  BY <1>1
<1>3. ASSUME NEW k \in Lesson, k \in DOMAIN plan, row'[k].status = "APPROVED", row'[k].substitute = t
      PROVE  plan[k] = t /\ t # NoOne
  <2> DEFINE s == plan[k]
  <2>1. row'[k] = Saved(s) /\ s \in Teacher \cup {NoOne}
    BY <1>2, <1>3
  <2>2. autoAssign \in BOOLEAN
    BY DEF TypeOK
  <2> HIDE DEF s, t
  <2>3. Saved(s).substitute = s /\ (Saved(s).status # "UNCOVERED" => s # NoOne)
    BY <2>1, <2>2, SavedIsRow
  <2>4. s = t /\ s # NoOne
    BY <1>3, <2>1, <2>3
  <2> QED BY <2>4 DEF s
<1>4. ASSUME NEW k \in Targets, ~Ended(k), k \notin DOMAIN plan, row'[k].status = "APPROVED",
             row'[k].substitute = t
      PROVE  /\ k \in held /\ row[k].substitute = t
             /\ \A ls \in SUBSET Lesson : k \in ls => <<k, t>> \in AllAdded(ls, held)
  <2>1. k \in Lesson /\ row[k] \in Row
    BY <1>0, <1>4 DEF Targets, TypeOK
  <2>2. row'[k].status = NewStatus(k) /\ row'[k].substitute = row[k].substitute
    BY <1>2, <1>4, <2>1 DEF Row
  <2>3. row[k].status = "APPROVED"
    BY <1>4, <2>1, <2>2, NewStatusFacts DEF Open
  <2>4. k \in held
    BY <1>4, <2>3 DEF Pending, CancelledByHand
  <2>5. <<k, t>> \in Added(k, held)
    BY <1>4, <2>2, <2>4 DEF Added
  <2> QED BY <1>4, <2>2, <2>4, <2>5 DEF AllAdded
<1> HIDE DEF t
<1>5. ASSUME NEW k \in Lesson, NEW n \in Lesson, k # n, ~Ended(n),
             k \in DOMAIN plan, plan[k] = t, t # NoOne,
             \/ n \in DOMAIN plan /\ plan[n] = t
             \/ <<n, t>> \in AllAdded(Lesson, held)
      PROVE  ~Overlap(k, n) /\ ~Overlap(n, k)
  <2> DEFINE beside == (Bookings \cup AllAdded(Lesson, held)) \cup Planned(plan, k)
  <2>1. Candidate(k, t, beside, FALSE)
    BY <1>2, <1>5 DEF IsPlan
  <2>2. <<n, t>> \in beside
    BY <1>5 DEF Planned
  <2> HIDE DEF beside
  <2> QED BY <1>5, <2>1, <2>2, CandidateIsFree
<1>6. ASSUME NEW k \in Lesson, NEW n \in Lesson, ~Ended(n), o[n] < o[k],
             k \in held, row[k].substitute = t,
             \A ls \in SUBSET Lesson : n \in ls => <<n, t>> \in AllAdded(ls, held)
      PROVE  ~Overlap(k, n) /\ ~Overlap(n, k)
  <2> DEFINE before == Bookings \cup AllAdded(Earlier(o, k), held)
             override == row[k].source = "MANUAL_WORKLOAD_OVERRIDE"
  <2>1. Candidate(k, t, before, override)
    BY <1>1, <1>6 DEF IsHeld, Holds
  <2>2. n \in Earlier(o, k) /\ Earlier(o, k) \in SUBSET Lesson
    BY <1>6 DEF Earlier
  <2>3. <<n, t>> \in before
    BY <1>6, <2>2
  <2> HIDE DEF before, override
  <2> QED BY <1>6, <2>1, <2>3, CandidateIsFree
<1>7. o[l] < o[m] \/ o[m] < o[l]
  <2>1. o[l] \in 1..Cardinality(Lesson) /\ o[m] \in 1..Cardinality(Lesson) /\ o[l] # o[m]
    BY <1>0 DEF Orders
  <2> QED BY <2>1
<1>8. row'[l].substitute = t /\ row'[m].substitute = t
  BY DEF t
<1>9. CASE l \in DOMAIN plan
  BY <1>0, <1>3, <1>4, <1>5, <1>8, <1>9
<1>10. CASE m \in DOMAIN plan
  BY <1>0, <1>3, <1>4, <1>5, <1>8, <1>10
<1>11. CASE l \notin DOMAIN plan /\ m \notin DOMAIN plan
  BY <1>0, <1>4, <1>6, <1>7, <1>8, <1>11
<1> QED BY <1>9, <1>10, <1>11

(* After a reconcile no substitute has two needed covers at the same time.   *)
THEOREM CoversStayDisjoint == Spec => []ReconciledCoversDisjoint
<1>1. ASSUME TypeOK, NEW regenerate \in BOOLEAN, Reconcile(regenerate)
      PROVE  CoversDisjoint'
  <2>0. now' = now /\ attendance' = attendance /\ away' = away /\ active' = active
    BY <1>1 DEF Reconcile, contextVars
  <2>1. Targets' = Targets
    BY <2>0 DEF Targets, OnLeave, Unavailable, Start
  <2> SUFFICES ASSUME NEW l \in Targets, NEW m \in Targets, InForce(l)', InForce(m)', l # m,
                      row'[l].substitute = row'[m].substitute
               PROVE  ~Overlap(l, m)
    BY <2>1 DEF CoversDisjoint, Overlap
  <2>2. row'[l].status = "APPROVED" /\ row'[m].status = "APPROVED" /\ ~Ended(l) /\ ~Ended(m)
    BY <2>0 DEF InForce, Ended
  <2> QED BY <1>1, <2>2, CoversBeside
<1>2. Init => ReconciledCoversDisjoint
  BY DEF Init, ReconciledCoversDisjoint
<1>3. TypeOK /\ ReconciledCoversDisjoint /\ [Next]_vars => ReconciledCoversDisjoint'
  <2> SUFFICES ASSUME TypeOK, ReconciledCoversDisjoint, [Next]_vars, reconciled'
               PROVE  CoversDisjoint'
    BY DEF ReconciledCoversDisjoint
  <2>1. CASE UNCHANGED vars
    <3>1. reconciled /\ UNCHANGED <<now, attendance, away, active, row>>
      BY <2>1 DEF vars, contextVars
    <3>2. Targets' = Targets
      BY <3>1 DEF Targets, OnLeave, Unavailable, Start
    <3> QED BY <3>1, <3>2 DEF ReconciledCoversDisjoint, CoversDisjoint, InForce, Ended, Overlap
  <2> QED BY <1>1, <2>1, LastStep
<1> QED BY <1>2, <1>3, TypeCorrect, PTL DEF Spec
==============================================================================
