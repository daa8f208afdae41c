--------------------------- MODULE TeachingProofs ---------------------------
(***************************************************************************)
(* What is taught and how it is judged, for any timetables, teachers,      *)
(* plans, exams, pupils, patterns and generations: what is published does  *)
(* not clash, a plan is replanned safely, approvals and comments in        *)
(* published reports stand, and the generated comments keep within their   *)
(* budget.  At the end the parts that the run teaching puts side by side   *)
(* are composed.                                                           *)
(***************************************************************************)
EXTENDS StaffProofs, MCTeaching, SetLemmas

(* The rows of the exams, marks and observations. *)
ExamFormed(e) ==
  exam[e] = [status |-> exam[e].status, revision |-> exam[e].revision, term |-> exam[e].term,
             config |-> exam[e].config, roster |-> exam[e].roster, approved |-> exam[e].approved]
ExamsFormed ==
  /\ exam = [e \in Exam |-> exam[e]] /\ \A e \in Exam : ExamFormed(e)
  /\ marks = [e \in Exam |-> marks[e]]
  /\ observations = [e \in Exam |-> observations[e]]
  /\ approvedAs = [e \in Exam |-> approvedAs[e]]

(* An approval stands only past the draft, and is of what the exam holds. *)
ApprovalStands(e) == exam[e].approved => /\ exam[e].status \in {"APPROVED", "PUBLISHED"}
                                         /\ approvedAs[e] = Contents(e)

AssessmentInv ==
  /\ ExamsFormed
  /\ \A e \in Exam : ApprovalStands(e)
  /\ ApprovedUnchanged /\ CommentOnEvidence

-----------------------------------------------------------------------------
(* A step writes the row of one exam, and what that exam holds only without an approval. *)
Wrote(e, row) ==
  /\ exam' = [exam EXCEPT ![e] = row]
  /\ row = [status |-> row.status, revision |-> row.revision, term |-> row.term,
            config |-> row.config, roster |-> row.roster, approved |-> row.approved]
  /\ marks' = [f \in Exam |-> marks'[f]] /\ observations' = [f \in Exam |-> observations'[f]]
  /\ approvedAs' = [f \in Exam |-> approvedAs'[f]]
  /\ \A f \in Exam \ {e} : marks'[f] = marks[f] /\ observations'[f] = observations[f] /\ approvedAs'[f] = approvedAs[f]

(* The other exams keep their approvals. *)
LEMMA WritingOne ==
  ASSUME AssessmentInv, NEW e \in Exam, NEW row, Wrote(e, row),
         row.approved => row.status \in {"APPROVED", "PUBLISHED"} /\ approvedAs'[e] = Contents(e)'
  PROVE  ExamsFormed' /\ \A f \in Exam : ApprovalStands(f)'
<1>1. exam'[e] = row /\ \A f \in Exam \ {e} : exam'[f] = exam[f]
  BY DEF AssessmentInv, ExamsFormed, Wrote
<1>2. exam' = [f \in Exam |-> exam'[f]]
  BY DEF AssessmentInv, ExamsFormed, Wrote
<1>3. ASSUME NEW f \in Exam PROVE ExamFormed(f)' /\ ApprovalStands(f)'
  <2>1. CASE f = e
    BY <1>1, <2>1 DEF ExamFormed, ApprovalStands, Wrote
  <2>2. CASE f # e
    <3>1. exam'[f] = exam[f] /\ marks'[f] = marks[f] /\ observations'[f] = observations[f] /\ approvedAs'[f] = approvedAs[f]
      BY <1>1, <2>2 DEF Wrote
    <3>2. ExamFormed(f) /\ ApprovalStands(f)
      BY DEF AssessmentInv, ExamsFormed
    <3>3. ExamFormed(f)'
      BY <3>1, <3>2 DEF ExamFormed
    <3> QED
      BY <3>1, <3>2, <3>3 DEF ApprovalStands, Contents
  <2> QED
    BY <2>1, <2>2
<1> QED
  BY <1>2, <1>3 DEF ExamsFormed, Wrote

(* Exams are opened, and changed while they are drafts. *)
LEMMA DraftStep ==
  ASSUME AssessmentInv, NEW e \in Exam,
         \/ \E term \in Term \cup {"ANNUAL"} : StartTerm(e, term) \/ \E config \in PatternConfig : CreateExam(e, term, config)
         \/ \E k \in Pupil : Observe(e, k) \/ \E mark \in Mark \ {"NONE"} : SaveMarks(e, k, mark)
         \/ Schedule(e)
  PROVE  AssessmentInv'
<1>1. UNCHANGED reports
  BY DEF StartTerm, CreateExam, Observe, SaveMarks, Schedule
<1>2. ApprovedUnchanged' /\ CommentOnEvidence'
  BY <1>1 DEF AssessmentInv, ApprovedUnchanged, CommentOnEvidence
<1>3. ExamFormed(e) /\ ApprovalStands(e)
  BY DEF AssessmentInv, ExamsFormed
<1>4. \E row : Wrote(e, row) /\ ~row.approved
  <2>1. ASSUME NEW term, NEW config, CreateExam(e, term, config) PROVE \E row : Wrote(e, row) /\ ~row.approved
    <3> DEFINE row == Opening(config, term, enrolledNow)
    <3>1. /\ row = [status |-> row.status, revision |-> row.revision, term |-> row.term,
                    config |-> row.config, roster |-> row.roster, approved |-> row.approved]
          /\ ~row.approved
      BY DEF Opening
    <3>2. exam' = [exam EXCEPT ![e] = row] /\ UNCHANGED <<marks, observations, approvedAs>>
      BY <2>1 DEF CreateExam
    <3> HIDE DEF row
    <3> QED
      BY <3>1, <3>2 DEF AssessmentInv, ExamsFormed, Wrote
  <2>2. ASSUME exam[e].status = "DRAFT", exam' = [exam EXCEPT ![e].revision = @ + 1],
               marks' = [f \in Exam |-> marks'[f]], observations' = [f \in Exam |-> observations'[f]],
               \A f \in Exam \ {e} : marks'[f] = marks[f] /\ observations'[f] = observations[f],
               UNCHANGED approvedAs
        PROVE  \E row : Wrote(e, row) /\ ~row.approved
    <3> DEFINE row == [exam[e] EXCEPT !.revision = @ + 1]
    <3>1. exam' = [exam EXCEPT ![e] = row]
      BY <2>2
    <3>2. /\ row = [status |-> row.status, revision |-> row.revision, term |-> row.term,
                    config |-> row.config, roster |-> row.roster, approved |-> row.approved]
          /\ row.approved = exam[e].approved
      BY <1>3 DEF ExamFormed
    <3>3. ~exam[e].approved
      BY <1>3, <2>2 DEF ApprovalStands
    <3> HIDE DEF row
    <3> QED
      BY <2>2, <3>1, <3>2, <3>3 DEF AssessmentInv, ExamsFormed, Wrote
  <2>3. ASSUME NEW k \in Pupil, Observe(e, k) PROVE \E row : Wrote(e, row) /\ ~row.approved
    BY <2>2, <2>3 DEF Observe, AssessmentInv, ExamsFormed
  <2>4. ASSUME NEW k \in Pupil, NEW mark, SaveMarks(e, k, mark) PROVE \E row : Wrote(e, row) /\ ~row.approved
    BY <2>2, <2>4 DEF SaveMarks, AssessmentInv, ExamsFormed
  <2>5. ASSUME Schedule(e) PROVE \E row : Wrote(e, row) /\ ~row.approved
    BY <2>2, <2>5 DEF Schedule, AssessmentInv, ExamsFormed
  <2> QED
    BY <2>1, <2>3, <2>4, <2>5 DEF StartTerm
<1>5. PICK row : Wrote(e, row) /\ ~row.approved
  BY <1>4
<1> QED
  BY <1>2, <1>5, WritingOne DEF AssessmentInv

(* A new status keeps what the exam holds. *)
LEMMA Advancing ==
  ASSUME AssessmentInv, NEW e \in Exam, NEW from, NEW row, Advance(e, from, row),
         row = [status |-> row.status, revision |-> row.revision, term |-> row.term,
                config |-> row.config, roster |-> row.roster, approved |-> row.approved],
         row.roster = exam[e].roster,
         approvedAs' = [f \in Exam |-> approvedAs'[f]],
         \A f \in Exam \ {e} : approvedAs'[f] = approvedAs[f],
         row.approved => row.status \in {"APPROVED", "PUBLISHED"} /\ approvedAs'[e] = Contents(e)
  PROVE  ExamsFormed' /\ \A f \in Exam : ApprovalStands(f)'
<1> DEFINE new == [row EXCEPT !.revision = @ + 1]
<1>1. exam' = [exam EXCEPT ![e] = new] /\ UNCHANGED <<marks, observations>>
  BY DEF Advance
<1>2. /\ new = [status |-> new.status, revision |-> new.revision, term |-> new.term,
                config |-> new.config, roster |-> new.roster, approved |-> new.approved]
      /\ new.status = row.status /\ new.roster = exam[e].roster /\ new.approved = row.approved
  OBVIOUS
<1> HIDE DEF new
<1>3. Wrote(e, new)
  BY <1>1, <1>2 DEF AssessmentInv, ExamsFormed, Wrote
<1>4. exam'[e] = new
  BY <1>1 DEF AssessmentInv, ExamsFormed
<1>5. Contents(e)' = Contents(e)
  BY <1>1, <1>2, <1>4 DEF Contents
<1> QED
  BY <1>2, <1>3, <1>5, WritingOne

(* Submission, review, approval and the ways back. *)
LEMMA ChainStep ==
  ASSUME AssessmentInv, NEW e \in Exam,
         Submit(e) \/ Review(e) \/ Approve(e) \/ Return(e) \/ Reopen(e)
  PROVE  AssessmentInv'
<1>1. UNCHANGED reports
  BY DEF Submit, Review, Approve, Return, Reopen
<1>2. ApprovedUnchanged' /\ CommentOnEvidence'
  BY <1>1 DEF AssessmentInv, ApprovedUnchanged, CommentOnEvidence
<1>3. ExamFormed(e) /\ ApprovalStands(e)
  BY DEF AssessmentInv, ExamsFormed
<1>4. ASSUME NEW s PROVE
        LET row == [exam[e] EXCEPT !.status = s]
        IN /\ row = [status |-> row.status, revision |-> row.revision, term |-> row.term,
                     config |-> row.config, roster |-> row.roster, approved |-> row.approved]
           /\ row.status = s /\ row.roster = exam[e].roster /\ row.approved = exam[e].approved
  BY <1>3 DEF ExamFormed
<1>5. /\ Drafted(e) \in [status : {"DRAFT"}, revision : {exam[e].revision}, term : {exam[e].term},
                       config : {exam[e].config}, roster : {exam[e].roster}, approved : {FALSE}]
      /\ [exam[e] EXCEPT !.status = "APPROVED", !.approved = TRUE] \in
            [status : {"APPROVED"}, revision : {exam[e].revision}, term : {exam[e].term},
             config : {exam[e].config}, roster : {exam[e].roster}, approved : {TRUE}]
  <2>1. exam[e] \in [status : {exam[e].status}, revision : {exam[e].revision}, term : {exam[e].term},
                    config : {exam[e].config}, roster : {exam[e].roster}, approved : {exam[e].approved}]
    BY <1>3 DEF ExamFormed
  <2> QED
    BY <2>1 DEF Drafted
<1>6. CASE Submit(e) \/ Review(e)
  <2>1. PICK from \in {"DRAFT", "SUBMITTED"}, s \in ExamStatus : Advance(e, from, [exam[e] EXCEPT !.status = s])
    BY <1>6 DEF Submit, Review, ExamStatus
  <2>2. ~exam[e].approved
    BY <1>3, <2>1 DEF Advance, ApprovalStands
  <2>3. UNCHANGED approvedAs
    BY <1>6 DEF Submit, Review
  <2> DEFINE row == [exam[e] EXCEPT !.status = s]
  <2>4. /\ row = [status |-> row.status, revision |-> row.revision, term |-> row.term,
                  config |-> row.config, roster |-> row.roster, approved |-> row.approved]
        /\ row.roster = exam[e].roster /\ row.approved = exam[e].approved
    BY <1>4
  <2>5. Advance(e, from, row)
    BY <2>1
  <2> HIDE DEF row
  <2>6. ExamsFormed' /\ \A f \in Exam : ApprovalStands(f)'
    BY <2>2, <2>3, <2>4, <2>5, Advancing DEF AssessmentInv, ExamsFormed
  <2> QED
    BY <1>2, <2>6 DEF AssessmentInv
<1>7. CASE Approve(e)
  <2>0. PICK row \in [status : {"APPROVED"}, revision : {exam[e].revision}, term : {exam[e].term},
                    config : {exam[e].config}, roster : {exam[e].roster}, approved : {TRUE}] :
             row = [exam[e] EXCEPT !.status = "APPROVED", !.approved = TRUE]
    BY <1>5
  <2>1. /\ row = [status |-> row.status, revision |-> row.revision, term |-> row.term,
                  config |-> row.config, roster |-> row.roster, approved |-> row.approved]
        /\ row.status = "APPROVED" /\ row.roster = exam[e].roster
    BY <2>0
  <2>2. Advance(e, "REVIEWED", row) /\ approvedAs' = [approvedAs EXCEPT ![e] = Contents(e)]
    BY <1>7, <2>0 DEF Approve
  <2>3. /\ approvedAs' = [f \in Exam |-> approvedAs'[f]] /\ approvedAs'[e] = Contents(e)
        /\ \A f \in Exam \ {e} : approvedAs'[f] = approvedAs[f]
    BY <2>2 DEF AssessmentInv, ExamsFormed
  <2>4. ExamsFormed' /\ \A f \in Exam : ApprovalStands(f)'
    BY <2>1, <2>2, <2>3, Advancing
  <2> QED
    BY <1>2, <2>4 DEF AssessmentInv
<1>8. CASE Return(e) \/ Reopen(e)
  <2>0. PICK row \in [status : {"DRAFT"}, revision : {exam[e].revision}, term : {exam[e].term},
                    config : {exam[e].config}, roster : {exam[e].roster}, approved : {FALSE}] : row = Drafted(e)
    BY <1>5
  <2>1. /\ row = [status |-> row.status, revision |-> row.revision, term |-> row.term,
                  config |-> row.config, roster |-> row.roster, approved |-> row.approved]
        /\ row.roster = exam[e].roster /\ ~row.approved
    BY <2>0
  <2>2. PICK from \in ExamStatus : Advance(e, from, row)
    BY <1>8, <2>0 DEF Return, Reopen, ExamStatus
  <2>3. UNCHANGED approvedAs
    BY <1>8 DEF Return, Reopen
  <2>4. ExamsFormed' /\ \A f \in Exam : ApprovalStands(f)'
    BY <2>1, <2>2, <2>3, Advancing DEF AssessmentInv, ExamsFormed
  <2> QED
    BY <1>2, <2>4 DEF AssessmentInv
<1> QED
  BY <1>6, <1>7, <1>8

(* Publication writes reports of what the exam holds and what was said about it. *)
LEMMA PublishStep ==
  ASSUME AssessmentInv, NEW e \in Exam, PublishReports(e)
  PROVE  AssessmentInv'
<1>1. PICK from \in {"DRAFT", "APPROVED"} : Published(e, from)
  BY DEF PublishReports
<1>2. ExamFormed(e) /\ ApprovalStands(e)
  BY DEF AssessmentInv, ExamsFormed
<1> DEFINE row == [exam[e] EXCEPT !.status = "PUBLISHED"]
<1>3. /\ row = [status |-> row.status, revision |-> row.revision, term |-> row.term,
                config |-> row.config, roster |-> row.roster, approved |-> row.approved]
      /\ row.status = "PUBLISHED" /\ row.roster = exam[e].roster /\ row.approved = exam[e].approved
  BY <1>2 DEF ExamFormed
<1>4. Advance(e, from, row) /\ UNCHANGED approvedAs
  BY <1>1 DEF Published
<1> HIDE DEF row
<1>5. ExamsFormed' /\ \A f \in Exam : ApprovalStands(f)'
  BY <1>2, <1>3, <1>4, Advancing DEF AssessmentInv, ExamsFormed, ApprovalStands
<1>6. ASSUME NEW r \in reports', r \notin reports
      PROVE  (r.approved => r.contents = r.basis) /\ (r.comment # 0 => r.comment = r.observed)
  <2>1. PICK comment \in [exam[e].roster -> 0..MaxObservations] :
          /\ \A k \in exam[e].roster : IF Comments(e, k) = {} THEN comment[k] = 0
                                        ELSE \E g \in Comments(e, k) : comment[k] = generation[g].evidence
          /\ reports' = reports \cup
               {[exam |-> e, pupil |-> k, term |-> exam[e].term, version |-> exam[e].revision + 1,
                 contents |-> Contents(e), observed |-> observations[e][k].first, comment |-> comment[k],
                 approved |-> exam[e].approved, basis |-> approvedAs[e]] : k \in exam[e].roster}
    BY <1>1 DEF Published
  <2>2. PICK k \in exam[e].roster :
          r = [exam |-> e, pupil |-> k, term |-> exam[e].term, version |-> exam[e].revision + 1,
               contents |-> Contents(e), observed |-> observations[e][k].first, comment |-> comment[k],
               approved |-> exam[e].approved, basis |-> approvedAs[e]]
    BY <1>6, <2>1
  <2>3. r.approved => r.contents = r.basis
    BY <1>2, <2>2 DEF ApprovalStands
  <2>4. comment[k] # 0 => comment[k] = observations[e][k].first
    BY <2>1 DEF Comments
  <2> QED
    BY <2>2, <2>3, <2>4
<1>7. ApprovedUnchanged' /\ CommentOnEvidence'
  BY <1>6 DEF AssessmentInv, ApprovedUnchanged, CommentOnEvidence
<1> QED
  BY <1>5, <1>7 DEF AssessmentInv

(* A review of a comment raises the revision of an exam that is a draft. *)
LEMMA ReviewCommentStep ==
  ASSUME AssessmentInv, NEW g \in Generation, ReviewComment(g)
  PROVE  AssessmentInv'
<1>1. PICK e : /\ exam[e].status = "DRAFT" /\ exam' = [exam EXCEPT ![e].revision = @ + 1]
               /\ UNCHANGED <<marks, observations, approvedAs, reports>>
  BY DEF ReviewComment
<1>2. ASSUME NEW f \in Exam
      PROVE  /\ ExamFormed(f)' /\ exam'[f].approved = exam[f].approved
             /\ exam'[f].status = exam[f].status /\ exam'[f].roster = exam[f].roster
  <2>1. ExamFormed(f)
    BY DEF AssessmentInv, ExamsFormed
  <2>2. exam'[f] = exam[f] \/ exam'[f] = [exam[f] EXCEPT !.revision = @ + 1]
    BY <1>1 DEF AssessmentInv, ExamsFormed
  <2> QED
    BY <2>1, <2>2 DEF ExamFormed
<1>3. ExamsFormed'
  BY <1>1, <1>2 DEF AssessmentInv, ExamsFormed
<1>4. ASSUME NEW f \in Exam PROVE ApprovalStands(f)'
  BY <1>1, <1>2 DEF AssessmentInv, ApprovalStands, Contents
<1>5. ApprovedUnchanged' /\ CommentOnEvidence'
  BY <1>1 DEF AssessmentInv, ApprovedUnchanged, CommentOnEvidence
<1> QED
  BY <1>3, <1>4, <1>5 DEF AssessmentInv

(* Patterns, enrolments, policies and generations that nobody has reviewed yet. *)
LEMMA ElsewhereStep ==
  ASSUME AssessmentInv, UNCHANGED examVars
  PROVE  AssessmentInv'
BY DEF AssessmentInv, examVars, ExamsFormed, ExamFormed, ApprovalStands, Contents, ApprovedUnchanged, CommentOnEvidence

-----------------------------------------------------------------------------
(* At first no exam is approved and nothing is reported. *)
LEMMA AssessmentStart == AssessmentInit => AssessmentInv
<1> SUFFICES ASSUME AssessmentInit PROVE AssessmentInv
  OBVIOUS
<1>1. ASSUME NEW e \in Exam PROVE ExamFormed(e) /\ ~exam[e].approved
  BY DEF AssessmentInit, ExamFormed, NoExam, Opening
<1>2. ExamsFormed
  BY <1>1 DEF AssessmentInit, ExamsFormed
<1>3. ApprovedUnchanged /\ CommentOnEvidence
  BY DEF AssessmentInit, ApprovedUnchanged, CommentOnEvidence
<1> QED
  BY <1>1, <1>2, <1>3 DEF AssessmentInv, ApprovalStands

(* Every step keeps the invariant. *)
LEMMA AssessmentStep == AssessmentInv /\ [AssessmentNext]_assessmentVars => AssessmentInv'
<1> SUFFICES ASSUME AssessmentInv, [AssessmentNext]_assessmentVars PROVE AssessmentInv'
  OBVIOUS
<1>1. CASE UNCHANGED assessmentVars
  BY <1>1, ElsewhereStep DEF assessmentVars, examVars
<1>2. CASE \/ \E scope \in DOMAIN patterns, config \in PatternConfig : SavePattern(scope, config)
           \/ \E S \in SUBSET Pupil : Enrol(S)
           \/ \E budget \in AiBudget : SaveAiPolicy(budget)
  BY <1>2, ElsewhereStep DEF SavePattern, Enrol, SaveAiPolicy
<1>3. ASSUME NEW e \in Exam,
             \/ \E term \in Term \cup {"ANNUAL"} : StartTerm(e, term) \/ \E config \in PatternConfig : CreateExam(e, term, config)
             \/ \E k \in Pupil : Observe(e, k) \/ \E mark \in Mark \ {"NONE"} : SaveMarks(e, k, mark)
             \/ Schedule(e) \/ Submit(e) \/ Review(e) \/ Approve(e) \/ Return(e) \/ Reopen(e) \/ PublishReports(e)
      PROVE  AssessmentInv'
  BY <1>3, DraftStep, ChainStep, PublishStep
<1>4. ASSUME NEW g \in Generation,
             \/ \E e \in Exam, k \in Pupil, instructions \in Instructions : ReadEvidence(g, e, k, instructions)
             \/ Reserve(g) \/ Answer(g) \/ ReviewComment(g)
      PROVE  AssessmentInv'
  <2>1. CASE ReviewComment(g)
    BY <2>1, ReviewCommentStep
  <2>2. CASE (\E e \in Exam, k \in Pupil, instructions \in Instructions : ReadEvidence(g, e, k, instructions)) \/ Reserve(g) \/ Answer(g)
    BY <2>2, ElsewhereStep DEF ReadEvidence, Reserve, Answer
  <2> QED
    BY <1>4, <2>1, <2>2
<1> QED
  BY <1>1, <1>2, <1>3, <1>4 DEF AssessmentNext

(* The invariant holds always. *)
LEMMA AssessmentStays == AssessmentSpec => []AssessmentInv
BY AssessmentStart, AssessmentStep, PTL DEF AssessmentSpec

(* AssessmentService.publish: a report that names an approver carries what was approved,   *)
(* however often the exam was returned, reopened, changed and published in between.        *)
THEOREM ApprovalsStand == AssessmentSpec => []ApprovedUnchanged
BY AssessmentStays, PTL DEF AssessmentInv

(* A comment that a report carries is about the observations the report lists.             *)
THEOREM CommentsFit == AssessmentSpec => []CommentOnEvidence
BY AssessmentStays, PTL DEF AssessmentInv

-----------------------------------------------------------------------------
-----------------------------------------------------------------------------
(* The budget of the generated comments.  What is charged is the sum of the charges of the     *)
(* generations; what the provider used is covered by the charges of those it has answered.     *)
Charges == [g \in Generation |-> generation[g].charge]
Concluded == {g \in Generation : generation[g].status \in {"DRAFT", "REVIEWED", "FAILED"}}
GenerationFormed(g) ==
  /\ generation[g] = [status |-> generation[g].status, exam |-> generation[g].exam, pupil |-> generation[g].pupil,
                      evidence |-> generation[g].evidence, revision |-> generation[g].revision,
                      instructions |-> generation[g].instructions, charge |-> generation[g].charge]
  /\ generation[g].charge \in 0..Reserved
  /\ generation[g].status \in {"NONE", "READ"} => generation[g].charge = 0
  /\ generation[g].status = "GENERATING" => generation[g].charge = Reserved
BudgetInv ==
  /\ generation = [g \in Generation |-> generation[g]] /\ \A g \in Generation : GenerationFormed(g)
  /\ aiBudget \in Nat /\ highestBudget \in Nat /\ aiBudget <= highestBudget
  /\ consumed \in Nat /\ consumed <= Total(Charges, Concluded)
  /\ Total(Charges, Generation) <= highestBudget

(* The sum that a reservation is checked against. *)
LEMMA SpentIsTotal ==
  ASSUME \A g \in Generation : generation[g].charge \in Int
  PROVE  Spent = Total(Charges, Generation)
<1> DEFINE Adds(it) == it = [s \in SUBSET Generation |->
             IF s = {} THEN 0 ELSE generation[FirstOf(s)].charge + it[s \ {FirstOf(s)}]]
<1>1. Spent = (CHOOSE it : Adds(it))[Generation]
  BY Zenon DEF Spent, MapThenSumSet, MapThenFoldSet, FirstOf
<1>2. ASSUME NEW it PROVE Adds(it) <=> Summing(Charges, Generation, it)
  <2>1. \A s \in SUBSET Generation : s # {} => generation[FirstOf(s)].charge = Charges[FirstOf(s)]
    BY DEF FirstOf, Charges
  <2>2. [s \in SUBSET Generation |-> IF s = {} THEN 0 ELSE generation[FirstOf(s)].charge + it[s \ {FirstOf(s)}]]
      = [s \in SUBSET Generation |-> IF s = {} THEN 0 ELSE Charges[FirstOf(s)] + it[s \ {FirstOf(s)}]]
    BY <2>1
  <2> QED
    BY <2>2 DEF Summing
<1>3. \A g \in Generation : Charges[g] \in Int
  BY DEF Charges
<1>4. \E it : Adds(it)
  <2>1. \E it : Summing(Charges, Generation, it)
    BY <1>3, BudgetAssumption, SumExists
  <2> QED
    BY <1>2, <2>1
<1>5. PICK it : it = CHOOSE i : Adds(i)
  OBVIOUS
<1>6. Adds(it)
  BY <1>4, <1>5
<1> HIDE DEF Adds
<1>7. it[Generation] = Total(Charges, Generation)
  BY <1>2, <1>3, <1>6, BudgetAssumption, SumUnique
<1> QED
  BY <1>1, <1>5, <1>7

(* The sums are numbers. *)
LEMMA SumsAre ==
  ASSUME BudgetInv
  PROVE  /\ IsFiniteSet(Generation) /\ Concluded \in SUBSET Generation /\ IsFiniteSet(Concluded)
         /\ \A g \in Generation : Charges[g] \in Nat /\ Charges[g] = generation[g].charge
         /\ Total(Charges, Generation) \in Nat /\ Total(Charges, Concluded) \in Nat
         /\ Spent = Total(Charges, Generation)
<1>1. \A g \in Generation : Charges[g] = generation[g].charge /\ Charges[g] \in Nat
  BY BudgetAssumption DEF BudgetInv, GenerationFormed, Charges
<1>2. IsFiniteSet(Generation) /\ Concluded \in SUBSET Generation /\ IsFiniteSet(Concluded)
  <2>1. Concluded \in SUBSET Generation
    BY DEF Concluded
  <2> QED
    BY <2>1, BudgetAssumption, FS_Subset
<1>3. Total(Charges, Generation) \in Nat /\ Total(Charges, Concluded) \in Nat
  BY <1>1, <1>2, TotalNat
<1>4. \A g \in Generation : generation[g].charge \in Int
  BY <1>1
<1> QED
  BY <1>1, <1>2, <1>3, <1>4, SpentIsTotal

(* One generation changes: its charge is all that changes in the sums. *)
LEMMA ChargeOne ==
  ASSUME BudgetInv, NEW g \in Generation, NEW row, generation' = [generation EXCEPT ![g] = row],
         row = [status |-> row.status, exam |-> row.exam, pupil |-> row.pupil, evidence |-> row.evidence,
                revision |-> row.revision, instructions |-> row.instructions, charge |-> row.charge],
         row.charge \in 0..Reserved,
         row.status \in {"NONE", "READ"} => row.charge = 0,
         row.status = "GENERATING" => row.charge = Reserved,
         g \in Concluded => row.status \in {"DRAFT", "REVIEWED", "FAILED"} /\ row.charge = generation[g].charge
  PROVE  /\ generation' = [h \in Generation |-> generation'[h]] /\ \A h \in Generation : GenerationFormed(h)'
         /\ Total(Charges, Generation)' = Total(Charges, Generation) - generation[g].charge + row.charge
         /\ Total(Charges, Concluded)' = Total(Charges, Concluded) +
              (IF g \notin Concluded /\ row.status \in {"DRAFT", "REVIEWED", "FAILED"} THEN row.charge ELSE 0)
<1>1. /\ generation' = [h \in Generation |-> generation'[h]] /\ generation'[g] = row
      /\ \A h \in Generation \ {g} : generation'[h] = generation[h]
  BY DEF BudgetInv
<1>2. \A h \in Generation : GenerationFormed(h)'
  <2> SUFFICES ASSUME NEW h \in Generation PROVE GenerationFormed(h)'
    OBVIOUS
  <2>1. CASE h = g
    BY <1>1, <2>1 DEF GenerationFormed
  <2>2. CASE h # g
    <3>1. generation'[h] = generation[h] /\ GenerationFormed(h)
      BY <1>1, <2>2 DEF BudgetInv
    <3> QED
      BY <3>1 DEF GenerationFormed
  <2> QED
    BY <2>1, <2>2
<1>3. PICK f : f = Charges
  OBVIOUS
<1>4. PICK k : k = Charges'
  OBVIOUS
<1>5. /\ \A h \in Generation : f[h] \in Int /\ k[h] \in Int
      /\ \A h \in Generation \ {g} : f[h] = k[h]
      /\ f[g] = generation[g].charge /\ k[g] = row.charge
  <2>1. row.charge \in Int
    BY BudgetAssumption
  <2> QED
    BY <1>1, <1>3, <1>4, <2>1, SumsAre DEF Charges
<1>6. Total(k, Generation) = Total(f, Generation) - generation[g].charge + row.charge
  BY <1>5, SumsAre, TotalChange
<1>7. PICK S : S = Concluded
  OBVIOUS
<1>8. S \in SUBSET Generation /\ IsFiniteSet(S)
  BY <1>7, SumsAre
<1>9. Concluded' = IF row.status \in {"DRAFT", "REVIEWED", "FAILED"} THEN S \cup {g} ELSE S \ {g}
  BY <1>1, <1>7 DEF Concluded
<1>10. CASE g \in S
  <2>1. Concluded' = S /\ \A h \in S : f[h] = k[h]
    BY <1>5, <1>7, <1>8, <1>9, <1>10
  <2>2. Total(k, S) = Total(f, S)
    BY <2>1, TotalSame
  <2>3. Total(f, S) \in Int
    BY <1>3, <1>7, SumsAre
  <2>4. Total(Charges, Concluded)' = Total(k, S) /\ Total(Charges, Concluded) = Total(f, S)
    BY <1>3, <1>4, <1>7, <2>1
  <2> QED
    BY <1>1, <1>2, <1>3, <1>4, <1>6, <1>7, <1>10, <2>2, <2>3, <2>4
<1>11. CASE g \notin S
  <2>1. Total(k, S) = Total(f, S)
    <3>1. \A h \in S : f[h] = k[h]
      BY <1>5, <1>8, <1>11
    <3> QED
      BY <3>1, TotalSame
  <2>2. Total(k, S \cup {g}) = Total(k, S) + k[g]
    BY <1>5, <1>8, <1>11, TotalAdd
  <2>3. Total(f, S) \in Int
    BY <1>3, <1>7, SumsAre
  <2>4. S \ {g} = S
    BY <1>11
  <2>5. Total(Charges, Concluded) = Total(f, S)
    BY <1>3, <1>7
  <2>6. Total(Charges, Concluded)' = IF row.status \in {"DRAFT", "REVIEWED", "FAILED"} THEN Total(k, S \cup {g}) ELSE Total(k, S)
    BY <1>4, <1>9, <2>4
  <2>7. Total(Charges, Concluded)' = Total(Charges, Concluded) +
          (IF g \notin Concluded /\ row.status \in {"DRAFT", "REVIEWED", "FAILED"} THEN row.charge ELSE 0)
    BY <1>5, <1>7, <1>11, <2>1, <2>2, <2>3, <2>5, <2>6
  <2> QED
    BY <1>1, <1>2, <1>3, <1>4, <1>6, <2>7
<1> QED
  BY <1>10, <1>11

(* Evidence is read, budget reserved, an answer given or reviewed. *)
LEMMA GenerationSteps ==
  ASSUME BudgetInv, NEW g \in Generation,
         \/ \E e \in Exam, k \in Pupil, instructions \in Instructions : ReadEvidence(g, e, k, instructions)
         \/ Reserve(g) \/ Answer(g) \/ ReviewComment(g)
  PROVE  BudgetInv'
<1>1. /\ GenerationFormed(g) /\ aiBudget \in Nat /\ highestBudget \in Nat /\ aiBudget <= highestBudget
      /\ consumed \in Nat /\ consumed <= Total(Charges, Concluded) /\ Total(Charges, Generation) <= highestBudget
      /\ Total(Charges, Concluded) \in Nat /\ Total(Charges, Generation) \in Nat /\ Reserved \in Nat
      /\ Spent = Total(Charges, Generation)
  BY SumsAre, BudgetAssumption DEF BudgetInv
<1>2. UNCHANGED <<aiBudget, highestBudget>>
  BY DEF ReadEvidence, Reserve, Answer, ReviewComment
<1>3. PICK old : old = generation[g]
  OBVIOUS
<1>4. old \in [status : {old.status}, exam : {old.exam}, pupil : {old.pupil}, evidence : {old.evidence},
               revision : {old.revision}, instructions : {old.instructions}, charge : {old.charge}]
  BY <1>1, <1>3 DEF GenerationFormed
<1>5. old.charge \in 0..Reserved /\ old.charge \in Nat
  BY <1>1, <1>3 DEF GenerationFormed
<1>6. g \in Concluded <=> old.status \in {"DRAFT", "REVIEWED", "FAILED"}
  BY <1>3 DEF Concluded
<1>7. ASSUME NEW e \in Exam, NEW k \in Pupil, NEW instructions \in Instructions, ReadEvidence(g, e, k, instructions)
      PROVE  BudgetInv'
  <2>1. PICK row : row = [status |-> "READ", exam |-> e, pupil |-> k, evidence |-> observations[e][k].first,
                          revision |-> exam[e].revision, instructions |-> instructions, charge |-> 0]
    OBVIOUS
  <2>2. generation' = [generation EXCEPT ![g] = row] /\ old.status = "NONE" /\ UNCHANGED consumed
    BY <1>3, <1>7, <2>1 DEF ReadEvidence
  <2>3. /\ row = [status |-> row.status, exam |-> row.exam, pupil |-> row.pupil, evidence |-> row.evidence,
                  revision |-> row.revision, instructions |-> row.instructions, charge |-> row.charge]
        /\ row.status = "READ" /\ row.charge = 0 /\ row.charge \in 0..Reserved
    BY <1>1, <2>1
  <2>4. old.charge = 0
    BY <1>1, <1>3, <2>2 DEF GenerationFormed
  <2>5. /\ generation' = [h \in Generation |-> generation'[h]] /\ \A h \in Generation : GenerationFormed(h)'
        /\ Total(Charges, Generation)' = Total(Charges, Generation) - old.charge + row.charge
        /\ Total(Charges, Concluded)' = Total(Charges, Concluded) + 0
    BY <1>3, <1>6, <2>2, <2>3, ChargeOne
  <2> QED
    BY <1>1, <1>2, <2>2, <2>3, <2>4, <2>5 DEF BudgetInv
<1>8. ASSUME NEW status \in {"GENERATING", "NONE"}, NEW charge \in {0, Reserved},
             generation' = [generation EXCEPT ![g] = [old EXCEPT !.status = status, !.charge = charge]],
             old.status = "READ", UNCHANGED consumed,
             status = "GENERATING" => charge = Reserved /\ Total(Charges, Generation) + Reserved <= aiBudget,
             status = "NONE" => charge = 0
      PROVE  BudgetInv'
  <2>1. [old EXCEPT !.status = status, !.charge = charge]
          \in [status : {status}, exam : {old.exam}, pupil : {old.pupil}, evidence : {old.evidence},
               revision : {old.revision}, instructions : {old.instructions}, charge : {charge}]
    BY <1>4
  <2>2. PICK row \in [status : {status}, exam : {old.exam}, pupil : {old.pupil}, evidence : {old.evidence},
                      revision : {old.revision}, instructions : {old.instructions}, charge : {charge}] :
          row = [old EXCEPT !.status = status, !.charge = charge]
    BY <2>1
  <2>3. /\ row = [status |-> row.status, exam |-> row.exam, pupil |-> row.pupil, evidence |-> row.evidence,
                  revision |-> row.revision, instructions |-> row.instructions, charge |-> row.charge]
        /\ row.status = status /\ row.charge = charge
    BY <2>2
  <2>9. /\ row.charge \in 0..Reserved /\ row.status \notin {"DRAFT", "REVIEWED", "FAILED"}
        /\ row.status \in {"NONE", "READ"} => row.charge = 0
        /\ row.status = "GENERATING" => row.charge = Reserved
    BY <1>1, <1>8, <2>3
  <2>4. generation' = [generation EXCEPT ![g] = row] /\ old.charge = 0
    BY <1>1, <1>3, <1>8, <2>2 DEF GenerationFormed
  <2>5. /\ generation' = [h \in Generation |-> generation'[h]] /\ \A h \in Generation : GenerationFormed(h)'
        /\ Total(Charges, Generation)' = Total(Charges, Generation) - old.charge + row.charge
        /\ Total(Charges, Concluded)' = Total(Charges, Concluded) + 0
    <3>1. g \notin Concluded
      BY <1>6, <1>8
    <3> QED
      BY <1>3, <2>3, <2>4, <2>9, <3>1, ChargeOne
  <2>6. Total(Charges, Generation)' <= highestBudget
    BY <1>1, <1>8, <2>3, <2>4, <2>5
  <2> QED
    BY <1>1, <1>2, <1>8, <2>5, <2>6 DEF BudgetInv
<1>9. CASE Reserve(g)
  <2>1. old.status = "READ" /\ UNCHANGED consumed /\ old.charge = 0
    BY <1>1, <1>3, <1>9 DEF Reserve, GenerationFormed
  <2>2. CASE /\ Spent + Reserved <= aiBudget
             /\ generation' = [generation EXCEPT ![g].status = "GENERATING", ![g].charge = Reserved]
    <3>1. generation' = [generation EXCEPT ![g] = [old EXCEPT !.status = "GENERATING", !.charge = Reserved]]
      BY <1>3, <2>2 DEF BudgetInv
    <3> QED
      BY <1>1, <1>8, <2>1, <2>2, <3>1
  <2>3. CASE generation' = [generation EXCEPT ![g].status = "NONE"]
    <3>1. generation' = [generation EXCEPT ![g] = [old EXCEPT !.status = "NONE"]]
      BY <1>3, <2>3 DEF BudgetInv
    <3>2. [old EXCEPT !.status = "NONE"] = [old EXCEPT !.status = "NONE", !.charge = 0]
      BY <1>4, <2>1
    <3> QED
      BY <1>8, <2>1, <3>1, <3>2
  <2> QED
    BY <1>9, <2>2, <2>3 DEF Reserve
<1>10. ASSUME NEW used \in 1..Reserved, NEW charge \in 0..Reserved, NEW status \in {"DRAFT", "FAILED"},
              used <= charge, consumed' = consumed + used, old.status = "GENERATING",
              generation' = [generation EXCEPT ![g] = [old EXCEPT !.status = status, !.charge = charge]]
       PROVE  BudgetInv'
  <2>1. [old EXCEPT !.status = status, !.charge = charge]
          \in [status : {status}, exam : {old.exam}, pupil : {old.pupil}, evidence : {old.evidence},
               revision : {old.revision}, instructions : {old.instructions}, charge : {charge}]
    BY <1>4
  <2>2. PICK row \in [status : {status}, exam : {old.exam}, pupil : {old.pupil}, evidence : {old.evidence},
                      revision : {old.revision}, instructions : {old.instructions}, charge : {charge}] :
          row = [old EXCEPT !.status = status, !.charge = charge]
    BY <2>1
  <2>3. /\ row = [status |-> row.status, exam |-> row.exam, pupil |-> row.pupil, evidence |-> row.evidence,
                  revision |-> row.revision, instructions |-> row.instructions, charge |-> row.charge]
        /\ row.status = status /\ row.charge = charge
    BY <2>2
  <2>9. /\ row.charge \in 0..Reserved /\ row.charge \in Nat /\ row.status \in {"DRAFT", "REVIEWED", "FAILED"}
        /\ row.status \notin {"NONE", "READ", "GENERATING"}
    BY <1>1, <1>10, <2>3
  <2>4. generation' = [generation EXCEPT ![g] = row] /\ old.charge = Reserved
    BY <1>1, <1>3, <1>10, <2>2 DEF GenerationFormed
  <2>5. /\ generation' = [h \in Generation |-> generation'[h]] /\ \A h \in Generation : GenerationFormed(h)'
        /\ Total(Charges, Generation)' = Total(Charges, Generation) - old.charge + row.charge
        /\ Total(Charges, Concluded)' = Total(Charges, Concluded) + row.charge
    <3>1. g \notin Concluded
      BY <1>6, <1>10
    <3> QED
      BY <1>3, <2>3, <2>4, <2>9, <3>1, ChargeOne
  <2>6. used \in Nat /\ used <= row.charge /\ row.charge <= Reserved
    BY <1>1, <1>10, <2>3, <2>9
  <2>7. consumed' \in Nat /\ consumed' <= Total(Charges, Concluded)' /\ Total(Charges, Generation)' <= highestBudget
    BY <1>1, <1>10, <2>3, <2>4, <2>5, <2>6, <2>9
  <2> QED
    BY <1>1, <1>2, <2>5, <2>7 DEF BudgetInv
<1>11. CASE Answer(g)
  <2>1. PICK used \in 1..Reserved :
          /\ consumed' = consumed + used
          /\ \/ generation' = [generation EXCEPT ![g] = Answered(g, used)]
             \/ generation' = [generation EXCEPT ![g] = Failed(g)]
    BY <1>11 DEF Answer
  <2>2. old.status = "GENERATING" /\ old.charge = Reserved
    BY <1>1, <1>3, <1>11 DEF Answer, GenerationFormed
  <2>3. CASE generation' = [generation EXCEPT ![g] = Answered(g, used)]
    <3>1. used \in 0..Reserved /\ used <= used
      BY <1>1
    <3> QED
      BY <1>3, <1>10, <2>1, <2>2, <2>3, <3>1 DEF Answered
  <2>4. CASE generation' = [generation EXCEPT ![g] = Failed(g)]
    <3>1. [old EXCEPT !.status = "FAILED"] = [old EXCEPT !.status = "FAILED", !.charge = Reserved]
      BY <1>4, <2>2
    <3>2. Reserved \in 0..Reserved /\ used <= Reserved
      BY <1>1
    <3>3. generation' = [generation EXCEPT ![g] = [old EXCEPT !.status = "FAILED", !.charge = Reserved]]
      BY <1>3, <2>4, <3>1 DEF Failed
    <3> QED
      BY <1>10, <2>1, <2>2, <3>2, <3>3
  <2> QED
    BY <2>1, <2>3, <2>4
<1>12. CASE ReviewComment(g)
  <2>1. [old EXCEPT !.status = "REVIEWED"]
          \in [status : {"REVIEWED"}, exam : {old.exam}, pupil : {old.pupil}, evidence : {old.evidence},
               revision : {old.revision}, instructions : {old.instructions}, charge : {old.charge}]
    BY <1>4
  <2>2. PICK row \in [status : {"REVIEWED"}, exam : {old.exam}, pupil : {old.pupil}, evidence : {old.evidence},
                      revision : {old.revision}, instructions : {old.instructions}, charge : {old.charge}] : row = [old EXCEPT !.status = "REVIEWED"]
    BY <2>1
  <2>3. /\ row = [status |-> row.status, exam |-> row.exam, pupil |-> row.pupil, evidence |-> row.evidence,
                  revision |-> row.revision, instructions |-> row.instructions, charge |-> row.charge]
        /\ row.status = "REVIEWED" /\ row.charge = old.charge /\ row.charge \in 0..Reserved
    BY <1>5, <2>2
  <2>4. generation' = [generation EXCEPT ![g] = row] /\ UNCHANGED consumed /\ old.status = "DRAFT"
    BY <1>3, <1>12, <2>2 DEF ReviewComment, BudgetInv
  <2>5. /\ generation' = [h \in Generation |-> generation'[h]] /\ \A h \in Generation : GenerationFormed(h)'
        /\ Total(Charges, Generation)' = Total(Charges, Generation) - old.charge + row.charge
        /\ Total(Charges, Concluded)' = Total(Charges, Concluded) + 0
    BY <1>3, <1>6, <2>3, <2>4, ChargeOne
  <2>6. Total(Charges, Generation)' <= highestBudget
    BY <1>1, <1>5, <2>3, <2>5
  <2> QED
    BY <1>1, <1>2, <2>4, <2>5, <2>6 DEF BudgetInv
<1> QED
  BY <1>7, <1>9, <1>11, <1>12

(* A policy, and everything else: a larger budget raises the highest, a smaller one does not lower it. *)
LEMMA BudgetSteps ==
  ASSUME BudgetInv, UNCHANGED aiVars \/ \E budget \in AiBudget : SaveAiPolicy(budget)
  PROVE  BudgetInv'
<1>1. UNCHANGED <<generation, consumed>>
  BY DEF aiVars, SaveAiPolicy
<1>2. aiBudget' \in Nat /\ highestBudget' \in Nat /\ aiBudget' <= highestBudget' /\ highestBudget <= highestBudget'
  <2>1. CASE UNCHANGED aiVars
    BY <2>1 DEF BudgetInv, aiVars
  <2>2. ASSUME NEW budget \in AiBudget, SaveAiPolicy(budget)
        PROVE  aiBudget' \in Nat /\ highestBudget' \in Nat /\ aiBudget' <= highestBudget' /\ highestBudget <= highestBudget'
    <3>1. aiBudget' = budget /\ highestBudget' = Max({highestBudget, budget}) /\ budget \in Nat /\ highestBudget \in Nat
      BY <2>2, BudgetAssumption DEF SaveAiPolicy, BudgetInv
    <3>2. PICK S : S = {highestBudget, budget}
      OBVIOUS
    <3>3. S \in SUBSET Int /\ S # {} /\ highestBudget + budget \in Int /\ \A x \in S : x <= highestBudget + budget
      BY <3>1, <3>2
    <3>4. Max(S) \in S /\ \A y \in S : y <= Max(S)
      BY <3>3, MaxBounded
    <3> QED
      BY <3>1, <3>2, <3>4
  <2> QED
    BY <2>1, <2>2
<1>3. /\ generation' = [g \in Generation |-> generation'[g]] /\ \A g \in Generation : GenerationFormed(g)'
      /\ Charges' = Charges /\ Concluded' = Concluded
  BY <1>1 DEF BudgetInv, GenerationFormed, Charges, Concluded
<1>4. Total(Charges, Generation) <= highestBudget' /\ consumed' \in Nat /\ consumed' <= Total(Charges, Concluded)
  BY <1>1, <1>2, SumsAre DEF BudgetInv
<1> QED
  BY <1>2, <1>3, <1>4 DEF BudgetInv

(* At first nothing is charged; every step keeps the invariant; so it holds always. *)
LEMMA BudgetStart == AssessmentInit => BudgetInv
<1> SUFFICES ASSUME AssessmentInit PROVE BudgetInv
  OBVIOUS
<1>1. /\ aiBudget = FirstBudget /\ highestBudget = FirstBudget /\ consumed = 0 /\ FirstBudget \in Nat /\ Reserved \in Nat
      /\ generation = [g \in Generation |-> [status |-> "NONE", exam |-> CHOOSE e \in Exam : TRUE,
                        pupil |-> CHOOSE k \in Pupil : TRUE, evidence |-> 0, revision |-> 1,
                        instructions |-> CHOOSE i \in Instructions : TRUE, charge |-> 0]]
  BY BudgetAssumption DEF AssessmentInit
<1>2. \A g \in Generation : GenerationFormed(g) /\ Charges[g] = 0
  BY <1>1 DEF GenerationFormed, Charges
<1>3. Concluded = {}
  BY <1>1 DEF Concluded
<1>4. Total(Charges, Generation) = 0
  <2>1. \A g \in Generation : 1..Charges[g] = {} /\ 1..-Charges[g] = {}
    BY <1>2
  <2>2. Units(Charges, Generation) = {} /\ Debts(Charges, Generation) = {}
    BY <2>1 DEF Units, Debts
  <2> QED
    BY <2>2, FS_EmptySet DEF Total
<1>5. Total(Charges, Concluded) = 0
  BY <1>3, TotalNone
<1> QED
  BY <1>1, <1>2, <1>4, <1>5 DEF BudgetInv

LEMMA BudgetStep == BudgetInv /\ [AssessmentNext]_assessmentVars => BudgetInv'
<1> SUFFICES ASSUME BudgetInv, [AssessmentNext]_assessmentVars PROVE BudgetInv'
  OBVIOUS
<1>1. ASSUME NEW g \in Generation,
             \/ \E e \in Exam, k \in Pupil, instructions \in Instructions : ReadEvidence(g, e, k, instructions)
             \/ Reserve(g) \/ Answer(g) \/ ReviewComment(g)
      PROVE  BudgetInv'
  BY <1>1, GenerationSteps
<1>2. ASSUME NEW e \in Exam,
             \/ \E term \in Term \cup {"ANNUAL"} : StartTerm(e, term) \/ \E config \in PatternConfig : CreateExam(e, term, config)
             \/ \E k \in Pupil : Observe(e, k) \/ \E mark \in Mark \ {"NONE"} : SaveMarks(e, k, mark)
             \/ Schedule(e) \/ Submit(e) \/ Review(e) \/ Approve(e) \/ Return(e) \/ Reopen(e) \/ PublishReports(e)
      PROVE  UNCHANGED aiVars
  BY <1>2 DEF StartTerm, CreateExam, Observe, SaveMarks, Schedule, Submit, Review, Approve, Return, Reopen,
              PublishReports, Published, Advance
<1>3. CASE \/ \E scope \in DOMAIN patterns, config \in PatternConfig : SavePattern(scope, config)
           \/ \E S \in SUBSET Pupil : Enrol(S)
           \/ UNCHANGED assessmentVars
  BY <1>3, BudgetSteps DEF SavePattern, Enrol, assessmentVars, aiVars
<1>4. CASE \E budget \in AiBudget : SaveAiPolicy(budget)
  BY <1>4, BudgetSteps
<1> QED
  BY <1>1, <1>2, <1>3, <1>4, BudgetSteps DEF AssessmentNext

LEMMA BudgetStays == AssessmentSpec => []BudgetInv
BY BudgetStart, BudgetStep, PTL DEF AssessmentSpec

(* The charges of the generations still being answered only add to what covers the use. *)
LEMMA Covered == BudgetInv => AiWithinBudget
<1> SUFFICES ASSUME BudgetInv PROVE AiWithinBudget
  OBVIOUS
<1>1. PICK S : S = Concluded
  OBVIOUS
<1>2. PICK T : T = Generation \ S
  OBVIOUS
<1>3. IsFiniteSet(S) /\ IsFiniteSet(T) /\ S \cap T = {} /\ Generation = S \cup T
  BY <1>1, <1>2, SumsAre, FS_Difference
<1>4. \A g \in S \cup T : Charges[g] \in Nat /\ Charges[g] \in Int
  BY <1>3, SumsAre
<1>5. Total(Charges, Generation) = Total(Charges, S) + Total(Charges, T)
  BY <1>3, <1>4, TotalUnion
<1>6. Total(Charges, S) \in Nat /\ Total(Charges, T) \in Nat
  BY <1>3, <1>4, TotalNat
<1> QED
  BY <1>1, <1>5, <1>6 DEF BudgetInv, AiWithinBudget

(* reserve() locks, adds up and reserves; the provider answers or fails later: what it used, in  *)
(* comments and in failures, stays within the largest budget the school ever set, for any number *)
(* of requests at the same time.                                                                 *)
THEOREM BudgetHolds == AssessmentSpec => []AiWithinBudget
BY BudgetStays, Covered, PTL

-----------------------------------------------------------------------------
(* The types of exams and what they hold.  A pattern is one of those that may be saved. *)
Revision == Nat \ {0}
ExamRow == [status : ExamStatus, revision : Revision, term : Term \cup {"ANNUAL"}, config : Config,
            roster : SUBSET Pupil, approved : BOOLEAN]
PatternsTyped == patterns \in [{"CLASS", "GROUP", "SCHOOL"} -> Seq(PatternConfig)] /\ enrolledNow \subseteq Pupil
ExamsTyped == exam \in [Exam -> ExamRow]
HeldTyped ==
  /\ marks \in [Exam -> [Pupil -> Mark]]
  /\ observations \in [Exam -> [Pupil -> [all : 0..MaxObservations, first : 0..MaxObservations]]]
  /\ \A e \in Exam, k \in Pupil : observations[e][k].first <= observations[e][k].all
ReportsTyped == \A r \in reports : r.exam \in Exam /\ r.pupil \in Pupil /\ r.version \in Nat
AssessmentTypes == PatternsTyped /\ ExamsTyped /\ HeldTyped /\ ReportsTyped

(* One exam opens or moves to another status or revision. *)
LEMMA ExamChange ==
  ASSUME AssessmentTypes, NEW e \in Exam, NEW row \in ExamRow, exam' = [exam EXCEPT ![e] = row]
  PROVE  ExamsTyped'
BY DEF AssessmentTypes, ExamsTyped

LEMMA NextRevision ==
  ASSUME NEW row \in ExamRow
  PROVE  [row EXCEPT !.revision = @ + 1] \in ExamRow
<1>1. PICK n : n = row.revision + 1
  OBVIOUS
<1>2. n \in Revision
  <2>1. row.revision \in Nat
    BY DEF ExamRow, Revision
  <2> QED
    BY <1>1, <2>1 DEF Revision
<1> QED
  BY <1>1, <1>2 DEF ExamRow

LEMMA DraftTypes ==
  ASSUME AssessmentTypes, NEW e \in Exam,
         \/ \E term \in Term \cup {"ANNUAL"} : StartTerm(e, term) \/ \E config \in PatternConfig : CreateExam(e, term, config)
         \/ \E k \in Pupil : Observe(e, k) \/ \E mark \in Mark \ {"NONE"} : SaveMarks(e, k, mark)
         \/ Schedule(e)
  PROVE  AssessmentTypes'
<1> USE DEF AssessmentTypes
<1>1. UNCHANGED <<patterns, enrolledNow, reports>>
  BY DEF StartTerm, CreateExam, Observe, SaveMarks, Schedule
<1>2. exam[e] \in ExamRow
  BY DEF ExamsTyped
<1>3. ASSUME exam' = [exam EXCEPT ![e].revision = @ + 1]
      PROVE  ExamsTyped'
  <2>1. exam' = [exam EXCEPT ![e] = [exam[e] EXCEPT !.revision = @ + 1]]
    BY <1>3 DEF ExamsTyped
  <2> QED
    BY <1>2, <2>1, NextRevision, ExamChange
<1>4. ASSUME NEW term \in Term \cup {"ANNUAL"}, NEW config, CreateExam(e, term, config)
      PROVE  ExamsTyped' /\ HeldTyped'
  <2>1. config \in Config
    <3>1. PICK i \in 1..3 : \E v \in DOMAIN patterns[ScopeKey[i]] : patterns[ScopeKey[i]][v] = config
      BY <1>4 DEF CreateExam, Configured
    <3>2. ScopeKey[i] \in {"CLASS", "GROUP", "SCHOOL"}
      BY <3>1 DEF ScopeKey
    <3>3. patterns[ScopeKey[i]] \in Seq(PatternConfig)
      BY <3>2 DEF PatternsTyped
    <3>4. config \in PatternConfig
      BY <3>1, <3>3
    <3> QED
      BY <3>4, AssessmentAssumption
  <2>2. exam' = [exam EXCEPT ![e] = Opening(config, term, enrolledNow)] /\ UNCHANGED <<marks, observations>>
    BY <1>4 DEF CreateExam
  <2>3. Opening(config, term, enrolledNow) \in ExamRow
    BY <2>1 DEF Opening, ExamRow, ExamStatus, Revision, PatternsTyped
  <2> QED
    BY <2>2, <2>3, ExamChange DEF HeldTyped
<1>5. ASSUME NEW k \in Pupil, Observe(e, k)
      PROVE  ExamsTyped' /\ HeldTyped'
  <2> DEFINE Counts == [all : 0..MaxObservations, first : 0..MaxObservations]
  <2>0. observations[e][k] \in Counts /\ observations[e][k].first <= observations[e][k].all
    BY DEF HeldTyped
  <2>1. PICK more \in {0, 1} :
          observations' = [observations EXCEPT ![e][k] = Noted(observations[e][k].all + 1, observations[e][k].first + more)]
    BY <1>5 DEF Observe, HeldTyped
  <2>2. Noted(observations[e][k].all + 1, observations[e][k].first + more) \in {n \in Counts : n.first <= n.all}
    <3>1. /\ observations[e][k].all \in 0..MaxObservations /\ observations[e][k].first \in 0..MaxObservations
          /\ observations[e][k].all < MaxObservations
      BY <1>5, <2>0 DEF Observe
    <3>2. /\ observations[e][k].all + 1 \in 0..MaxObservations
          /\ observations[e][k].first + more \in 0..MaxObservations
          /\ observations[e][k].first + more <= observations[e][k].all + 1
      BY <2>0, <2>1, <3>1, AssessmentAssumption
    <3> QED
      BY <3>2 DEF Noted
  <2>3. PICK n \in Counts : n.first <= n.all /\ observations' = [observations EXCEPT ![e][k] = n] /\ UNCHANGED marks
    BY <1>5, <2>1, <2>2 DEF Observe
  <2>4. HeldTyped'
    BY <2>3 DEF HeldTyped
  <2> QED
    BY <1>3, <1>5, <2>4 DEF Observe
<1>6. ASSUME NEW k \in Pupil, NEW mark \in Mark, SaveMarks(e, k, mark)
      PROVE  ExamsTyped' /\ HeldTyped'
  <2>1. HeldTyped'
    BY <1>6 DEF SaveMarks, HeldTyped
  <2> QED
    BY <1>3, <1>6, <2>1 DEF SaveMarks
<1>7. CASE Schedule(e)
  BY <1>1, <1>3, <1>7 DEF Schedule, PatternsTyped, HeldTyped, ReportsTyped
<1>8. ExamsTyped' /\ HeldTyped'
  BY <1>4, <1>5, <1>6, <1>7 DEF StartTerm
<1> QED
  BY <1>1, <1>8 DEF PatternsTyped, ReportsTyped

LEMMA ChainTypes ==
  ASSUME AssessmentTypes, NEW e \in Exam,
         Submit(e) \/ Review(e) \/ Approve(e) \/ Return(e) \/ Reopen(e) \/ PublishReports(e)
  PROVE  AssessmentTypes'
<1> USE DEF AssessmentTypes
<1>1. exam[e] \in ExamRow
  BY DEF ExamsTyped
<1>2. PICK from, row : Advance(e, from, row) /\ row \in ExamRow
  <2>1. ASSUME NEW s \in ExamStatus PROVE [exam[e] EXCEPT !.status = s] \in ExamRow
    BY <1>1 DEF ExamRow
  <2>2. Drafted(e) \in ExamRow /\ [exam[e] EXCEPT !.status = "APPROVED", !.approved = TRUE] \in ExamRow
    BY <1>1 DEF ExamRow, Drafted, ExamStatus
  <2>3. {"SUBMITTED", "REVIEWED", "PUBLISHED"} \subseteq ExamStatus
    BY DEF ExamStatus
  <2>4. CASE Submit(e) \/ Review(e)
    BY <2>1, <2>3, <2>4 DEF Submit, Review
  <2>5. CASE Approve(e) \/ Return(e) \/ Reopen(e)
    BY <2>2, <2>5 DEF Approve, Return, Reopen
  <2>6. CASE PublishReports(e)
    BY <2>1, <2>3, <2>6 DEF PublishReports, Published
  <2> QED
    BY <2>4, <2>5, <2>6
<1>3. UNCHANGED <<patterns, enrolledNow, marks, observations>> /\ exam' = [exam EXCEPT ![e] = [row EXCEPT !.revision = @ + 1]]
  BY <1>2 DEF Advance
<1>4. ExamsTyped'
  BY <1>2, <1>3, NextRevision, ExamChange
<1>5. ReportsTyped'
  <2>1. CASE UNCHANGED reports
    BY <2>1 DEF ReportsTyped
  <2>2. CASE PublishReports(e)
    <3>1. PICK comment :
            reports' = reports \cup
              {[exam |-> e, pupil |-> k, term |-> exam[e].term, version |-> exam[e].revision + 1,
                contents |-> Contents(e), observed |-> observations[e][k].first, comment |-> comment[k],
                approved |-> exam[e].approved, basis |-> approvedAs[e]] : k \in exam[e].roster}
      BY <2>2 DEF PublishReports, Published
    <3>2. exam[e].roster \subseteq Pupil /\ exam[e].revision + 1 \in Nat
      BY <1>1 DEF ExamRow, Revision
    <3>3. ASSUME NEW r \in reports' PROVE r.exam \in Exam /\ r.pupil \in Pupil /\ r.version \in Nat
      <4>1. CASE r \in reports
        BY <4>1 DEF ReportsTyped
      <4>2. CASE r \notin reports
        <5>1. \E k \in exam[e].roster : r.exam = e /\ r.pupil = k /\ r.version = exam[e].revision + 1
          BY <3>1, <3>3, <4>2
        <5> QED
          BY <3>2, <5>1
      <4> QED
        BY <4>1, <4>2
    <3> QED
      BY <3>3 DEF ReportsTyped
  <2> QED
    BY <2>1, <2>2 DEF Submit, Review, Approve, Return, Reopen
<1> QED
  BY <1>3, <1>4, <1>5 DEF PatternsTyped, HeldTyped

LEMMA OtherTypes ==
  ASSUME AssessmentTypes,
         \/ \E scope \in DOMAIN patterns, config \in PatternConfig : SavePattern(scope, config)
         \/ \E S \in SUBSET Pupil : Enrol(S)
         \/ \E g \in Generation : \/ Reserve(g) \/ Answer(g) \/ ReviewComment(g)
                                  \/ \E e \in Exam, k \in Pupil, instructions \in Instructions : ReadEvidence(g, e, k, instructions)
         \/ \E budget \in AiBudget : SaveAiPolicy(budget)
         \/ UNCHANGED assessmentVars
  PROVE  AssessmentTypes'
<1> USE DEF AssessmentTypes
<1>1. ASSUME UNCHANGED <<patterns, enrolledNow, exam, marks, observations, reports>>
      PROVE  AssessmentTypes'
  BY <1>1 DEF PatternsTyped, ExamsTyped, HeldTyped, ReportsTyped
<1>2. ASSUME NEW scope \in DOMAIN patterns, NEW config \in PatternConfig, SavePattern(scope, config)
      PROVE  AssessmentTypes'
  <2>1. patterns' = [patterns EXCEPT ![scope] = Append(patterns[scope], config)] /\ UNCHANGED <<enrolledNow, examVars>>
    BY <1>2 DEF SavePattern
  <2>2. PatternsTyped'
    BY <2>1 DEF PatternsTyped
  <2> QED
    BY <2>1, <2>2 DEF examVars, ExamsTyped, HeldTyped, ReportsTyped
<1>3. ASSUME NEW S \in SUBSET Pupil, Enrol(S)
      PROVE  AssessmentTypes'
  BY <1>3 DEF Enrol, examVars, PatternsTyped, ExamsTyped, HeldTyped, ReportsTyped
<1>4. ASSUME NEW g \in Generation, ReviewComment(g)
      PROVE  AssessmentTypes'
  <2>1. PICK e : e = generation[g].exam
    OBVIOUS
  <2>2. exam' = [exam EXCEPT ![e].revision = @ + 1] /\ UNCHANGED <<patterns, enrolledNow, marks, observations, reports>>
    BY <1>4, <2>1 DEF ReviewComment
  <2>3. ExamsTyped'
    <3>1. CASE e \in Exam
      <4>1. exam[e] \in ExamRow
        BY <3>1 DEF ExamsTyped
      <4>2. exam' = [exam EXCEPT ![e] = [exam[e] EXCEPT !.revision = @ + 1]]
        BY <2>2, <3>1 DEF ExamsTyped
      <4> QED
        BY <3>1, <4>1, <4>2, NextRevision, ExamChange
    <3>2. CASE e \notin Exam
      BY <2>2, <3>2 DEF ExamsTyped
    <3> QED
      BY <3>1, <3>2
  <2> QED
    BY <2>2, <2>3 DEF PatternsTyped, HeldTyped, ReportsTyped
<1>5. ASSUME NEW g \in Generation,
             Reserve(g) \/ Answer(g) \/ \E e \in Exam, k \in Pupil, instructions \in Instructions : ReadEvidence(g, e, k, instructions)
      PROVE  AssessmentTypes'
  BY <1>1, <1>5 DEF Reserve, Answer, ReadEvidence, examVars
<1>6. CASE \E budget \in AiBudget : SaveAiPolicy(budget)
  BY <1>1, <1>6 DEF SaveAiPolicy, examVars
<1>7. CASE UNCHANGED assessmentVars
  BY <1>1, <1>7 DEF assessmentVars
<1> QED
  BY <1>2, <1>3, <1>4, <1>5, <1>6, <1>7

LEMMA TypesStart == AssessmentInit => AssessmentTypes
<1> SUFFICES ASSUME AssessmentInit PROVE AssessmentTypes
  OBVIOUS
<1>1. PatternsTyped /\ ReportsTyped
  BY AssessmentAssumption DEF AssessmentInit, PatternsTyped, ReportsTyped
<1>6. HeldTyped
  <2>1. {Noted(0, 0), Noted(1, 1)} \subseteq {n \in [all : 0..MaxObservations, first : 0..MaxObservations] : n.first <= n.all}
    BY AssessmentAssumption DEF Noted
  <2>2. \A e \in Exam, k \in Pupil : observations[e][k] \in {Noted(0, 0), Noted(1, 1)}
    BY DEF AssessmentInit
  <2>3. observations = [e \in Exam |-> [k \in Pupil |-> observations[e][k]]]
    BY DEF AssessmentInit
  <2> QED
    BY <2>1, <2>2, <2>3 DEF AssessmentInit, HeldTyped, Mark
<1>2. FirstTerm \in Term /\ (CHOOSE c \in PatternConfig : TRUE) \in Config
  BY AssessmentAssumption DEF FirstTerm
<1>3. NoExam \in ExamRow
  BY <1>2 DEF NoExam, ExamRow, ExamStatus, Revision
<1>4. ASSUME Opened # {} PROVE LatestOf(FirstPatterns) \in Config
  <2> DEFINE S == {j \in 1..3 : FirstPatterns[ScopeKey[j]] # <<>>}
             i == Min(S)
  <2>1. S # {} /\ S \in SUBSET Nat
    BY <1>4, AssessmentAssumption
  <2> HIDE DEF S
  <2>2. i \in S
    BY <2>1, MinNat
  <2>3. LatestOf(FirstPatterns) = FirstPatterns[ScopeKey[i]][Len(FirstPatterns[ScopeKey[i]])]
    BY DEF LatestOf, S
  <2> HIDE DEF i
  <2>4. i \in 1..3 /\ FirstPatterns[ScopeKey[i]] # <<>>
    BY <2>2 DEF S
  <2>5. ScopeKey[i] \in {"CLASS", "GROUP", "SCHOOL"}
    BY <2>4 DEF ScopeKey
  <2>6. PICK q \in Seq(PatternConfig) : q = FirstPatterns[ScopeKey[i]] /\ q # <<>>
    BY <2>4, <2>5, AssessmentAssumption
  <2>7. q[Len(q)] \in PatternConfig
    BY <2>6
  <2> QED
    BY <2>3, <2>6, <2>7, AssessmentAssumption
<1>5. ExamsTyped
  <2>1. ASSUME NEW e \in Exam PROVE exam[e] \in ExamRow
    <3>1. CASE e \in Opened
      <4>1. exam[e] = Opening(LatestOf(FirstPatterns), FirstTerm, Pupil)
        BY <3>1 DEF AssessmentInit
      <4> QED
        BY <1>2, <1>4, <3>1, <4>1 DEF Opening, ExamRow, ExamStatus, Revision
    <3>2. CASE e \notin Opened
      BY <1>3, <3>2 DEF AssessmentInit
    <3> QED
      BY <3>1, <3>2
  <2> QED
    BY <2>1 DEF AssessmentInit, ExamsTyped
<1> QED
  BY <1>1, <1>5, <1>6 DEF AssessmentTypes

LEMMA TypesStep == AssessmentTypes /\ [AssessmentNext]_assessmentVars => AssessmentTypes'
<1> SUFFICES ASSUME AssessmentTypes, [AssessmentNext]_assessmentVars PROVE AssessmentTypes'
  OBVIOUS
<1>1. ASSUME NEW e \in Exam,
             \/ \E term \in Term \cup {"ANNUAL"} : StartTerm(e, term) \/ \E config \in PatternConfig : CreateExam(e, term, config)
             \/ \E k \in Pupil : Observe(e, k) \/ \E mark \in Mark \ {"NONE"} : SaveMarks(e, k, mark)
             \/ Schedule(e) \/ Submit(e) \/ Review(e) \/ Approve(e) \/ Return(e) \/ Reopen(e) \/ PublishReports(e)
      PROVE  AssessmentTypes'
  BY <1>1, DraftTypes, ChainTypes
<1> QED
  BY <1>1, OtherTypes DEF AssessmentNext

(* Exams, marks, observations and reports are well formed, whichever pattern an exam starts from, *)
(* and no generation is charged more than a reservation.                                          *)
THEOREM AssessmentsWellFormed == AssessmentSpec => []AssessmentTypeOK
<1>1. AssessmentSpec => []AssessmentTypes
  BY TypesStart, TypesStep, PTL DEF AssessmentSpec
<1>2. AssessmentTypes /\ BudgetInv => AssessmentTypeOK
  BY DEF AssessmentTypes, PatternsTyped, ExamsTyped, HeldTyped, ReportsTyped, ExamRow, Revision,
         BudgetInv, GenerationFormed, AssessmentTypeOK
<1> QED
  BY <1>1, <1>2, BudgetStays, PTL

-----------------------------------------------------------------------------
(* The types, with the number of edits and what a search has found. *)
Edits == setupEdits \in 0..MaxSetupEdits
Found == search # NoSearch => /\ search.sections \in (SUBSET Taught) \ {{}}
                              /\ search.at \in [search.sections -> Timing]
                              /\ search.lessons \in [search.sections -> [Slot -> Teacher]]
TimetableTypes == TimetableTypeOK /\ Edits /\ Found

(* What a timetable is timed by exists. *)
PlansTimed == \A p \in Plan : plan[p].status # "NONE" => Exists(plan[p].timing)
TimetableInv == TimetableTypes /\ PlansTimed /\ PublishedDoNotClash

-----------------------------------------------------------------------------
(* A clash is between two, whichever is named first. *)
LEMMA ClashBoth ==
  \A x, y \in Timing : \A lx, ly : Clash(x, lx, y, ly) <=> Clash(y, ly, x, lx)
BY DEF Clash, Overlap

(* A change of the timings keeps what timetables are timed by: it exists, and its layout   *)
(* stays as it is.                                                                          *)
UsedStay == \A x \in Timing : Used(x) => Exists(x)' /\ timing'[x].layout = timing[x].layout
LEMMA TimingChange ==
  ASSUME TimetableInv, UNCHANGED <<teacherVars, planVars>>, UsedStay, Edits', setupAsked' \subseteq SetupRequest,
         timing' \in [Timing -> TimingRow], timingRow' \in [Timing -> [Taught -> RowState]]
  PROVE  TimetableInv'
<1> USE DEF TimetableInv
<1>1. UNCHANGED <<capable, working, taughtBy, restricted, plan, lastPlan, search, publishing>>
  BY DEF teacherVars, planVars
<1>2. TimetableTypes'
  BY <1>1 DEF TimetableTypes, TimetableTypeOK, Found
<1>3. \A p \in Plan : /\ plan[p].timing \in Timing
                      /\ plan[p].status # "NONE" => Used(plan[p].timing)
  BY DEF TimetableTypes, TimetableTypeOK, PlanRow, Used
<1>4. PlansTimed'
  BY <1>1, <1>3 DEF PlansTimed, UsedStay
<1>5. PublishedDoNotClash'
  <2> SUFFICES ASSUME NEW p \in Undisturbed, NEW q \in Undisturbed, p # q
               PROVE  ~Clash(plan[p].timing, plan[p].lessons, plan[q].timing, plan[q].lessons)'
    BY <1>1 DEF PublishedDoNotClash, Undisturbed
  <2>1. ~Clash(plan[p].timing, plan[p].lessons, plan[q].timing, plan[q].lessons)
    BY DEF PublishedDoNotClash
  <2>2. /\ timing'[plan[p].timing].layout = timing[plan[p].timing].layout
        /\ timing'[plan[q].timing].layout = timing[plan[q].timing].layout
    BY <1>3 DEF UsedStay, Undisturbed
  <2> QED
    BY <1>1, <2>1, <2>2 DEF Clash
<1> QED
  BY <1>2, <1>4, <1>5

(* The latest version of a family is a number. *)
LEMMA LatestVersionIs ==
  ASSUME TimetableInv, NEW x \in Timing, Exists(x)
  PROVE  LatestVersion(x) \in Nat
<1> DEFINE V == {timing[y].version : y \in {z \in Timing : Exists(z) /\ timing[z].family = timing[x].family}}
<1>1. \A y \in Timing : timing[y].version \in Nat
  BY DEF TimetableInv, TimetableTypes, TimetableTypeOK, TimingRow
<1>2. V \subseteq Nat /\ V # {}
  BY <1>1
<1>3. IsFiniteSet(V)
  <2>1. IsFiniteSet(Timing)
    BY FirstTimetables, FS_Interval DEF Timing
  <2> DEFINE D == {z \in Timing : Exists(z) /\ timing[z].family = timing[x].family}
             f == [z \in D |-> timing[z].version]
  <2>2. IsFiniteSet(D)
    BY <2>1, FS_Subset
  <2>3. f \in Surjection(D, V)
    BY DEF Surjection
  <2> HIDE DEF D, f, V
  <2> QED
    BY <2>2, <2>3, FS_Surjection
<1> HIDE DEF V
<1>4. PICK b \in Nat : \A v \in V : v <= b
  BY <1>2, <1>3, FiniteBound
<1>5. V \in SUBSET Int /\ b \in Int
  BY <1>2
<1>6. Max(V) \in V
  BY <1>2, <1>4, <1>5, MaxBounded
<1> QED
  BY <1>2, <1>6 DEF LatestVersion, V

(* A request is as it was made, and the others stay when it is carried out. *)
LEMMA RequestCarried ==
  ASSUME TimetableInv, NEW q \in setupAsked, NEW op, Carried(q, op)
  PROVE  /\ q \in SetupRequest /\ q.op = op
         /\ setupAsked' \subseteq SetupRequest /\ Edits'
BY DEF TimetableInv, TimetableTypes, TimetableTypeOK, Edits, Carried

(* A request that is made changes nothing else. *)
LEMMA RequestMade ==
  ASSUME TimetableInv, NEW q, q.number = setupEdits + 1 => q \in SetupRequest, q.number = setupEdits + 1, AskSetup(q)
  PROVE  TimetableInv'
<1> USE DEF TimetableInv, TimetableTypes
<1>1. Edits' /\ setupAsked' \subseteq SetupRequest
  BY FirstTimetables DEF AskSetup, SetupStep, Edits, TimetableTypeOK
<1>2. UNCHANGED <<teacherVars, planVars, timing, timingRow>>
  BY DEF AskSetup, timingVars
<1>3. UsedStay
  BY <1>2 DEF UsedStay, Used, PlansTimed, Exists
<1> QED
  BY <1>1, <1>2, <1>3, TimingChange DEF TimetableTypeOK

(* The next version of a template is a new template. *)
LEMMA NextVersionChange ==
  ASSUME TimetableInv, Edits', setupAsked' \subseteq SetupRequest, UNCHANGED <<teacherVars, planVars>>,
         NEW row \in TimingRow, NEW S, NextVersion(row, S)
  PROVE  TimetableInv'
<1> USE DEF TimetableInv
<1>1. PICK y \in Timing :
        /\ Free(y)
        /\ timing' = [timing EXCEPT ![y] = [row EXCEPT !.status = "DRAFT", !.serial = 0]]
        /\ timingRow' = [timingRow EXCEPT ![y] = [s \in Taught |-> IF s \in S THEN "ACTIVE" ELSE "NONE"]]
  BY DEF NextVersion
<1>2. [row EXCEPT !.status = "DRAFT", !.serial = 0] \in TimingRow
  <2>1. [row EXCEPT !.status = "DRAFT", !.serial = 0]
          \in [status : {"DRAFT"}, family : {row.family}, version : {row.version}, layout : {row.layout}, serial : {0}]
    BY DEF TimingRow
  <2>2. 0 \in 0..MaxSetupEdits
    BY FirstTimetables
  <2> QED
    BY <2>1, <2>2 DEF TimingRow
<1>3. timing' \in [Timing -> TimingRow] /\ timingRow' \in [Timing -> [Taught -> RowState]]
  BY <1>1, <1>2 DEF TimetableTypes, TimetableTypeOK, RowState
<1>4. UsedStay
  <2>1. \A z \in Timing : Used(z) => Exists(z) /\ z # y
    BY <1>1 DEF Used, PlansTimed, Free, Exists
  <2> QED
    BY <1>1, <2>1 DEF UsedStay, Exists, TimetableTypes, TimetableTypeOK
<1> QED
  BY <1>3, <1>4, TimingChange

(* Templates and their assignments to sections: what is asked for. *)
LEMMA TimingAsked ==
  ASSUME TimetableInv, NEW x \in Timing,
         \/ \E l \in Layout : AskUpdate(x, l)
         \/ \E status \in {"ACTIVE", "INACTIVE", "ARCHIVED"} : AskStatus(x, status)
         \/ \E S \in SUBSET Taught : AskToAssign(x, S)
         \/ AskVersion(x)
  PROVE  TimetableInv'
<1>1. SetupStep => setupEdits + 1 \in 1..MaxSetupEdits
  BY FirstTimetables DEF TimetableInv, TimetableTypes, Edits, SetupStep
<1>2. Assigned(x) \in SUBSET Taught
  BY DEF Assigned
<1>3. ASSUME NEW l \in Layout, AskUpdate(x, l)
      PROVE  TimetableInv'
  <2> DEFINE q == [op |-> "update", number |-> setupEdits + 1, timing |-> x, layout |-> l, sections |-> Assigned(x)]
  <2>1. AskSetup(q) /\ q.number = setupEdits + 1
    BY <1>3 DEF AskUpdate
  <2>2. q \in SetupRequest
    BY <1>1, <1>2, <2>1 DEF SetupRequest, AskSetup
  <2> QED
    BY <2>1, <2>2, RequestMade
<1>4. ASSUME NEW status \in {"ACTIVE", "INACTIVE", "ARCHIVED"}, AskStatus(x, status)
      PROVE  TimetableInv'
  <2> DEFINE q == [op |-> "status", number |-> setupEdits + 1, timing |-> x, status |-> status, sections |-> Assigned(x)]
  <2>1. AskSetup(q) /\ q.number = setupEdits + 1
    BY <1>4 DEF AskStatus
  <2>2. q \in SetupRequest
    BY <1>1, <1>2, <2>1 DEF SetupRequest, AskSetup
  <2> QED
    BY <2>1, <2>2, RequestMade
<1>5. ASSUME NEW S \in SUBSET Taught, AskToAssign(x, S)
      PROVE  TimetableInv'
  <2> DEFINE q == [op |-> "assign", number |-> setupEdits + 1, timing |-> x, sections |-> S]
  <2>1. AskSetup(q) /\ q.number = setupEdits + 1
    BY <1>5 DEF AskToAssign
  <2>2. q \in SetupRequest
    BY <1>1, <2>1 DEF SetupRequest, AskSetup
  <2> QED
    BY <2>1, <2>2, RequestMade
<1>6. CASE AskVersion(x)
  <2> DEFINE row == [timing[x] EXCEPT !.version = @ + 1]
             S == {s \in Taught : timingRow[x][s] # "NONE"}
             q == [op |-> "version", number |-> setupEdits + 1, row |-> row, sections |-> S]
  <2>1. AskSetup(q) /\ q.number = setupEdits + 1
    BY <1>6 DEF AskVersion
  <2>2. row \in TimingRow
    <3>1. timing[x] \in TimingRow
      BY DEF TimetableInv, TimetableTypes, TimetableTypeOK
    <3>2. PICK v \in Nat : v = timing[x].version + 1
      BY <3>1 DEF TimingRow
    <3>3. row \in [status : {timing[x].status}, family : {timing[x].family}, version : {v},
                   layout : {timing[x].layout}, serial : {timing[x].serial}]
      BY <3>1, <3>2 DEF TimingRow
    <3> QED
      BY <3>1, <3>3 DEF TimingRow
  <2>3. q \in SetupRequest
    <3>1. S \in SUBSET Taught
      OBVIOUS
    <3> HIDE DEF row, S
    <3> QED
      BY <1>1, <2>1, <2>2, <3>1 DEF SetupRequest, AskSetup
  <2> QED
    BY <2>1, <2>3, RequestMade
<1> QED
  BY <1>3, <1>4, <1>5, <1>6

(* A template that is in use keeps its layout. *)
LEMMA TemplateChange ==
  ASSUME TimetableInv, Edits', setupAsked' \subseteq SetupRequest, UNCHANGED <<teacherVars, planVars>>,
         NEW x \in Timing, NEW row \in TimingRow, timing' = [timing EXCEPT ![x] = row],
         timingRow' \in [Timing -> [Taught -> RowState]],
         Used(x) => row.layout = timing[x].layout /\ row.status \notin {"NONE", "REMOVED"}
  PROVE  TimetableInv'
<1>1. timing \in [Timing -> TimingRow] /\ \A z \in Timing : Used(z) => Exists(z)
  BY DEF TimetableInv, TimetableTypes, TimetableTypeOK, Used, PlansTimed
<1>2. timing' \in [Timing -> TimingRow] /\ UsedStay
  BY <1>1 DEF UsedStay, Exists
<1> QED
  BY <1>2, TimingChange

(* Templates and their assignments to sections: what is carried out. *)
LEMMA TimingSteps ==
  ASSUME TimetableInv,
         \/ \E l \in Layout : CreateTiming(l)
         \/ \E x \in Timing : (\E s \in Taught : UnassignTiming(x, s)) \/ RemoveTiming(x)
         \/ \E q \in setupAsked : UpdateTiming(q) \/ NewTimingVersion(q) \/ SetTimingStatus(q) \/ AssignTiming(q)
  PROVE  TimetableInv'
<1> USE DEF TimetableInv, TimetableTypes
<1>1. /\ timing \in [Timing -> TimingRow] /\ timingRow \in [Timing -> [Taught -> RowState]]
      /\ setupAsked \subseteq SetupRequest
  BY DEF TimetableTypeOK
<1>2. CountedSetup => Edits' /\ setupAsked' \subseteq SetupRequest
  BY <1>1, FirstTimetables DEF CountedSetup, SetupStep, Edits
<1>3. ASSUME UNCHANGED <<timing, teacherVars, planVars>>, timingRow' \in [Timing -> [Taught -> RowState]],
             Edits', setupAsked' \subseteq SetupRequest
      PROVE  TimetableInv'
  <2>1. UsedStay
    BY <1>3 DEF UsedStay, Used, PlansTimed, Exists
  <2> QED
    BY <1>1, <1>3, <2>1, TimingChange
<1>4. ASSUME NEW l \in Layout, CreateTiming(l)
      PROVE  TimetableInv'
  <2>1. PICK x \in Timing : Free(x) /\ timing' = [timing EXCEPT ![x] = [status |-> "DRAFT", family |-> x, version |-> 1, layout |-> l, serial |-> 0]]
    BY <1>4 DEF CreateTiming
  <2>2. [status |-> "DRAFT", family |-> x, version |-> 1, layout |-> l, serial |-> 0] \in TimingRow
    BY FirstTimetables DEF TimingRow
  <2>3. ~Used(x)
    BY <2>1 DEF Used, PlansTimed, Free, Exists
  <2>4. Edits' /\ setupAsked' \subseteq SetupRequest /\ UNCHANGED <<timingRow, teacherVars, planVars>>
    BY <1>2, <1>4 DEF CreateTiming
  <2> QED
    BY <1>1, <2>1, <2>2, <2>3, <2>4, TemplateChange
<1>5. ASSUME NEW x \in Timing, NEW s \in Taught, UnassignTiming(x, s)
      PROVE  TimetableInv'
  <2>1. timingRow' \in [Timing -> [Taught -> RowState]]
    BY <1>1, <1>5 DEF UnassignTiming, RowState
  <2> QED
    BY <1>2, <1>3, <1>5, <2>1 DEF UnassignTiming
<1>6. ASSUME NEW x \in Timing, NEW status \in {"ACTIVE", "INACTIVE", "ARCHIVED", "REMOVED"}, Used(x) => status # "REMOVED",
             timing' = [timing EXCEPT ![x].status = status], timingRow' \in [Timing -> [Taught -> RowState]],
             UNCHANGED <<teacherVars, planVars>>, Edits', setupAsked' \subseteq SetupRequest
      PROVE  TimetableInv'
  <2> DEFINE row == [timing[x] EXCEPT !.status = status]
  <2>1. timing[x] \in TimingRow
    BY <1>1
  <2>2. row \in TimingRow /\ row.layout = timing[x].layout /\ row.status = status
    BY <2>1 DEF TimingRow
  <2>3. timing' = [timing EXCEPT ![x] = row]
    BY <1>6
  <2> HIDE DEF row
  <2> QED
    BY <1>6, <2>2, <2>3, TemplateChange
<1>7. ASSUME NEW x \in Timing, RemoveTiming(x)
      PROVE  TimetableInv'
  <2>1. timingRow' \in [Timing -> [Taught -> RowState]]
    BY <1>1, <1>7 DEF RemoveTiming, RowState
  <2> QED
    BY <1>2, <1>6, <1>7, <2>1 DEF RemoveTiming
<1>8. ASSUME NEW q \in setupAsked, SetTimingStatus(q)
      PROVE  TimetableInv'
  <2>1. Carried(q, "status") /\ UNCHANGED <<teacherVars, planVars>>
    BY <1>8 DEF SetTimingStatus
  <2>2. q \in SetupRequest /\ q.op = "status" /\ setupAsked' \subseteq SetupRequest /\ Edits'
    BY <2>1, RequestCarried
  <2>3. q.timing \in Timing /\ q.status \in {"ACTIVE", "INACTIVE", "ARCHIVED"}
    BY <2>2 DEF SetupRequest
  <2>4. timingRow' \in [Timing -> [Taught -> RowState]]
    BY <1>1, <1>8 DEF SetTimingStatus, RowState
  <2>5. timing' = [timing EXCEPT ![q.timing].status = q.status]
    BY <1>8 DEF SetTimingStatus
  <2> QED
    BY <1>6, <2>1, <2>2, <2>3, <2>4, <2>5
<1>9. ASSUME NEW q \in setupAsked, AssignTiming(q)
      PROVE  TimetableInv'
  <2>1. Carried(q, "assign") /\ UNCHANGED <<timing, teacherVars, planVars>>
    BY <1>9 DEF AssignTiming
  <2>2. q \in SetupRequest /\ q.op = "assign" /\ setupAsked' \subseteq SetupRequest /\ Edits'
    BY <2>1, RequestCarried
  <2>3. q.timing \in Timing
    BY <2>2 DEF SetupRequest
  <2>4. timingRow' \in [Timing -> [Taught -> RowState]]
    BY <1>1, <1>9, <2>3 DEF AssignTiming, RowState
  <2> QED
    BY <1>3, <2>1, <2>2, <2>4
<1>10. ASSUME NEW q \in setupAsked, NewTimingVersion(q)
       PROVE  TimetableInv'
  <2>1. Carried(q, "version") /\ NextVersion(q.row, q.sections) /\ UNCHANGED <<teacherVars, planVars>>
    BY <1>10 DEF NewTimingVersion
  <2>2. q \in SetupRequest /\ q.op = "version" /\ setupAsked' \subseteq SetupRequest /\ Edits'
    BY <2>1, RequestCarried
  <2>3. q.row \in TimingRow
    BY <2>2 DEF SetupRequest
  <2> QED
    BY <2>1, <2>2, <2>3, NextVersionChange
<1>11. ASSUME NEW q \in setupAsked, UpdateTiming(q)
       PROVE  TimetableInv'
  <2>1. Carried(q, "update") /\ Exists(q.timing) /\ UNCHANGED <<teacherVars, planVars>>
    BY <1>11 DEF UpdateTiming
  <2>2. q \in SetupRequest /\ q.op = "update" /\ setupAsked' \subseteq SetupRequest /\ Edits'
    BY <2>1, RequestCarried
  <2>3. q.timing \in Timing /\ q.layout \in Layout /\ q.number \in 0..MaxSetupEdits
    BY <2>2, FirstTimetables DEF SetupRequest
  <2>4. PICK x \in Timing : x = q.timing
    BY <2>3
  <2>5. timing[x] \in TimingRow
    BY <1>1
  <2>6. CASE Used(x)
    <3>1. LatestVersion(x) \in Nat
      BY <2>1, <2>4, LatestVersionIs
    <3> DEFINE row == [timing[x] EXCEPT !.version = LatestVersion(x) + 1, !.layout = q.layout]
    <3>2. row \in TimingRow
      <4>1. PICK v \in Nat : v = LatestVersion(x) + 1
        BY <3>1
      <4>2. row \in [status : {timing[x].status}, family : {timing[x].family}, version : {v},
                     layout : {q.layout}, serial : {timing[x].serial}]
        BY <2>5, <4>1 DEF TimingRow
      <4> QED
        BY <2>3, <2>5, <4>2 DEF TimingRow
    <3>3. NextVersion(row, q.sections)
      BY <1>11, <2>4, <2>6 DEF UpdateTiming
    <3> HIDE DEF row
    <3> QED
      BY <2>1, <2>2, <3>2, <3>3, NextVersionChange
  <2>7. CASE ~Used(x)
    <3> DEFINE row == [timing[x] EXCEPT !.layout = q.layout, !.serial = q.number]
    <3>1. row \in TimingRow
      BY <2>3, <2>5 DEF TimingRow
    <3>2. timing' = [timing EXCEPT ![x] = row] /\ UNCHANGED timingRow
      BY <1>1, <1>11, <2>4, <2>7 DEF UpdateTiming
    <3> HIDE DEF row
    <3> QED
      BY <1>1, <2>1, <2>2, <2>7, <3>1, <3>2, TemplateChange
  <2> QED
    BY <2>6, <2>7
<1> QED
  BY <1>4, <1>5, <1>7, <1>8, <1>9, <1>10, <1>11

-----------------------------------------------------------------------------
(* Teachers: their profiles and subjects time nothing. *)
Lessons == [Slot -> Teacher \cup {NoTeacher}]
LEMMA TeacherAsked ==
  ASSUME TimetableInv, NEW s \in Taught,
         \/ \E t \in Teacher : AskAcademics(t, s)
         \/ \E T \in SUBSET Teacher : AskSubjectConfig(s, T)
         \/ \E primary, support \in SUBSET Teacher : AskToReplace(s, primary, support)
  PROVE  TimetableInv'
<1>1. SetupStep => setupEdits + 1 \in 1..MaxSetupEdits
  BY FirstTimetables DEF TimetableInv, TimetableTypes, Edits, SetupStep
<1>2. ASSUME NEW t \in Teacher, AskAcademics(t, s)
      PROVE  TimetableInv'
  <2> DEFINE q == [op |-> "academics", number |-> setupEdits + 1, section |-> s, teacher |-> t]
  <2>1. AskSetup(q) /\ q.number = setupEdits + 1
    BY <1>2 DEF AskAcademics
  <2>2. q \in SetupRequest
    BY <1>1, <2>1 DEF SetupRequest, AskSetup
  <2> QED
    BY <2>1, <2>2, RequestMade
<1>3. ASSUME NEW T \in SUBSET Teacher, AskSubjectConfig(s, T)
      PROVE  TimetableInv'
  <2> DEFINE q == [op |-> "config", number |-> setupEdits + 1, section |-> s, eligible |-> T]
  <2>1. AskSetup(q) /\ q.number = setupEdits + 1
    BY <1>3 DEF AskSubjectConfig
  <2>2. q \in SetupRequest
    BY <1>1, <2>1 DEF SetupRequest, AskSetup
  <2> QED
    BY <2>1, <2>2, RequestMade
<1>4. ASSUME NEW primary \in SUBSET Teacher, NEW support \in SUBSET Teacher, AskToReplace(s, primary, support)
      PROVE  TimetableInv'
  <2>1. PICK desired, removed : /\ desired = (primary \X {"PRIMARY"}) \cup (support \X {"SUPPORT"})
                                /\ removed = ActiveRows(s) \ desired
    OBVIOUS
  <2>2. desired \in SUBSET SubjectRow /\ removed \in SUBSET SubjectRow
    BY <2>1 DEF SubjectRow, ActiveRows
  <2> DEFINE q == [op |-> "replace", number |-> setupEdits + 1, section |-> s, primary |-> primary, desired |-> desired, removed |-> removed]
  <2>3. AskSetup(q) /\ q.number = setupEdits + 1
    BY <1>4, <2>1 DEF AskToReplace
  <2>4. q \in SetupRequest
    BY <1>1, <2>2, <2>3 DEF SetupRequest, AskSetup
  <2> QED
    BY <2>3, <2>4, RequestMade
<1> QED
  BY <1>2, <1>3, <1>4

(* A timetable that is taken over is as it was, but for its teachers, and is marked if it    *)
(* is published.                                                                              *)
LEMMA TakenOverIs ==
  ASSUME NEW row \in PlanRow, NEW gone, NEW t \in Teacher
  PROVE  /\ TakenOver(row, gone, t) \in PlanRow
         /\ TakenOver(row, gone, t).status = row.status /\ TakenOver(row, gone, t).timing = row.timing
         /\ row.status = "PUBLISHED" => TakenOver(row, gone, t).reassigned
<1>1. PICK lessons \in Lessons : lessons = [i \in Slot |-> IF row.lessons[i] \in gone THEN t ELSE row.lessons[i]]
  BY DEF PlanRow, Lessons
<1>2. PICK marked \in BOOLEAN : marked = (row.reassigned \/ row.status = "PUBLISHED")
  OBVIOUS
<1>3. TakenOver(row, gone, t) = [row EXCEPT !.reassigned = marked, !.lessons = lessons]
  BY <1>1, <1>2, Zenon DEF TakenOver, PlanRow
<1>4. [row EXCEPT !.reassigned = marked, !.lessons = lessons]
        \in [status : {row.status}, section : {row.section}, timing : {row.timing},
             lessons : {lessons}, affected : {row.affected}, reassigned : {marked}]
  BY DEF PlanRow
<1> QED
  BY <1>1, <1>2, <1>3, <1>4 DEF PlanRow, Lessons

(* Profiles and subjects change hands, and lessons with them. *)
LEMMA TeacherSteps ==
  ASSUME TimetableInv,
         \/ \E t \in Teacher :
              \/ \E S \in SUBSET Taught : SaveTeachingSetup(t, S)
              \/ SetTeacherStatus(t)
              \/ \E s \in Taught : RemoveSubjectAssignment(t, s)
         \/ \E q \in setupAsked : AssignAcademics(q) \/ SaveSubjectConfig(q) \/ ReplaceSubjectTeachers(q)
  PROVE  TimetableInv'
<1> USE DEF TimetableInv, TimetableTypes
<1>1. /\ capable \in [Teacher -> SUBSET Taught] /\ working \subseteq Teacher
      /\ taughtBy \in [Taught -> [SubjectRow -> RowState]] /\ restricted \in [Taught -> SUBSET Teacher]
      /\ plan \in [Plan -> PlanRow] /\ setupAsked \subseteq SetupRequest
  BY DEF TimetableTypeOK
<1>2. CountedSetup => Edits' /\ setupAsked' \subseteq SetupRequest
  BY <1>1, FirstTimetables DEF CountedSetup, SetupStep, Edits
<1>3. ASSUME UNCHANGED <<timingVars, planVars>>, capable' \in [Teacher -> SUBSET Taught], working' \subseteq Teacher,
             taughtBy' \in [Taught -> [SubjectRow -> RowState]], restricted' \in [Taught -> SUBSET Teacher],
             Edits', setupAsked' \subseteq SetupRequest
      PROVE  TimetableInv'
  <2>1. UNCHANGED <<timing, timingRow, plan, lastPlan, search, publishing>>
    BY <1>3 DEF timingVars, planVars
  <2>2. TimetableTypeOK' /\ Found'
    BY <1>3, <2>1 DEF TimetableTypeOK, Found
  <2>3. PlansTimed' /\ PublishedDoNotClash'
    BY <2>1 DEF PlansTimed, Exists, PublishedDoNotClash, Undisturbed, Clash
  <2> QED
    BY <1>3, <2>2, <2>3
<1>4. ASSUME NEW t \in Teacher, NEW S \in SUBSET Taught, SaveTeachingSetup(t, S)
      PROVE  TimetableInv'
  BY <1>1, <1>2, <1>3, <1>4 DEF SaveTeachingSetup
<1>5. ASSUME NEW t \in Teacher, SetTeacherStatus(t)
      PROVE  TimetableInv'
  <2>1. working' \subseteq Teacher
    BY <1>1, <1>5 DEF SetTeacherStatus
  <2> QED
    BY <1>1, <1>2, <1>3, <1>5, <2>1 DEF SetTeacherStatus
<1>6. ASSUME NEW t \in Teacher, NEW s \in Taught, RemoveSubjectAssignment(t, s)
      PROVE  TimetableInv'
  <2>1. taughtBy' \in [Taught -> [SubjectRow -> RowState]]
    BY <1>1, <1>6 DEF RemoveSubjectAssignment, ActiveRows, RowState
  <2> QED
    BY <1>1, <1>2, <1>3, <1>6, <2>1 DEF RemoveSubjectAssignment
<1>7. ASSUME NEW q \in setupAsked, AssignAcademics(q)
      PROVE  TimetableInv'
  <2>1. q \in SetupRequest /\ q.op = "academics" /\ setupAsked' \subseteq SetupRequest /\ Edits'
    BY <1>7, RequestCarried DEF AssignAcademics
  <2>2. q.section \in Taught /\ <<q.teacher, "UNNAMED">> \in SubjectRow
    BY <2>1 DEF SetupRequest, SubjectRow
  <2>3. taughtBy' \in [Taught -> [SubjectRow -> RowState]]
    BY <1>1, <1>7, <2>2 DEF AssignAcademics, RowState
  <2> QED
    BY <1>1, <1>3, <1>7, <2>1, <2>3 DEF AssignAcademics
<1>8. ASSUME NEW q \in setupAsked, SaveSubjectConfig(q)
      PROVE  TimetableInv'
  <2>1. q \in SetupRequest /\ q.op = "config" /\ setupAsked' \subseteq SetupRequest /\ Edits'
    BY <1>8, RequestCarried DEF SaveSubjectConfig
  <2>2. q.section \in Taught /\ q.eligible \in SUBSET Teacher
    BY <2>1 DEF SetupRequest
  <2>3. restricted' \in [Taught -> SUBSET Teacher]
    BY <1>1, <1>8, <2>2 DEF SaveSubjectConfig
  <2> QED
    BY <1>1, <1>3, <1>8, <2>1, <2>3 DEF SaveSubjectConfig
<1>9. ASSUME NEW q \in setupAsked, ReplaceSubjectTeachers(q)
      PROVE  TimetableInv'
  <2>1. /\ Carried(q, "replace")
        /\ UNCHANGED <<capable, working, restricted, timing, timingRow, lastPlan, search, publishing>>
    BY <1>9 DEF ReplaceSubjectTeachers, timingVars
  <2>2. q \in SetupRequest /\ q.op = "replace" /\ setupAsked' \subseteq SetupRequest /\ Edits'
    BY <2>1, RequestCarried
  <2>3. q.section \in Taught /\ q.primary \in SUBSET Teacher
    BY <2>2 DEF SetupRequest
  <2>4. taughtBy' \in [Taught -> [SubjectRow -> RowState]]
    BY <1>1, <1>9, <2>3 DEF ReplaceSubjectTeachers, RowState
  <2> DEFINE gone == {r[1] : r \in q.removed} \ q.primary
             taken(p) == plan[p].status # "NONE" /\ plan[p].section = q.section /\ \E i \in Slot : plan[p].lessons[i] \in gone
             heir == CHOOSE t \in q.primary : TRUE
  <2>5. plan' = IF q.primary = {} THEN plan ELSE [p \in Plan |-> IF taken(p) THEN TakenOver(plan[p], gone, heir) ELSE plan[p]]
    BY <1>9 DEF ReplaceSubjectTeachers
  <2>6. q.primary # {} => heir \in Teacher
    BY <2>3
  <2> HIDE DEF gone, heir, taken
  <2>7. ASSUME NEW p \in Plan
        PROVE  /\ plan'[p] \in PlanRow /\ plan'[p].status = plan[p].status /\ plan'[p].timing = plan[p].timing
               /\ plan'[p] = plan[p] \/ (plan[p].status = "PUBLISHED" => plan'[p].reassigned)
    <3>1. plan[p] \in PlanRow
      BY <1>1
    <3>2. CASE plan'[p] = plan[p]
      BY <3>1, <3>2
    <3>3. CASE plan'[p] # plan[p]
      <4>1. q.primary # {} /\ plan'[p] = TakenOver(plan[p], gone, heir)
        BY <2>5, <3>3
      <4> QED
        BY <2>6, <3>1, <4>1, TakenOverIs
    <3> QED
      BY <3>2, <3>3
  <2>8. plan' \in [Plan -> PlanRow]
    <3>1. plan' = [p \in Plan |-> plan'[p]]
      BY <1>1, <2>5
    <3> QED
      BY <2>7, <3>1
  <2>9. TimetableTypeOK' /\ Found'
    BY <2>1, <2>2, <2>4, <2>8 DEF TimetableTypeOK, Found
  <2>10. PlansTimed'
    BY <2>1, <2>7 DEF PlansTimed, Exists
  <2>11. \A p \in Plan : plan'[p].status = "PUBLISHED" /\ ~plan'[p].reassigned => plan'[p] = plan[p] /\ p \in Undisturbed
    BY <2>7 DEF Undisturbed
  <2>12. PublishedDoNotClash'
    BY <2>1, <2>11 DEF PublishedDoNotClash, Undisturbed, Clash
  <2> QED
    BY <2>2, <2>9, <2>10, <2>12
<1> QED
  BY <1>4, <1>5, <1>6, <1>7, <1>8, <1>9

-----------------------------------------------------------------------------
(* Timetables: a step that publishes nothing and changes lessons only by leaving them       *)
(* without a teacher.                                                                         *)
Quieter == \A p \in Plan : plan'[p].status = "PUBLISHED" /\ ~plan'[p].reassigned =>
             /\ p \in Undisturbed /\ plan'[p].timing = plan[p].timing
             /\ \A i \in Slot : plan'[p].lessons[i] \in {plan[p].lessons[i], NoTeacher}
PlanTypes == /\ plan' \in [Plan -> PlanRow] /\ lastPlan' \in 0..MaxPlans /\ publishing' \in 0..MaxPlans
             /\ search' \in {search, NoSearch}
             /\ \A p \in Plan : plan'[p].status # "NONE" => Exists(plan'[p].timing)
LEMMA PlanChange ==
  ASSUME TimetableInv, CountedPlan, UNCHANGED <<timingVars, teacherVars>>, PlanTypes, Quieter \/ PublishedDoNotClash'
  PROVE  TimetableInv'
<1> USE DEF TimetableInv, TimetableTypes
<1>1. UNCHANGED <<timing, timingRow, capable, working, taughtBy, restricted, setupEdits>>
  BY DEF CountedPlan, timingVars, teacherVars
<1>2. Edits' /\ UNCHANGED setupAsked
  BY <1>1 DEF Edits, CountedPlan
<1>3. Found' /\ TimetableTypeOK'
  BY <1>1, <1>2 DEF TimetableTypeOK, Found, PlanTypes
<1>4. PlansTimed'
  BY <1>1 DEF PlansTimed, PlanTypes, Exists
<1>5. ASSUME Quieter
      PROVE  PublishedDoNotClash'
  <2> SUFFICES ASSUME NEW p \in Plan, NEW q \in Plan, p # q,
                      plan'[p].status = "PUBLISHED" /\ ~plan'[p].reassigned, plan'[q].status = "PUBLISHED" /\ ~plan'[q].reassigned
               PROVE  ~Clash(plan[p].timing, plan[p].lessons, plan[q].timing, plan[q].lessons)'
    BY DEF PublishedDoNotClash, Undisturbed
  <2>1. /\ p \in Undisturbed /\ plan'[p].timing = plan[p].timing
        /\ \A i \in Slot : plan'[p].lessons[i] \in {plan[p].lessons[i], NoTeacher}
        /\ q \in Undisturbed /\ plan'[q].timing = plan[q].timing
        /\ \A i \in Slot : plan'[q].lessons[i] \in {plan[q].lessons[i], NoTeacher}
    BY <1>5 DEF Quieter
  <2>2. ~Clash(plan[p].timing, plan[p].lessons, plan[q].timing, plan[q].lessons)
    BY <2>1 DEF PublishedDoNotClash
  <2> QED
    BY <1>1, <2>1, <2>2 DEF Clash
<1> QED
  BY <1>2, <1>3, <1>4, <1>5

(* Drafts of different sections that validate together: those that are published now do not *)
(* clash, nor with what other sections have published; what their own sections had          *)
(* published is archived.                                                                     *)
LEMMA PublishedTogether ==
  ASSUME TimetableInv, UNCHANGED timing, NEW P \in SUBSET Plan,
         \A p, q \in P : p # q => plan[p].section # plan[q].section,
         ValidPlans(P), plan' = InForce(P)
  PROVE  PublishedDoNotClash'
<1> USE DEF TimetableInv, TimetableTypes
<1> DEFINE S == {plan[p].section : p \in P}
           of(s) == CHOOSE p \in P : plan[p].section = s
           at == [s \in S |-> plan[of(s)].timing]
           lessons == [s \in S |-> plan[of(s)].lessons]
<1>1. Valid(S, at, lessons)
  BY DEF ValidPlans
<1>2. ASSUME NEW p \in P
      PROVE  /\ plan[p].section \in S /\ of(plan[p].section) = p
             /\ at[plan[p].section] = plan[p].timing /\ lessons[plan[p].section] = plan[p].lessons
  <2>1. plan[p].section \in S
    OBVIOUS
  <2>2. of(plan[p].section) = p
    OBVIOUS
  <2> QED
    BY <2>1, <2>2
<1>3. \A p \in Plan : plan[p] \in PlanRow /\ plan[p].timing \in Timing /\ plan[p].section \in Taught
  BY DEF TimetableTypeOK, PlanRow
<1>4. ASSUME NEW p \in Plan, plan'[p].status = "PUBLISHED", ~plan'[p].reassigned
      PROVE  /\ plan'[p].timing = plan[p].timing /\ plan'[p].lessons = plan[p].lessons
             /\ p \in P \/ (p \in Undisturbed /\ plan[p].section \notin S)
  <2>1. CASE p \in P
    BY <1>3, <2>1 DEF InForce, PlanRow
  <2>2. CASE p \notin P
    BY <1>3, <1>4, <2>2 DEF InForce, PlanRow, Undisturbed
  <2> QED
    BY <2>1, <2>2
<1>5. ASSUME NEW p \in P, NEW q \in P, p # q
      PROVE  ~Clash(plan[p].timing, plan[p].lessons, plan[q].timing, plan[q].lessons)
  <2>1. plan[p].section \in S /\ plan[q].section \in S /\ plan[p].section # plan[q].section
    BY <1>5
  <2>2. ~Clash(at[plan[p].section], lessons[plan[p].section], at[plan[q].section], lessons[plan[q].section])
    BY <1>1, <2>1 DEF Valid
  <2> QED
    BY <1>2, <2>2
<1>6. ASSUME NEW p \in P, NEW q \in Undisturbed, plan[q].section \notin S
      PROVE  ~Clash(plan[p].timing, plan[p].lessons, plan[q].timing, plan[q].lessons)
  <2>1. q \in External(S)
    BY <1>3, <1>6 DEF External, LivePlans, Undisturbed
  <2>2. ~Clash(at[plan[p].section], lessons[plan[p].section], plan[q].timing, plan[q].lessons)
    BY <1>1, <1>2, <2>1 DEF Valid
  <2> QED
    BY <1>2, <2>2
<1> HIDE DEF S
<1>7. ASSUME NEW p \in Plan, NEW q \in Plan, p # q,
             plan'[p].status = "PUBLISHED", ~plan'[p].reassigned, plan'[q].status = "PUBLISHED", ~plan'[q].reassigned
      PROVE  ~Clash(plan[p].timing, plan[p].lessons, plan[q].timing, plan[q].lessons)
  <2>1. CASE p \in P /\ q \in P
    BY <1>5, <1>7, <2>1
  <2>2. CASE p \in P /\ q \notin P
    BY <1>4, <1>6, <1>7, <2>2
  <2>3. CASE p \notin P /\ q \in P
    BY <1>3, <1>4, <1>6, <1>7, <2>3, ClashBoth
  <2>4. CASE p \notin P /\ q \notin P
    BY <1>4, <1>7, <2>4 DEF PublishedDoNotClash
  <2> QED
    BY <2>1, <2>2, <2>3, <2>4
<1> QED
  BY <1>4, <1>7 DEF PublishedDoNotClash, Undisturbed, Clash

(* A search and the drafts it stores: their timings were there when they were stored. *)
LEMMA SearchSteps ==
  ASSUME TimetableInv,
         \/ StoreDrafts
         \/ \E S \in SUBSET {s \in Taught : TimingsOf(s) # {}} : Search(S)
  PROVE  TimetableInv'
<1> USE DEF TimetableInv, TimetableTypes
<1>1. plan \in [Plan -> PlanRow] /\ lastPlan \in 0..MaxPlans /\ publishing \in 0..MaxPlans
  BY DEF TimetableTypeOK
<1>2. ASSUME NEW S \in SUBSET {s \in Taught : TimingsOf(s) # {}}, Search(S)
      PROVE  TimetableInv'
  <2>1. UNCHANGED <<timing, timingRow, capable, working, taughtBy, restricted, plan, lastPlan, publishing, setupAsked, setupEdits>>
    BY <1>2 DEF Search, timingVars, teacherVars, CountedPlan
  <2>2. /\ search'.sections = S /\ S # {} /\ S \in SUBSET Taught
        /\ search'.at \in [S -> Timing] /\ search'.lessons \in [S -> [Slot -> Teacher]]
    <3>1. PICK at \in [S -> Timing], lessons \in [S -> [Slot -> Teacher]] :
            search' = [sections |-> S, at |-> at, lessons |-> lessons, serial |-> [s \in S |-> timing[at[s]].serial]]
      BY <1>2 DEF Search
    <3> QED
      BY <1>2, <3>1 DEF Search
  <2>3. TimetableTypes'
    <3>1. Found'
      BY <2>2 DEF Found
    <3>2. TimetableTypeOK'
      BY <2>1, <2>2 DEF TimetableTypeOK
    <3>3. Edits'
      BY <2>1 DEF Edits
    <3> QED
      BY <3>1, <3>2, <3>3
  <2>4. PlansTimed' /\ PublishedDoNotClash'
    BY <2>1 DEF PlansTimed, Exists, PublishedDoNotClash, Undisturbed, Clash
  <2> QED
    BY <2>3, <2>4
<1>3. CASE StoreDrafts
  <2>1. CountedPlan /\ UNCHANGED <<timingVars, teacherVars, publishing>> /\ search # NoSearch /\ search' = NoSearch
    BY <1>3 DEF StoreDrafts
  <2>2. CASE UNCHANGED <<plan, lastPlan>>
    <3>1. PlanTypes /\ Quieter
      BY <1>1, <2>1, <2>2 DEF PlanTypes, PlansTimed, Quieter, Undisturbed, PlanRow
    <3> QED
      BY <2>1, <3>1, PlanChange
  <2>3. CASE ~UNCHANGED <<plan, lastPlan>>
    <3> DEFINE n == Cardinality(search.sections)
    <3>0. Valid(search.sections, search.at, search.lessons) /\ lastPlan + n <= MaxPlans /\ lastPlan' = lastPlan + n
      BY <1>3, <2>3 DEF StoreDrafts
    <3>1. PICK order \in [search.sections -> lastPlan + 1..lastPlan + n] :
            plan' = [p \in Plan |->
              IF \E s \in search.sections : order[s] = p
              THEN LET s == CHOOSE r \in search.sections : order[r] = p
                   IN [status |-> "DRAFT", section |-> s, timing |-> search.at[s],
                       lessons |-> search.lessons[s], affected |-> FALSE, reassigned |-> FALSE]
              ELSE plan[p]]
      BY <1>3, <2>3 DEF StoreDrafts
    <3>2. /\ search.sections \in SUBSET Taught /\ search.at \in [search.sections -> Timing]
          /\ search.lessons \in [search.sections -> [Slot -> Teacher]]
      BY <2>1 DEF Found
    <3>3. lastPlan' \in 0..MaxPlans
      <4>1. n \in Nat
        BY <3>2, FirstTimetables, FS_Subset, FS_CardinalityType
      <4> QED
        BY <1>1, <3>0, <4>1, FirstTimetables
    <3>4. ASSUME NEW s \in search.sections
          PROVE  LET row == [status |-> "DRAFT", section |-> s, timing |-> search.at[s],
                             lessons |-> search.lessons[s], affected |-> FALSE, reassigned |-> FALSE]
                 IN  row \in PlanRow /\ row.status = "DRAFT" /\ Exists(row.timing)
      <4>1. search.lessons[s] \in [Slot -> Teacher \cup {NoTeacher}] /\ search.at[s] \in Timing /\ s \in Taught
        BY <3>2
      <4>2. Exists(search.at[s])
        BY <3>0 DEF Valid, TimingsOf, Exists
      <4> QED
        BY <4>1, <4>2 DEF PlanRow
    <3>5. ASSUME NEW p \in Plan
          PROVE  \/ plan'[p] = plan[p]
                 \/ plan'[p] \in PlanRow /\ plan'[p].status = "DRAFT" /\ Exists(plan'[p].timing)
      <4>1. CASE \E s \in search.sections : order[s] = p
        <5>1. (CHOOSE r \in search.sections : order[r] = p) \in search.sections
          BY <4>1
        <5> QED
          BY <3>1, <3>4, <4>1, <5>1
      <4>2. CASE ~\E s \in search.sections : order[s] = p
        BY <3>1, <4>2
      <4> QED
        BY <4>1, <4>2
    <3>6. plan' \in [Plan -> PlanRow]
      BY <1>1, <3>1, <3>5
    <3>7. PlanTypes
      BY <1>1, <2>1, <3>3, <3>5, <3>6 DEF PlanTypes, PlansTimed
    <3>8. Quieter
      BY <3>5 DEF Quieter, Undisturbed
    <3> QED
      BY <2>1, <3>7, <3>8, PlanChange
  <2> QED
    BY <2>2, <2>3
<1> QED
  BY <1>2, <1>3

(* Publication, and what else happens to timetables. *)
LEMMA PlanSteps ==
  ASSUME TimetableInv,
         \/ Publish
         \/ \E s \in Taught : SaveRequirements(s)
         \/ \E p \in Plan : AskToPublish(p) \/ \E i \in Slot : RemoveEntry(p, i)
         \/ \E P \in SUBSET Plan : PublishAll(P) \/ RemovePlans(P)
  PROVE  TimetableInv'
<1> USE DEF TimetableInv, TimetableTypes
<1>1. /\ plan \in [Plan -> PlanRow] /\ lastPlan \in 0..MaxPlans /\ publishing \in 0..MaxPlans /\ MaxPlans \in Nat
      /\ \A p \in Plan : plan[p] \in PlanRow
  BY FirstTimetables DEF TimetableTypeOK
<1>2. CountedPlan /\ UNCHANGED <<timingVars, teacherVars, lastPlan, search>> /\ UNCHANGED timing
  BY DEF Publish, SaveRequirements, AskToPublish, RemoveEntry, PublishAll, RemovePlans, timingVars
(* A timetable keeps its timing, and is there only if it was. *)
<1>3. ASSUME plan' = [p \in Plan |-> plan'[p]], publishing' \in 0..MaxPlans, Quieter \/ PublishedDoNotClash',
             \A p \in Plan : /\ plan'[p] \in PlanRow /\ plan'[p].timing = plan[p].timing
                             /\ plan'[p].status # "NONE" => plan[p].status # "NONE"
      PROVE  TimetableInv'
  <2>1. plan' \in [Plan -> PlanRow]
    BY <1>3
  <2>2. PlanTypes
    BY <1>1, <1>2, <1>3, <2>1 DEF PlanTypes, PlansTimed
  <2> QED
    BY <1>2, <1>3, <2>2, PlanChange
<1>4. ASSUME NEW P \in SUBSET Plan, plan' = InForce(P), \A p \in P : plan[p].status = "DRAFT"
      PROVE  /\ plan' = [p \in Plan |-> plan'[p]]
             /\ \A p \in Plan : /\ plan'[p] \in PlanRow /\ plan'[p].timing = plan[p].timing
                                /\ plan'[p].status # "NONE" => plan[p].status # "NONE"
  <2>1. plan' = [p \in Plan |-> plan'[p]]
    BY <1>4 DEF InForce
  <2>2. ASSUME NEW p \in Plan
        PROVE  /\ plan'[p] \in PlanRow /\ plan'[p].timing = plan[p].timing
               /\ plan'[p].status # "NONE" => plan[p].status # "NONE"
    <3>1. plan'[p] \in {plan[p], [plan[p] EXCEPT !.status = "PUBLISHED"], [plan[p] EXCEPT !.status = "ARCHIVED"]}
      BY <1>4 DEF InForce
    <3>2. plan'[p] = plan[p] \/ plan[p].status \in {"DRAFT", "PUBLISHED"}
      BY <1>4 DEF InForce
    <3> QED
      BY <1>1, <3>1, <3>2 DEF PlanRow
  <2> QED
    BY <2>1, <2>2
<1>5. CASE Publish
  <2>1. publishing' = 0 /\ publishing \in Plan
    BY <1>1, <1>5 DEF Publish, Plan
  <2>2. CASE plan' = plan
    <3>1. Quieter
      BY <2>2 DEF Quieter, Undisturbed
    <3> QED
      BY <1>1, <1>3, <2>1, <2>2, <3>1
  <2>3. CASE plan[publishing].status = "DRAFT" /\ ValidPlans({publishing}) /\ plan' = InForce({publishing})
    <3> PICK P : P = {publishing}
      OBVIOUS
    <3>1. P \in SUBSET Plan /\ (\A p \in P : plan[p].status = "DRAFT") /\ ValidPlans(P) /\ plan' = InForce(P)
      BY <2>1, <2>3
    <3>2. PublishedDoNotClash'
      BY <1>2, <3>1, PublishedTogether
    <3> QED
      BY <1>1, <1>3, <1>4, <2>1, <3>1, <3>2
  <2> QED
    BY <1>5, <2>2, <2>3 DEF Publish
<1>6. ASSUME NEW P \in SUBSET Plan, PublishAll(P)
      PROVE  TimetableInv'
  <2>1. ValidPlans(P) /\ plan' = InForce(P) /\ UNCHANGED publishing /\ \A p \in P : plan[p].status = "DRAFT"
    BY <1>6 DEF PublishAll
  <2>2. ASSUME NEW p \in P, NEW q \in P, p # q
        PROVE  plan[p].section # plan[q].section
    <3>1. p < q \/ q < p
      BY <2>2 DEF Plan
    <3> QED
      BY <1>6, <2>1, <3>1 DEF PublishAll
  <2>3. PublishedDoNotClash'
    BY <1>2, <2>1, <2>2, PublishedTogether
  <2> QED
    BY <1>1, <1>3, <1>4, <2>1, <2>3
<1>7. ASSUME NEW p \in Plan, AskToPublish(p)
      PROVE  TimetableInv'
  <2>1. UNCHANGED plan /\ publishing' = p /\ p \in 0..MaxPlans
    BY <1>1, <1>7 DEF AskToPublish, Plan
  <2>2. Quieter
    BY <2>1 DEF Quieter, Undisturbed
  <2> QED
    BY <1>1, <1>3, <2>1, <2>2
<1>8. ASSUME NEW s \in Taught, SaveRequirements(s)
      PROVE  TimetableInv'
  <2>1. UNCHANGED publishing /\ plan' = [p \in Plan |-> plan'[p]]
    BY <1>8 DEF SaveRequirements
  <2>2. ASSUME NEW p \in Plan
        PROVE  /\ plan'[p] \in PlanRow /\ plan'[p].timing = plan[p].timing /\ plan'[p].status = plan[p].status
               /\ plan'[p].lessons = plan[p].lessons /\ plan'[p].reassigned = plan[p].reassigned
    <3>1. plan'[p] \in {plan[p], [plan[p] EXCEPT !.affected = TRUE]}
      BY <1>8 DEF SaveRequirements
    <3> QED
      BY <1>1, <3>1 DEF PlanRow
  <2>3. Quieter
    BY <2>2 DEF Quieter, Undisturbed
  <2> QED
    BY <1>1, <1>3, <2>1, <2>2, <2>3
<1>9. ASSUME NEW p \in Plan, NEW i \in Slot, RemoveEntry(p, i)
      PROVE  TimetableInv'
  <2>1. UNCHANGED publishing /\ plan' = [plan EXCEPT ![p].lessons[i] = NoTeacher]
    BY <1>9 DEF RemoveEntry
  <2>2. PICK lessons : lessons = [plan[p].lessons EXCEPT ![i] = NoTeacher]
    OBVIOUS
  <2>3. plan' = [plan EXCEPT ![p] = [plan[p] EXCEPT !.lessons = lessons]]
    BY <1>1, <2>1, <2>2
  <2>4. plan[p].lessons \in Lessons
    BY <1>1 DEF PlanRow, Lessons
  <2>5. lessons \in Lessons /\ \A j \in Slot : lessons[j] \in {plan[p].lessons[j], NoTeacher}
    BY <2>2, <2>4 DEF Lessons
  <2>6. ASSUME NEW r \in Plan
        PROVE  /\ plan'[r] \in PlanRow /\ plan'[r].timing = plan[r].timing /\ plan'[r].status = plan[r].status
               /\ plan'[r].reassigned = plan[r].reassigned
               /\ \A j \in Slot : plan'[r].lessons[j] \in {plan[r].lessons[j], NoTeacher}
    <3>1. plan'[r] = IF r = p THEN [plan[p] EXCEPT !.lessons = lessons] ELSE plan[r]
      BY <1>1, <2>3
    <3> QED
      BY <1>1, <2>5, <3>1 DEF PlanRow, Lessons
  <2>7. plan' = [r \in Plan |-> plan'[r]]
    BY <1>1, <2>3
  <2>8. Quieter
    BY <2>6 DEF Quieter, Undisturbed
  <2> QED
    BY <1>1, <1>3, <2>1, <2>6, <2>7, <2>8
<1>10. ASSUME NEW P \in SUBSET Plan, RemovePlans(P)
       PROVE  TimetableInv'
  <2>1. UNCHANGED publishing /\ plan' = [p \in Plan |-> plan'[p]]
    BY <1>10 DEF RemovePlans
  <2>2. ASSUME NEW p \in Plan
        PROVE  \/ plan'[p] = plan[p]
               \/ plan'[p] \in PlanRow /\ plan'[p].timing = plan[p].timing /\ plan'[p].status = "NONE"
    <3>1. plan'[p] \in {plan[p], [plan[p] EXCEPT !.status = "NONE"]}
      BY <1>10 DEF RemovePlans
    <3> QED
      BY <1>1, <3>1 DEF PlanRow
  <2>3. Quieter
    BY <2>2 DEF Quieter, Undisturbed
  <2> QED
    BY <1>1, <1>3, <2>1, <2>2, <2>3
<1> QED
  BY <1>5, <1>6, <1>7, <1>8, <1>9, <1>10

-----------------------------------------------------------------------------
(* At first the given timings and timetables are in force. *)
LEMMA TimetableStart == TimetableInit => TimetableInv
<1> SUFFICES ASSUME TimetableInit PROVE TimetableInv
  OBVIOUS
<1>1. /\ timing = FirstTiming /\ timingRow = FirstTimingRow /\ plan = FirstPlan /\ taughtBy = FirstTaughtBy
      /\ search = NoSearch /\ publishing = 0 /\ setupEdits = 0 /\ setupAsked = {}
      /\ MaxPlans \in Nat /\ MaxSetupEdits \in Nat
  BY FirstTimetables DEF TimetableInit
<1>2. lastPlan \in 0..MaxPlans
  <2> DEFINE P == {p \in Plan : FirstPlan[p].status # "NONE"}
  <2>1. IsFiniteSet(Plan) /\ Cardinality(Plan) = MaxPlans
    BY <1>1, FS_Interval DEF Plan
  <2>2. IsFiniteSet(P) /\ Cardinality(P) <= MaxPlans
    BY <2>1, FS_Subset
  <2> QED
    BY <1>1, <2>2, FS_CardinalityType DEF TimetableInit
<1>3. timing \in [Timing -> TimingRow]
  BY <1>1, FirstTimetables
<1>4. TimetableTypes
  <2>1. TimetableTypeOK
    BY <1>1, <1>2, <1>3, FirstTimetables DEF TimetableTypeOK, TimetableInit
  <2>2. Edits /\ Found
    BY <1>1 DEF Edits, Found
  <2> QED
    BY <2>1, <2>2 DEF TimetableTypes
<1>5. PlansTimed
  BY <1>1, FirstTimetables DEF PlansTimed, Exists
<1>6. PublishedDoNotClash
  BY <1>1, FirstTimetables DEF PublishedDoNotClash, Undisturbed, Clash
<1> QED
  BY <1>4, <1>5, <1>6 DEF TimetableInv

(* Every step keeps the invariant. *)
LEMMA TimetableStep == TimetableInv /\ [TimetableNext]_timetableVars => TimetableInv'
<1> SUFFICES ASSUME TimetableInv, [TimetableNext]_timetableVars PROVE TimetableInv'
  OBVIOUS
<1>1. CASE UNCHANGED timetableVars
  BY <1>1 DEF timetableVars, TimetableInv, TimetableTypes, TimetableTypeOK, Edits, Found, PlansTimed, Exists,
              PublishedDoNotClash, Undisturbed, Clash
<1>2. CASE TimetableNext
  BY <1>2, TimingAsked, TimingSteps, TeacherAsked, TeacherSteps, SearchSteps, PlanSteps DEF TimetableNext
<1> QED
  BY <1>1, <1>2

(* The invariant holds always. *)
LEMMA TimetableStays == TimetableSpec => []TimetableInv
BY TimetableStart, TimetableStep, PTL DEF TimetableSpec

(* Timetables are checked against drafts and published timetables of other sections, then   *)
(* published one at a time or together, while templates are edited, versioned and removed:   *)
(* no teacher is in two published lessons at the same time, unless replaceSubjectTeachers    *)
(* rewrote one of them while it was published.                                                 *)
THEOREM NoPublishedClash == TimetableSpec => []PublishedDoNotClash
BY TimetableStays, PTL DEF TimetableInv

(* Templates, assignments, profiles and timetables are well formed, and so are the requests    *)
(* on their way and what the search has found.                                                  *)
THEOREM TimetablesWellFormed == TimetableSpec => []TimetableTypeOK
BY TimetableStays, PTL DEF TimetableInv, TimetableTypes

-----------------------------------------------------------------------------
(* What buildTeachingPlan teaches after the first n topics, if there is such a function. *)
NoneTaught(p) == [last |-> 0, until |-> [t \in Topic(p) |-> 0], new |-> {}, short |-> FALSE]
Step(p, free, done, f, i) ==
  IF i = 0 THEN NoneTaught(p) ELSE TeachTopic(Topics[p][i], OnTime(free[TermOf[Topics[p][i]]]), TaughtIn(done, Topics[p][i]), f[i - 1])
UpTo(p, free, done, f, n) == f = [i \in 0..n |-> Step(p, free, done, f, i)]

(* There is: the least number of topics without one would have one, that of the topics *)
(* before it and one more.                                                               *)
LEMMA TaughtUpTo ==
  ASSUME NEW p, NEW free, NEW done, NEW n \in Nat
  PROVE  \E f : UpTo(p, free, done, f, n)
<1> DEFINE Bad == {m \in Nat : ~\E f : UpTo(p, free, done, f, m)}
<1>1. SUFFICES ASSUME Bad # {} PROVE FALSE
  OBVIOUS
<1>2. PICK m \in Bad : \A k \in Bad : m <= k
  <2>1. Bad \in SUBSET Nat
    OBVIOUS
  <2> HIDE DEF Bad
  <2> QED
    BY <1>1, <2>1, LeastNatural
<1>3. CASE m = 0
  <2> DEFINE f == [i \in 0..0 |-> NoneTaught(p)]
  <2>1. f = [i \in 0..0 |-> Step(p, free, done, f, i)]
    BY DEF Step
  <2> QED
    BY <1>2, <1>3, <2>1 DEF UpTo
<1>4. CASE m # 0
  <2>1. m - 1 \in Nat /\ m - 1 \notin Bad
    BY <1>2, <1>4
  <2>2. PICK f : f = [i \in 0..m - 1 |-> Step(p, free, done, f, i)]
    BY <2>1 DEF UpTo
  <2> DEFINE g == [i \in 0..m |-> Step(p, free, done, f, i)]
  <2>3. ASSUME NEW i \in 0..m
        PROVE  Step(p, free, done, f, i) = Step(p, free, done, g, i)
    <3>1. CASE i = 0
      BY <3>1 DEF Step
    <3>2. CASE i # 0
      <4>1. i - 1 \in 0..m - 1 /\ i - 1 \in 0..m
        BY <3>2
      <4>2. f[i - 1] = g[i - 1]
        BY <2>2, <4>1
      <4> HIDE DEF g
      <4> QED
        BY <3>2, <4>2 DEF Step
    <3> QED
      BY <3>1, <3>2
  <2>4. g = [i \in 0..m |-> Step(p, free, done, g, i)]
    <3> DEFINE h == [i \in 0..m |-> Step(p, free, done, g, i)]
    <3>1. \A i \in 0..m : g[i] = h[i]
      BY <2>3
    <3> QED
      BY <3>1
  <2> QED
    BY <1>2, <2>4 DEF UpTo
<1> QED
  BY <1>3, <1>4

(* Every session of a plan is in a slot that is free in some term and for a topic of the program. *)
LEMMA TeachesInFree ==
  ASSUME NEW p \in Program, NEW free, NEW done, NEW S, \A t \in Topic(p) : free[TermOf[t]] \subseteq S
  PROVE  Teach(p, free, done).new \subseteq [slot : S, topic : Topic(p)]
<1> DEFINE n == Len(Topics[p])
           f == CHOOSE f : UpTo(p, free, done, f, n)
           good == [slot : S, topic : Topic(p)]
<1>1. n \in Nat /\ DOMAIN Topics[p] = 1..n
  BY TopicsAssumption
<1>2. UpTo(p, free, done, f, n)
  <2>1. \E g : UpTo(p, free, done, g, n)
    BY <1>1, TaughtUpTo
  <2> QED
    BY <2>1
<1>3. Teach(p, free, done) = f[n]
  BY Zenon DEF Teach, UpTo, Step, NoneTaught
<1> HIDE DEF f
<1>4. \A i \in 0..n : f[i] = Step(p, free, done, f, i)
  BY <1>2 DEF UpTo
<1> DEFINE Bad == {i \in 0..n : ~(f[i].new \subseteq good)}
<1>5. SUFFICES ASSUME Bad # {} PROVE FALSE
  BY <1>1, <1>3
<1>6. PICK i \in Bad : \A k \in Bad : i <= k
  <2>1. Bad \in SUBSET Nat
    BY <1>1
  <2> HIDE DEF Bad
  <2> QED
    BY <1>5, <2>1, LeastNatural
<1>7. i # 0
  BY <1>4, <1>6 DEF Step, NoneTaught
<1>8. i - 1 \in 0..n /\ i - 1 \notin Bad /\ i \in 1..n
  BY <1>1, <1>6, <1>7
<1>9. f[i] = TeachTopic(Topics[p][i], OnTime(free[TermOf[Topics[p][i]]]), TaughtIn(done, Topics[p][i]), f[i - 1])
  BY <1>4, <1>7, <1>8 DEF Step
<1>10. Topics[p][i] \in Topic(p)
  BY <1>1, <1>8 DEF Topic
<1>11. ASSUME NEW t \in Topic(p), NEW stay, NEW before
       PROVE  TeachTopic(t, OnTime(free[TermOf[t]]), stay, before).new \subseteq before.new \cup good
  <2> DEFINE usable == OnTime(free[TermOf[t]])
  <2>1. PICK needed, room, taken :
          /\ room \subseteq usable
          /\ taken = {s \in room : Cardinality({x \in room : x < s}) < needed}
          /\ TeachTopic(t, usable, stay, before).new = before.new \cup {[slot |-> s, topic |-> t] : s \in taken}
    <3> DEFINE needed == Max({0, Periods[t] - Cardinality(stay)})
               barrier == Max({0} \cup stay \cup {before.until[q] : q \in Requires[t]})
               room == {s \in usable : s > before.last /\ s > barrier}
               taken == {s \in room : Cardinality({x \in room : x < s}) < needed}
    <3>1. TeachTopic(t, usable, stay, before).new = before.new \cup {[slot |-> s, topic |-> t] : s \in taken}
      BY DEF TeachTopic
    <3> HIDE DEF needed, barrier
    <3>2. room \subseteq usable
      OBVIOUS
    <3> HIDE DEF room
    <3>3. taken = {s \in room : Cardinality({x \in room : x < s}) < needed}
      OBVIOUS
    <3> HIDE DEF taken
    <3> QED
      BY <3>1, <3>2, <3>3
  <2>2. taken \subseteq S
    BY <2>1 DEF OnTime
  <2>3. {[slot |-> s, topic |-> t] : s \in taken} \subseteq good
    BY <2>2
  <2> QED
    BY <2>1, <2>3
<1>12. PICK before : before = f[i - 1]
  OBVIOUS
<1>13. f[i].new \subseteq before.new \cup good
  BY <1>9, <1>10, <1>11, <1>12
<1> QED
  BY <1>6, <1>8, <1>12, <1>13

-----------------------------------------------------------------------------
(* Sessions are rows; a row that is gone has no lesson, and what counts as taught was approved. *)
Sessions(p) == [status : {"NONE", "PLANNED", "COMPLETED", "POSTPONED", "RETEACH"}, topic : Topic(p) \cup {"-"},
                lesson : LessonStatus, reviewed : BOOLEAN]
Sound(p, row) == /\ row \in Sessions(p)
                 /\ row.status = "NONE" => row.lesson = "EMPTY"
                 /\ row.status = "COMPLETED" => row.lesson = "APPROVED"
SessionsSound == \A p \in Program : /\ session[p] = [s \in DateSlot |-> session[p][s]]
                                    /\ \A s \in DateSlot : Sound(p, session[p][s])
Shaped == /\ program \in [Program -> [status : {"NONE", "DRAFT", "APPROVED"}, reviewed : BOOLEAN]]
          /\ session = [p \in Program |-> session[p]] /\ planning = [p \in Program |-> planning[p]]
          /\ prepared \subseteq Program \X DateSlot
(* A plan that is not saved yet adds sessions beside those it keeps, and keeps those with an *)
(* approved lesson: a change of the program's sessions claims its revision and drops it.     *)
Computed == \A p \in Program : planning[p] # NoPlan =>
               /\ planning[p].new \subseteq [slot : DateSlot \ planning[p].kept, topic : Topic(p)]
               /\ \A s \in DateSlot : session[p][s].lesson = "APPROVED" => s \in planning[p].kept
PlanningInv == Shaped /\ SessionsSound /\ Computed /\ ReplanIsSafe

(* Two slots overlap, whichever is named first. *)
LEMMA MeetBoth == \A a, b \in DateSlot : Meet(a, b) <=> Meet(b, a)
BY DEF Meet

(* The program: its status is no part of the sessions. *)
LEMMA ProgramSteps ==
  ASSUME PlanningInv, NEW p \in Program,
         \/ CreateProgram(p) \/ Analyze(p) \/ ReviewProgram(p) \/ ApproveProgram(p) \/ GiveUp(p)
  PROVE  PlanningInv'
<1> USE DEF PlanningInv, Shaped
<1>1. UNCHANGED <<session, prepared>> /\ planning' = [planning EXCEPT ![p] = NoPlan]
  BY DEF CreateProgram, Analyze, ReviewProgram, ApproveProgram, GiveUp, SetProgram, Claimed
<1>2. program' \in [Program -> [status : {"NONE", "DRAFT", "APPROVED"}, reviewed : BOOLEAN]]
  <2>1. CASE GiveUp(p)
    BY <2>1 DEF GiveUp
  <2>2. CASE CreateProgram(p) \/ Analyze(p) \/ ReviewProgram(p) \/ ApproveProgram(p)
    <3>1. \E row \in [status : {"NONE", "DRAFT", "APPROVED"}, reviewed : BOOLEAN] : program' = [program EXCEPT ![p] = row]
      BY <2>2 DEF CreateProgram, Analyze, ReviewProgram, ApproveProgram, SetProgram
    <3> QED
      BY <3>1
  <2> QED
    BY <2>1, <2>2
<1>3. planning' = [q \in Program |-> planning'[q]] /\ \A q \in Program : planning'[q] \in {planning[q], NoPlan}
  BY <1>1
<1>4. Shaped' /\ SessionsSound'
  BY <1>1, <1>2, <1>3 DEF SessionsSound, Sound
<1>5. Computed'
  BY <1>1, <1>3 DEF Computed
<1>6. ReplanIsSafe'
  BY <1>1 DEF ReplanIsSafe, PlannedApart, Ahead, PreparedKept
<1> QED
  BY <1>4, <1>5, <1>6

(* A computed plan keeps what is protected and plans only in slots that are free. *)
LEMMA StartPlanStep ==
  ASSUME PlanningInv, NEW p \in Program, NEW offered \in Offered[p], NEW from \in DateSlot, StartPlan(p, offered, from)
  PROVE  PlanningInv'
<1> USE DEF PlanningInv, Shaped
<1> DEFINE kept == Protected(p, from)
<1>1. UNCHANGED <<program, session, prepared>>
  BY DEF StartPlan
<1>2. PICK free, done : /\ \A t \in Topic(p) : free[TermOf[t]] \subseteq offered[TermOf[t]] \ kept
                        /\ planning' = [planning EXCEPT ![p] = [new |-> Teach(p, free, done).new, kept |-> kept]]
  <2> DEFINE counted == {s \in kept : session[p][s].status = "COMPLETED" \/ (session[p][s].status = "PLANNED" /\ s >= from)}
             free == [term \in DOMAIN offered |-> {s \in offered[term] \ kept :
                        s >= from /\ \A q \in Program \ {p} : \A x \in Planned(q) : ~Meet(s, x)}]
             done == {[slot |-> s, topic |-> session[p][s].topic] : s \in counted}
  <2>1. planning' = [planning EXCEPT ![p] = [new |-> Teach(p, free, done).new, kept |-> kept]]
    BY DEF StartPlan
  <2> HIDE DEF kept, done
  <2>2. ASSUME NEW t \in Topic(p) PROVE free[TermOf[t]] \subseteq offered[TermOf[t]] \ kept
    BY TopicsAssumption
  <2> HIDE DEF free
  <2> QED
    BY <2>1, <2>2
<1>3. PICK new : new = Teach(p, free, done).new
  OBVIOUS
<1>5. new \subseteq [slot : DateSlot \ kept, topic : Topic(p)]
  <2>1. \A t \in Topic(p) : free[TermOf[t]] \subseteq DateSlot \ kept
    BY <1>2, TopicsAssumption
  <2> HIDE DEF kept
  <2> QED
    BY <1>3, <2>1, TeachesInFree
<1>6. \A s \in DateSlot : session[p][s].lesson = "APPROVED" => s \in kept
  BY DEF Protected, SessionsSound, Sound
<1>7. planning' = [q \in Program |-> planning'[q]] /\ \A q \in Program \ {p} : planning'[q] = planning[q]
  BY <1>2
<1>8. planning'[p].new = new /\ planning'[p].kept = kept
  BY <1>2, <1>3
<1> HIDE DEF kept
<1>9. Computed'
  <2> SUFFICES ASSUME NEW q \in Program, planning'[q] # NoPlan
               PROVE  /\ planning'[q].new \subseteq [slot : DateSlot \ planning'[q].kept, topic : Topic(q)]
                      /\ \A s \in DateSlot : session[q][s].lesson = "APPROVED" => s \in planning'[q].kept
    BY <1>1 DEF Computed
  <2>1. CASE q = p
    BY <1>5, <1>6, <1>8, <2>1
  <2>2. CASE q # p
    BY <1>7, <2>2 DEF Computed
  <2> QED
    BY <2>1, <2>2
<1>10. Shaped' /\ SessionsSound' /\ ReplanIsSafe'
  BY <1>1, <1>7 DEF SessionsSound, Sound, ReplanIsSafe, PlannedApart, Ahead, PreparedKept
<1> QED
  BY <1>9, <1>10

(* A saved plan: the others' sessions are those of the lock, not those it was computed from. *)
LEMMA SavePlanStep ==
  ASSUME PlanningInv, NEW p \in Program, SavePlan(p)
  PROVE  PlanningInv'
<1> USE DEF PlanningInv, Shaped
<1>1. UNCHANGED <<program, prepared>> /\ planning' = [planning EXCEPT ![p] = NoPlan] /\ planning[p] # NoPlan /\ ~Concurrent(p)
  BY DEF SavePlan, Claimed
<1>2. PICK new, kept : new = planning[p].new /\ kept = planning[p].kept
  OBVIOUS
<1>3. /\ new \subseteq [slot : DateSlot \ kept, topic : Topic(p)]
      /\ \A s \in DateSlot : session[p][s].lesson = "APPROVED" => s \in kept
  BY <1>1, <1>2 DEF Computed
<1>4. /\ session' = [q \in Program |-> session'[q]]
      /\ \A q \in Program \ {p} : session'[q] = session[q]
      /\ session'[p] = [s \in DateSlot |->
           IF \E x \in new : x.slot = s
             THEN [NoSession EXCEPT !.status = "PLANNED", !.topic = (CHOOSE x \in new : x.slot = s).topic]
           ELSE IF s \in kept THEN session[p][s] ELSE NoSession]
  BY <1>2 DEF SavePlan
<1>5. ASSUME NEW s \in DateSlot
      PROVE  \/ /\ \E x \in new : x.slot = s
                /\ s \notin kept
                /\ Sound(p, session'[p][s]) /\ session'[p][s].lesson = "EMPTY"
             \/ s \in kept /\ session'[p][s] = session[p][s]
             \/ s \notin kept /\ session'[p][s] = NoSession
  <2>1. CASE \E x \in new : x.slot = s
    <3>1. PICK t : t = (CHOOSE x \in new : x.slot = s).topic
      OBVIOUS
    <3>2. t \in Topic(p)
      BY <1>3, <2>1, <3>1
    <3>3. session'[p][s] = [status |-> "PLANNED", topic |-> t, lesson |-> "EMPTY", reviewed |-> FALSE]
      <4>1. session'[p][s] = [NoSession EXCEPT !.status = "PLANNED", !.topic = t]
        BY <1>4, <2>1, <3>1
      <4> QED
        BY <4>1 DEF NoSession
    <3>4. s \notin kept
      BY <1>3, <2>1
    <3> QED
      BY <2>1, <3>2, <3>3, <3>4 DEF Sound, Sessions, LessonStatus
  <2>2. CASE ~\E x \in new : x.slot = s
    BY <1>4, <2>2
  <2> QED
    BY <2>1, <2>2
<1>6. Sound(p, NoSession)
  BY DEF Sound, Sessions, NoSession, LessonStatus
<1>7. SessionsSound'
  <2> SUFFICES ASSUME NEW q \in Program
               PROVE  session'[q] = [s \in DateSlot |-> session'[q][s]] /\ \A s \in DateSlot : Sound(q, session'[q][s])
    BY DEF SessionsSound
  <2>1. CASE q = p
    BY <1>4, <1>5, <1>6, <2>1 DEF SessionsSound
  <2>2. CASE q # p
    BY <1>4, <2>2 DEF SessionsSound
  <2> QED
    BY <2>1, <2>2
<1>8. planning' = [q \in Program |-> planning'[q]] /\ planning'[p] = NoPlan /\ \A q \in Program \ {p} : planning'[q] = planning[q]
  BY <1>1
<1>9. Shaped' /\ Computed'
  BY <1>1, <1>4, <1>8 DEF Computed
<1>10. PreparedKept'
  <2> SUFFICES ASSUME NEW q \in Program, NEW s \in DateSlot, <<q, s>> \in prepared
               PROVE  session'[q][s].lesson = "APPROVED"
    BY <1>1 DEF PreparedKept
  <2>1. session[q][s].lesson = "APPROVED"
    BY DEF ReplanIsSafe, PreparedKept
  <2> QED
    BY <1>3, <1>4, <1>5, <2>1
<1>11. ASSUME NEW q \in Program, q # p, NEW a \in Ahead(p)', NEW b \in Ahead(q)
       PROVE  ~Meet(a, b)
  <2>0. a \in DateSlot /\ b \in DateSlot /\ b \in Planned(q) /\ session'[p][a].status = "PLANNED"
    BY <1>11 DEF Ahead, Planned
  <2>1. CASE \E x \in new : x.slot = a
    <3>1. ~\E x \in new : \E s \in Planned(q) : Meet(x.slot, s)
      BY <1>1, <1>2, <1>11 DEF Concurrent
    <3> QED
      BY <2>0, <2>1, <3>1
  <2>2. CASE ~\E x \in new : x.slot = a
    <3>1. session'[p][a] = session[p][a]
      BY <1>5, <2>0, <2>2 DEF NoSession
    <3>2. a \in Ahead(p)
      BY <2>0, <3>1 DEF Ahead
    <3> QED
      BY <1>11, <3>2 DEF ReplanIsSafe, PlannedApart
  <2> QED
    BY <2>1, <2>2
<1>12. PlannedApart'
  <2> SUFFICES ASSUME NEW q \in Program, NEW r \in Program, q # r, NEW a \in Ahead(q)', NEW b \in Ahead(r)'
               PROVE  ~Meet(a, b)
    BY DEF PlannedApart, Meet
  <2>1. ASSUME NEW x \in Program, x # p PROVE Ahead(x)' = Ahead(x)
    <3>1. session'[x] = session[x]
      BY <1>4, <2>1
    <3> QED
      BY <3>1 DEF Ahead
  <2>2. a \in DateSlot /\ b \in DateSlot
    BY DEF Ahead
  <2>3. CASE q = p
    BY <1>11, <2>1, <2>3
  <2>4. CASE r = p
    BY <1>11, <2>1, <2>2, <2>4, MeetBoth
  <2>5. CASE q # p /\ r # p
    BY <2>1, <2>5 DEF ReplanIsSafe, PlannedApart
  <2> QED
    BY <2>3, <2>4, <2>5
<1> QED
  BY <1>7, <1>9, <1>10, <1>12 DEF ReplanIsSafe

(* A change of one session: it becomes planned no more than it was, and keeps an approved lesson. *)
LEMMA SessionChange ==
  ASSUME PlanningInv, NEW p \in Program, NEW s \in DateSlot, NEW row, SetSession(p, s, row), Sound(p, row),
         row.status = "PLANNED" => session[p][s].status = "PLANNED",
         session[p][s].lesson = "APPROVED" => row.lesson = "APPROVED",
         \/ prepared' = prepared
         \/ prepared' = prepared \cup {<<p, s>>} /\ row.lesson = "APPROVED"
  PROVE  PlanningInv'
<1> USE DEF PlanningInv, Shaped
<1>1. UNCHANGED program /\ planning' = [planning EXCEPT ![p] = NoPlan] /\ session' = [session EXCEPT ![p][s] = row]
  BY DEF SetSession, Claimed
<1>2. /\ session' = [q \in Program |-> session'[q]]
      /\ \A q \in Program : /\ session'[q] = [x \in DateSlot |-> session'[q][x]]
                            /\ \A x \in DateSlot : session'[q][x] = IF q = p /\ x = s THEN row ELSE session[q][x]
  BY <1>1 DEF SessionsSound
<1>3. SessionsSound'
  BY <1>2 DEF SessionsSound
<1>4. planning' = [q \in Program |-> planning'[q]] /\ planning'[p] = NoPlan /\ \A q \in Program \ {p} : planning'[q] = planning[q]
  BY <1>1
<1>5. Shaped'
  BY <1>1, <1>2, <1>4
<1>6. Computed'
  BY <1>2, <1>4 DEF Computed
<1>7. PreparedKept'
  <2> SUFFICES ASSUME NEW q \in Program, NEW x \in DateSlot, <<q, x>> \in prepared'
               PROVE  session'[q][x].lesson = "APPROVED"
    BY <1>5 DEF PreparedKept
  <2>1. CASE <<q, x>> \in prepared
    BY <1>2, <2>1 DEF ReplanIsSafe, PreparedKept
  <2>2. CASE <<q, x>> \notin prepared
    BY <1>2, <2>2
  <2> QED
    BY <2>1, <2>2
<1>8. \A q \in Program : Ahead(q)' \subseteq Ahead(q)
  BY <1>2 DEF Ahead
<1>9. PlannedApart'
  BY <1>8 DEF ReplanIsSafe, PlannedApart, Meet
<1> QED
  BY <1>3, <1>5, <1>6, <1>7, <1>9 DEF ReplanIsSafe

(* Progress and lessons. *)
LEMMA SessionSteps ==
  ASSUME PlanningInv, NEW p \in Program, NEW s \in DateSlot,
         \/ \E status \in {"COMPLETED", "POSTPONED", "RETEACH"} : Progress(p, s, status)
         \/ \E reviewed \in BOOLEAN : DraftLesson(p, s, reviewed)
         \/ ApproveLesson(p, s)
  PROVE  PlanningInv'
<1>1. PICK old : old = session[p][s]
  OBVIOUS
<1>2. Sound(p, old) /\ old \in Sessions(p)
  BY <1>1 DEF PlanningInv, SessionsSound, Sound
<1>3. ASSUME NEW status \in {"COMPLETED", "POSTPONED", "RETEACH"}, Progress(p, s, status)
      PROVE  PlanningInv'
  <2>1. PICK row : row = [old EXCEPT !.status = status]
    OBVIOUS
  <2>2. SetSession(p, s, row) /\ UNCHANGED prepared /\ (status = "COMPLETED" => old.lesson = "APPROVED")
    BY <1>1, <1>3, <2>1 DEF Progress
  <2>3. row \in Sessions(p) /\ row.status = status /\ row.lesson = old.lesson
    BY <1>2, <2>1 DEF Sessions
  <2> QED
    BY <1>1, <2>2, <2>3, SessionChange DEF Sound
<1>4. ASSUME NEW reviewed \in BOOLEAN, DraftLesson(p, s, reviewed)
      PROVE  PlanningInv'
  <2>1. PICK row : row = [old EXCEPT !.lesson = "DRAFT", !.reviewed = reviewed]
    OBVIOUS
  <2>2. SetSession(p, s, row) /\ UNCHANGED prepared /\ old.lesson # "APPROVED"
    BY <1>1, <1>4, <2>1 DEF DraftLesson
  <2>3. row \in Sessions(p) /\ row.status = old.status /\ row.lesson = "DRAFT"
    BY <1>2, <2>1 DEF Sessions, LessonStatus
  <2>4. old.status # "NONE"
    BY <1>1, <2>2 DEF SetSession
  <2> QED
    BY <1>1, <1>2, <2>2, <2>3, <2>4, SessionChange DEF Sound
<1>5. CASE ApproveLesson(p, s)
  <2>1. PICK row : row = [old EXCEPT !.lesson = "APPROVED"]
    OBVIOUS
  <2>2. SetSession(p, s, row) /\ prepared' = prepared \cup {<<p, s>>}
    BY <1>1, <1>5, <2>1 DEF ApproveLesson
  <2>3. row \in Sessions(p) /\ row.status = old.status /\ row.lesson = "APPROVED"
    BY <1>2, <2>1 DEF Sessions, LessonStatus
  <2>4. old.status # "NONE"
    BY <1>1, <2>2 DEF SetSession
  <2> QED
    BY <1>1, <1>2, <2>2, <2>3, <2>4, SessionChange DEF Sound
<1> QED
  BY <1>3, <1>4, <1>5

(* At first nothing is planned; every step keeps the invariant; so it holds always. *)
LEMMA PlanningStart == PlanningInit => PlanningInv
BY DEF PlanningInit, PlanningInv, Shaped, SessionsSound, Sound, Sessions, NoSession, LessonStatus, Computed,
       ReplanIsSafe, PlannedApart, Ahead, PreparedKept

LEMMA PlanningStep == PlanningInv /\ [PlanningNext]_planningVars => PlanningInv'
<1> SUFFICES ASSUME PlanningInv, [PlanningNext]_planningVars PROVE PlanningInv'
  OBVIOUS
<1>1. CASE UNCHANGED planningVars
  <2>1. UNCHANGED <<program, session, planning, prepared>>
    BY <1>1 DEF planningVars
  <2>2. Shaped' /\ SessionsSound' /\ Computed'
    BY <2>1 DEF PlanningInv, Shaped, SessionsSound, Sound, Computed
  <2>3. PlannedApart' /\ PreparedKept'
    BY <2>1 DEF PlanningInv, ReplanIsSafe, PlannedApart, Ahead, PreparedKept
  <2> QED
    BY <2>2, <2>3 DEF PlanningInv, ReplanIsSafe
<1>2. CASE PlanningNext
  BY <1>2, ProgramSteps, StartPlanStep, SavePlanStep, SessionSteps DEF PlanningNext
<1> QED
  BY <1>1, <1>2

LEMMA PlanningStays == PlanningSpec => []PlanningInv
BY PlanningStart, PlanningStep, PTL DEF PlanningSpec

(* Plans are computed before the section's lock is taken and saved under it: no two programs  *)
(* are planned for overlapping periods, and no replanning throws away an approved lesson.      *)
THEOREM ReplanningIsSafe == PlanningSpec => []ReplanIsSafe
BY PlanningStays, PTL DEF PlanningInv

(* Programs and sessions are well formed; a session is marked as taught only when its lesson   *)
(* was approved.                                                                                *)
THEOREM NothingTaughtUnprepared == PlanningSpec => []PlanningTypeOK
<1>1. PlanningInv => PlanningTypeOK
  BY DEF PlanningInv, Shaped, SessionsSound, Sound, Sessions, PlanningTypeOK
<1> QED
  BY <1>1, PlanningStays, PTL

-----------------------------------------------------------------------------
(* The parts of the school's life that the run teaching puts side by side share no        *)
(* variable: whichever of them moves, each of them behaves as its own specification says.  *)
THEOREM PartsOfTeaching ==
  TeachingSpec => /\ PresenceSpec /\ TimetableSpec /\ AssessmentSpec
                  /\ PlanningSpec /\ StructureSpec /\ AccessSpec
<1> DEFINE vars == <<part, presenceVars, timetableVars, assessmentVars, planningVars, structureVars, accessVars>>
<1>1. TeachingInit => /\ PresenceInit /\ TimetableInit /\ AssessmentInit
                      /\ PlanningInit /\ StructureInit /\ AccessInit
  BY DEF TeachingInit
<1>2. [TeachingNext]_vars => /\ [PresenceNext]_presenceVars /\ [TimetableNext]_timetableVars
                             /\ [AssessmentNext]_assessmentVars /\ [PlanningNext]_planningVars
                             /\ [StructureNext]_structureVars /\ [AccessNext]_accessVars
  BY DEF TeachingNext, PresenceMove, TimetableMove, AssessmentMove, PlanningMove, StructureMove, AccessMove
<1> QED
  BY <1>1, <1>2, PTL DEF TeachingSpec, PresenceSpec, TimetableSpec, AssessmentSpec, PlanningSpec, StructureSpec, AccessSpec

(* So the rows of whichever part moves are well formed. *)
THEOREM TeachingWellFormed == TeachingSpec => []TeachingTypeOK
<1>1. /\ PresenceTypeOK /\ TimetableTypeOK /\ AssessmentTypeOK /\ PlanningTypeOK /\ StructureTypeOK /\ AccessTypeOK
      => TeachingTypeOK
  BY DEF TeachingTypeOK
<1> QED
  BY <1>1, PartsOfTeaching, DayWellFormed, TimetablesWellFormed, AssessmentsWellFormed, NothingTaughtUnprepared,
     AssignmentsRefer, AccessWellFormed, PTL
=============================================================================
