------------------------- MODULE AssessmentWorkflow -------------------------
(***************************************************************************)
(* Assessments of one section: versioned patterns, marks and observations,  *)
(* submission, review, approval and publication of immutable reports, and   *)
(* the generated comments that teachers review before a report carries      *)
(* them.  AssessmentService works in transactions that take the revision    *)
(* the caller saw (touch): a request with another revision changes nothing  *)
(* and is left out.  A generation is three steps: evidence is read, budget  *)
(* is reserved under a lock, and the provider answers, or never does.       *)
(***************************************************************************)
EXTENDS Integers, FiniteSets, Sequences, FiniteSetsExt

CONSTANTS
    Pupil, Exam, Generation,
    Term,                     \* terms that are not annual
    PatternConfig,            \* [terms, marks, competencies] a pattern may have; "ANNUAL" is a term
    FirstPatterns, FirstBudget, AiBudget,
    Opened,                   \* exams that start as drafts with an observation of every pupil
    Reserved,                 \* what a request reserves of the budget
    Instructions,             \* what a teacher may ask of a comment
    EvidenceLimit,            \* observations a comment is about, the first by id; 500 in the code
    MaxVersions, MaxObservations, MaxAssessmentSteps

ScopeKey == <<"CLASS", "GROUP", "SCHOOL">>      \* of the class of the section, the nearest first
Mark == {"NONE", "PARTIAL", "LOW", "HIGH"}      \* PARTIAL: a draft without every component
Config == [terms : SUBSET (Term \cup {"ANNUAL"}), marks : BOOLEAN, competencies : BOOLEAN]
ExamStatus == {"NONE", "DRAFT", "SUBMITTED", "REVIEWED", "APPROVED", "PUBLISHED"}

ASSUME AssessmentAssumption ==
    /\ Term # {} /\ PatternConfig # {} /\ PatternConfig \subseteq Config
    /\ MaxObservations \in Nat \ {0} /\ EvidenceLimit \in Nat \ {0}
    /\ FirstPatterns \in [{"CLASS", "GROUP", "SCHOOL"} -> Seq(PatternConfig)]
    /\ Opened # {} => \E i \in 1..3 : FirstPatterns[ScopeKey[i]] # <<>>
ASSUME BudgetAssumption ==
    IsFiniteSet(Generation) /\ Reserved \in Nat /\ FirstBudget \in Nat /\ AiBudget \subseteq Nat

VARIABLES
    patterns,      \* per scope, its versions of the AssessmentPattern
    enrolledNow,   \* pupils with an active enrolment in the section
    exam,          \* Exam: with its own copy of the pattern and the roster
    marks,         \* StudentMark
    observations,  \* AssessmentObservation: how many, and which version of the first EvidenceLimit by id
    reports,       \* AssessmentReport
    generation,    \* AiGeneration: comments on one pupil
    aiBudget,      \* monthlyTokenBudget; 0: disabled
    approvedAs,    \* history: what was approved, per exam
    highestBudget, \* history: the largest budget ever in force
    consumed,      \* history: what the provider used, in answers and in failures
    assessmentSteps
assessmentVars == <<patterns, enrolledNow, exam, marks, observations, reports, generation, aiBudget,
                    approvedAs, highestBudget, consumed, assessmentSteps>>
examVars == <<exam, marks, observations, reports, approvedAs>>
aiVars == <<generation, aiBudget, highestBudget, consumed>>
-----------------------------------------------------------------------------
CountedAssessment == assessmentSteps < MaxAssessmentSteps /\ assessmentSteps' = assessmentSteps + 1

FirstTerm == CHOOSE term \in Term : TRUE
NoExam == [status |-> "NONE", revision |-> 1, term |-> "ANNUAL", config |-> CHOOSE c \in PatternConfig : TRUE,
           roster |-> {}, approved |-> FALSE]
Noted(n, version) == [all |-> n, first |-> version]
Opening(config, term, S) ==
    [status |-> "DRAFT", revision |-> 1, term |-> term, config |-> config, roster |-> S, approved |-> FALSE]
LatestOf(P) ==      \* of the nearest scope that has a pattern, the latest
    LET i == Min({j \in 1..3 : P[ScopeKey[j]] # <<>>})
    IN P[ScopeKey[i]][Len(P[ScopeKey[i]])]
AssessmentInit ==
    /\ patterns = FirstPatterns /\ enrolledNow = Pupil
    /\ exam = [e \in Exam |-> IF e \in Opened THEN Opening(LatestOf(FirstPatterns), FirstTerm, Pupil) ELSE NoExam]
    /\ marks = [e \in Exam |-> [k \in Pupil |-> "NONE"]]
    /\ observations = [e \in Exam |-> [k \in Pupil |-> IF e \in Opened THEN Noted(1, 1) ELSE Noted(0, 0)]]
    /\ reports = {}
    /\ generation = [g \in Generation |-> [status |-> "NONE", exam |-> CHOOSE e \in Exam : TRUE,
                        pupil |-> CHOOSE k \in Pupil : TRUE, evidence |-> 0, revision |-> 1,
                        instructions |-> CHOOSE i \in Instructions : TRUE, charge |-> 0]]
    /\ aiBudget = FirstBudget /\ highestBudget = FirstBudget /\ consumed = 0
    /\ approvedAs = [e \in Exam |-> <<>>]
    /\ assessmentSteps = 0

Annual(e) == exam[e].term = "ANNUAL"

SavePattern(scope, config) ==
    /\ CountedAssessment /\ Len(patterns[scope]) < MaxVersions
    /\ patterns' = [patterns EXCEPT ![scope] = Append(@, config)]
    /\ UNCHANGED <<enrolledNow, examVars, aiVars>>
Enrol(S) ==      \* enrolments and withdrawals elsewhere
    /\ CountedAssessment /\ enrolledNow' = S
    /\ UNCHANGED <<patterns, examVars, aiVars>>

(* create(): a given pattern, or the latest of the nearest scope that has one. *)
Configured == {c \in PatternConfig : \E i \in 1..3 : \E v \in DOMAIN patterns[ScopeKey[i]] : patterns[ScopeKey[i]][v] = c}
CreateExam(e, term, config) ==
    /\ CountedAssessment /\ exam[e].status = "NONE"
    /\ config \in Configured /\ term \in config.terms /\ enrolledNow # {}
    /\ exam' = [exam EXCEPT ![e] = Opening(config, term, enrolledNow)]
    /\ UNCHANGED <<patterns, enrolledNow, marks, observations, reports, approvedAs, aiVars>>
(* startTerm(): the exam the section has for the term, or a new one. *)
StartTerm(e, term) ==
    /\ \A f \in Exam : exam[f].status # "NONE" => exam[f].term # term
    /\ \E i \in 1..3 : patterns[ScopeKey[i]] # <<>>
    /\ CreateExam(e, term, LatestOf(patterns))

(* marks() and sheet(): a sheet may leave components out. *)
SaveMarks(e, k, mark) ==
    /\ CountedAssessment
    /\ exam[e].config.marks /\ ~Annual(e) /\ k \in exam[e].roster
    /\ exam[e].status = "DRAFT"
    /\ exam' = [exam EXCEPT ![e].revision = @ + 1]
    /\ marks' = [marks EXCEPT ![e][k] = mark]
    /\ UNCHANGED <<patterns, enrolledNow, observations, reports, approvedAs, aiVars>>
(* Ids are random: beyond the limit a new observation may or may not be one of the first. *)
Observe(e, k) ==
    /\ CountedAssessment
    /\ exam[e].config.competencies /\ k \in exam[e].roster /\ observations[e][k].all < MaxObservations
    /\ exam[e].status = "DRAFT"
    /\ exam' = [exam EXCEPT ![e].revision = @ + 1]
    /\ \E more \in IF observations[e][k].all < EvidenceLimit THEN {1} ELSE {0, 1} :
          observations' = [observations EXCEPT ![e][k] = Noted(@.all + 1, @.first + more)]
    /\ UNCHANGED <<patterns, enrolledNow, marks, reports, approvedAs, aiVars>>
Schedule(e) ==
    /\ CountedAssessment /\ exam[e].config.marks /\ ~Annual(e) /\ exam[e].status = "DRAFT"
    /\ exam' = [exam EXCEPT ![e].revision = @ + 1]
    /\ UNCHANGED <<patterns, enrolledNow, marks, observations, reports, approvedAs, aiVars>>

(* complete(): every pupil of the roster has marks and observations, or for a progress card *)
(* of the year a report of every term.                                                      *)
TermReports(e, k, term) == {r \in reports : r.pupil = k /\ r.term = term /\ r.exam # e}
Complete(e) ==
    IF Annual(e)
    THEN /\ exam[e].config.terms # {"ANNUAL"}
         /\ \A k \in exam[e].roster, term \in exam[e].config.terms \ {"ANNUAL"} : TermReports(e, k, term) # {}
    ELSE \A k \in exam[e].roster :
            /\ exam[e].config.marks => marks[e][k] \in {"LOW", "HIGH"}
            /\ exam[e].config.competencies => observations[e][k].all > 0

Contents(e) == <<[k \in exam[e].roster |-> marks[e][k]], [k \in exam[e].roster |-> observations[e][k]]>>
Advance(e, from, row) ==
    /\ CountedAssessment /\ exam[e].status = from
    /\ exam' = [exam EXCEPT ![e] = [row EXCEPT !.revision = @ + 1]]
    /\ UNCHANGED <<patterns, enrolledNow, marks, observations, aiVars>>
Submit(e) == Complete(e) /\ Advance(e, "DRAFT", [exam[e] EXCEPT !.status = "SUBMITTED"]) /\ UNCHANGED <<reports, approvedAs>>
Review(e) == Advance(e, "SUBMITTED", [exam[e] EXCEPT !.status = "REVIEWED"]) /\ UNCHANGED <<reports, approvedAs>>
Approve(e) ==
    /\ Advance(e, "REVIEWED", [exam[e] EXCEPT !.status = "APPROVED", !.approved = TRUE])
    /\ approvedAs' = [approvedAs EXCEPT ![e] = Contents(e)]
    /\ UNCHANGED reports
(* RETURN and REOPEN: back to draft, nobody's approval stands. *)
Drafted_StillApproved(e) == [exam[e] EXCEPT !.status = "DRAFT"]
Drafted(e) == [exam[e] EXCEPT !.status = "DRAFT", !.approved = FALSE]
Return(e) ==
    /\ \E from \in {"SUBMITTED", "REVIEWED", "APPROVED"} : Advance(e, from, Drafted(e))
    /\ UNCHANGED <<reports, approvedAs>>
Reopen(e) == Advance(e, "PUBLISHED", Drafted(e)) /\ UNCHANGED <<reports, approvedAs>>

(* publish(): one report per pupil of the roster, with the last reviewed comment on exactly *)
(* the first observations the pupil has.  0: no comment.                                    *)
Comments_OfAnyEvidence(e, k) ==
    {g \in Generation : generation[g].status = "REVIEWED" /\ generation[g].exam = e /\ generation[g].pupil = k}
Comments(e, k) ==
    {g \in Generation : /\ generation[g].status = "REVIEWED" /\ generation[g].exam = e /\ generation[g].pupil = k
                        /\ generation[g].evidence = observations[e][k].first}
Published(e, from) ==
    /\ Complete(e)
    /\ Advance(e, from, [exam[e] EXCEPT !.status = "PUBLISHED"])
    /\ \E comment \in [exam[e].roster -> 0..MaxObservations] :
        /\ \A k \in exam[e].roster : IF Comments(e, k) = {} THEN comment[k] = 0
                                      ELSE \E g \in Comments(e, k) : comment[k] = generation[g].evidence
        /\ reports' = reports \cup
             {[exam |-> e, pupil |-> k, term |-> exam[e].term, version |-> exam[e].revision + 1,
               contents |-> Contents(e), observed |-> observations[e][k].first, comment |-> comment[k],
               approved |-> exam[e].approved, basis |-> approvedAs[e]] : k \in exam[e].roster}
    /\ UNCHANGED approvedAs
PublishReports(e) == \E from \in {"DRAFT", "APPROVED"} : Published(e, from)

(* Comments.  Evidence is read first. *)
ReadEvidence(g, e, k, instructions) ==
    /\ CountedAssessment
    /\ generation[g].status = "NONE" /\ exam[e].status = "DRAFT" /\ k \in exam[e].roster /\ observations[e][k].all > 0
    /\ generation' = [generation EXCEPT ![g] = [status |-> "READ", exam |-> e, pupil |-> k,
                          evidence |-> observations[e][k].first, revision |-> exam[e].revision,
                          instructions |-> instructions, charge |-> 0]]
    /\ UNCHANGED <<patterns, enrolledNow, examVars, aiBudget, highestBudget, consumed>>
(* The reservation, under a lock of the school: a request like one that was answered is *)
(* that answer, and others may be refused by the limits on their rate and number; else  *)
(* what is used and reserved, failures included, stays in the budget.                    *)
Spent == MapThenSumSet(LAMBDA g : generation[g].charge, Generation)
SameRequest(g, h) ==
    /\ generation[g].exam = generation[h].exam /\ generation[g].pupil = generation[h].pupil
    /\ generation[g].revision = generation[h].revision /\ generation[g].evidence = generation[h].evidence
    /\ generation[g].instructions = generation[h].instructions
Reserve(g) ==
    /\ CountedAssessment
    /\ generation[g].status = "READ"
    /\ \/ /\ aiBudget > 0
          /\ \A h \in Generation : generation[h].status \in {"DRAFT", "REVIEWED"} => ~SameRequest(g, h)
          /\ Spent + Reserved <= aiBudget
          /\ generation' = [generation EXCEPT ![g].status = "GENERATING", ![g].charge = Reserved]
       \/ generation' = [generation EXCEPT ![g].status = "NONE"]
    /\ UNCHANGED <<patterns, enrolledNow, examVars, aiBudget, highestBudget, consumed>>
(* The provider answers, with what it used, or fails, which keeps the reservation. *)
Answered(g, used) == [generation[g] EXCEPT !.status = "DRAFT", !.charge = used]
Failed_Released(g) == [generation[g] EXCEPT !.status = "FAILED", !.charge = 0]
Failed(g) == [generation[g] EXCEPT !.status = "FAILED"]
Answer(g) ==
    /\ CountedAssessment
    /\ generation[g].status = "GENERATING"
    /\ \E used \in 1..Reserved :
        /\ consumed' = consumed + used
        /\ \/ generation' = [generation EXCEPT ![g] = Answered(g, used)]
           \/ generation' = [generation EXCEPT ![g] = Failed(g)]
    /\ UNCHANGED <<patterns, enrolledNow, examVars, aiBudget, highestBudget>>
(* review(): only while the evidence is what it was. *)
ReviewComment(g) ==
    LET e == generation[g].exam
    IN /\ CountedAssessment
       /\ generation[g].status = "DRAFT" /\ generation[g].evidence = observations[e][generation[g].pupil].first
       /\ exam[e].status = "DRAFT"
       /\ exam' = [exam EXCEPT ![e].revision = @ + 1]
       /\ generation' = [generation EXCEPT ![g].status = "REVIEWED"]
       /\ UNCHANGED <<patterns, enrolledNow, marks, observations, reports, approvedAs, aiBudget, highestBudget, consumed>>
SaveAiPolicy(budget) ==
    /\ CountedAssessment
    /\ aiBudget' = budget /\ highestBudget' = Max({highestBudget, budget})
    /\ UNCHANGED <<patterns, enrolledNow, examVars, generation, consumed>>

AssessmentNext ==
    \/ \E scope \in DOMAIN patterns, config \in PatternConfig : SavePattern(scope, config)
    \/ \E S \in SUBSET Pupil : Enrol(S)
    \/ \E e \in Exam :
        \/ \E term \in Term \cup {"ANNUAL"} : StartTerm(e, term) \/ \E config \in PatternConfig : CreateExam(e, term, config)
        \/ \E k \in Pupil : Observe(e, k) \/ \E mark \in Mark \ {"NONE"} : SaveMarks(e, k, mark)
        \/ Schedule(e) \/ Submit(e) \/ Review(e) \/ Approve(e) \/ Return(e) \/ Reopen(e) \/ PublishReports(e)
    \/ \E g \in Generation :
        \/ \E e \in Exam, k \in Pupil, instructions \in Instructions : ReadEvidence(g, e, k, instructions)
        \/ Reserve(g) \/ Answer(g) \/ ReviewComment(g)
    \/ \E budget \in AiBudget : SaveAiPolicy(budget)
AssessmentSpec == AssessmentInit /\ [][AssessmentNext]_assessmentVars
-----------------------------------------------------------------------------
(* Types, for exams, their records, reports and generated comments. *)
AssessmentTypeOK ==
    /\ DOMAIN patterns = {"CLASS", "GROUP", "SCHOOL"} /\ enrolledNow \subseteq Pupil
    /\ exam \in [Exam -> [status : ExamStatus, revision : Nat \ {0}, term : Term \cup {"ANNUAL"}, config : Config,
                          roster : SUBSET Pupil, approved : BOOLEAN]]
    /\ marks \in [Exam -> [Pupil -> Mark]] /\ observations \in [Exam -> [Pupil -> [all : 0..MaxObservations, first : 0..MaxObservations]]]
    /\ \A r \in reports : r.exam \in Exam /\ r.pupil \in Pupil /\ r.version \in Nat
    /\ \A g \in Generation : generation[g].charge \in 0..Reserved

(* A report that names an approver carries exactly the marks and observations that were       *)
(* approved: whatever changes them goes through RETURN or REOPEN, which withdraws the approval *)
(* on every path back to draft, while a draft may be published without one.                    *)
ApprovedUnchanged == \A r \in reports : r.approved => r.contents = r.basis

(* A comment in a report was written about, and reviewed against, exactly the first           *)
(* EvidenceLimit observations the report lists, though observations are added between reading *)
(* the evidence, the answer of the provider, its review and the publication.                   *)
CommentOnEvidence == \A r \in reports : r.comment # 0 => r.comment = r.observed

(* What the provider uses, in comments it gives and in calls that fail, never exceeds the      *)
(* largest budget the school has set, whichever requests run at the same time.                 *)
AiWithinBudget == consumed <= highestBudget
=============================================================================
