------------------------- MODULE AdmissionsPipeline -------------------------
(***************************************************************************)
(* From an enquiry to an enrolled student: enquiries and their follow-ups,  *)
(* applications, decisions, fees, documents and joining.  Every operation   *)
(* is one transaction at isolation level Serializable, so one action.  The  *)
(* row version an operation must present is kept as whether the application *)
(* a clerk has on the screen ("shown") is still fresh.  A direct admission  *)
(* (legacyJoin) is three of these transactions, one after the other.        *)
(* Sections and seats are those of EnrollmentSeats and are left out here: a *)
(* joining they refuse is one that does not happen.  The applications of    *)
(* the model are for different years: a unique index allows one a year for  *)
(* a name and phone.                                                        *)
(***************************************************************************)
EXTENDS Integers, FiniteSets, FiniteSetsExt

CONSTANTS
    Enquiry, Application, Payment,
    NoEnquiry, NotShown,
    Child,              \* first and last name with the phone of a guardian
    Birth, NoBirth,     \* dates of birth, and none given
    FeePolicy,          \* [amount, mandatory, waivable]
    NoFee,              \* the policy of a class without a fee rule
    MaxAmount, MaxAdmissionSteps  \* bounds

EnquiryStatus == {"NEW", "CONTACTED", "FOLLOW_UP_REQUIRED", "APPLICATION_STARTED", "CONVERTED", "CLOSED"}
Decision == {"UNDER_REVIEW", "APPROVED", "REJECTED", "WAITLISTED", "WITHDRAWN"}
EnquiryRow == [status : EnquiryStatus \cup {"NONE"}, due : BOOLEAN]
ApplicationRow ==
    [decision : Decision \cup {"NONE"}, joining : {"NOT_CONFIRMED", "JOINED", "NOT_JOINED"},
     enquiry : Enquiry \cup {NoEnquiry}, child : Child, birth : Birth \cup {NoBirth},
     fee : FeePolicy \cup {NoFee}, enrolled : BOOLEAN]
PaymentRow == [status : {"NONE", "PENDING", "VERIFIED", "REJECTED", "REFUNDED"},
               application : Application, amount : 0..MaxAmount]
Page == [row : ApplicationRow, fresh : BOOLEAN]

ASSUME NotValues == Child # {} /\ NoEnquiry \notin Enquiry /\ NotShown \notin Page
ASSUME FeesAssumption ==
    /\ Application # {} /\ IsFiniteSet(Payment) /\ MaxAmount \in Nat
    /\ FeePolicy \cup {NoFee} \subseteq [amount : 0..MaxAmount, mandatory : BOOLEAN, waivable : BOOLEAN]

VARIABLES
    enquiry, application, payment,
    waived,      \* the waiver of an application: one, its reference is unique
    papers,      \* applications with the required document
    fees,        \* admissionsPolicy: the fee rule and whether the document is required
    shown,       \* per application: the row on a clerk's screen and whether it is current
    blind,       \* history: applications changed by a clerk who was shown another row
    admissionSteps

pipelineVars == <<enquiry, application, payment, waived, papers, fees, shown, blind, admissionSteps>>
-----------------------------------------------------------------------------
Exists(a) == application[a].decision # "NONE"
CountedStep == admissionSteps < MaxAdmissionSteps /\ admissionSteps' = admissionSteps + 1
(* checkVersion, and the update of a row with version: { increment: 1 }. *)
Current(a) == Exists(a) /\ shown[a] # NotShown /\ shown[a].fresh
Raised_Not(a) == shown[a]
Raised(a) == IF shown[a] = NotShown THEN NotShown ELSE [shown[a] EXCEPT !.fresh = FALSE]
Acted(a) == shown' = [shown EXCEPT ![a] = Raised(a)]
Blind(a) == blind' = blind \cup {b \in {a} : shown[b].row # application[b]}

Credited(a) == waived[a] + MapThenSumSet(LAMBDA p : payment[p].amount,
    {p \in Payment : payment[p].status = "VERIFIED" /\ payment[p].application = a})

PipelineInit ==
    /\ enquiry = [q \in Enquiry |-> [status |-> "NONE", due |-> FALSE]]
    /\ application = [a \in Application |->
          [decision |-> "NONE", joining |-> "NOT_CONFIRMED", enquiry |-> NoEnquiry, fee |-> NoFee,
           child |-> CHOOSE c \in Child : TRUE, birth |-> NoBirth, enrolled |-> FALSE]]
    /\ payment = [p \in Payment |->
          [status |-> "NONE", application |-> CHOOSE a \in Application : TRUE, amount |-> 0]]
    /\ waived = [a \in Application |-> 0]
    /\ papers = {}
    /\ fees = [rule |-> NoFee, document |-> FALSE]
    /\ shown = [a \in Application |-> NotShown]
    /\ blind = {}
    /\ admissionSteps = 0

(* detail: an application is opened. *)
Show(a) ==
    /\ Exists(a)
    /\ shown' = [shown EXCEPT ![a] = [row |-> application[a], fresh |-> TRUE]]
    /\ shown' # shown
    /\ UNCHANGED <<enquiry, application, payment, waived, papers, fees, blind, admissionSteps>>

SaveSettings(rule, document) ==
    /\ CountedStep
    /\ fees' = [rule |-> rule, document |-> document]
    /\ UNCHANGED <<enquiry, application, payment, waived, papers, shown, blind>>

(* createEnquiry: the same child, class and year again is only noted. *)
CreateEnquiry(q, due) ==
    /\ CountedStep
    /\ enquiry[q].status = "NONE"
    /\ enquiry' = [enquiry EXCEPT ![q] = [status |-> "NEW", due |-> due]]
    /\ UNCHANGED <<application, payment, waived, papers, fees, shown, blind>>

(* followup: application and conversion states belong to the admission workflow. *)
OpenEnquiry_Any(q) == enquiry[q].status # "NONE"
OpenEnquiry(q) == enquiry[q].status \notin {"NONE", "CONVERTED"}
FollowUp(q, status, due) ==
    /\ CountedStep
    /\ OpenEnquiry(q)
    /\ status \notin {"APPLICATION_STARTED", "CONVERTED"}
    /\ status = "FOLLOW_UP_REQUIRED" => due
    /\ enquiry' = [enquiry EXCEPT ![q] = [status |-> status, due |-> due]]
    /\ UNCHANGED <<application, payment, waived, papers, fees, shown, blind>>

(* createApplication: an enquiry has at most one; the fee rule of the day is kept. *)
CreateApplication(a, q, child, birth) ==
    /\ CountedStep
    /\ ~Exists(a)
    /\ q # NoEnquiry => /\ OpenEnquiry(q)
                        /\ \A b \in Application : application[b].enquiry # q
    /\ application' = [application EXCEPT ![a] =
          [decision |-> "UNDER_REVIEW", joining |-> "NOT_CONFIRMED", enquiry |-> q,
           child |-> child, birth |-> birth, fee |-> fees.rule, enrolled |-> FALSE]]
    /\ enquiry' = [k \in Enquiry |->
          IF k = q THEN [enquiry[k] EXCEPT !.status = "APPLICATION_STARTED"] ELSE enquiry[k]]
    /\ UNCHANGED <<payment, waived, papers, fees, shown, blind>>

Decide(a, decision) ==
    /\ CountedStep
    /\ Current(a)
    /\ application[a].joining # "JOINED"
    /\ application' = [application EXCEPT ![a].decision = decision]
    /\ Acted(a) /\ Blind(a)
    /\ UNCHANGED <<enquiry, payment, waived, papers, fees>>

(* amendApplication: class, year and enquiry stay; it is reviewed again. *)
Amend(a, child, birth) ==
    /\ CountedStep
    /\ Current(a)
    /\ ~application[a].enrolled /\ application[a].decision \notin {"APPROVED", "WITHDRAWN"}
    /\ application' = [application EXCEPT ![a] =
          [application[a] EXCEPT !.child = child, !.birth = birth, !.decision = "UNDER_REVIEW"]]
    /\ Acted(a) /\ Blind(a)
    /\ UNCHANGED <<enquiry, payment, waived, papers, fees>>

(* join and confirmAdmission.  A profile of that name and phone, and of that date of *)
(* birth if one is given, may not exist in the school.                              *)
Known(a) == \E b \in Application :
    /\ application[b].enrolled /\ application[b].child = application[a].child
    /\ application[a].birth # NoBirth => application[b].birth = application[a].birth
Admissible(a, confirm) ==
    /\ ~application[a].enrolled
    /\ confirm => /\ application[a].decision \notin {"REJECTED", "WITHDRAWN"}
                  /\ application[a].enquiry # NoEnquiry => enquiry[application[a].enquiry].status # "CONVERTED"
    /\ ~confirm => application[a].decision = "APPROVED"
Complete(a) ==
    /\ fees.document => a \in papers
    /\ application[a].fee.mandatory => Credited(a) >= application[a].fee.amount
MayJoin_Confirmed(a, confirm) == Admissible(a, confirm) /\ (confirm \/ ~Known(a)) /\ Complete(a)
MayJoin(a, confirm) == Admissible(a, confirm) /\ ~Known(a) /\ Complete(a)
JoinSchool(a, confirm) ==
    /\ CountedStep
    /\ Current(a)
    /\ MayJoin(a, confirm)
    /\ application' = [application EXCEPT ![a] = [application[a] EXCEPT
          !.decision = "APPROVED", !.joining = "JOINED", !.enrolled = TRUE]]
    /\ enquiry' = [q \in Enquiry |-> IF q = application[a].enquiry
                     THEN [status |-> "CONVERTED", due |-> FALSE] ELSE enquiry[q]]
    /\ Acted(a) /\ Blind(a)
    /\ UNCHANGED <<payment, waived, papers, fees>>
DidNotJoin(a) ==
    /\ CountedStep
    /\ Current(a)
    /\ Admissible(a, FALSE)
    /\ application' = [application EXCEPT ![a].joining = "NOT_JOINED"]
    /\ Acted(a) /\ Blind(a)
    /\ UNCHANGED <<enquiry, payment, waived, papers, fees>>

(* Payments do not raise the version of the application. *)
RecordPayment(p, a, amount) ==
    /\ CountedStep
    /\ Exists(a) /\ payment[p].status = "NONE"
    /\ payment' = [payment EXCEPT ![p] = [status |-> "PENDING", application |-> a, amount |-> amount]]
    /\ UNCHANGED <<enquiry, application, waived, papers, fees, shown, blind>>
VerifyPayment(p, status) ==
    /\ CountedStep
    /\ payment[p].status = (IF status = "REFUNDED" THEN "VERIFIED" ELSE "PENDING")
    /\ payment' = [payment EXCEPT ![p].status = status]
    /\ UNCHANGED <<enquiry, application, waived, papers, fees, shown, blind>>
Waivable_Settled(a) == application[a].fee.waivable /\ Credited(a) # application[a].fee.amount
Waivable(a) == application[a].fee.waivable /\ Credited(a) < application[a].fee.amount
Waive(a) ==
    /\ CountedStep
    /\ Current(a)
    /\ Waivable(a) /\ waived[a] = 0
    /\ waived' = [waived EXCEPT ![a] = application[a].fee.amount - Credited(a)]
    /\ Acted(a) /\ Blind(a)
    /\ UNCHANGED <<enquiry, application, payment, papers, fees>>
UploadDocument(a) ==
    /\ CountedStep
    /\ Exists(a) /\ a \notin papers
    /\ papers' = papers \cup {a}
    /\ UNCHANGED <<enquiry, application, payment, waived, fees, shown, blind>>

PipelineNext ==
    \/ \E a \in Application : Show(a)
    \/ \E rule \in FeePolicy \cup {NoFee}, document \in BOOLEAN : SaveSettings(rule, document)
    \/ \E q \in Enquiry, due \in BOOLEAN : CreateEnquiry(q, due)
    \/ \E q \in Enquiry, status \in EnquiryStatus, due \in BOOLEAN : FollowUp(q, status, due)
    \/ \E a \in Application, q \in Enquiry \cup {NoEnquiry}, child \in Child, birth \in Birth \cup {NoBirth} :
          CreateApplication(a, q, child, birth)
    \/ \E a \in Application, decision \in Decision : Decide(a, decision)
    \/ \E a \in Application, child \in Child, birth \in Birth \cup {NoBirth} : Amend(a, child, birth)
    \/ \E a \in Application, confirm \in BOOLEAN : JoinSchool(a, confirm)
    \/ \E a \in Application : DidNotJoin(a)
    \/ \E p \in Payment, a \in Application, amount \in 1..MaxAmount : RecordPayment(p, a, amount)
    \/ \E p \in Payment, status \in {"VERIFIED", "REJECTED", "REFUNDED"} : VerifyPayment(p, status)
    \/ \E a \in Application : Waive(a)
    \/ \E a \in Application : UploadDocument(a)

PipelineSpec == PipelineInit /\ [][PipelineNext]_pipelineVars
-----------------------------------------------------------------------------
(* The rows of the tables are well formed. *)
PipelineTypeOK ==
    /\ enquiry \in [Enquiry -> EnquiryRow]
    /\ application \in [Application -> ApplicationRow]
    /\ payment \in [Payment -> PaymentRow]
    /\ waived \in [Application -> 0..MaxAmount]
    /\ papers \subseteq Application /\ blind \subseteq Application

(* An enquiry counts as converted exactly when its application has joined: follow-ups   *)
(* taken in between, whatever they set, neither undo a conversion nor make one.         *)
ConvertedIffJoined == \A q \in Enquiry :
    enquiry[q].status = "CONVERTED" <=>
       \E a \in Application : application[a].enquiry = q /\ application[a].joining = "JOINED"

(* "This student already has a profile in this school": whichever way applications for  *)
(* the same name and guardian's phone are made, amended and joined, two profiles never   *)
(* have the same date of birth or none both.                                             *)
ProfilesDiffer == \A a, b \in Application :
    /\ a # b /\ application[a].enrolled /\ application[b].enrolled
    /\ application[a].child = application[b].child
    => application[a].birth # application[b].birth

(* Whoever decides, amends, waives or joins has been shown the application as it is. *)
DecidedOnShown == blind = {}
=============================================================================
