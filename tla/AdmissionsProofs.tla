-------------------------- MODULE AdmissionsProofs --------------------------
(***************************************************************************)
(* How pupils come into the school's sections, for any enquiries, people   *)
(* and fees, classes, sections, rooms, capacities and plans: conversions   *)
(* are joinings, decisions are made on the application as shown, seats are *)
(* never overbooked, roll numbers never shared, and a plan overlooks       *)
(* nobody.                                                                 *)
(***************************************************************************)
EXTENDS AdmissionsPipeline, EnrollmentSeats, SetLemmas

Tables ==
  /\ application \in [Application -> ApplicationRow]
  /\ enquiry \in [Enquiry -> EnquiryRow]
  /\ shown \in [Application -> {NotShown} \cup Page]
  /\ fees.rule \in FeePolicy \cup {NoFee}

(* Exactly who joined has a profile, and only applications that exist can join. *)
ProfileOfJoined(a) ==
  /\ application[a].joining = "JOINED" <=> application[a].enrolled
  /\ application[a].enrolled => Exists(a)

(* A page that counts as current shows the row as it is. *)
ShownAsIs(a) == shown[a] # NotShown => /\ Exists(a)
                                       /\ shown[a].fresh => shown[a].row = application[a]

PipelineInv ==
  /\ Tables
  /\ \A a \in Application : ProfileOfJoined(a) /\ ShownAsIs(a)
  /\ ConvertedIffJoined /\ ProfilesDiffer /\ DecidedOnShown

-----------------------------------------------------------------------------
(* A step in which nobody joins: who has joined stays as it was, and no enquiry is *)
(* converted or taken back.                                                         *)
NobodyJoins ==
  /\ \A a \in Application :
       /\ application'[a].joining = "JOINED" <=> application[a].joining = "JOINED"
       /\ application'[a].enrolled <=> application[a].enrolled
       /\ application[a].enrolled => /\ application'[a].enquiry = application[a].enquiry
                                     /\ application'[a].child = application[a].child
                                     /\ application'[a].birth = application[a].birth
       /\ Exists(a) => Exists(a)'
  /\ \A q \in Enquiry : enquiry'[q].status = "CONVERTED" <=> enquiry[q].status = "CONVERTED"

LEMMA ProfilesStay ==
  ASSUME PipelineInv, NobodyJoins
  PROVE  /\ \A a \in Application : ProfileOfJoined(a)'
         /\ ConvertedIffJoined' /\ ProfilesDiffer'
<1>1. ASSUME NEW a \in Application PROVE ProfileOfJoined(a)'
  BY DEF PipelineInv, NobodyJoins, ProfileOfJoined
<1>2. ConvertedIffJoined'
  <2>1. \A a \in Application : application[a].joining = "JOINED" => application'[a].enquiry = application[a].enquiry
    BY DEF PipelineInv, NobodyJoins, ProfileOfJoined
  <2> QED
    BY <2>1 DEF PipelineInv, NobodyJoins, ConvertedIffJoined
<1>3. ProfilesDiffer'
  BY DEF PipelineInv, NobodyJoins, ProfilesDiffer
<1> QED
  BY <1>1, <1>2, <1>3

(* A clerk acts on the row of a page that is current: nobody acted blindly, and the page *)
(* does not count as current any more.                                                   *)
LEMMA Acting ==
  ASSUME PipelineInv, NEW a \in Application, NEW row \in ApplicationRow, row.decision # "NONE",
         Current(a), Acted(a), Blind(a), application' = [application EXCEPT ![a] = row]
  PROVE  /\ shown' \in [Application -> {NotShown} \cup Page]
         /\ \A b \in Application : ShownAsIs(b)'
         /\ DecidedOnShown'
<1>1. shown[a] \in Page /\ shown[a].row = application[a]
  BY DEF PipelineInv, Tables, ShownAsIs, Current
<1>2. Raised(a) = [shown[a] EXCEPT !.fresh = FALSE] /\ Raised(a) \in Page /\ ~Raised(a).fresh
  BY <1>1 DEF Raised, Current, Page
<1>3. shown' = [shown EXCEPT ![a] = Raised(a)]
  BY DEF Acted
<1>4. \A b \in Application : ShownAsIs(b)'
  <2>1. ASSUME NEW b \in Application \ {a} PROVE ShownAsIs(b)'
    BY <1>3 DEF PipelineInv, Tables, ShownAsIs, Exists
  <2>2. ShownAsIs(a)'
    BY <1>2, <1>3 DEF PipelineInv, Tables, ShownAsIs, Exists
  <2> QED
    BY <2>1, <2>2
<1>5. DecidedOnShown'
  BY <1>1 DEF PipelineInv, DecidedOnShown, Blind
<1> QED
  BY <1>2, <1>3, <1>4, <1>5 DEF PipelineInv, Tables

(* Deciding, amending, waiving and recording that a child did not join. *)
LEMMA ActionWithoutJoining ==
  ASSUME PipelineInv, NEW a \in Application, NEW row \in ApplicationRow, row.decision # "NONE",
         Current(a), Acted(a), Blind(a), application' = [application EXCEPT ![a] = row],
         row.joining = "JOINED" <=> application[a].joining = "JOINED",
         row.enrolled = application[a].enrolled,
         row.enrolled => /\ row.enquiry = application[a].enquiry
                         /\ row.child = application[a].child /\ row.birth = application[a].birth,
         UNCHANGED <<enquiry, fees>>
  PROVE  PipelineInv'
<1>1. NobodyJoins
  BY DEF NobodyJoins, PipelineInv, Tables, Exists
<1>2. application' \in [Application -> ApplicationRow]
  BY DEF PipelineInv, Tables
<1> QED
  BY <1>1, <1>2, Acting, ProfilesStay DEF PipelineInv, Tables

(* A decision changes nothing that joining has settled. *)
LEMMA DecideStep ==
  ASSUME PipelineInv, NEW a \in Application, NEW decision \in Decision, Decide(a, decision)
  PROVE  PipelineInv'
<1> DEFINE row == [application[a] EXCEPT !.decision = decision]
<1>1. /\ row \in ApplicationRow /\ row.decision # "NONE" /\ row.joining = application[a].joining
      /\ row.enrolled = application[a].enrolled /\ row.enquiry = application[a].enquiry
      /\ row.child = application[a].child /\ row.birth = application[a].birth
  BY DEF PipelineInv, Tables, ApplicationRow, Decision
<1>2. application' = [application EXCEPT ![a] = row] /\ UNCHANGED <<enquiry, fees>>
  BY DEF Decide
<1>3. Acted(a) /\ Blind(a) /\ Current(a)
  BY DEF Decide
<1> HIDE DEF row
<1> QED
  BY <1>1, <1>2, <1>3, ActionWithoutJoining

(* Only who has no profile yet is amended. *)
LEMMA AmendStep ==
  ASSUME PipelineInv, NEW a \in Application, NEW child \in Child, NEW birth \in Birth \cup {NoBirth}, Amend(a, child, birth)
  PROVE  PipelineInv'
<1> DEFINE row == [application[a] EXCEPT !.child = child, !.birth = birth, !.decision = "UNDER_REVIEW"]
<1>1. /\ row \in ApplicationRow /\ row.decision # "NONE" /\ row.joining = application[a].joining
      /\ row.enrolled = application[a].enrolled
  BY DEF PipelineInv, Tables, ApplicationRow, Decision
<1>2. application' = [application EXCEPT ![a] = row] /\ UNCHANGED <<enquiry, fees>> /\ ~application[a].enrolled
  BY DEF Amend
<1>3. Acted(a) /\ Blind(a) /\ Current(a)
  BY DEF Amend
<1> HIDE DEF row
<1> QED
  BY <1>1, <1>2, <1>3, ActionWithoutJoining

(* Who did not join had not joined. *)
LEMMA DidNotJoinStep ==
  ASSUME PipelineInv, NEW a \in Application, DidNotJoin(a)
  PROVE  PipelineInv'
<1> DEFINE row == [application[a] EXCEPT !.joining = "NOT_JOINED"]
<1>1. /\ row \in ApplicationRow /\ row.decision = application[a].decision /\ row.joining = "NOT_JOINED"
      /\ row.enrolled = application[a].enrolled
  BY DEF PipelineInv, Tables, ApplicationRow
<1>2. application' = [application EXCEPT ![a] = row] /\ UNCHANGED <<enquiry, fees>> /\ ~application[a].enrolled
  BY DEF DidNotJoin, Admissible
<1>3. Acted(a) /\ Blind(a) /\ Current(a)
  BY DEF DidNotJoin
<1>4. row.decision # "NONE" /\ application[a].joining # "JOINED"
  BY <1>1, <1>2, <1>3 DEF PipelineInv, ProfileOfJoined, Current, Exists
<1> HIDE DEF row
<1> QED
  BY <1>1, <1>2, <1>3, <1>4, ActionWithoutJoining

(* A waiver raises the version of a row it leaves as it is. *)
LEMMA WaiveStep ==
  ASSUME PipelineInv, NEW a \in Application, Waive(a)
  PROVE  PipelineInv'
<1>1. /\ application[a] \in ApplicationRow /\ application' = [application EXCEPT ![a] = application[a]]
      /\ UNCHANGED <<enquiry, fees>>
  BY DEF Waive, PipelineInv, Tables
<1>2. Acted(a) /\ Blind(a) /\ Current(a) /\ application[a].decision # "NONE"
  BY DEF Waive, Current, Exists
<1> QED
  BY <1>1, <1>2, ActionWithoutJoining

(* Joining gives a profile that no other one equals, and converts the enquiry. *)
LEMMA JoinStep ==
  ASSUME PipelineInv, NEW a \in Application, NEW confirm \in BOOLEAN, JoinSchool(a, confirm)
  PROVE  PipelineInv'
<1> DEFINE row == [application[a] EXCEPT !.decision = "APPROVED", !.joining = "JOINED", !.enrolled = TRUE]
<1>1. /\ row \in ApplicationRow /\ row.decision = "APPROVED" /\ row.joining = "JOINED" /\ row.enrolled
      /\ row.enquiry = application[a].enquiry /\ row.child = application[a].child /\ row.birth = application[a].birth
  BY DEF PipelineInv, Tables, ApplicationRow, Decision
<1>2. application' = [application EXCEPT ![a] = row] /\ UNCHANGED fees /\ ~Known(a)
  BY DEF JoinSchool, MayJoin
<1>3. enquiry' = [q \in Enquiry |-> IF q = application[a].enquiry
                     THEN [status |-> "CONVERTED", due |-> FALSE] ELSE enquiry[q]]
  BY DEF JoinSchool
<1>4. Acted(a) /\ Blind(a) /\ Current(a)
  BY DEF JoinSchool
<1> HIDE DEF row
<1>5. /\ application' \in [Application -> ApplicationRow] /\ application'[a] = row
      /\ \A b \in Application \ {a} : application'[b] = application[b]
  BY <1>1, <1>2 DEF PipelineInv, Tables
<1>6. \A b \in Application : ProfileOfJoined(b)'
  BY <1>1, <1>5 DEF PipelineInv, ProfileOfJoined, Exists
<1>7. ConvertedIffJoined'
  <2>1. ASSUME NEW q \in Enquiry, q = application[a].enquiry
        PROVE  enquiry'[q].status = "CONVERTED" /\ application'[a].enquiry = q /\ application'[a].joining = "JOINED"
    BY <1>1, <1>3, <1>5, <2>1
  <2>2. ASSUME NEW q \in Enquiry, q # application[a].enquiry
        PROVE  /\ enquiry'[q] = enquiry[q]
               /\ \A b \in Application : (application'[b].enquiry = q /\ application'[b].joining = "JOINED")
                                         <=> (application[b].enquiry = q /\ application[b].joining = "JOINED")
    BY <1>1, <1>3, <1>5, <2>2
  <2> QED
    BY <2>1, <2>2 DEF PipelineInv, ConvertedIffJoined
<1>8. ProfilesDiffer'
  <2>1. ASSUME NEW b \in Application \ {a}, application[b].enrolled, application[b].child = application[a].child
        PROVE  application[b].birth # application[a].birth
    BY <1>2, <2>1 DEF Known
  <2> QED
    BY <1>1, <1>5, <2>1 DEF PipelineInv, ProfilesDiffer
<1>9. enquiry' \in [Enquiry -> EnquiryRow]
  BY <1>3 DEF PipelineInv, Tables, EnquiryRow, EnquiryStatus
<1> QED
  BY <1>1, <1>2, <1>4, <1>5, <1>6, <1>7, <1>8, <1>9, Acting DEF PipelineInv, Tables

(* A new application has not joined, and its enquiry is not converted. *)
LEMMA ApplyStep ==
  ASSUME PipelineInv, NEW a \in Application, NEW q \in Enquiry \cup {NoEnquiry}, NEW child \in Child,
         NEW birth \in Birth \cup {NoBirth}, CreateApplication(a, q, child, birth)
  PROVE  PipelineInv'
<1> DEFINE row == [decision |-> "UNDER_REVIEW", joining |-> "NOT_CONFIRMED", enquiry |-> q,
                   child |-> child, birth |-> birth, fee |-> fees.rule, enrolled |-> FALSE]
<1>1. row \in ApplicationRow /\ row.decision = "UNDER_REVIEW" /\ row.joining = "NOT_CONFIRMED" /\ ~row.enrolled
  BY DEF PipelineInv, Tables, ApplicationRow, Decision
<1>2. /\ ~Exists(a) /\ UNCHANGED <<fees, shown, blind>> /\ application' = [application EXCEPT ![a] = row]
      /\ q # NoEnquiry => OpenEnquiry(q)
      /\ enquiry' = [k \in Enquiry |-> IF k = q THEN [enquiry[k] EXCEPT !.status = "APPLICATION_STARTED"] ELSE enquiry[k]]
  BY DEF CreateApplication
<1> HIDE DEF row
<1>3. /\ application' \in [Application -> ApplicationRow] /\ application'[a] = row
      /\ \A b \in Application \ {a} : application'[b] = application[b]
  BY <1>1, <1>2 DEF PipelineInv, Tables
<1>4. /\ enquiry' \in [Enquiry -> EnquiryRow]
      /\ \A k \in Enquiry : enquiry'[k].status = "CONVERTED" <=> enquiry[k].status = "CONVERTED"
  BY <1>2, NotValues DEF PipelineInv, Tables, EnquiryRow, EnquiryStatus, OpenEnquiry
<1>5. NobodyJoins
  <2>1. ~application[a].enrolled /\ application[a].joining # "JOINED"
    BY <1>2 DEF PipelineInv, ProfileOfJoined
  <2> QED
    BY <1>1, <1>2, <1>3, <1>4, <2>1 DEF NobodyJoins, Exists
<1>6. \A b \in Application : ShownAsIs(b)'
  BY <1>2, <1>3 DEF PipelineInv, ShownAsIs, Exists
<1> QED
  BY <1>2, <1>3, <1>4, <1>5, <1>6, ProfilesStay DEF PipelineInv, Tables, DecidedOnShown

(* An enquiry is not followed up once it is converted, nor to that status. *)
LEMMA EnquiryStep ==
  ASSUME PipelineInv, NEW q \in Enquiry, NEW due \in BOOLEAN,
         CreateEnquiry(q, due) \/ \E status \in EnquiryStatus : FollowUp(q, status, due)
  PROVE  PipelineInv'
<1>1. UNCHANGED <<application, fees, shown, blind>>
  BY DEF CreateEnquiry, FollowUp
<1>2. PICK status \in EnquiryStatus :
        /\ status # "CONVERTED" /\ enquiry[q].status # "CONVERTED"
        /\ enquiry' = [enquiry EXCEPT ![q] = [status |-> status, due |-> due]]
  BY DEF CreateEnquiry, FollowUp, OpenEnquiry, EnquiryStatus
<1>3. /\ enquiry' \in [Enquiry -> EnquiryRow]
      /\ \A k \in Enquiry : enquiry'[k].status = "CONVERTED" <=> enquiry[k].status = "CONVERTED"
  BY <1>2 DEF PipelineInv, Tables, EnquiryRow
<1>4. NobodyJoins
  BY <1>1, <1>3 DEF NobodyJoins, Exists
<1>5. \A b \in Application : ShownAsIs(b)'
  BY <1>1 DEF PipelineInv, ShownAsIs, Exists
<1> QED
  BY <1>1, <1>3, <1>4, <1>5, ProfilesStay DEF PipelineInv, Tables, DecidedOnShown

(* A clerk opens an application: the page shows the row as it is. *)
LEMMA ShowStep ==
  ASSUME PipelineInv, NEW a \in Application, Show(a)
  PROVE  PipelineInv'
<1>1. UNCHANGED <<enquiry, application, fees, blind>> /\ Exists(a)
  BY DEF Show
<1>2. shown' = [shown EXCEPT ![a] = [row |-> application[a], fresh |-> TRUE]]
  BY DEF Show
<1>3. [row |-> application[a], fresh |-> TRUE] \in Page
  BY DEF PipelineInv, Tables, Page
<1>4. shown' \in [Application -> {NotShown} \cup Page]
  BY <1>2, <1>3 DEF PipelineInv, Tables
<1>5. \A b \in Application : ShownAsIs(b)'
  BY <1>1, <1>2 DEF PipelineInv, Tables, ShownAsIs, Exists
<1>6. NobodyJoins
  BY <1>1 DEF NobodyJoins, Exists
<1> QED
  BY <1>1, <1>4, <1>5, <1>6, ProfilesStay DEF PipelineInv, Tables, DecidedOnShown

(* Settings, payments and documents, which no row of an application shows. *)
LEMMA OtherStep ==
  ASSUME PipelineInv, UNCHANGED <<enquiry, application, shown, blind>>, fees'.rule \in FeePolicy \cup {NoFee}
  PROVE  PipelineInv'
<1>1. NobodyJoins
  BY DEF NobodyJoins, Exists
<1>2. \A b \in Application : ShownAsIs(b)'
  BY DEF PipelineInv, ShownAsIs, Exists
<1> QED
  BY <1>1, <1>2, ProfilesStay DEF PipelineInv, Tables, DecidedOnShown

-----------------------------------------------------------------------------
(* At first there is no application and no enquiry. *)
LEMMA PipelineStart == PipelineInit => PipelineInv
<1> SUFFICES ASSUME PipelineInit PROVE PipelineInv
  OBVIOUS
<1>1. (CHOOSE c \in Child : TRUE) \in Child
  BY NotValues
<1>2. Tables
  BY <1>1 DEF PipelineInit, Tables, ApplicationRow, EnquiryRow
<1>3. \A a \in Application : ProfileOfJoined(a) /\ ShownAsIs(a)
  BY DEF PipelineInit, ProfileOfJoined, ShownAsIs
<1>4. ConvertedIffJoined /\ ProfilesDiffer /\ DecidedOnShown
  BY DEF PipelineInit, ConvertedIffJoined, ProfilesDiffer, DecidedOnShown
<1> QED
  BY <1>2, <1>3, <1>4 DEF PipelineInv

(* Every step keeps the invariant. *)
LEMMA PipelineStep == PipelineInv /\ [PipelineNext]_pipelineVars => PipelineInv'
<1> SUFFICES ASSUME PipelineInv, [PipelineNext]_pipelineVars PROVE PipelineInv'
  OBVIOUS
<1>1. ASSUME NEW rule \in FeePolicy \cup {NoFee}, NEW document \in BOOLEAN, SaveSettings(rule, document)
      PROVE  PipelineInv'
  BY <1>1, OtherStep DEF SaveSettings
<1>2. ASSUME NEW p \in Payment, NEW a \in Application, NEW amount \in 1..MaxAmount, RecordPayment(p, a, amount)
      PROVE  PipelineInv'
  BY <1>2, OtherStep DEF RecordPayment, PipelineInv, Tables
<1>3. ASSUME NEW p \in Payment, NEW status \in {"VERIFIED", "REJECTED", "REFUNDED"}, VerifyPayment(p, status)
      PROVE  PipelineInv'
  BY <1>3, OtherStep DEF VerifyPayment, PipelineInv, Tables
<1>4. ASSUME NEW a \in Application, UploadDocument(a)
      PROVE  PipelineInv'
  BY <1>4, OtherStep DEF UploadDocument, PipelineInv, Tables
<1>5. CASE UNCHANGED pipelineVars
  BY <1>5, OtherStep DEF pipelineVars, PipelineInv, Tables
<1> QED
  BY <1>1, <1>2, <1>3, <1>4, <1>5, ShowStep, EnquiryStep, ApplyStep, DecideStep, AmendStep,
     JoinStep, DidNotJoinStep, WaiveStep DEF PipelineNext

(* The invariant holds always. *)
LEMMA PipelineStays == PipelineSpec => []PipelineInv
BY PipelineStart, PipelineStep, PTL DEF PipelineSpec

(* Follow-ups, applications and joinings may come in any order: an enquiry counts as *)
(* converted exactly when its application has joined.                                *)
THEOREM ConversionsAreJoinings == PipelineSpec => []ConvertedIffJoined
BY PipelineStays, PTL DEF PipelineInv

(* "This student already has a profile in this school" holds of every pair of profiles: *)
(* none has the name, phone and birth date of another one.                              *)
THEOREM ProfilesAreDifferent == PipelineSpec => []ProfilesDiffer
BY PipelineStays, PTL DEF PipelineInv

(* checkVersion: nobody decides, amends, waives or joins on a page that is out of date. *)
THEOREM DecisionsAreInformed == PipelineSpec => []DecidedOnShown
BY PipelineStays, PTL DEF PipelineInv

-----------------------------------------------------------------------------
(* Payments and waivers.  What has been paid is a sum over the verified payments. *)
PaymentsFormed == /\ payment \in [Payment -> PaymentRow] /\ waived \in [Application -> 0..MaxAmount]
                  /\ papers \subseteq Application
Verified(a) == {p \in Payment : payment[p].status = "VERIFIED" /\ payment[p].application = a}
Paid == [p \in Payment |-> payment[p].amount]

LEMMA CreditedIsTotal ==
  ASSUME PaymentsFormed, NEW a \in Application
  PROVE  Credited(a) = waived[a] + Total(Paid, Verified(a)) /\ Total(Paid, Verified(a)) \in Nat
<1>1. PICK V \in SUBSET Payment : V = Verified(a)
  BY DEF Verified
<1>2. IsFiniteSet(V)
  BY FeesAssumption, FS_Subset
<1>3. \A p \in V : payment[p].amount \in Nat /\ Paid[p] = payment[p].amount
  BY DEF PaymentsFormed, PaymentRow, Paid
<1> DEFINE Adds(it) == it = [s \in SUBSET V |->
             IF s = {} THEN 0 ELSE payment[FirstOf(s)].amount + it[s \ {FirstOf(s)}]]
<1>4. Credited(a) = waived[a] + (CHOOSE it : Adds(it))[V]
  BY <1>1, Zenon DEF Credited, Verified, MapThenSumSet, MapThenFoldSet, FirstOf
<1>5. ASSUME NEW it PROVE Adds(it) <=> Summing(Paid, V, it)
  <2>1. \A s \in SUBSET V : s # {} => payment[FirstOf(s)].amount = Paid[FirstOf(s)]
    BY <1>3 DEF FirstOf
  <2>2. [s \in SUBSET V |-> IF s = {} THEN 0 ELSE payment[FirstOf(s)].amount + it[s \ {FirstOf(s)}]]
      = [s \in SUBSET V |-> IF s = {} THEN 0 ELSE Paid[FirstOf(s)] + it[s \ {FirstOf(s)}]]
    BY <2>1
  <2> QED
    BY <2>2 DEF Summing
<1>6. PICK f : f = Paid
  OBVIOUS
<1>7. \A p \in V : f[p] \in Nat /\ f[p] \in Int
  BY <1>3, <1>6
<1>8. \E it : Adds(it)
  <2>1. \E it : Summing(f, V, it)
    BY <1>2, <1>7, SumExists
  <2> QED
    BY <1>5, <1>6, <2>1
<1>9. PICK it : it = CHOOSE i : Adds(i)
  OBVIOUS
<1>10. Adds(it)
  BY <1>8, <1>9
<1> HIDE DEF Adds
<1>11. it[V] = Total(f, V)
  <2>1. Summing(f, V, it)
    BY <1>5, <1>6, <1>10
  <2> QED
    BY <1>2, <1>7, <2>1, SumUnique
<1>12. Total(f, V) \in Nat
  BY <1>2, <1>7, TotalNat
<1> QED
  BY <1>1, <1>4, <1>6, <1>9, <1>11, <1>12

(* A waiver is of what is missing, so it is no more than the fee. *)
LEMMA WaiverFits ==
  ASSUME PipelineInv, PaymentsFormed, NEW a \in Application, Waive(a)
  PROVE  PaymentsFormed'
<1>1. /\ waived' = [waived EXCEPT ![a] = application[a].fee.amount - Credited(a)]
      /\ Credited(a) < application[a].fee.amount /\ waived[a] = 0 /\ UNCHANGED <<payment, papers>>
  BY DEF Waive, Waivable
<1>2. application[a].fee.amount \in 0..MaxAmount
  <2>1. application[a].fee \in FeePolicy \cup {NoFee}
    BY DEF PipelineInv, Tables, ApplicationRow
  <2> QED
    BY <2>1, FeesAssumption
<1>3. Credited(a) \in Nat
  BY <1>1, CreditedIsTotal
<1>4. PICK w : w = application[a].fee.amount - Credited(a)
  OBVIOUS
<1>5. w \in 0..MaxAmount
  BY <1>1, <1>2, <1>3, <1>4, FeesAssumption
<1>6. waived' = [waived EXCEPT ![a] = w]
  BY <1>1, <1>4
<1> QED
  BY <1>1, <1>5, <1>6 DEF PaymentsFormed

(* The other steps record payments of applications, and papers. *)
LEMMA PaymentsStep ==
  ASSUME PipelineInv, PaymentsFormed, [PipelineNext]_pipelineVars
  PROVE  PaymentsFormed'
<1>1. ASSUME UNCHANGED <<payment, waived, papers>> PROVE PaymentsFormed'
  BY <1>1 DEF PaymentsFormed
<1>2. ASSUME NEW p \in Payment, NEW a \in Application, NEW amount \in 1..MaxAmount, RecordPayment(p, a, amount)
      PROVE  PaymentsFormed'
  <2>1. PICK row : row = [status |-> "PENDING", application |-> a, amount |-> amount]
    OBVIOUS
  <2>2. row \in PaymentRow
    BY <2>1, FeesAssumption DEF PaymentRow
  <2>3. payment' = [payment EXCEPT ![p] = row] /\ UNCHANGED <<waived, papers>>
    BY <1>2, <2>1 DEF RecordPayment
  <2> QED
    BY <2>2, <2>3 DEF PaymentsFormed
<1>3. ASSUME NEW p \in Payment, NEW status \in {"VERIFIED", "REJECTED", "REFUNDED"}, VerifyPayment(p, status)
      PROVE  PaymentsFormed'
  <2>1. PICK row : row = [payment[p] EXCEPT !.status = status]
    OBVIOUS
  <2>2. row \in PaymentRow
    BY <2>1 DEF PaymentRow, PaymentsFormed
  <2>3. payment' = [payment EXCEPT ![p] = row] /\ UNCHANGED <<waived, papers>>
    BY <1>3, <2>1 DEF VerifyPayment
  <2> QED
    BY <2>2, <2>3 DEF PaymentsFormed
<1>4. ASSUME NEW a \in Application, UploadDocument(a) PROVE PaymentsFormed'
  BY <1>4 DEF UploadDocument, PaymentsFormed
<1>5. ASSUME NEW a \in Application, Show(a) PROVE PaymentsFormed'
  BY <1>1, <1>5 DEF Show
<1>6. ASSUME NEW rule \in FeePolicy \cup {NoFee}, NEW document \in BOOLEAN, SaveSettings(rule, document) PROVE PaymentsFormed'
  BY <1>1, <1>6 DEF SaveSettings
<1>7. ASSUME NEW q \in Enquiry, NEW due \in BOOLEAN,
             CreateEnquiry(q, due) \/ \E status \in EnquiryStatus : FollowUp(q, status, due) PROVE PaymentsFormed'
  BY <1>1, <1>7 DEF CreateEnquiry, FollowUp
<1>8. ASSUME NEW a \in Application, NEW q \in Enquiry \cup {NoEnquiry}, NEW child \in Child, NEW birth \in Birth \cup {NoBirth},
             CreateApplication(a, q, child, birth) PROVE PaymentsFormed'
  BY <1>1, <1>8 DEF CreateApplication
<1>9. ASSUME NEW a \in Application,
             \/ DidNotJoin(a) \/ \E decision \in Decision : Decide(a, decision)
             \/ \E child \in Child, birth \in Birth \cup {NoBirth} : Amend(a, child, birth)
             \/ \E confirm \in BOOLEAN : JoinSchool(a, confirm)
      PROVE  PaymentsFormed'
  BY <1>1, <1>9 DEF DidNotJoin, Decide, Amend, JoinSchool
<1>10. CASE UNCHANGED pipelineVars
  BY <1>1, <1>10 DEF pipelineVars
<1> QED
  BY <1>2, <1>3, <1>4, <1>5, <1>6, <1>7, <1>8, <1>9, <1>10, WaiverFits DEF PipelineNext

(* The rows of the admissions are well formed, whatever fees are set and paid in between: *)
(* a waiver is never negative nor above the fee (waiveFee).                               *)
THEOREM ApplicationsWellFormed == PipelineSpec => []PipelineTypeOK
<1>1. PipelineInit => PaymentsFormed
  <2>1. (CHOOSE a \in Application : TRUE) \in Application
    BY FeesAssumption
  <2> QED
    BY <2>1, FeesAssumption DEF PipelineInit, PaymentsFormed, PaymentRow
<1>2. PipelineInv /\ PaymentsFormed /\ [PipelineNext]_pipelineVars => (PipelineInv /\ PaymentsFormed)'
  BY PipelineStep, PaymentsStep
<1>3. PipelineInv /\ PaymentsFormed => PipelineTypeOK
  BY DEF PipelineInv, Tables, DecidedOnShown, PaymentsFormed, PipelineTypeOK
<1> QED
  BY <1>1, <1>2, <1>3, PipelineStart, PTL DEF PipelineSpec

-----------------------------------------------------------------------------
(* Seats.  The database's triggers keep the rows of enrolled pupils within capacities,  *)
(* but only when rows are written: what they read then has to stay true by itself.      *)
(* What a planner was shown: the occupants of a section it was shown, in the year of the plan, *)
(* are known to the plan for as long as nobody wrote the section.                               *)
PlanRecord == [class : SchoolClass, year : AcademicYear, policy : CapacityPolicy,
               capacity : UNION {[S -> Capacity] : S \in SUBSET Section},
               existing : SUBSET Section, fresh : SUBSET Section,
               seen : SUBSET Enrolment, occupants : SUBSET Enrolment]
Shows(p) == plan[p] # NoPlan =>
  /\ plan[p] \in PlanRecord
  /\ \A s \in plan[p].fresh : /\ section[s].status # "NONE"
                              /\ Occupants(s, plan[p].year) \subseteq plan[p].occupants
Plans == plan = [p \in Planner |-> plan[p]] /\ \A p \in Planner : Shows(p)
EverybodyHoused == Housed(enrolled, section)

SeatsInv == SeatsTypeOK /\ Plans /\ EverybodyHoused /\ RollsUnique /\ NothingOverlooked /\ WithinSeats

-----------------------------------------------------------------------------
(* Counting: enrolments are finitely many, and who leaves a section makes it no fuller. *)
LEMMA EnrolmentsFinite ==
  IsFiniteSet(Enrolment) /\ \A S \in SUBSET Enrolment : IsFiniteSet(S) /\ Cardinality(S) \in Nat
<1>1. IsFiniteSet(AcademicYear)
  BY SeatsAssumption, FS_Interval DEF AcademicYear
<1>2. IsFiniteSet(Enrolment)
  BY <1>1, SeatsAssumption, FS_Product DEF Enrolment
<1> QED
  BY <1>2, FS_Subset, FS_CardinalityType

LEMMA FewerOccupants ==
  ASSUME NEW t, NEW y, Occupants(t, y)' \subseteq Occupants(t, y)
  PROVE  Occupied(t, y) \in Nat /\ Occupied(t, y)' \in Nat /\ Occupied(t, y)' <= Occupied(t, y)
<1>1. PICK S \in SUBSET Enrolment : S = Occupants(t, y)
  BY DEF Occupants, Active
<1>2. PICK T \in SUBSET Enrolment : T = Occupants(t, y)'
  BY DEF Occupants, Active
<1>3. Cardinality(S) \in Nat /\ Cardinality(T) \in Nat /\ Cardinality(T) <= Cardinality(S)
  BY <1>1, <1>2, EnrolmentsFinite, FS_Subset
<1> QED
  BY <1>1, <1>2, <1>3 DEF Occupied

(* Usable seats are a number, whichever rules apply. *)
LEMMA UsableNat ==
  ASSUME SeatsTypeOK, NEW c, NEW scope, NEW own \in SUBSET Capacity,
         Maxima(Matches(c, scope), own) # {}
  PROVE  /\ Usable(Matches(c, scope), own) \in Nat
         /\ Min(Maxima(Matches(c, scope), own)) \in Capacity
<1> DEFINE rules == Matches(c, scope)
           M == Maxima(rules, own)
           R == {0} \cup {r.reserved : r \in rules}
<1>1. /\ rules \subseteq policy.rules /\ IsFiniteSet(policy.rules) /\ policy.default \subseteq Capacity
      /\ \A r \in rules : r.maximum \in Capacity /\ r.reserved \in Nat
  BY SeatsAssumption DEF SeatsTypeOK, Matches
<1>2. M \in SUBSET Capacity /\ M \in SUBSET Nat
  BY <1>1, SeatsAssumption DEF Maxima
<1>3. Min(M) \in M
  BY <1>2, MinNat
<1>4. Max(R) \in Nat
  <2>1. IsFiniteSet(rules)
    BY <1>1, FS_Subset
  <2>2. IsFiniteSet({r.reserved : r \in rules})
    <3> DEFINE f == [r \in rules |-> r.reserved]
               T == {r.reserved : r \in rules}
    <3>1. f \in Surjection(rules, T)
      BY DEF Surjection
    <3> HIDE DEF f, T, rules
    <3> QED
      BY <2>1, <3>1, FS_Surjection DEF T
  <2>3. IsFiniteSet(R)
    BY <2>2, FS_AddElement
  <2>4. R \in SUBSET Nat
    BY <1>1
  <2>5. PICK b \in Nat : \A x \in R : x <= b
    <3> HIDE DEF R
    <3> QED
      BY <2>3, <2>4, FiniteBound
  <2>6. Max(R) \in R
    <3>1. R # {}
      OBVIOUS
    <3> HIDE DEF R
    <3> QED
      BY <2>4, <2>5, <3>1, MaxBounded
  <2> QED
    BY <2>4, <2>6
<1>5. Max({0, Min(M) - Max(R)}) \in Nat
  <2> DEFINE d == Min(M) - Max(R)
             T == {0, d}
  <2>1. d \in Int
    BY <1>2, <1>3, <1>4
  <2> HIDE DEF d
  <2>2. T \in SUBSET Int /\ T # {}
    BY <2>1
  <2>3. \E b \in Int : \A x \in T : x <= b
    BY <2>1
  <2>4. Max(T) \in T /\ \A x \in T : x <= Max(T)
    <3> HIDE DEF T
    <3> QED
      BY <2>2, <2>3, MaxBounded
  <2>5. Max(T) \in Int /\ 0 <= Max(T)
    BY <2>1, <2>4
  <2> QED
    BY <2>5 DEF d
<1> QED
  BY <1>2, <1>3, <1>5 DEF Usable

(* The ceiling of a section, when neither the classes nor the policy are edited. *)
Ceiling(t, own) == Usable(Matches(ClassOf[t], Scope(t)), own)
HasCeiling(t, own) == Maxima(Matches(ClassOf[t], Scope(t)), own) # {}
LEMMA CeilingNat ==
  ASSUME SeatsTypeOK, NEW t, NEW own \in SUBSET Capacity, HasCeiling(t, own)
  PROVE  Ceiling(t, own) \in Nat
BY UsableNat DEF Ceiling, HasCeiling

SameScope(t) ==
  /\ class'[ClassOf[t]].year = class[ClassOf[t]].year /\ class'[ClassOf[t]].group = class[ClassOf[t]].group
  /\ policy' = policy
LEMMA CeilingStays ==
  ASSUME NEW t, SameScope(t), NEW own, section'[t].capacity = own
  PROVE  (HasCapacity(t)' <=> HasCeiling(t, own)) /\ EffectiveCapacity(t)' = Ceiling(t, own)
<1>1. Scope(t)' = Scope(t)
  BY DEF SameScope, Scope, ClassScope
<1>2. Matches(ClassOf[t], Scope(t))' = Matches(ClassOf[t], Scope(t))
  BY <1>1 DEF SameScope, Matches
<1>3. \A rules : Maxima(rules, own)' = Maxima(rules, own)
  BY DEF Maxima, SameScope
<1> QED
  BY <1>2, Zenon DEF HasCapacity, EffectiveCapacity, HasCeiling, Ceiling, Maxima, Usable, SameScope

LEMMA FitsStays ==
  ASSUME SeatsTypeOK, NEW t \in Section, SameScope(t), section'[t].capacity = section[t].capacity,
         Fits(t), \A y \in AcademicYear : Occupants(t, y)' \subseteq Occupants(t, y)
  PROVE  Fits(t)'
<1>1. PICK own \in SUBSET Capacity : own = section[t].capacity
  BY DEF SeatsTypeOK, SectionRow
<1>2. (HasCapacity(t)' <=> HasCeiling(t, own)) /\ EffectiveCapacity(t)' = Ceiling(t, own)
  BY <1>1, CeilingStays
<1>3. (HasCapacity(t) <=> HasCeiling(t, own)) /\ EffectiveCapacity(t) = Ceiling(t, own)
  BY <1>1 DEF HasCapacity, EffectiveCapacity, HasCeiling, Ceiling
<1>4. ASSUME HasCapacity(t)', NEW y \in AcademicYear
      PROVE  Occupied(t, y)' <= Ceiling(t, own)
  <2>1. Ceiling(t, own) \in Nat
    BY <1>2, <1>4, CeilingNat
  <2>2. Occupied(t, y) <= Ceiling(t, own)
    BY <1>2, <1>3, <1>4 DEF Fits
  <2>3. Occupied(t, y) \in Nat /\ Occupied(t, y)' \in Nat /\ Occupied(t, y)' <= Occupied(t, y)
    BY <1>4, FewerOccupants
  <2> QED
    BY <2>1, <2>2, <2>3
<1> QED
  BY <1>2, <1>4 DEF Fits

-----------------------------------------------------------------------------
(* What a step does to who sits where.  B are the enrolments that are placed, W the sections *)
(* they are placed in; the others stay where they are, and none becomes active.              *)
Placing(B, W) ==
  /\ \A e \in Enrolment \ B : /\ enrolled'[e].section = enrolled[e].section
                              /\ enrolled'[e].status = "ACTIVE" => enrolled[e].status = "ACTIVE"
  /\ \A e \in B : enrolled'[e].section \in W \cup {NoSection}

LEMMA OthersShrink ==
  ASSUME NEW B, NEW W, Placing(B, W)
  PROVE  \A t \in Section \ W, y \in AcademicYear : Occupants(t, y)' \subseteq Occupants(t, y)
BY SeatsAssumption DEF Placing, Occupants, Active

(* The sections W are written so that they fit and exist; the others keep their rows. *)
Seating(B, W) ==
  /\ Placing(B, W)
  /\ UNCHANGED <<class, policy, edited>>
  /\ \A s \in W : /\ section'[s].status # "NONE"
                  /\ ClassOf[s] \notin edited => Fits(s)'
  /\ \A s \in Section \ W : section'[s] = section[s]

LEMMA SeatsHold ==
  ASSUME SeatsInv, NEW B, NEW W, Seating(B, W)
  PROVE  EverybodyHoused' /\ WithinSeats'
<1>1. EverybodyHoused'
  <2> SUFFICES ASSUME NEW e \in Enrolment, enrolled'[e].section \in Section
      PROVE  section'[enrolled'[e].section].status # "NONE"
    BY DEF EverybodyHoused, Housed
  <2>1. CASE enrolled'[e].section \in W
    BY <2>1 DEF Seating
  <2>2. CASE enrolled'[e].section \notin W
    <3>1. enrolled'[e].section = enrolled[e].section
      BY <2>2, SeatsAssumption DEF Seating, Placing
    <3> QED
      BY <2>2, <3>1 DEF Seating, SeatsInv, EverybodyHoused, Housed
  <2> QED
    BY <2>1, <2>2
<1>2. ASSUME NEW t \in Section, ClassOf[t] \notin edited
      PROVE  Fits(t)'
  <2>1. CASE t \in W
    BY <1>2, <2>1 DEF Seating
  <2>2. CASE t \notin W
    <3>1. \A y \in AcademicYear : Occupants(t, y)' \subseteq Occupants(t, y)
      BY <2>2, OthersShrink DEF Seating
    <3>2. SameScope(t) /\ section'[t].capacity = section[t].capacity
      BY <2>2 DEF Seating, SameScope
    <3>3. Fits(t)
      BY <1>2 DEF SeatsInv, WithinSeats
    <3> QED
      BY <3>1, <3>2, <3>3, FitsStays DEF SeatsInv
  <2> QED
    BY <2>1, <2>2
<1> QED
  BY <1>1, <1>2 DEF WithinSeats, Seating

(* Plans: whatever a step leaves of one knows no more sections than before, and none of V. *)
Outdated(V) ==
  /\ plan' = [p \in Planner |-> plan'[p]]
  /\ \A p \in Planner : plan'[p] # NoPlan =>
       /\ plan[p] # NoPlan /\ plan'[p] \in PlanRecord
       /\ plan'[p].fresh \subseteq plan[p].fresh \ V
       /\ plan'[p].year = plan[p].year /\ plan'[p].occupants = plan[p].occupants

LEMMA StaleOutdated ==
  ASSUME Plans, NEW V, NEW E, plan' = Stale(V, E)
  PROVE  Outdated(V)
<1>1. plan' = [p \in Planner |-> plan'[p]]
  BY DEF Stale
<1>2. ASSUME NEW p \in Planner, plan'[p] # NoPlan
      PROVE  /\ plan[p] # NoPlan /\ plan'[p] \in PlanRecord
             /\ plan'[p].fresh \subseteq plan[p].fresh \ V
             /\ plan'[p].year = plan[p].year /\ plan'[p].occupants = plan[p].occupants
  <2>1. plan[p] # NoPlan /\ plan'[p] = [plan[p] EXCEPT !.fresh = @ \ V, !.seen = @ \ E]
    BY <1>2 DEF Stale
  <2>2. PICK r \in PlanRecord : r = plan[p]
    BY <2>1 DEF Plans, Shows
  <2>3. [r EXCEPT !.fresh = @ \ V, !.seen = @ \ E] \in PlanRecord
    BY DEF PlanRecord
  <2>4. PICK z \in PlanRecord : z = [r EXCEPT !.fresh = @ \ V, !.seen = @ \ E]
    BY <2>3
  <2>5. z.fresh = r.fresh \ V /\ z.year = r.year /\ z.occupants = r.occupants
    BY <2>4 DEF PlanRecord
  <2> QED
    BY <2>1, <2>2, <2>4, <2>5
<1> QED
  BY <1>1, <1>2 DEF Outdated

LEMMA PlansHold ==
  ASSUME Plans, NEW V, Outdated(V),
         \A t \in Section \ V : /\ section[t].status # "NONE" => section'[t].status # "NONE"
                                /\ section[t].status # "NONE" =>
                                     \A y \in AcademicYear : Occupants(t, y)' \subseteq Occupants(t, y)
  PROVE  Plans'
<1>1. ASSUME NEW p \in Planner, plan'[p] # NoPlan
      PROVE  /\ plan'[p] \in PlanRecord
             /\ \A s \in plan'[p].fresh : /\ section'[s].status # "NONE"
                                          /\ Occupants(s, plan[p].year)' \subseteq plan'[p].occupants
  <2>1. /\ plan[p] # NoPlan /\ plan'[p] \in PlanRecord /\ plan[p] \in PlanRecord
        /\ plan'[p].fresh \subseteq plan[p].fresh \ V
        /\ plan'[p].year = plan[p].year /\ plan'[p].occupants = plan[p].occupants
    BY <1>1 DEF Outdated, Plans, Shows
  <2> QED
    BY <2>1 DEF Plans, Shows, PlanRecord
<1> QED
  BY <1>1 DEF Plans, Shows, Outdated

(* Roll numbers: those who are numbered get numbers that nobody else of the section has. *)
RollsFree(B) ==
  /\ \A e \in Enrolment \ B : /\ enrolled'[e].section = enrolled[e].section
                              /\ enrolled'[e].roll = enrolled[e].roll
  /\ \A e \in B : enrolled'[e].section # NoSection =>
       /\ enrolled'[e].roll \notin RollsUsed(enrolled'[e].section, e[2], B)
       /\ \A d \in B : d # e /\ d[2] = e[2] /\ enrolled'[d].section = enrolled'[e].section
                         => enrolled'[d].roll # enrolled'[e].roll

LEMMA RollsStay ==
  ASSUME SeatsInv, NEW B, RollsFree(B)
  PROVE  RollsUnique'
<1> SUFFICES ASSUME NEW d \in Enrolment, NEW e \in Enrolment, d # e, d[2] = e[2],
                    enrolled'[d].section = enrolled'[e].section, enrolled'[d].section # NoSection,
                    enrolled'[d].roll # 0
    PROVE  enrolled'[d].roll # enrolled'[e].roll
  BY DEF RollsUnique, RollsDiffer
<1>1. ASSUME NEW f \in Enrolment, NEW g \in Enrolment, f \in B, g \notin B, f[2] = g[2], enrolled'[g].roll # 0,
             enrolled'[f].section = enrolled'[g].section, enrolled'[f].section # NoSection
      PROVE  enrolled'[f].roll # enrolled'[g].roll
  <2>1. enrolled[g].roll \in RollsUsed(enrolled'[f].section, f[2], B)
    BY <1>1 DEF RollsUsed, RollsFree
  <2> QED
    BY <1>1, <2>1 DEF RollsFree
<1>2. CASE d \in B /\ e \in B
  BY <1>2 DEF RollsFree
<1>3. CASE d \in B /\ e \notin B
  BY <1>1, <1>3
<1>4. CASE d \notin B /\ e \in B
  BY <1>1, <1>4
<1>5. CASE d \notin B /\ e \notin B
  BY <1>5 DEF RollsFree, SeatsInv, RollsUnique, RollsDiffer
<1> QED
  BY <1>2, <1>3, <1>4, <1>5

(* A batch that is numbered row by row gets such numbers. *)
Numbered(B, to, roll) ==
  /\ Numbers(B, to, roll, TRUE) \/ Numbers(B, to, roll, FALSE)
  /\ \A e \in Enrolment \ B : /\ enrolled'[e].section = enrolled[e].section
                              /\ enrolled'[e].roll = enrolled[e].roll
  /\ \A e \in B : enrolled'[e].section = to[e] /\ enrolled'[e].roll = roll[e]
LEMMA BatchNumbered ==
  ASSUME NEW B, NEW to, NEW roll, Numbered(B, to, roll)
  PROVE  RollsFree(B)
<1> USE DEF Numbered
<1>1. ASSUME NEW e \in B, to[e] # NoSection
      PROVE  roll[e] \notin RollsUsed(to[e], e[2], B)
  BY <1>1 DEF Numbers, RollFor
<1>2. ASSUME NEW e \in B, NEW d \in B, to[e] # NoSection, d # e, d[2] = e[2], to[d] = to[e]
      PROVE  roll[d] # roll[e]
  BY <1>2 DEF Numbers, Beside
<1>3. ASSUME NEW e \in B, enrolled'[e].section # NoSection
      PROVE  /\ enrolled'[e].roll \notin RollsUsed(enrolled'[e].section, e[2], B)
             /\ \A d \in B : d # e /\ d[2] = e[2] /\ enrolled'[d].section = enrolled'[e].section
                              => enrolled'[d].roll # enrolled'[e].roll
  <2>1. enrolled'[e].section = to[e] /\ enrolled'[e].roll = roll[e]
    OBVIOUS
  <2>2. \A d \in B : enrolled'[d].section = to[d] /\ enrolled'[d].roll = roll[d]
    OBVIOUS
  <2>3. enrolled'[e].roll \notin RollsUsed(enrolled'[e].section, e[2], B)
    BY <1>1, <1>3, <2>1
  <2> QED
    BY <1>2, <1>3, <2>1, <2>2, <2>3
<1> QED
  BY <1>3, Zenon DEF RollsFree

-----------------------------------------------------------------------------
(* What most steps have in common. *)
LEMMA SeatsStep ==
  ASSUME SeatsInv, SeatsTypeOK', NEW B, NEW W, Seating(B, W), NEW V, Outdated(V),
         \A t \in Section : t \in W => t \in V \/ section[t].status = "NONE",
         RollsUnique', overlooked' = {}
  PROVE  SeatsInv'
<1>1. EverybodyHoused' /\ WithinSeats'
  BY SeatsHold
<1>2. Plans'
  <2>1. ASSUME NEW t \in Section \ V, section[t].status # "NONE"
        PROVE  /\ section'[t].status # "NONE"
               /\ \A y \in AcademicYear : Occupants(t, y)' \subseteq Occupants(t, y)
    <3>1. t \in Section \ W
      BY <2>1
    <3> QED
      BY <2>1, <3>1, OthersShrink DEF Seating
  <2>2. Plans
    BY DEF SeatsInv
  <2> QED
    BY <2>1, <2>2, PlansHold
<1> QED
  BY <1>1, <1>2 DEF SeatsInv, NothingOverlooked

(* A step in which everybody keeps class, section and roll number. *)
NobodyMoves == \A e \in Enrolment :
  /\ enrolled'[e].section = enrolled[e].section /\ enrolled'[e].roll = enrolled[e].roll
  /\ enrolled'[e].status = "ACTIVE" => enrolled[e].status = "ACTIVE"
LEMMA NobodyMoved ==
  ASSUME SeatsInv, NobodyMoves
  PROVE  /\ RollsUnique' /\ Placing({}, {})
         /\ \A t \in Section, y \in AcademicYear : Occupants(t, y)' \subseteq Occupants(t, y)
<1>1. RollsFree({}) /\ Placing({}, {})
  BY DEF NobodyMoves, RollsFree, Placing
<1> QED
  BY <1>1, RollsStay, OthersShrink

LEMMA SamePlans == ASSUME Plans, plan' = plan PROVE Outdated({})
BY DEF Outdated, Plans, Shows

(* An empty section fits. *)
LEMMA EmptyFits ==
  ASSUME SeatsTypeOK, NEW t \in Section, SameScope(t), section'[t].capacity \in SUBSET Capacity,
         \A e \in Enrolment : enrolled'[e].section # t
  PROVE  Fits(t)'
<1>1. PICK own \in SUBSET Capacity : section'[t].capacity = own
  OBVIOUS
<1>2. (HasCapacity(t)' <=> HasCeiling(t, own)) /\ EffectiveCapacity(t)' = Ceiling(t, own)
  BY <1>1, CeilingStays
<1>3. ASSUME HasCapacity(t)', NEW y \in AcademicYear
      PROVE  Occupied(t, y)' <= Ceiling(t, own)
  <2>1. Ceiling(t, own) \in Nat
    BY <1>2, <1>3, CeilingNat
  <2>2. Occupants(t, y)' = {}
    BY DEF Occupants, Active
  <2>3. Occupied(t, y)' = 0
    BY <2>2, FS_EmptySet DEF Occupied
  <2> QED
    BY <2>1, <2>3
<1> QED
  BY <1>2, <1>3 DEF Fits

(* Enrolments that are written stay well formed. *)
LEMMA RowWritten ==
  ASSUME SeatsTypeOK, NEW B, NEW row, \A e \in B : row[e] \in EnrolmentRow,
         enrolled' = [e \in Enrolment |-> IF e \in B THEN row[e] ELSE enrolled[e]]
  PROVE  enrolled' \in [Enrolment -> EnrolmentRow]
BY DEF SeatsTypeOK

LEMMA RollsAreRolls ==
  \A s, y, except : RollFor(s, y, except) \subseteq Roll
BY SeatsAssumption DEF RollFor, Roll

LEMMA PlacesAre ==
  ASSUME NEW c PROVE Places(c) \subseteq Section \cup {NoSection}
BY DEF Places
-----------------------------------------------------------------------------
LEMMA JoinClassStep ==
  ASSUME SeatsInv, NEW c \in SchoolClass, NEW e \in Newcomers(class[c].year), NEW s \in Places(c),
         NEW roll \in RollFor(s, e[2], {}), Join(e, c, s, roll)
  PROVE  SeatsInv'
<1> DEFINE row == [status |-> "ACTIVE", class |-> c, section |-> s, roll |-> roll]
<1>1. /\ enrolled' = [enrolled EXCEPT ![e] = row]
      /\ UNCHANGED <<class, section, policy, edited>> /\ overlooked' = overlooked
  BY DEF Join, rowVars
<1>2. PICK written : /\ plan' = Stale(written, {}) /\ Checked(written \ {NoSection}) /\ s \in written
  BY DEF Join
<1>3. e \in Enrolment /\ s \in Section \cup {NoSection} /\ row \in EnrolmentRow
  <2>1. class[c].year \in AcademicYear
    BY DEF SeatsInv, SeatsTypeOK, ClassRow
  <2>2. e \in Enrolment
    BY <2>1 DEF Newcomers, Enrolment
  <2>3. s \in Section \cup {NoSection}
    BY PlacesAre
  <2>4. roll \in Roll
    BY RollsAreRolls
  <2> QED
    BY <2>2, <2>3, <2>4 DEF EnrolmentRow
<1>4. /\ enrolled'[e] = row /\ \A d \in Enrolment \ {e} : enrolled'[d] = enrolled[d]
      /\ enrolled' \in [Enrolment -> EnrolmentRow]
  BY <1>1, <1>3 DEF SeatsInv, SeatsTypeOK
<1>5. SeatsTypeOK'
  BY <1>1, <1>4 DEF SeatsInv, SeatsTypeOK
<1>6. s # NoSection => section[s].status # "NONE"
  BY <1>3 DEF Join, Automatic, Vacant, Open
<1> DEFINE W == {s} \ {NoSection}
<1>7. Seating({e}, W)
  <2>1. Placing({e}, W)
    BY <1>4 DEF Placing
  <2>2. ASSUME NEW t \in W PROVE section'[t].status # "NONE" /\ Fits(t)'
    BY <1>1, <1>2, <1>6 DEF Checked
  <2> QED
    BY <1>1, <2>1, <2>2 DEF Seating
<1>8. RollsUnique'
  <2>1. s # NoSection => roll \notin RollsUsed(s, e[2], {e})
    <3>1. RollsUsed(s, e[2], {e}) \subseteq RollsUsed(s, e[2], {})
      BY DEF RollsUsed
    <3> QED
      BY <3>1 DEF RollFor
  <2>2. RollsFree({e})
    BY <1>3, <1>4, <2>1 DEF RollsFree
  <2> QED
    BY <2>2, RollsStay
<1>9. Outdated(written)
  BY <1>2, StaleOutdated DEF SeatsInv
<1>10. W \subseteq written
  BY <1>2
<1>11. overlooked' = {}
  BY <1>1 DEF SeatsInv, NothingOverlooked
<1> HIDE DEF W
<1> QED
  BY <1>5, <1>7, <1>8, <1>9, <1>10, <1>11, SeatsStep

LEMMA IntakeStep ==
  ASSUME SeatsInv, NEW c \in SchoolClass, NEW B \in SUBSET Newcomers(class[c].year),
         NEW new \in SUBSET (Places(c) \ {NoSection}), NEW to \in [B -> Places(c)], NEW roll \in [B -> Roll],
         ConfirmIntake(B, c, new, to, roll)
  PROVE  SeatsInv'
<1> DEFINE row == [e \in B |-> [status |-> "ACTIVE", class |-> c, section |-> to[e], roll |-> roll[e]]]
           old == ActiveSections(c)
           opened == [status |-> "ACTIVE", capacity |-> {Min(Norm(c))}]
<1>1. /\ section' = [s \in Section |-> IF s \in new THEN opened ELSE section[s]]
      /\ UNCHANGED <<class, policy, edited>> /\ overlooked' = overlooked
      /\ plan' = Stale(old, {}) /\ Checked(old \cup new)
      /\ Numbers(B, to, roll, TRUE)
  BY DEF ConfirmIntake
<1>2. enrolled' = [e \in Enrolment |-> IF e \in B THEN row[e] ELSE enrolled[e]]
  BY DEF ConfirmIntake
<1>3. B \in SUBSET Enrolment
  <2>1. class[c].year \in AcademicYear
    BY DEF SeatsInv, SeatsTypeOK, ClassRow
  <2> QED
    BY <2>1 DEF Newcomers, Enrolment
<1>4. /\ new \in SUBSET Section /\ \A s \in new : section[s].status = "NONE"
      /\ \A e \in B : to[e] \in old \cup new \cup {NoSection}
  BY PlacesAre, SeatsAssumption DEF ConfirmIntake, Proposed
<1>5. old \in SUBSET Section /\ \A s \in old : section[s].status = "ACTIVE"
  BY DEF ActiveSections
<1>6. \A e \in B : row[e] \in EnrolmentRow
  BY <1>4, <1>5 DEF EnrolmentRow
<1>7. enrolled' \in [Enrolment -> EnrolmentRow]
  <2> HIDE DEF row
  <2> QED
    BY <1>2, <1>6, RowWritten DEF SeatsInv
<1>8. section' \in [Section -> SectionRow]
  <2>1. CASE new = {}
    BY <1>1, <2>1 DEF SeatsInv, SeatsTypeOK
  <2>2. CASE new # {}
    <3>1. Norm(c) # {}
      BY <2>2 DEF ConfirmIntake, Proposed
    <3>2. Min(Norm(c)) \in Capacity
      BY <3>1, UsableNat DEF SeatsInv, Norm
    <3>3. opened \in SectionRow
      BY <3>2 DEF SectionRow
    <3> QED
      BY <1>1, <3>3 DEF SeatsInv, SeatsTypeOK
  <2> QED
    BY <2>1, <2>2
<1>9. SeatsTypeOK'
  BY <1>1, <1>7, <1>8 DEF SeatsInv, SeatsTypeOK
<1> DEFINE W == old \cup new
<1>10. /\ \A e \in B : enrolled'[e].section = to[e] /\ enrolled'[e].roll = roll[e]
       /\ \A e \in Enrolment \ B : enrolled'[e] = enrolled[e]
  BY <1>2, <1>3
<1>11. Seating(B, W)
  <2>1. Placing(B, W)
    BY <1>4, <1>10 DEF Placing
  <2>2. \A s \in W : section'[s].status # "NONE" /\ Fits(s)'
    BY <1>1, <1>4, <1>5 DEF Checked
  <2>3. \A s \in Section \ W : section'[s] = section[s]
    BY <1>1
  <2> QED
    BY <1>1, <2>1, <2>2, <2>3 DEF Seating
<1>12. RollsUnique'
  <2>1. Numbered(B, to, roll)
    BY <1>1, <1>10 DEF Numbered
  <2>2. RollsFree(B)
    BY <2>1, BatchNumbered
  <2> QED
    BY <2>2, RollsStay
<1>13. PICK V : V = old
  OBVIOUS
<1>14. Outdated(V)
  BY <1>1, <1>13, StaleOutdated DEF SeatsInv
<1>15. \A t \in Section : t \in W => t \in V \/ section[t].status = "NONE"
  BY <1>4, <1>13
<1>16. overlooked' = {}
  BY <1>1 DEF SeatsInv, NothingOverlooked
<1>17. PICK Z : Z = W
  OBVIOUS
<1>18. Seating(B, Z) /\ \A t \in Section : t \in Z => t \in V \/ section[t].status = "NONE"
  BY <1>11, <1>15, <1>17
<1> QED
  BY <1>9, <1>12, <1>14, <1>16, <1>18, SeatsStep

(* Who is moved by a plan or by hand. *)
LEMMA MovedRows ==
  ASSUME SeatsTypeOK, NEW B \in SUBSET Enrolment, NEW c \in SchoolClass, NEW to, NEW roll,
         \A e \in B : to[e] \in Section \cup {NoSection} /\ roll[e] \in Roll,
         enrolled' = Moved(B, c, to, roll)
  PROVE  /\ enrolled' \in [Enrolment -> EnrolmentRow]
         /\ \A e \in B : /\ enrolled'[e].section = to[e] /\ enrolled'[e].roll = roll[e]
                         /\ enrolled'[e].status = enrolled[e].status
         /\ \A e \in Enrolment \ B : enrolled'[e] = enrolled[e]
<1> DEFINE row == [e \in B |-> [enrolled[e] EXCEPT !.class = c, !.section = to[e], !.roll = roll[e]]]
<1>1. ASSUME NEW e \in B
      PROVE  /\ row[e] \in EnrolmentRow /\ row[e].section = to[e] /\ row[e].roll = roll[e]
             /\ row[e].status = enrolled[e].status
  <2>1. enrolled[e] \in EnrolmentRow
    BY DEF SeatsTypeOK
  <2>2. PICK r \in EnrolmentRow : r = enrolled[e]
    BY <2>1
  <2>3. [r EXCEPT !.class = c, !.section = to[e], !.roll = roll[e]] \in EnrolmentRow
    BY DEF EnrolmentRow
  <2> QED
    BY <2>2, <2>3 DEF EnrolmentRow
<1>2. enrolled' = [e \in Enrolment |-> IF e \in B THEN row[e] ELSE enrolled[e]]
  BY DEF Moved
<1> HIDE DEF row
<1>3. enrolled' \in [Enrolment -> EnrolmentRow]
  BY <1>1, <1>2, RowWritten
<1> QED
  BY <1>1, <1>2, <1>3

LEMMA MoveStep ==
  ASSUME SeatsInv, NEW B \in SUBSET Active, NEW c \in SchoolClass,
         NEW to \in [B -> Places(c)], NEW roll \in [B -> Roll], Move(B, c, to, roll)
  PROVE  SeatsInv'
<1> DEFINE targets == {to[e] : e \in B}
           W == targets \ {NoSection}
<1>1. /\ UNCHANGED <<class, section, policy, edited>> /\ overlooked' = overlooked
      /\ plan' = Stale(targets, B) /\ Checked(W)
      /\ Numbers(B, to, roll, FALSE) /\ enrolled' = Moved(B, c, to, roll)
      /\ \A e \in B : to[e] # NoSection => Open(to[e], c, e[2])
  BY DEF Move, rowVars
<1>2. B \in SUBSET Enrolment /\ \A e \in B : to[e] \in Section \cup {NoSection} /\ roll[e] \in Roll
  BY PlacesAre DEF Active
<1>3. /\ enrolled' \in [Enrolment -> EnrolmentRow]
      /\ \A e \in B : /\ enrolled'[e].section = to[e] /\ enrolled'[e].roll = roll[e]
                      /\ enrolled'[e].status = enrolled[e].status
      /\ \A e \in Enrolment \ B : enrolled'[e] = enrolled[e]
  BY <1>1, <1>2, MovedRows DEF SeatsInv
<1>4. SeatsTypeOK'
  BY <1>1, <1>3 DEF SeatsInv, SeatsTypeOK
<1>5. Seating(B, W)
  <2>1. Placing(B, W)
    BY <1>3 DEF Placing
  <2>2. \A s \in W : section'[s].status # "NONE" /\ Fits(s)'
    BY <1>1 DEF Checked, Open
  <2> QED
    BY <1>1, <2>1, <2>2 DEF Seating
<1>6. RollsUnique'
  <2>1. Numbered(B, to, roll)
    BY <1>1, <1>3 DEF Numbered
  <2>2. RollsFree(B)
    BY <2>1, BatchNumbered
  <2> QED
    BY <2>2, RollsStay
<1>7. Outdated(targets)
  BY <1>1, StaleOutdated DEF SeatsInv
<1>8. overlooked' = {} /\ W \subseteq targets
  BY <1>1 DEF SeatsInv, NothingOverlooked
<1> HIDE DEF targets, W
<1> QED
  BY <1>4, <1>5, <1>6, <1>7, <1>8, SeatsStep

LEMMA ConfirmedOutdated ==
  ASSUME Plans, NEW V, NEW E, NEW p \in Planner, plan' = [Stale(V, E) EXCEPT ![p] = NoPlan]
  PROVE  Outdated(V)
<1>1. plan' = [q \in Planner |-> plan'[q]]
  BY DEF Stale
<1>2. ASSUME NEW q \in Planner, plan'[q] # NoPlan
      PROVE  /\ plan[q] # NoPlan /\ plan'[q] \in PlanRecord
             /\ plan'[q].fresh \subseteq plan[q].fresh \ V
             /\ plan'[q].year = plan[q].year /\ plan'[q].occupants = plan[q].occupants
  <2>1. plan[q] # NoPlan /\ plan'[q] = [plan[q] EXCEPT !.fresh = @ \ V, !.seen = @ \ E]
    BY <1>2 DEF Stale
  <2>2. PICK r \in PlanRecord : r = plan[q]
    BY <2>1 DEF Plans, Shows
  <2>3. [r EXCEPT !.fresh = @ \ V, !.seen = @ \ E] \in PlanRecord
    BY DEF PlanRecord
  <2>4. PICK z \in PlanRecord : z = [r EXCEPT !.fresh = @ \ V, !.seen = @ \ E]
    BY <2>3
  <2>5. z.fresh = r.fresh \ V /\ z.year = r.year /\ z.occupants = r.occupants
    BY <2>4 DEF PlanRecord
  <2> QED
    BY <2>1, <2>2, <2>4, <2>5
<1> QED
  BY <1>1, <1>2 DEF Outdated

(* A plan that is confirmed was shown everybody who is in its sections. *)
LEMMA ConfirmStep ==
  ASSUME SeatsInv, NEW p \in Planner, plan[p] # NoPlan, NEW B,
         NEW to \in [B -> DOMAIN plan[p].capacity], NEW roll \in [B -> Roll],
         NEW compared \in BOOLEAN, Confirm(p, to, roll, compared)
  PROVE  SeatsInv'
<1>1. PICK c, y, S, capacity, existing : /\ c = plan[p].class /\ y = plan[p].year /\ S = DOMAIN plan[p].capacity
                                         /\ capacity = plan[p].capacity /\ existing = plan[p].existing
  OBVIOUS
<1>2. /\ c \in SchoolClass /\ y \in AcademicYear /\ S \in SUBSET Section /\ existing \in SUBSET Section
      /\ \A s \in S : capacity[s] \in Capacity
      /\ plan[p] \in PlanRecord
  BY <1>1 DEF SeatsInv, Plans, Shows, PlanRecord
<1>3. DOMAIN to = B /\ \A e \in B : to[e] \in S /\ roll[e] \in Roll
  BY <1>1
<1>4. /\ existing = plan[p].fresh /\ B \subseteq Unassigned(c, y)
      /\ section' = [s \in Section |-> IF s \in S
            THEN [status |-> "ACTIVE", capacity |-> {capacity[s]}] ELSE section[s]]
      /\ MayMove(B, c, to) /\ Numbers(B, to, roll, TRUE)
      /\ enrolled' = Moved(B, c, to, roll)
  BY <1>1, <1>3 DEF Confirm
<1>5. /\ overlooked' = overlooked \cup ((UNION {Occupants(s, y) : s \in existing}) \ plan[p].occupants)
      /\ UNCHANGED <<class, policy, edited>> /\ Checked(S)
  BY <1>1, <1>3 DEF Confirm
<1>6. PICK V : /\ V = {to[e] : e \in B} \cup {s \in S : section'[s] # section[s]}
               /\ plan' = [Stale(V, B) EXCEPT ![p] = NoPlan]
  BY <1>1, <1>3 DEF Confirm
<1>7. B \in SUBSET Enrolment
  BY <1>4 DEF Unassigned, Active
<1>8. /\ enrolled' \in [Enrolment -> EnrolmentRow]
      /\ \A e \in B : /\ enrolled'[e].section = to[e] /\ enrolled'[e].roll = roll[e]
                      /\ enrolled'[e].status = enrolled[e].status
      /\ \A e \in Enrolment \ B : enrolled'[e] = enrolled[e]
  <2>1. \A e \in B : to[e] \in Section \cup {NoSection} /\ roll[e] \in Roll
    BY <1>2, <1>3
  <2> QED
    BY <2>1, <1>2, <1>4, <1>7, MovedRows DEF SeatsInv
<1>9. overlooked' = {}
  <2>1. \A s \in existing : Occupants(s, y) \subseteq plan[p].occupants
    BY <1>1, <1>4 DEF SeatsInv, Plans, Shows
  <2> QED
    BY <1>5, <2>1 DEF SeatsInv, NothingOverlooked
<1>10. SeatsTypeOK'
  <2>1. section' \in [Section -> SectionRow]
    BY <1>2, <1>4 DEF SeatsInv, SeatsTypeOK, SectionRow
  <2> QED
    BY <1>5, <1>8, <1>9, <2>1 DEF SeatsInv, SeatsTypeOK
<1>11. Seating(B, V)
  <2>1. Placing(B, V)
    BY <1>6, <1>8 DEF Placing
  <2>2. V \subseteq S
    BY <1>3, <1>6
  <2>3. \A s \in V : section'[s].status # "NONE" /\ Fits(s)'
    BY <1>2, <1>4, <1>5, <2>2 DEF Checked
  <2>4. \A s \in Section \ V : section'[s] = section[s]
    BY <1>4, <1>6
  <2> QED
    BY <1>5, <2>1, <2>3, <2>4 DEF Seating
<1>12. RollsUnique'
  <2>1. Numbered(B, to, roll)
    BY <1>4, <1>8 DEF Numbered
  <2>2. RollsFree(B)
    BY <2>1, BatchNumbered
  <2> QED
    BY <2>2, RollsStay
<1>13. Outdated(V)
  BY <1>6, ConfirmedOutdated DEF SeatsInv
<1> QED
  BY <1>9, <1>10, <1>11, <1>12, <1>13, SeatsStep

LEMMA RenumberStep ==
  ASSUME SeatsInv, NEW e \in Enrolment, NEW roll \in RollFor(enrolled[e].section, e[2], {e}), Renumber(e, roll)
  PROVE  SeatsInv'
<1>1. /\ UNCHANGED <<class, section, policy, edited>> /\ overlooked' = overlooked
      /\ enrolled' = [enrolled EXCEPT ![e] = [enrolled[e] EXCEPT !.roll = roll]]
      /\ enrolled[e].section # NoSection
  BY DEF Renumber, rowVars
<1>2. PICK r \in EnrolmentRow : r = enrolled[e]
  BY DEF SeatsInv, SeatsTypeOK
<1>3. roll \in Roll
  BY RollsAreRolls
<1>4. PICK q \in EnrolmentRow : /\ q = [r EXCEPT !.roll = roll] /\ q.section = r.section /\ q.status = r.status
                                /\ q.roll = roll
  <2>1. [r EXCEPT !.roll = roll] \in EnrolmentRow
    BY <1>3 DEF EnrolmentRow
  <2>2. /\ [r EXCEPT !.roll = roll].section = r.section /\ [r EXCEPT !.roll = roll].status = r.status
        /\ [r EXCEPT !.roll = roll].roll = roll
    BY DEF EnrolmentRow
  <2> QED
    BY <2>1, <2>2
<1>5. /\ enrolled' \in [Enrolment -> EnrolmentRow] /\ enrolled'[e] = q
      /\ \A d \in Enrolment \ {e} : enrolled'[d] = enrolled[d]
  BY <1>1, <1>2, <1>4 DEF SeatsInv, SeatsTypeOK
<1>6. SeatsTypeOK' /\ overlooked' = {}
  BY <1>1, <1>5 DEF SeatsInv, SeatsTypeOK, NothingOverlooked
<1>7. Seating({}, {})
  BY <1>1, <1>2, <1>4, <1>5 DEF Seating, Placing
<1>8. RollsUnique'
  <2>1. RollsFree({e})
    BY <1>1, <1>2, <1>4, <1>5 DEF RollsFree, RollFor
  <2> QED
    BY <2>1, RollsStay
<1>9. PICK V : plan' = Stale(V, {e})
  BY DEF Renumber
<1>10. Outdated(V)
  BY <1>9, StaleOutdated DEF SeatsInv
<1> QED
  BY <1>6, <1>7, <1>8, <1>10, SeatsStep

(* Enrolments that end. *)
LEMMA EndedStep ==
  ASSUME SeatsInv, NEW S, NEW status \in {"TRANSFERRED", "WITHDRAWN"}, NEW V, Outdated(V),
         UNCHANGED <<class, section, policy, edited, overlooked>>,
         enrolled' = [e \in Enrolment |-> IF e \in S THEN [enrolled[e] EXCEPT !.status = status] ELSE enrolled[e]]
  PROVE  SeatsInv'
<1>1. ASSUME NEW e \in Enrolment
      PROVE  /\ enrolled'[e] \in EnrolmentRow
             /\ enrolled'[e].section = enrolled[e].section /\ enrolled'[e].roll = enrolled[e].roll
             /\ enrolled'[e].status = "ACTIVE" => enrolled[e].status = "ACTIVE"
  <2>1. PICK r \in EnrolmentRow : r = enrolled[e]
    BY DEF SeatsInv, SeatsTypeOK
  <2>2. [r EXCEPT !.status = status] \in EnrolmentRow
    BY DEF EnrolmentRow
  <2>3. [r EXCEPT !.status = status].section = r.section /\ [r EXCEPT !.status = status].roll = r.roll
        /\ [r EXCEPT !.status = status].status = status
    BY DEF EnrolmentRow
  <2> QED
    BY <2>1, <2>2, <2>3
<1>2. enrolled' \in [Enrolment -> EnrolmentRow]
  BY <1>1
<1>3. SeatsTypeOK' /\ overlooked' = {}
  BY <1>2 DEF SeatsInv, SeatsTypeOK, NothingOverlooked
<1>4. NobodyMoves
  BY <1>1 DEF NobodyMoves
<1>5. RollsUnique' /\ Placing({}, {})
  BY <1>4, NobodyMoved
<1>6. Seating({}, {})
  BY <1>5 DEF Seating
<1> QED
  BY <1>3, <1>5, <1>6, SeatsStep

LEMMA StatusStep ==
  ASSUME SeatsInv, NEW e \in Enrolment, NEW status \in {"TRANSFERRED", "WITHDRAWN"}, SetStatus(e, status)
  PROVE  SeatsInv'
<1>1. Outdated({})
  BY StaleOutdated DEF SetStatus, SeatsInv
<1>2. enrolled' = [d \in Enrolment |-> IF d \in {e} THEN [enrolled[d] EXCEPT !.status = status] ELSE enrolled[d]]
  BY DEF SetStatus, SeatsInv, SeatsTypeOK
<1> QED
  BY <1>1, <1>2, EndedStep DEF SetStatus, rowVars

LEMMA WithdrawStep ==
  ASSUME SeatsInv, NEW student \in Student, Withdraw(student)
  PROVE  SeatsInv'
<1>1. Outdated({})
  BY SamePlans DEF Withdraw, SeatsInv
<1>2. PICK S : S = {e \in Active : e[1] = student}
  OBVIOUS
<1>3. enrolled' = [d \in Enrolment |-> IF d \in S THEN [enrolled[d] EXCEPT !.status = "WITHDRAWN"] ELSE enrolled[d]]
  BY <1>2 DEF Withdraw
<1> QED
  BY <1>1, <1>3, EndedStep DEF Withdraw, rowVars

(* A year's pupils of a batch are no more than the batch. *)
LEMMA NextYears ==
  ASSUME NEW B \in SUBSET Enrolment, NEW y, NEW new, new = {<<e[1], y>> : e \in B}
  PROVE  IsFiniteSet(new) /\ Cardinality(new) \in Nat /\ Cardinality(new) <= Cardinality(B)
<1> DEFINE f == [e \in B |-> <<e[1], y>>]
<1>1. f \in Surjection(B, new)
  BY DEF Surjection
<1>2. IsFiniteSet(B) /\ Cardinality(B) \in Nat
  BY EnrolmentsFinite
<1> HIDE DEF f
<1> QED
  BY <1>1, <1>2, FS_Surjection, FS_CardinalityType

LEMMA PromoteStep ==
  ASSUME SeatsInv, NEW B \in SUBSET Active, NEW c \in SchoolClass, NEW s \in Places(c),
         NEW roll \in [{<<e[1], class[c].year>> : e \in B} -> Roll], Promote(B, c, s, roll)
  PROVE  SeatsInv'
<1>1. PICK y \in AcademicYear : y = class[c].year
  BY DEF SeatsInv, SeatsTypeOK, ClassRow
<1>2. PICK new : new = {<<e[1], y>> : e \in B}
  OBVIOUS
<1>3. PICK to : to = [n \in new |-> s]
  OBVIOUS
<1>4. /\ B \in SUBSET Enrolment /\ new \in SUBSET Enrolment /\ \A e \in new : e[2] = y /\ roll[e] \in Roll
      /\ s \in Section \cup {NoSection}
  BY <1>1, <1>2, PlacesAre DEF Active, Enrolment
<1>5. /\ UNCHANGED <<class, section, policy, edited>> /\ overlooked' = overlooked
      /\ plan' = Stale({s}, B)
      /\ s # NoSection => /\ Open(s, c, y)
                          /\ Occupied(s, y) + Cardinality(B) <= EffectiveCapacity(s)
      /\ \A e \in B : e[2] < y
  BY <1>1, <1>2, <1>3 DEF Promote, rowVars
<1>6. Numbers(new, to, roll, TRUE)
  BY <1>1, <1>2, <1>3 DEF Promote
<1>7. enrolled' = [e \in Enrolment |->
         IF e \in new THEN [status |-> "ACTIVE", class |-> c, section |-> s, roll |-> roll[e]]
         ELSE IF e \in B THEN [enrolled[e] EXCEPT !.status = "PROMOTED"]
         ELSE enrolled[e]]
  BY <1>1, <1>2 DEF Promote
<1>8. ASSUME NEW e \in Enrolment \ new
      PROVE  /\ enrolled'[e] \in EnrolmentRow
             /\ enrolled'[e].section = enrolled[e].section /\ enrolled'[e].roll = enrolled[e].roll
             /\ enrolled'[e].status = "ACTIVE" => enrolled[e].status = "ACTIVE"
  <2>1. PICK r \in EnrolmentRow : r = enrolled[e]
    BY DEF SeatsInv, SeatsTypeOK
  <2>2. [r EXCEPT !.status = "PROMOTED"] \in EnrolmentRow
    BY DEF EnrolmentRow
  <2>3. /\ [r EXCEPT !.status = "PROMOTED"].section = r.section
        /\ [r EXCEPT !.status = "PROMOTED"].roll = r.roll
        /\ [r EXCEPT !.status = "PROMOTED"].status = "PROMOTED"
    BY DEF EnrolmentRow
  <2> QED
    BY <1>7, <2>1, <2>2, <2>3
<1>9. ASSUME NEW e \in new
      PROVE  /\ enrolled'[e] \in EnrolmentRow
             /\ enrolled'[e].section = s /\ enrolled'[e].roll = roll[e]
  BY <1>4, <1>7 DEF EnrolmentRow
<1>10. enrolled' \in [Enrolment -> EnrolmentRow]
  BY <1>7, <1>8, <1>9
<1>11. SeatsTypeOK' /\ overlooked' = {}
  BY <1>5, <1>10 DEF SeatsInv, SeatsTypeOK, NothingOverlooked
<1> DEFINE W == {s} \ {NoSection}
<1>12. ASSUME s # NoSection, ClassOf[s] \notin edited
       PROVE  Fits(s)'
  <2>1. s \in Section
    BY <1>4, <1>12
  <2>2. PICK own \in SUBSET Capacity : own = section[s].capacity
    BY <2>1 DEF SeatsInv, SeatsTypeOK, SectionRow
  <2>3. HasCapacity(s) /\ Fits(s)
    BY <1>5, <1>12, <2>1 DEF Open, SeatsInv, WithinSeats
  <2>4. HasCeiling(s, own) /\ EffectiveCapacity(s) = Ceiling(s, own)
    BY <2>2, <2>3 DEF HasCapacity, EffectiveCapacity, HasCeiling, Ceiling
  <2>5. Ceiling(s, own) \in Nat
    BY <2>2, <2>4, CeilingNat DEF SeatsInv
  <2>6. EffectiveCapacity(s)' = Ceiling(s, own)
    BY <1>5, <2>2, CeilingStays DEF SameScope
  <2>7. ASSUME NEW z \in AcademicYear
        PROVE  Occupied(s, z)' <= Ceiling(s, own)
    <3>1. CASE z # y
      <4>1. Occupants(s, z)' \subseteq Occupants(s, z)
        BY <1>4, <1>8, <3>1 DEF Occupants, Active
      <4>2. Occupied(s, z) <= Ceiling(s, own)
        BY <2>3, <2>4 DEF Fits
      <4> QED
        BY <2>5, <4>1, <4>2, FewerOccupants
    <3>2. CASE z = y
      <4>1. PICK S \in SUBSET Enrolment : S = Occupants(s, y)
        BY DEF Occupants, Active
      <4>2. PICK T \in SUBSET Enrolment : T = Occupants(s, y)'
        BY DEF Occupants, Active
      <4>3. T \subseteq S \cup new
        BY <1>8, <4>1, <4>2 DEF Occupants, Active
      <4>4. /\ IsFiniteSet(new) /\ Cardinality(new) \in Nat /\ Cardinality(new) <= Cardinality(B)
            /\ Cardinality(B) \in Nat
        BY <1>2, <1>4, NextYears, EnrolmentsFinite
      <4>5. /\ IsFiniteSet(S) /\ Cardinality(S) \in Nat /\ Cardinality(T) \in Nat
            /\ IsFiniteSet(S \cup new) /\ Cardinality(S \cup new) \in Nat
            /\ IsFiniteSet(S \cap new) /\ Cardinality(S \cap new) \in Nat
        BY <1>4, EnrolmentsFinite
      <4>6. Cardinality(T) <= Cardinality(S \cup new)
        BY <4>3, <4>5, FS_Subset
      <4>7. Cardinality(S \cup new) = Cardinality(S) + Cardinality(new) - Cardinality(S \cap new)
        BY <4>4, <4>5, FS_Union
      <4>8. Cardinality(S) + Cardinality(B) <= Ceiling(s, own)
        BY <1>5, <1>12, <2>4, <4>1 DEF Occupied
      <4>9. Cardinality(T) <= Ceiling(s, own)
        BY <2>5, <4>4, <4>5, <4>6, <4>7, <4>8
      <4> QED
        BY <3>2, <4>2, <4>9 DEF Occupied
    <3> QED
      BY <3>1, <3>2
  <2> QED
    BY <2>6, <2>7 DEF Fits
<1>13. Seating(new, W)
  <2>1. Placing(new, W)
    BY <1>8, <1>9 DEF Placing
  <2>2. \A t \in W : section'[t].status # "NONE" /\ (ClassOf[t] \notin edited => Fits(t)')
    BY <1>5, <1>12 DEF Open
  <2> QED
    BY <1>5, <2>1, <2>2 DEF Seating
<1>14. RollsUnique'
  <2>1. Numbered(new, to, roll)
    BY <1>3, <1>6, <1>8, <1>9 DEF Numbered
  <2>2. RollsFree(new)
    BY <2>1, BatchNumbered
  <2> QED
    BY <2>2, RollsStay
<1>15. Outdated({s})
  BY <1>5, StaleOutdated DEF SeatsInv
<1>16. \A t \in Section : t \in W => t \in {s} \/ section[t].status = "NONE"
  OBVIOUS
<1> HIDE DEF W
<1> QED
  BY <1>11, <1>13, <1>14, <1>15, <1>16, SeatsStep

LEMMA GenerateStep ==
  ASSUME SeatsInv, NEW s \in Section, NEW y \in AcademicYear, NEW D, NEW roll \in [D -> Roll], GenerateRolls(s, y, roll)
  PROVE  SeatsInv'
<1>1. PICK B : /\ B = {e \in Occupants(s, y) : enrolled[e].roll = 0 /\ enrolled[e].class = ClassOf[s]}
               /\ DOMAIN roll = B
  BY DEF GenerateRolls
<1>2. PICK to : to = [e \in B |-> s]
  OBVIOUS
<1>3. /\ UNCHANGED <<class, section, policy, edited>> /\ overlooked' = overlooked
      /\ Numbers(B, to, roll, TRUE)
      /\ enrolled' = [e \in Enrolment |-> IF e \in B
                        THEN [enrolled[e] EXCEPT !.roll = roll[e]] ELSE enrolled[e]]
      /\ plan' = Stale({s}, B)
  BY <1>1, <1>2 DEF GenerateRolls, rowVars
<1>4. B \in SUBSET Enrolment /\ (\A e \in B : enrolled[e].section = s) /\ \A e \in B : roll[e] \in Roll
  BY <1>1 DEF Occupants, Active
<1>5. ASSUME NEW e \in Enrolment
      PROVE  /\ enrolled'[e] \in EnrolmentRow
             /\ enrolled'[e].section = enrolled[e].section /\ enrolled'[e].status = enrolled[e].status
             /\ enrolled'[e].roll = IF e \in B THEN roll[e] ELSE enrolled[e].roll
  <2>1. PICK r \in EnrolmentRow : r = enrolled[e]
    BY DEF SeatsInv, SeatsTypeOK
  <2>2. CASE e \in B
    <3>1. PICK n \in Roll : n = roll[e]
      BY <1>4, <2>2
    <3>2. /\ [r EXCEPT !.roll = n] \in EnrolmentRow /\ [r EXCEPT !.roll = n].section = r.section
          /\ [r EXCEPT !.roll = n].status = r.status /\ [r EXCEPT !.roll = n].roll = n
      BY DEF EnrolmentRow
    <3> QED
      BY <1>3, <2>1, <2>2, <3>1, <3>2
  <2>3. CASE e \notin B
    BY <1>3, <2>1, <2>3
  <2> QED
    BY <2>2, <2>3
<1>6. SeatsTypeOK' /\ overlooked' = {}
  <2>1. enrolled' \in [Enrolment -> EnrolmentRow]
    BY <1>3, <1>5
  <2> QED
    BY <1>3, <2>1 DEF SeatsInv, SeatsTypeOK, NothingOverlooked
<1>7. Seating({}, {})
  BY <1>3, <1>5 DEF Seating, Placing
<1>8. RollsUnique'
  <2>1. Numbered(B, to, roll)
    BY <1>2, <1>3, <1>4, <1>5 DEF Numbered
  <2>2. RollsFree(B)
    BY <2>1, BatchNumbered
  <2> QED
    BY <2>2, RollsStay
<1>9. Outdated({s})
  BY <1>3, StaleOutdated DEF SeatsInv
<1> QED
  BY <1>6, <1>7, <1>8, <1>9, SeatsStep

-----------------------------------------------------------------------------
(* Steps that leave every enrolment alone. *)
LEMMA NobodyChanged ==
  ASSUME SeatsInv, enrolled' = enrolled
  PROVE  /\ NobodyMoves /\ RollsUnique' /\ Placing({}, {})
         /\ \A t \in Section, y \in AcademicYear : Occupants(t, y)' \subseteq Occupants(t, y)
BY NobodyMoved DEF NobodyMoves

LEMMA PolicyStep ==
  ASSUME SeatsInv, NEW q \in CapacityPolicy, SavePolicy(q)
  PROVE  SeatsInv'
<1>1. /\ UNCHANGED <<class, section, edited, enrolled, plan, overlooked>> /\ policy' = q
      /\ \A s \in Section : Fits(s)'
  BY DEF SavePolicy, Checked
<1>2. SeatsTypeOK'
  BY <1>1 DEF SeatsInv, SeatsTypeOK
<1>3. Outdated({})
  BY <1>1, SamePlans DEF SeatsInv
<1>4. /\ RollsUnique'
      /\ \A t \in Section, y \in AcademicYear : Occupants(t, y)' \subseteq Occupants(t, y)
  BY <1>1, NobodyChanged
<1>5. Plans'
  BY <1>1, <1>3, <1>4, PlansHold DEF SeatsInv
<1>6. EverybodyHoused' /\ NothingOverlooked' /\ WithinSeats'
  BY <1>1 DEF SeatsInv, EverybodyHoused, NothingOverlooked, WithinSeats
<1> QED
  BY <1>2, <1>4, <1>5, <1>6 DEF SeatsInv

(* A section that is created or edited. *)
LEMMA SectionWritten ==
  ASSUME SeatsInv, NEW s \in Section, NEW status \in {"ACTIVE", "INACTIVE"},
         NEW capacity \in {{}} \cup {{n} : n \in Capacity},
         UNCHANGED <<class, policy, edited, enrolled, overlooked>>,
         section' = [section EXCEPT ![s] = [status |-> status, capacity |-> capacity]],
         Fits(s)', NEW V, Outdated(V), s \in V \/ section[s].status = "NONE"
  PROVE  SeatsInv'
<1>1. section' \in [Section -> SectionRow] /\ section'[s].status = status
      /\ \A t \in Section \ {s} : section'[t] = section[t]
  BY DEF SeatsInv, SeatsTypeOK, SectionRow
<1>2. SeatsTypeOK' /\ overlooked' = {}
  BY <1>1 DEF SeatsInv, SeatsTypeOK, NothingOverlooked
<1>3. RollsUnique' /\ Placing({}, {})
  BY NobodyChanged
<1>4. Seating({}, {s})
  BY <1>1, <1>3 DEF Seating, Placing
<1>5. \A t \in Section : t \in {s} => t \in V \/ section[t].status = "NONE"
  OBVIOUS
<1> QED
  BY <1>2, <1>3, <1>4, <1>5, SeatsStep

LEMMA CreateSectionStep ==
  ASSUME SeatsInv, NEW s \in Section, NEW status \in {"ACTIVE", "INACTIVE"},
         NEW capacity \in {{}} \cup {{n} : n \in Capacity}, CreateSection(s, status, capacity)
  PROVE  SeatsInv'
<1>1. /\ UNCHANGED <<class, policy, edited, enrolled, plan, overlooked>>
      /\ section' = [section EXCEPT ![s] = [status |-> status, capacity |-> capacity]]
      /\ section[s].status = "NONE"
  BY DEF CreateSection
<1>2. \A e \in Enrolment : enrolled'[e].section # s
  BY <1>1 DEF SeatsInv, EverybodyHoused, Housed
<1>3. section'[s].capacity \in SUBSET Capacity
  BY <1>1 DEF SeatsInv, SeatsTypeOK
<1>4. Fits(s)'
  BY <1>1, <1>2, <1>3, EmptyFits DEF SeatsInv, SameScope
<1>5. Outdated({})
  BY <1>1, SamePlans DEF SeatsInv
<1> QED
  BY <1>1, <1>4, <1>5, SectionWritten

LEMMA UpdateSectionStep ==
  ASSUME SeatsInv, NEW s \in Section, NEW status \in {"ACTIVE", "INACTIVE"},
         NEW capacity \in {{}} \cup {{n} : n \in Capacity}, UpdateSection(s, status, capacity)
  PROVE  SeatsInv'
<1>1. /\ UNCHANGED <<class, policy, edited, enrolled, overlooked>>
      /\ section' = [section EXCEPT ![s] = [status |-> status, capacity |-> capacity]]
      /\ plan' = Stale({s}, {}) /\ Checked({s})
  BY DEF UpdateSection
<1>2. Fits(s)'
  BY <1>1 DEF Checked
<1>3. Outdated({s})
  BY <1>1, StaleOutdated DEF SeatsInv
<1> QED
  BY <1>1, <1>2, <1>3, SectionWritten

LEMMA RemoveSectionStep ==
  ASSUME SeatsInv, NEW s \in Section, RemoveSection(s)
  PROVE  SeatsInv'
<1>1. /\ UNCHANGED <<class, policy, edited, enrolled, overlooked>>
      /\ section' = [section EXCEPT ![s] = [status |-> "NONE", capacity |-> {}]]
      /\ \A e \in Enrolment : enrolled[e].section # s
      /\ plan' = Stale({s}, {})
  BY DEF RemoveSection
<1>2. section' \in [Section -> SectionRow] /\ section'[s].capacity = {}
      /\ \A t \in Section \ {s} : section'[t] = section[t]
  BY <1>1 DEF SeatsInv, SeatsTypeOK, SectionRow
<1>3. SeatsTypeOK' /\ NothingOverlooked'
  BY <1>1, <1>2 DEF SeatsInv, SeatsTypeOK, NothingOverlooked
<1>4. /\ RollsUnique'
      /\ \A t \in Section, y \in AcademicYear : Occupants(t, y)' \subseteq Occupants(t, y)
  BY <1>1, NobodyChanged
<1>5. EverybodyHoused'
  BY <1>1, <1>2 DEF SeatsInv, EverybodyHoused, Housed
<1>6. Plans'
  <2>1. Outdated({s})
    BY <1>1, StaleOutdated DEF SeatsInv
  <2> QED
    BY <2>1, <1>2, <1>4, PlansHold DEF SeatsInv
<1>7. ASSUME NEW t \in Section, ClassOf[t] \notin edited
      PROVE  Fits(t)'
  <2>1. SameScope(t)
    BY <1>1 DEF SameScope
  <2>2. CASE t = s
    BY <1>1, <1>2, <2>1, <2>2, EmptyFits DEF SeatsInv
  <2>3. CASE t # s
    <3>1. Fits(t) /\ section'[t].capacity = section[t].capacity
      BY <1>2, <1>7, <2>3 DEF SeatsInv, WithinSeats
    <3> QED
      BY <1>4, <2>1, <3>1, FitsStays DEF SeatsInv
  <2> QED
    BY <2>2, <2>3
<1>8. WithinSeats'
  BY <1>1, <1>7 DEF WithinSeats
<1> QED
  BY <1>3, <1>4, <1>5, <1>6, <1>8 DEF SeatsInv

LEMMA EditClassStep ==
  ASSUME SeatsInv, NEW c \in SchoolClass, NEW row \in ClassRow, EditClass(c, row)
  PROVE  SeatsInv'
<1>1. /\ UNCHANGED <<section, policy, enrolled, plan, overlooked>>
      /\ class' = [class EXCEPT ![c] = row]
      /\ edited' = edited \cup {k \in {c} : <<row.year, row.group>> # <<class[c].year, class[c].group>>}
  BY DEF EditClass
<1>2. SeatsTypeOK' /\ NothingOverlooked' /\ EverybodyHoused'
  BY <1>1 DEF SeatsInv, SeatsTypeOK, NothingOverlooked, EverybodyHoused
<1>3. /\ RollsUnique'
      /\ \A t \in Section, y \in AcademicYear : Occupants(t, y)' \subseteq Occupants(t, y)
  BY <1>1, NobodyChanged
<1>4. Plans'
  <2>1. Outdated({})
    BY <1>1, SamePlans DEF SeatsInv
  <2> QED
    BY <1>1, <1>3, <2>1, PlansHold DEF SeatsInv
<1>5. ASSUME NEW t \in Section, ClassOf[t] \notin edited'
      PROVE  Fits(t)'
  <2>1. ClassOf[t] \in SchoolClass
    BY SeatsAssumption
  <2>2. SameScope(t)
    BY <1>1, <1>5, <2>1 DEF SameScope, SeatsInv, SeatsTypeOK
  <2>3. Fits(t)
    BY <1>1, <1>5 DEF SeatsInv, WithinSeats
  <2> QED
    BY <1>1, <1>3, <2>2, <2>3, FitsStays DEF SeatsInv
<1>6. WithinSeats'
  BY <1>5 DEF WithinSeats
<1> QED
  BY <1>2, <1>3, <1>4, <1>6 DEF SeatsInv

(* A preview shows everybody who is in the sections of the plan. *)
LEMMA PreviewStep ==
  ASSUME SeatsInv, NEW p \in Planner, NEW c \in SchoolClass, NEW S \in SUBSET (Places(c) \ {NoSection}),
         NEW capacity \in [S -> Capacity], Preview(p, c, capacity)
  PROVE  SeatsInv'
<1>1. PICK y \in AcademicYear : y = class[c].year
  BY DEF SeatsInv, SeatsTypeOK, ClassRow
<1>2. PICK existing : existing = {s \in S : section[s].status = "ACTIVE"}
  OBVIOUS
<1>3. PICK display : display = [class |-> c, year |-> y, policy |-> policy, capacity |-> capacity,
         existing |-> existing, fresh |-> existing, seen |-> Unassigned(c, y),
         occupants |-> UNION {Occupants(s, y) : s \in existing}]
  OBVIOUS
<1>4. /\ plan' = [plan EXCEPT ![p] = display]
      /\ UNCHANGED <<class, section, policy, edited, enrolled, overlooked>>
  BY <1>1, <1>2, <1>3 DEF Preview, rowVars
<1>5. display \in PlanRecord
  <2>1. S \in SUBSET Section /\ existing \in SUBSET Section
    BY <1>2, PlacesAre
  <2>2. capacity \in UNION {[X -> Capacity] : X \in SUBSET Section}
    BY <2>1
  <2>3. Unassigned(c, y) \in SUBSET Enrolment /\ UNION {Occupants(s, y) : s \in existing} \in SUBSET Enrolment
    BY DEF Unassigned, Occupants, Active
  <2>4. policy \in CapacityPolicy
    BY DEF SeatsInv, SeatsTypeOK
  <2> QED
    BY <1>3, <2>1, <2>2, <2>3, <2>4 DEF PlanRecord
<1>6. \A s \in existing : section[s].status # "NONE" /\ Occupants(s, y) \subseteq display.occupants
  BY <1>2, <1>3
<1>7. \A s, z : Occupants(s, z)' = Occupants(s, z)
  BY <1>4 DEF Occupants, Active
<1>8. Plans'
  <2>1. plan' = [q \in Planner |-> plan'[q]] /\ plan'[p] = display /\ \A q \in Planner \ {p} : plan'[q] = plan[q]
    BY <1>4 DEF SeatsInv, Plans
  <2>2. ASSUME NEW q \in Planner, plan'[q] # NoPlan
        PROVE  /\ plan'[q] \in PlanRecord
               /\ \A s \in plan'[q].fresh : /\ section'[s].status # "NONE"
                                            /\ Occupants(s, plan'[q].year) \subseteq plan'[q].occupants
    <3>1. CASE q = p
      BY <1>3, <1>4, <1>5, <1>6, <2>1, <3>1
    <3>2. CASE q # p
      BY <1>4, <2>1, <2>2, <3>2 DEF SeatsInv, Plans, Shows
    <3> QED
      BY <3>1, <3>2
  <2>3. \A q \in Planner : Shows(q)'
    BY <1>7, <2>2 DEF Shows
  <2> QED
    BY <2>1, <2>3 DEF Plans
<1>9. RollsUnique'
  BY <1>4, NobodyChanged
<1>10. SeatsTypeOK' /\ NothingOverlooked' /\ EverybodyHoused'
  BY <1>4 DEF SeatsInv, SeatsTypeOK, NothingOverlooked, EverybodyHoused
<1>11. WithinSeats'
  <2>1. ASSUME NEW t \in Section, ClassOf[t] \notin edited PROVE Fits(t)'
    <3>1. SameScope(t) /\ section'[t].capacity = section[t].capacity /\ Fits(t)
      BY <1>4, <2>1 DEF SameScope, SeatsInv, WithinSeats
    <3> QED
      BY <1>7, <3>1, FitsStays DEF SeatsInv
  <2> QED
    BY <1>4, <2>1 DEF WithinSeats
<1> QED
  BY <1>8, <1>9, <1>10, <1>11 DEF SeatsInv

-----------------------------------------------------------------------------
LEMMA SeatsAtFirst == ASSUME SeatsInit PROVE SeatsInv
BY FirstSchool DEF SeatsInit, SeatsInv, SeatsTypeOK, Plans, Shows, EverybodyHoused, RollsUnique,
   NothingOverlooked, WithinSeats

LEMMA SeatsKept == ASSUME SeatsInv, SeatsNext PROVE SeatsInv'
<1>1. ASSUME NEW c \in SchoolClass, NEW e \in Newcomers(class[c].year), NEW s \in Places(c),
             NEW roll \in RollFor(s, e[2], {}), Join(e, c, s, roll)
      PROVE  SeatsInv'
  BY <1>1, JoinClassStep
<1>2. ASSUME NEW c \in SchoolClass, NEW B \in Batches(Newcomers(class[c].year)),
             NEW new \in SUBSET (Places(c) \ {NoSection}), NEW to \in [B -> Places(c)], NEW roll \in [B -> Roll],
             ConfirmIntake(B, c, new, to, roll)
      PROVE  SeatsInv'
  <2>1. B \in SUBSET Newcomers(class[c].year)
    BY DEF Batches
  <2> QED
    BY <1>2, <2>1, IntakeStep
<1>3. ASSUME NEW p \in Planner, NEW c \in SchoolClass, NEW S \in SUBSET (Places(c) \ {NoSection}),
             NEW capacity \in [S -> Capacity], Preview(p, c, capacity)
      PROVE  SeatsInv'
  BY <1>3, PreviewStep
<1>4. ASSUME NEW p \in Planner, plan[p] # NoPlan, NEW B \in Batches(plan[p].seen),
             NEW to \in [B -> DOMAIN plan[p].capacity], NEW roll \in [B -> Roll],
             NEW compared \in BOOLEAN, Confirm(p, to, roll, compared)
      PROVE  SeatsInv'
  BY <1>4, ConfirmStep
<1>5. ASSUME NEW B \in Batches(Active), NEW c \in SchoolClass, NEW to \in [B -> Places(c)],
             NEW roll \in [B -> Roll], Move(B, c, to, roll)
      PROVE  SeatsInv'
  <2>1. B \in SUBSET Active
    BY DEF Batches
  <2> QED
    BY <1>5, <2>1, MoveStep
<1>6. ASSUME NEW e \in Enrolment, NEW roll \in RollFor(enrolled[e].section, e[2], {e}), Renumber(e, roll)
      PROVE  SeatsInv'
  BY <1>6, RenumberStep
<1>7. ASSUME NEW e \in Enrolment, NEW status \in {"TRANSFERRED", "WITHDRAWN"}, SetStatus(e, status)
      PROVE  SeatsInv'
  BY <1>7, StatusStep
<1>8. ASSUME NEW student \in Student, Withdraw(student)
      PROVE  SeatsInv'
  BY <1>8, WithdrawStep
<1>9. ASSUME NEW B \in Batches(Active), NEW c \in SchoolClass, NEW s \in Places(c),
             NEW roll \in [{<<e[1], class[c].year>> : e \in B} -> Roll], Promote(B, c, s, roll)
      PROVE  SeatsInv'
  <2>1. B \in SUBSET Active
    BY DEF Batches
  <2> QED
    BY <1>9, <2>1, PromoteStep
<1>10. ASSUME NEW s \in Section, NEW y \in AcademicYear, NEW B \in Batches(Occupants(s, y)),
              NEW roll \in [B -> Roll], GenerateRolls(s, y, roll)
       PROVE  SeatsInv'
  BY <1>10, GenerateStep
<1>11. ASSUME NEW q \in CapacityPolicy, SavePolicy(q)
       PROVE  SeatsInv'
  BY <1>11, PolicyStep
<1>12. ASSUME NEW s \in Section, NEW status \in {"ACTIVE", "INACTIVE"}, NEW capacity \in {{}} \cup {{n} : n \in Capacity},
              CreateSection(s, status, capacity) \/ UpdateSection(s, status, capacity)
       PROVE  SeatsInv'
  BY <1>12, CreateSectionStep, UpdateSectionStep
<1>13. ASSUME NEW s \in Section, RemoveSection(s)
       PROVE  SeatsInv'
  BY <1>13, RemoveSectionStep
<1>14. ASSUME NEW c \in SchoolClass, NEW row \in ClassRow, EditClass(c, row)
       PROVE  SeatsInv'
  BY <1>14, EditClassStep
<1> QED
  BY <1>1, <1>2, <1>3, <1>4, <1>5, <1>6, <1>7, <1>8, <1>9, <1>10, <1>11, <1>12, <1>13, <1>14 DEF SeatsNext

LEMMA SeatsStutter == ASSUME SeatsInv, UNCHANGED seatsVars PROVE SeatsInv'
<1>1. /\ UNCHANGED <<class, section, policy, edited, enrolled, plan, overlooked>>
  BY DEF seatsVars
<1>2. SeatsTypeOK' /\ NothingOverlooked' /\ EverybodyHoused' /\ RollsUnique'
  BY <1>1 DEF SeatsInv, SeatsTypeOK, NothingOverlooked, EverybodyHoused, RollsUnique
<1>3. \A s, z : Occupants(s, z)' = Occupants(s, z)
  BY <1>1 DEF Occupants, Active
<1>4. Plans'
  <2>1. ASSUME NEW p \in Planner PROVE Shows(p)'
    BY <1>1, <1>3 DEF SeatsInv, Plans, Shows
  <2> QED
    BY <1>1, <2>1 DEF SeatsInv, Plans
<1>5. ASSUME NEW t \in Section, ClassOf[t] \notin edited PROVE Fits(t)'
  <2>1. SameScope(t) /\ section'[t].capacity = section[t].capacity /\ Fits(t)
    BY <1>1, <1>5 DEF SameScope, SeatsInv, WithinSeats
  <2> QED
    BY <1>3, <2>1, FitsStays DEF SeatsInv
<1>6. WithinSeats'
  BY <1>1, <1>5 DEF WithinSeats
<1> QED
  BY <1>2, <1>4, <1>6 DEF SeatsInv

LEMMA SeatsAlways == SeatsSpec => []SeatsInv
<1>1. SeatsInit => SeatsInv
  BY SeatsAtFirst
<1>2. SeatsInv /\ [SeatsNext]_seatsVars => SeatsInv'
  BY SeatsKept, SeatsStutter
<1> QED
  BY <1>1, <1>2, PTL DEF SeatsSpec

(* No section ever holds more active students of a year than the section, the policy and the  *)
(* room allow, for any policies, sections and batches, unless the year or group of its class  *)
(* was edited: by the deferred triggers for what is written, and because the others lose       *)
(* students only (admissions_check_capacity).                                                  *)
THEOREM SectionsWithinSeats == SeatsSpec => []WithinSeats
<1>1. SeatsInv => WithinSeats
  BY DEF SeatsInv
<1> QED
  BY <1>1, SeatsAlways, PTL

(* Two enrolments of a section and year never have the same roll number, for any batches and  *)
(* whatever gave it (assignSectionRoll).                                                       *)
THEOREM RollsNeverShared == SeatsSpec => []RollsUnique
<1>1. SeatsInv => RollsUnique
  BY DEF SeatsInv
<1> QED
  BY <1>1, SeatsAlways, PTL

(* A confirmed plan fills no section with somebody in it whom its preview did not show, for   *)
(* any number of planners: whoever places somebody writes the section (EnrollmentAllocation-   *)
(* Service.confirm).                                                                           *)
THEOREM NobodyOverlooked == SeatsSpec => []NothingOverlooked
<1>1. SeatsInv => NothingOverlooked
  BY DEF SeatsInv
<1> QED
  BY <1>1, SeatsAlways, PTL

(* Classes, sections, enrolments and the policy stay well formed.                              *)
THEOREM SeatsWellFormed == SeatsSpec => []SeatsTypeOK
<1>1. SeatsInv => SeatsTypeOK
  BY DEF SeatsInv
<1> QED
  BY <1>1, SeatsAlways, PTL
=============================================================================
