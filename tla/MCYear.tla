------------------------------- MODULE MCYear -------------------------------
(* Instances of the modules about a school year for TLC.  The modules share no state, so *)
(* a behaviour moves one of them, the part it chose at the beginning: what is checked of *)
(* the sum of the state spaces holds of their product.                                   *)
EXTENDS EnrollmentSeats, AdmissionsPipeline, SchoolDirectory, ParentConsent, TLC

CONSTANTS ann, bob, a, b, n1, c1, c2, ca, cb, ua, ub, uc, pa, pb, w1, w2
VARIABLE part

(* Two students; class c1 of the first year has the sections a and b (not yet created), *)
(* class c2 of the second year the section n1, all taught in one hall.                   *)
mcStudent == {ann, bob}
mcSection == {a, b, n1}
mcClass == {c1, c2}
mcClassOf == (a :> c1) @@ (b :> c1) @@ (n1 :> c2)
mcRoom == [s \in mcSection |-> "hall"]
mcGroup == {"PRIMARY"}
NoRule == [auto |-> TRUE, utilisation |-> FALSE, default |-> {}, rules |-> {}, allowed |-> <<>>]
Tight == [auto |-> FALSE, utilisation |-> TRUE, default |-> {2},
  rules |-> {[year |-> 1, level |-> "SECTION", target |-> a, maximum |-> 2, reserved |-> 1]},
  allowed |-> (<<ann, 1>> :> {b})]
mcPolicy == {NoRule, Tight}
mcFirstClass == (c1 :> [year |-> 1, group |-> "PRIMARY", status |-> "ACTIVE"])
             @@ (c2 :> [year |-> 2, group |-> "PRIMARY", status |-> "ACTIVE"])
mcFirstSection == (a :> [status |-> "ACTIVE", capacity |-> {1}]) @@ (b :> [status |-> "NONE", capacity |-> {}])
               @@ (n1 :> [status |-> "ACTIVE", capacity |-> {1}])
mcFirstEnrolled == [e \in Enrolment |->
  IF e = <<ann, 1>> THEN [status |-> "ACTIVE", class |-> c1, section |-> a, roll |-> 0]
                    ELSE [status |-> "NONE", class |-> c1, section |-> NoSection, roll |-> 0]]

(* A registration fee that may be waived. *)
mcFee == {[amount |-> 2, mandatory |-> TRUE, waivable |-> TRUE]}
mcNoFee == [amount |-> 0, mandatory |-> FALSE, waivable |-> FALSE]

(* School ca is set up, cb will be; a user name may be somebody else's email. *)
mcIdentity == {<<"x", NoName>>, <<"y", "x">>}
mcCampus == ca :> [admin |-> ua, login |-> "x", role |-> 1, other |-> 2, code |-> "CLERK"]
mcOptions == {<<ca, "caste", NoPerson>>}

(* One ward is enrolled in both schools, one is to join; one person has an account already. *)
mcEnrolledAt == (w1 :> Office) @@ (w2 :> {})
mcLogin == (pa :> "m1") @@ (pb :> NoLogin)

YearInit == /\ part \in {"seats", "pipeline", "directory", "parents"}
            /\ SeatsInit /\ PipelineInit /\ DirectoryInit /\ ParentsInit
SeatsMove == part = "seats" /\ SeatsNext /\ UNCHANGED <<pipelineVars, directoryVars, parentVars>>
PipelineMove == part = "pipeline" /\ PipelineNext /\ UNCHANGED <<seatsVars, directoryVars, parentVars>>
DirectoryMove == part = "directory" /\ DirectoryNext /\ UNCHANGED <<seatsVars, pipelineVars, parentVars>>
ParentsMove == part = "parents" /\ ParentsNext /\ UNCHANGED <<seatsVars, pipelineVars, directoryVars>>
YearNext == (SeatsMove \/ PipelineMove \/ DirectoryMove \/ ParentsMove) /\ UNCHANGED part
YearSpec == YearInit /\ [][YearNext]_<<part, seatsVars, pipelineVars, directoryVars, parentVars>>

(* The rows of every part are well formed, waivers and roll numbers in their range, and   *)
(* what a row refers to exists.                                                            *)
YearTypeOK == SeatsTypeOK /\ PipelineTypeOK /\ DirectoryTypeOK /\ ParentsTypeOK
=============================================================================
