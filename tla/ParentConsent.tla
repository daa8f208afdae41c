---------------------------- MODULE ParentConsent ----------------------------
(***************************************************************************)
(* Parents across schools.  A parent is one platform account with one       *)
(* profile; every school that knows the parent has a membership of its own, *)
(* and links its students to the profile once the membership is verified:   *)
(* at once when the school brought the parent to the platform, and on the   *)
(* parent's consent when another school had done so.  A student who joins   *)
(* brings a parent: the link waits (PENDING) if the membership does.        *)
(*                                                                          *)
(* A request reads the accounts, profiles and memberships first and writes  *)
(* later; the requests of other schools come between, and the unique        *)
(* indexes decide.  A school's request is one step that reads and one that  *)
(* writes.  Names, occupations, parent codes and the PARENT role that        *)
(* onboarding gives an account are left out: no request here reads them;    *)
(* a person's mobile number is the login.  A joining brings one parent, the *)
(* primary one: the code does the same for a second one after it.           *)
(***************************************************************************)
EXTENDS Naturals, FiniteSets

CONSTANTS
    Office,     \* schools, each with one clerk
    Person, Mobile, Ward,
    FirstEnrolledAt, \* the schools each student is enrolled in at first; {}: to join yet
    FirstLogin, \* accounts that are not of parents at the beginning
    NoLogin, Nobody, NoRequest,
    MaxParentSteps

ASSUME FirstAccounts ==
  /\ NoLogin \notin Mobile /\ FirstLogin \in [Person -> Mobile \cup {NoLogin}]
  /\ \A p, q \in Person : FirstLogin[p] = FirstLogin[q] /\ FirstLogin[p] # NoLogin => p = q

ASSUME FirstWards == FirstEnrolledAt \in [Ward -> SUBSET Office]

MembershipRow == [status : {"NONE", "ACTIVE", "INACTIVE"}, verification : {"PENDING", "VERIFIED"}]
LinkRow == [status : {"NONE", "ACTIVE", "PENDING"}, primary : BOOLEAN]

VARIABLES
    login,         \* the mobile number of each account of no school
    profiles,      \* accounts with a row of Parent
    membership,    \* rows of ParentSchoolMembership
    enrolledAt,    \* the schools each student is enrolled in
    link,          \* rows of StudentParent
    request,       \* what each clerk's request has read
    page,          \* the membership on each clerk's screen, and whether it is still so
    unasked,       \* history: memberships that were verified without consent
    consented,     \* history: memberships that were verified on consent
    unseen,        \* history: a consent was verified on a page that was out of date
    linkedBy,      \* history: who linked which student to which parent
    parentSteps

accountVars == <<login, profiles>>
wardVars == <<enrolledAt, link>>
historyVars == <<unasked, consented, unseen, linkedBy>>
parentVars == <<accountVars, membership, wardVars, request, page, historyVars, parentSteps>>

-----------------------------------------------------------------------------
AccountOf(m) == {p \in Person : login[p] = m}
Member(p, o) == membership[<<p, o>>].status # "NONE"
NoMembership == [status |-> "NONE", verification |-> "PENDING"]
NoLink == [status |-> "NONE", primary |-> FALSE]

(* A membership is verified at once if the profile was created for it. *)
Verification_First(p, known) == IF known /\ (\E o \in Office : Member(p, o)) THEN "PENDING" ELSE "VERIFIED"
Verification(p, known) == IF known THEN "PENDING" ELSE "VERIFIED"
Joined(p, o, known) ==
  /\ ~Member(p, o)
  /\ membership' = [membership EXCEPT ![<<p, o>>] = [status |-> "ACTIVE", verification |-> Verification(p, known)]]
  /\ unasked' = IF membership'[<<p, o>>].verification = "VERIFIED" THEN unasked \cup {<<p, o>>} ELSE unasked
  /\ UNCHANGED <<page, consented, unseen>>

(* A page that shows a membership is out of date after every update of the row. *)
Touched(p, o) == [c \in Office |-> IF c = o /\ page[c].person = p THEN [page[c] EXCEPT !.fresh = FALSE] ELSE page[c]]

ParentsInit ==
  /\ login = FirstLogin /\ profiles = {} /\ membership = [x \in Person \X Office |-> NoMembership]
  /\ enrolledAt = FirstEnrolledAt /\ link = [x \in Ward \X Person |-> NoLink] /\ request = [o \in Office |-> NoRequest]
  /\ page = [o \in Office |-> [person |-> Nobody, fresh |-> FALSE]]
  /\ unasked = {} /\ consented = {} /\ unseen = FALSE /\ linkedBy = {} /\ parentSteps = 0

-----------------------------------------------------------------------------
(* ParentsService.create: the profile of an account is created by one statement and the  *)
(* membership by the next one, which a taken code refuses: the profile stays.            *)
AskCreate(o, p) ==
  /\ request[o] = NoRequest /\ login[p] # NoLogin
  /\ profiles' = profiles \cup {p}
  /\ request' = [request EXCEPT ![o] = [op |-> "create", person |-> p, known |-> p \in profiles]]
  /\ UNCHANGED <<login, membership, wardVars, page, historyVars>>
FinishCreate(o) ==
  /\ request[o] # NoRequest /\ request[o].op = "create" /\ Joined(request[o].person, o, request[o].known)
  /\ request' = [request EXCEPT ![o] = NoRequest] /\ UNCHANGED <<accountVars, wardVars, linkedBy>>

(* onboard: an account with the same number is taken for the parent's, unverified; else *)
(* account, profile and membership are created together.                                *)
AskOnboard(o, m) ==
  /\ request[o] = NoRequest
  /\ request' = [request EXCEPT ![o] = [op |-> "onboard", mobile |-> m, found |-> AccountOf(m), profile |-> AccountOf(m) \cap profiles]]
  /\ UNCHANGED <<accountVars, membership, wardVars, page, historyVars>>
TakeAccount(o, p) ==
  /\ IF request[o].found = {}
       THEN login[p] = NoLogin /\ AccountOf(request[o].mobile) = {} /\ login' = [login EXCEPT ![p] = request[o].mobile]
       ELSE p \in request[o].found /\ UNCHANGED login
  /\ p \in request[o].profile \/ p \notin profiles
  /\ profiles' = profiles \cup {p}
FinishOnboard(o, p) ==
  /\ request[o] # NoRequest /\ request[o].op = "onboard"
  /\ TakeAccount(o, p) /\ Joined(p, o, request[o].found # {})
  /\ request' = [request EXCEPT ![o] = NoRequest] /\ UNCHANGED <<wardVars, linkedBy>>

(* StudentAdmissionsService.create, for a student who joins: one transaction on a        *)
(* snapshot.  An account with the number is taken for the parent's; its membership, if   *)
(* it has one, stays as it is, and the link is active only if it is verified.            *)
AskJoin(o, m) ==
  /\ request[o] = NoRequest
  /\ LET found == AccountOf(m)
         member == {p \in found : Member(p, o)}
     IN request' = [request EXCEPT ![o] =
          [op |-> "join", mobile |-> m, found |-> found, profile |-> found \cap profiles, member |-> member,
           verified |-> {p \in member : membership[<<p, o>>].verification = "VERIFIED"}]]
  /\ UNCHANGED <<accountVars, membership, wardVars, page, historyVars>>
FinishJoin(o, p, w) ==
  /\ request[o] # NoRequest /\ request[o].op = "join"
  /\ enrolledAt[w] = {} /\ enrolledAt' = [enrolledAt EXCEPT ![w] = {o}]
  /\ TakeAccount(o, p)
  /\ LET member == p \in request[o].member
         known == request[o].found # {}
         verified == IF member THEN p \in request[o].verified ELSE Verification(p, known) = "VERIFIED"
     IN /\ IF member THEN UNCHANGED <<membership, page, unasked, consented, unseen>> ELSE Joined(p, o, known)
        /\ link' = [link EXCEPT ![<<w, p>>] =
              [status |-> IF verified THEN "ACTIVE" ELSE "PENDING", primary |-> TRUE]]
        /\ linkedBy' = IF verified THEN linkedBy \cup {<<w, p, o>>} ELSE linkedBy
  /\ request' = [request EXCEPT ![o] = NoRequest]

(* A request that a constraint or a check refuses, or that fails, writes nothing more. *)
GiveUp(o) == request[o] # NoRequest /\ request' = [request EXCEPT ![o] = NoRequest]
             /\ UNCHANGED <<accountVars, membership, wardVars, page, historyVars>>

(* update: number and membership in one transaction, the row's version always changes. *)
UpdateParent(o, p, m, status) ==
  /\ Member(p, o) /\ AccountOf(m) \subseteq {p}
  /\ login' = [login EXCEPT ![p] = m] /\ membership' = [membership EXCEPT ![<<p, o>>].status = status]
  /\ page' = Touched(p, o) /\ UNCHANGED <<profiles, wardVars, request, historyVars>>
RemoveParent(o, p) ==
  /\ Member(p, o) /\ membership' = [membership EXCEPT ![<<p, o>>] = NoMembership]
  /\ page' = Touched(p, o) /\ UNCHANGED <<accountVars, wardVars, request, historyVars>>

(* verifyConsent names the version of the membership the clerk saw. *)
ShowParent(o, p) ==
  /\ Member(p, o) /\ page' = [page EXCEPT ![o] = [person |-> p, fresh |-> TRUE]]
  /\ UNCHANGED <<accountVars, membership, wardVars, request, historyVars>>
Consentable(o, p) == membership[<<p, o>>].status = "ACTIVE" /\ page[o].fresh
VerifyConsent(o, p) ==
  /\ page[o].person = p /\ Consentable(o, p)
  /\ membership' = [membership EXCEPT ![<<p, o>>].verification = "VERIFIED"]
  /\ consented' = consented \cup {<<p, o>>} /\ unseen' = (unseen \/ ~page[o].fresh)
  /\ page' = Touched(p, o) /\ UNCHANGED <<accountVars, wardVars, request, unasked, linkedBy>>

(* linkStudent: the checks come before the transaction; the other links of the student *)
(* are not primary any more if the new one is.                                         *)
Linkable(o, p, w) == Member(p, o) /\ membership[<<p, o>>].verification = "VERIFIED" /\ o \in enrolledAt[w]
AskLink(o, p, w, primary) ==
  /\ request[o] = NoRequest /\ Linkable(o, p, w) /\ link[<<w, p>>] = NoLink
  /\ request' = [request EXCEPT ![o] = [op |-> "link", person |-> p, ward |-> w, primary |-> primary]]
  /\ UNCHANGED <<accountVars, membership, wardVars, page, historyVars>>
FinishLink(o) ==
  /\ request[o] # NoRequest /\ request[o].op = "link"
  /\ LET w == request[o].ward  p == request[o].person IN
       /\ link[<<w, p>>] = NoLink
       /\ link' = [x \in Ward \X Person |->
             IF x = <<w, p>> THEN [status |-> "ACTIVE", primary |-> request[o].primary]
             ELSE IF x[1] = w /\ request[o].primary THEN [link[x] EXCEPT !.primary = FALSE] ELSE link[x]]
       /\ linkedBy' = linkedBy \cup {<<w, p, o>>}
  /\ request' = [request EXCEPT ![o] = NoRequest]
  /\ UNCHANGED <<accountVars, membership, enrolledAt, page, unasked, consented, unseen>>
Unlink(o, p, w) ==
  /\ Member(p, o) /\ o \in enrolledAt[w] /\ link[<<w, p>>] # NoLink /\ link' = [link EXCEPT ![<<w, p>>] = NoLink]
  /\ UNCHANGED <<accountVars, enrolledAt, membership, request, page, historyVars>>

ParentsNext == /\ parentSteps < MaxParentSteps /\ parentSteps' = parentSteps + 1
  /\ \E o \in Office :
       \/ FinishCreate(o) \/ FinishLink(o) \/ GiveUp(o)
       \/ \E m \in Mobile : AskOnboard(o, m) \/ AskJoin(o, m)
       \/ \E p \in Person :
            \/ AskCreate(o, p) \/ FinishOnboard(o, p) \/ RemoveParent(o, p) \/ ShowParent(o, p) \/ VerifyConsent(o, p)
            \/ \E m \in Mobile, status \in {"ACTIVE", "INACTIVE"} : UpdateParent(o, p, m, status)
            \/ \E w \in Ward : FinishJoin(o, p, w) \/ Unlink(o, p, w) \/ \E primary \in BOOLEAN : AskLink(o, p, w, primary)
ParentsSpec == ParentsInit /\ [][ParentsNext]_parentVars

-----------------------------------------------------------------------------
(* The rows are well formed, no two accounts share a number, and only accounts have      *)
(* profiles and only profiles memberships and links.                                     *)
ParentsTypeOK ==
  /\ login \in [Person -> Mobile \cup {NoLogin}] /\ profiles \subseteq {p \in Person : login[p] # NoLogin}
  /\ \A m \in Mobile : Cardinality(AccountOf(m)) <= 1
  /\ membership \in [Person \X Office -> MembershipRow] /\ link \in [Ward \X Person -> LinkRow]
  /\ enrolledAt \in [Ward -> SUBSET Office]
  /\ \A p \in Person \ profiles : /\ \A o \in Office : ~Member(p, o)
                                  /\ \A w \in Ward : link[<<w, p>>] = NoLink
  /\ unasked \subseteq Person \X Office /\ consented \subseteq Person \X Office /\ linkedBy \subseteq Ward \X Person \X Office

(* However the requests of schools overlap and fail halfway: a parent is accepted without  *)
(* consent by one school at most, ever; consent is verified for the membership the clerk   *)
(* saw; and a school links its students, also those who join, only to parents that one of   *)
(* these two ways verified for that school.                                                *)
ConsentFirst ==
  /\ \A p \in Person : Cardinality({x \in unasked : x[1] = p}) <= 1
  /\ ~unseen
  /\ \A x \in linkedBy : <<x[2], x[3]>> \in unasked \cup consented
=============================================================================
