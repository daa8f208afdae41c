---------------------------- MODULE SchoolProofs ----------------------------
(***************************************************************************)
(* Schools and who belongs to them, for any schools, accounts, roles,      *)
(* parents and offices and however their requests overlap and break off:   *)
(* consent comes first, and schools keep the roles that their people need. *)
(* At the end the parts of the school year are composed.                   *)
(***************************************************************************)
EXTENDS AdmissionsProofs, MCYear

Asks(o, op) == request[o] # NoRequest /\ request[o].op = op

(* The rows are functions, and a request names persons. *)
ParentTables ==
  /\ login \in [Person -> Mobile \cup {NoLogin}]
  /\ membership \in [Person \X Office -> MembershipRow]
  /\ request = [o \in Office |-> request[o]]
  /\ unasked \subseteq Person \X Office
  /\ \A o \in Office : /\ Asks(o, "create") => request[o].person \in Person /\ request[o].known \in BOOLEAN
                       /\ Asks(o, "onboard") \/ Asks(o, "join") => request[o].mobile \in Mobile

(* Only accounts are parents, and only accounts are taken for a parent's. *)
ParentsHaveAccounts ==
  /\ profiles \subseteq {p \in Person : login[p] # NoLogin}
  /\ \A o \in Office : Asks(o, "onboard") \/ Asks(o, "join") => request[o].found \subseteq {p \in Person : login[p] # NoLogin}

(* School o accepted parent p without consent, or is about to: it made the profile. *)
Brought(p, o) == <<p, o>> \in unasked \/ (Asks(o, "create") /\ request[o].person = p /\ ~request[o].known)
BroughtOnce ==
  \A p \in Person, o \in Office : Brought(p, o) => /\ p \in profiles
                                                   /\ \A c \in Office : Brought(p, c) => c = o

Accepted(p, o) == <<p, o>> \in unasked \cup consented
AskedAccepted == \A o \in Office :
  /\ Asks(o, "link") => Accepted(request[o].person, o)
  /\ Asks(o, "join") => \A p \in request[o].verified : Accepted(p, o)
AcceptedFirst ==
  /\ \A p \in Person, o \in Office : membership[<<p, o>>].verification = "VERIFIED" => Accepted(p, o)
  /\ AskedAccepted
  /\ \A x \in linkedBy : Accepted(x[2], x[3])
  /\ ~unseen

ConsentInv == ParentTables /\ ParentsHaveAccounts /\ BroughtOnce /\ AcceptedFirst

-----------------------------------------------------------------------------
(* One school per parent at most is what the invariant says in other words. *)
LEMMA BroughtByOne == ConsentInv => ConsentFirst
<1> SUFFICES ASSUME ConsentInv PROVE ConsentFirst
  OBVIOUS
<1>1. ASSUME NEW p \in Person PROVE Cardinality({x \in unasked : x[1] = p}) <= 1
  <2> DEFINE U == {x \in unasked : x[1] = p}
  <2>1. ASSUME NEW x \in U PROVE x = <<p, x[2]>> /\ x[2] \in Office /\ Brought(p, x[2])
    <3>1. x \in Person \X Office /\ x \in unasked /\ x[1] = p
      BY DEF ConsentInv, ParentTables
    <3>2. x = <<p, x[2]>>
      BY <3>1
    <3> QED
      BY <3>1, <3>2 DEF Brought
  <2>2. ASSUME NEW x \in U, NEW y \in U PROVE x = y
    <3>1. x[2] = y[2]
      BY <2>1 DEF ConsentInv, BroughtOnce
    <3> QED
      BY <2>1, <3>1
  <2>3. CASE U = {}
    BY <2>3, FS_EmptySet
  <2>4. ASSUME NEW x \in U PROVE Cardinality(U) <= 1
    <3> HIDE DEF U
    <3>1. U = {x}
      BY <2>2
    <3>2. Cardinality(U) = 1
      BY <3>1, FS_Singleton
    <3> QED
      BY <3>2
  <2> QED
    BY <2>3, <2>4
<1> QED
  BY <1>1 DEF ConsentInv, AcceptedFirst, Accepted, ConsentFirst

(* ParentsService.create makes the profile before it knows whether it will be needed. *)
LEMMA AskCreateStep ==
  ASSUME ConsentInv, NEW o \in Office, NEW p \in Person, AskCreate(o, p)
  PROVE  ConsentInv'
<1> DEFINE r == [op |-> "create", person |-> p, known |-> p \in profiles]
<1>1. /\ login[p] # NoLogin /\ profiles' = profiles \cup {p} /\ request' = [request EXCEPT ![o] = r]
      /\ UNCHANGED <<login, membership, unasked, consented, unseen, linkedBy>> /\ request[o] = NoRequest
  BY DEF AskCreate, historyVars
<1>2. r.op = "create" /\ r.person = p /\ r.known = (p \in profiles) /\ r.known \in BOOLEAN
  OBVIOUS
<1> HIDE DEF r
<1>3. /\ request' = [c \in Office |-> request'[c]] /\ request'[o] = r
      /\ \A c \in Office \ {o} : request'[c] = request[c]
  BY <1>1 DEF ConsentInv, ParentTables
<1>4. ParentTables'
  BY <1>1, <1>2, <1>3 DEF ConsentInv, ParentTables, Asks
<1>5. ParentsHaveAccounts'
  BY <1>1, <1>2, <1>3 DEF ConsentInv, ParentsHaveAccounts, Asks
<1>6. BroughtOnce'
  <2>1. ASSUME NEW q \in Person, NEW c \in Office, Brought(q, c)'
        PROVE  Brought(q, c) \/ (q = p /\ c = o /\ p \notin profiles)
    BY <1>1, <1>2, <1>3, <2>1 DEF Brought, Asks
  <2> QED
    BY <1>1, <2>1 DEF ConsentInv, BroughtOnce
<1>7. AcceptedFirst'
  BY <1>1, <1>2, <1>3 DEF ConsentInv, AcceptedFirst, AskedAccepted, Accepted, Asks
<1> QED
  BY <1>4, <1>5, <1>6, <1>7 DEF ConsentInv

(* The request of school o has ended, and no other one is touched. *)
Ended(o) == request' = [request EXCEPT ![o] = NoRequest]
LEMMA RequestEnds ==
  ASSUME ConsentInv, NEW o \in Office, Ended(o)
  PROVE  /\ request' = [c \in Office |-> request'[c]]
         /\ \A c \in Office, op \in {"create", "onboard", "link", "join"} :
               Asks(c, op)' => Asks(c, op) /\ request'[c] = request[c]
<1>1. /\ request' = [c \in Office |-> request'[c]] /\ request'[o] = NoRequest
      /\ \A c \in Office \ {o} : request'[c] = request[c]
  BY DEF Ended, ConsentInv, ParentTables
<1> QED
  BY <1>1 DEF Asks

(* A membership is verified at once only for the school that made the profile. *)
Admitted(p, o, known) ==
  /\ membership' \in [Person \X Office -> MembershipRow]
  /\ unasked' = IF known THEN unasked ELSE unasked \cup {<<p, o>>}
  /\ UNCHANGED <<consented, unseen>>
  /\ \A q \in Person, c \in Office :
        membership'[<<q, c>>].verification = "VERIFIED"
        => membership[<<q, c>>].verification = "VERIFIED" \/ (~known /\ q = p /\ c = o)
LEMMA JoinedEffect ==
  ASSUME ConsentInv, NEW p \in Person, NEW o \in Office, NEW known \in BOOLEAN, Joined(p, o, known)
  PROVE  Admitted(p, o, known)
<1> DEFINE row == [status |-> "ACTIVE", verification |-> Verification(p, known)]
<1>1. row \in MembershipRow /\ (row.verification = "VERIFIED" <=> ~known)
  BY DEF Verification, MembershipRow
<1>2. /\ membership' = [membership EXCEPT ![<<p, o>>] = row] /\ UNCHANGED <<consented, unseen>>
      /\ unasked' = IF membership'[<<p, o>>].verification = "VERIFIED" THEN unasked \cup {<<p, o>>} ELSE unasked
  BY DEF Joined
<1> HIDE DEF row
<1>3. /\ membership' \in [Person \X Office -> MembershipRow] /\ membership'[<<p, o>>] = row
      /\ \A q \in Person, c \in Office : q # p \/ c # o => membership'[<<q, c>>] = membership[<<q, c>>]
  BY <1>1, <1>2 DEF ConsentInv, ParentTables
<1> QED
  BY <1>1, <1>2, <1>3 DEF Admitted

(* What has been accepted stays so; nobody else is. *)
LEMMA AcceptedStays ==
  ASSUME ConsentInv, unasked \subseteq unasked', consented \subseteq consented', unseen' = unseen,
         \A p \in Person, o \in Office : membership'[<<p, o>>].verification = "VERIFIED" => Accepted(p, o)',
         AskedAccepted',
         (\A x \in linkedBy : Accepted(x[2], x[3]))'
  PROVE  AcceptedFirst'
BY DEF ConsentInv, AcceptedFirst

(* No request forgets, and none remembers, that a school accepts a parent. *)
LEMMA AskedStays ==
  ASSUME ConsentInv, unasked \subseteq unasked', consented \subseteq consented',
         \A o \in Office, op \in {"link", "join"} : Asks(o, op)' => Asks(o, op) /\ request'[o] = request[o]
  PROVE  AskedAccepted'
BY DEF ConsentInv, AcceptedFirst, AskedAccepted, Accepted

(* The second half of create: the profile was made by this request, or was known. *)
LEMMA FinishCreateStep ==
  ASSUME ConsentInv, NEW o \in Office, FinishCreate(o)
  PROVE  ConsentInv'
<1>1. PICK p \in Person, known \in BOOLEAN : p = request[o].person /\ known = request[o].known
  BY DEF FinishCreate, ConsentInv, ParentTables, Asks
<1>2. Asks(o, "create") /\ Joined(p, o, known) /\ Ended(o) /\ UNCHANGED <<login, profiles, linkedBy>>
  BY <1>1 DEF FinishCreate, Asks, Ended, accountVars
<1>3. Admitted(p, o, known)
  BY <1>2, JoinedEffect
<1>4. /\ request' = [c \in Office |-> request'[c]]
      /\ \A c \in Office, op \in {"create", "onboard", "link", "join"} :
            Asks(c, op)' => Asks(c, op) /\ request'[c] = request[c]
  BY <1>2, RequestEnds
<1>5. ParentTables'
  BY <1>2, <1>3, <1>4 DEF ConsentInv, ParentTables, Admitted
<1>6. ParentsHaveAccounts'
  BY <1>2, <1>4 DEF ConsentInv, ParentsHaveAccounts
<1>7. BroughtOnce'
  <2>1. ~known => Brought(p, o)
    BY <1>1, <1>2 DEF Brought
  <2>2. ASSUME NEW q \in Person, NEW c \in Office, Brought(q, c)' PROVE Brought(q, c)
    BY <1>3, <1>4, <2>1, <2>2 DEF Brought, Admitted
  <2> QED
    BY <1>2, <2>2 DEF ConsentInv, BroughtOnce
<1>8. AcceptedFirst'
  <2>1. unasked \subseteq unasked' /\ (~known => <<p, o>> \in unasked')
    BY <1>3 DEF Admitted
  <2>2. \A q \in Person, c \in Office : membership'[<<q, c>>].verification = "VERIFIED" => Accepted(q, c)'
    BY <1>3, <2>1 DEF ConsentInv, AcceptedFirst, Accepted, Admitted
  <2>3. AskedAccepted'
    BY <1>3, <1>4, <2>1, AskedStays DEF Admitted
  <2> QED
    BY <1>2, <1>3, <2>1, <2>2, <2>3, AcceptedStays DEF ConsentInv, AcceptedFirst, Accepted, Admitted
<1> QED
  BY <1>5, <1>6, <1>7, <1>8 DEF ConsentInv

(* An account that is opened together with the profile cannot have been a parent's. *)
LEMMA AccountTaken ==
  ASSUME ConsentInv, NEW o \in Office, NEW p \in Person, Asks(o, "onboard") \/ Asks(o, "join"), TakeAccount(o, p)
  PROVE  /\ login' \in [Person -> Mobile \cup {NoLogin}] /\ login'[p] # NoLogin /\ profiles' = profiles \cup {p}
         /\ \A q \in Person : login[q] # NoLogin => login'[q] # NoLogin
         /\ request[o].found = {} => \A c \in Office : ~Brought(p, c)
<1>1. /\ profiles' = profiles \cup {p}
      /\ request[o].found # {} => p \in request[o].found /\ login' = login
      /\ request[o].found = {} => login[p] = NoLogin /\ login' = [login EXCEPT ![p] = request[o].mobile]
  BY DEF TakeAccount
<1>2. request[o].mobile \in Mobile /\ request[o].mobile # NoLogin
  BY FirstAccounts DEF ConsentInv, ParentTables
<1>3. CASE request[o].found # {}
  BY <1>1, <1>3 DEF ConsentInv, ParentTables, ParentsHaveAccounts
<1>4. CASE request[o].found = {}
  <2>1. \A c \in Office : ~Brought(p, c)
    BY <1>1, <1>4 DEF ConsentInv, ParentsHaveAccounts, BroughtOnce
  <2> QED
    BY <1>1, <1>2, <1>4, <2>1 DEF ConsentInv, ParentTables
<1> QED
  BY <1>3, <1>4

(* onboard and the joining of a student take an account; kept: no membership is verified. *)
LEMMA TakingStep ==
  ASSUME ConsentInv, NEW o \in Office, NEW p \in Person, NEW kept \in BOOLEAN,
         Asks(o, "onboard") \/ Asks(o, "join"), TakeAccount(o, p), Admitted(p, o, kept), Ended(o),
         request[o].found # {} => kept, (\A x \in linkedBy : Accepted(x[2], x[3]))'
  PROVE  ConsentInv'
<1>1. /\ login' \in [Person -> Mobile \cup {NoLogin}] /\ login'[p] # NoLogin /\ profiles' = profiles \cup {p}
      /\ \A q \in Person : login[q] # NoLogin => login'[q] # NoLogin
      /\ ~kept => \A c \in Office : ~Brought(p, c)
  BY AccountTaken
<1>2. /\ request' = [c \in Office |-> request'[c]]
      /\ \A c \in Office, op \in {"create", "onboard", "link", "join"} :
            Asks(c, op)' => Asks(c, op) /\ request'[c] = request[c]
  BY RequestEnds
<1>3. ParentTables'
  BY <1>1, <1>2 DEF ConsentInv, ParentTables, Admitted
<1>4. ParentsHaveAccounts'
  BY <1>1, <1>2 DEF ConsentInv, ParentTables, ParentsHaveAccounts
<1>5. BroughtOnce'
  <2>1. ASSUME NEW q \in Person, NEW c \in Office, Brought(q, c)'
        PROVE  Brought(q, c) \/ (~kept /\ q = p /\ c = o)
    BY <1>2, <2>1 DEF Brought, Admitted
  <2> QED
    BY <1>1, <2>1 DEF ConsentInv, BroughtOnce
<1>6. AcceptedFirst'
  <2>1. unasked \subseteq unasked' /\ (~kept => <<p, o>> \in unasked')
    BY DEF Admitted
  <2>2. \A q \in Person, c \in Office : membership'[<<q, c>>].verification = "VERIFIED" => Accepted(q, c)'
    BY <2>1 DEF ConsentInv, AcceptedFirst, Accepted, Admitted
  <2>3. AskedAccepted'
    BY <1>2, <2>1, AskedStays DEF Admitted
  <2> QED
    BY <2>1, <2>2, <2>3, AcceptedStays DEF Admitted
<1> QED
  BY <1>3, <1>4, <1>5, <1>6 DEF ConsentInv

LEMMA FinishOnboardStep ==
  ASSUME ConsentInv, NEW o \in Office, NEW p \in Person, FinishOnboard(o, p)
  PROVE  ConsentInv'
<1>1. PICK known \in BOOLEAN : known = (request[o].found # {})
  OBVIOUS
<1>2. Asks(o, "onboard") /\ TakeAccount(o, p) /\ Joined(p, o, known) /\ Ended(o) /\ UNCHANGED linkedBy
  BY <1>1 DEF FinishOnboard, Asks, Ended
<1>3. Admitted(p, o, known)
  BY <1>2, JoinedEffect
<1>4. (\A x \in linkedBy : Accepted(x[2], x[3]))'
  BY <1>2, <1>3 DEF ConsentInv, AcceptedFirst, Accepted, Admitted
<1> QED
  BY <1>1, <1>2, <1>3, <1>4, TakingStep

(* A link added for a school that has accepted the parent. *)
LEMMA LinkedToAccepted ==
  ASSUME ConsentInv, NEW o \in Office, NEW p \in Person, NEW w \in Ward,
         unasked \subseteq unasked', consented \subseteq consented',
         linkedBy' = linkedBy \/ (Accepted(p, o)' /\ linkedBy' = linkedBy \cup {<<w, p, o>>})
  PROVE  (\A x \in linkedBy : Accepted(x[2], x[3]))'
<1>1. \A x \in linkedBy : Accepted(x[2], x[3])'
  BY DEF ConsentInv, AcceptedFirst, Accepted
<1>2. <<w, p, o>>[2] = p /\ <<w, p, o>>[3] = o
  OBVIOUS
<1> QED
  BY <1>1, <1>2

(* A student who joins is linked at once only to a parent the school has accepted. *)
LEMMA FinishJoinStep ==
  ASSUME ConsentInv, NEW o \in Office, NEW p \in Person, NEW w \in Ward, FinishJoin(o, p, w)
  PROVE  ConsentInv'
<1>1. PICK known \in BOOLEAN : known = (request[o].found # {})
  OBVIOUS
<1>2. Asks(o, "join") /\ TakeAccount(o, p) /\ Ended(o)
  BY DEF FinishJoin, Asks, Ended
<1>3. CASE p \in request[o].member
  <2>1. /\ UNCHANGED <<membership, unasked, consented, unseen>>
        /\ linkedBy' = linkedBy \/ (p \in request[o].verified /\ linkedBy' = linkedBy \cup {<<w, p, o>>})
    BY <1>3 DEF FinishJoin
  <2>2. Admitted(p, o, TRUE)
    BY <2>1 DEF Admitted, ConsentInv, ParentTables
  <2>3. p \in request[o].verified => Accepted(p, o)
    BY <1>2 DEF ConsentInv, AcceptedFirst, AskedAccepted
  <2>4. (\A x \in linkedBy : Accepted(x[2], x[3]))'
    BY <2>1, <2>3, LinkedToAccepted DEF Accepted
  <2> QED
    BY <1>2, <2>2, <2>4, TakingStep
<1>4. CASE p \notin request[o].member
  <2>1. /\ Joined(p, o, known)
        /\ linkedBy' = linkedBy \/ (~known /\ linkedBy' = linkedBy \cup {<<w, p, o>>})
    BY <1>1, <1>4 DEF FinishJoin, Verification
  <2>2. Admitted(p, o, known)
    BY <2>1, JoinedEffect
  <2>3. (\A x \in linkedBy : Accepted(x[2], x[3]))'
    BY <2>1, <2>2, LinkedToAccepted DEF Accepted, Admitted
  <2> QED
    BY <1>1, <1>2, <2>2, <2>3, TakingStep
<1> QED
  BY <1>3, <1>4

-----------------------------------------------------------------------------
(* Steps that touch requests, pages or rows, but make no school accept a parent.       *)
LEMMA Unaccepting ==
  ASSUME ConsentInv, ParentTables', ParentsHaveAccounts', profiles \subseteq profiles',
         UNCHANGED unasked, ~unseen', consented \subseteq consented',
         \A o \in Office : Asks(o, "create")' => Asks(o, "create") /\ request'[o] = request[o],
         \A p \in Person, o \in Office : membership'[<<p, o>>].verification = "VERIFIED" => Accepted(p, o)',
         AskedAccepted',
         (\A x \in linkedBy : Accepted(x[2], x[3]))'
  PROVE  ConsentInv'
<1>1. BroughtOnce'
  <2>1. ASSUME NEW p \in Person, NEW o \in Office, Brought(p, o)' PROVE Brought(p, o)
    BY <2>1 DEF Brought
  <2> QED
    BY <2>1 DEF ConsentInv, BroughtOnce
<1>2. AcceptedFirst'
  BY DEF ConsentInv, AcceptedFirst
<1> QED
  BY <1>1, <1>2 DEF ConsentInv

(* onboard looks for an account with the number. *)
LEMMA AskOnboardStep ==
  ASSUME ConsentInv, NEW o \in Office, NEW m \in Mobile, AskOnboard(o, m)
  PROVE  ConsentInv'
<1> DEFINE r == [op |-> "onboard", mobile |-> m, found |-> AccountOf(m), profile |-> AccountOf(m) \cap profiles]
<1>1. /\ request' = [request EXCEPT ![o] = r]
      /\ UNCHANGED <<login, profiles, membership, unasked, consented, unseen, linkedBy>>
  BY DEF AskOnboard, accountVars, historyVars
<1>2. r.op = "onboard" /\ r.mobile = m /\ r.found \subseteq {p \in Person : login[p] # NoLogin}
  BY FirstAccounts DEF AccountOf
<1> HIDE DEF r
<1>3. /\ request' = [c \in Office |-> request'[c]] /\ request'[o] = r
      /\ \A c \in Office \ {o} : request'[c] = request[c]
  BY <1>1 DEF ConsentInv, ParentTables
<1>4. ParentTables' /\ ParentsHaveAccounts'
  BY <1>1, <1>2, <1>3 DEF ConsentInv, ParentTables, ParentsHaveAccounts, Asks
<1>5. \A c \in Office : Asks(c, "create")' => Asks(c, "create") /\ request'[c] = request[c]
  BY <1>2, <1>3 DEF Asks
<1>6. \A p \in Person, c \in Office : membership'[<<p, c>>].verification = "VERIFIED" => Accepted(p, c)'
  BY <1>1 DEF ConsentInv, AcceptedFirst, Accepted
<1>7. AskedAccepted'
  BY <1>1, <1>2, <1>3 DEF ConsentInv, AcceptedFirst, AskedAccepted, Accepted, Asks
<1>8. (\A x \in linkedBy : Accepted(x[2], x[3]))'
  BY <1>1 DEF ConsentInv, AcceptedFirst, Accepted
<1> QED
  BY <1>1, <1>4, <1>5, <1>6, <1>7, <1>8, Unaccepting DEF ConsentInv, AcceptedFirst

(* What the request of a joining remembers of the account with the number. *)
LEMMA JoinAsked ==
  ASSUME NEW o \in Office, NEW m \in Mobile, AskJoin(o, m)
  PROVE  \E r : /\ request' = [request EXCEPT ![o] = r] /\ r.op = "join" /\ r.mobile = m /\ r.found = AccountOf(m)
                /\ r.verified \subseteq {p \in AccountOf(m) : membership[<<p, o>>].verification = "VERIFIED"}
<1>1. PICK found, member, verified :
         /\ found = AccountOf(m) /\ member = {p \in found : Member(p, o)}
         /\ verified = {p \in member : membership[<<p, o>>].verification = "VERIFIED"}
  OBVIOUS
<1>2. PICK r : r = [op |-> "join", mobile |-> m, found |-> found, profile |-> found \cap profiles,
                    member |-> member, verified |-> verified]
  OBVIOUS
<1>3. request' = [request EXCEPT ![o] = r]
  BY <1>1, <1>2 DEF AskJoin
<1>4. r.op = "join" /\ r.mobile = m /\ r.found = found /\ r.verified = verified
  BY <1>2
<1> QED
  BY <1>1, <1>3, <1>4

(* The joining of a student looks for the account, and whether the school has accepted it. *)
LEMMA AskJoinStep ==
  ASSUME ConsentInv, NEW o \in Office, NEW m \in Mobile, AskJoin(o, m)
  PROVE  ConsentInv'
<1>1. PICK r : /\ request' = [request EXCEPT ![o] = r] /\ r.op = "join" /\ r.mobile = m /\ r.found = AccountOf(m)
               /\ r.verified \subseteq {p \in AccountOf(m) : membership[<<p, o>>].verification = "VERIFIED"}
  BY JoinAsked
<1>2. UNCHANGED <<login, profiles, membership, unasked, consented, unseen, linkedBy>>
  BY DEF AskJoin, accountVars, historyVars
<1>3. /\ request' = [c \in Office |-> request'[c]] /\ request'[o] = r
      /\ \A c \in Office \ {o} : request'[c] = request[c]
  BY <1>1 DEF ConsentInv, ParentTables
<1>4. r.found \subseteq {p \in Person : login[p] # NoLogin} /\ \A p \in r.verified : Accepted(p, o)
  BY <1>1, FirstAccounts DEF AccountOf, ConsentInv, AcceptedFirst
<1>5. ParentTables' /\ ParentsHaveAccounts'
  BY <1>1, <1>2, <1>3, <1>4 DEF ConsentInv, ParentTables, ParentsHaveAccounts, Asks
<1>6. \A c \in Office : Asks(c, "create")' => Asks(c, "create") /\ request'[c] = request[c]
  BY <1>1, <1>3 DEF Asks
<1>7. AskedAccepted'
  BY <1>1, <1>2, <1>3, <1>4 DEF ConsentInv, AcceptedFirst, AskedAccepted, Accepted, Asks
<1>8. /\ \A p \in Person, c \in Office : membership'[<<p, c>>].verification = "VERIFIED" => Accepted(p, c)'
      /\ (\A x \in linkedBy : Accepted(x[2], x[3]))'
  BY <1>2 DEF ConsentInv, AcceptedFirst, Accepted
<1> QED
  BY <1>2, <1>5, <1>6, <1>7, <1>8, Unaccepting DEF ConsentInv, AcceptedFirst

(* linkStudent asks whether the membership is verified, and links later. *)
LEMMA AskLinkStep ==
  ASSUME ConsentInv, NEW o \in Office, NEW p \in Person, NEW w \in Ward, NEW primary \in BOOLEAN,
         AskLink(o, p, w, primary)
  PROVE  ConsentInv'
<1> DEFINE r == [op |-> "link", person |-> p, ward |-> w, primary |-> primary]
<1>1. /\ request' = [request EXCEPT ![o] = r]
      /\ UNCHANGED <<login, profiles, membership, unasked, consented, unseen, linkedBy>>
  BY DEF AskLink, accountVars, historyVars
<1>2. r.op = "link" /\ r.person = p /\ Accepted(p, o)
  BY DEF AskLink, Linkable, ConsentInv, AcceptedFirst
<1> HIDE DEF r
<1>3. /\ request' = [c \in Office |-> request'[c]] /\ request'[o] = r
      /\ \A c \in Office \ {o} : request'[c] = request[c]
  BY <1>1 DEF ConsentInv, ParentTables
<1>4. ParentTables' /\ ParentsHaveAccounts'
  BY <1>1, <1>2, <1>3 DEF ConsentInv, ParentTables, ParentsHaveAccounts, Asks
<1>5. \A c \in Office : Asks(c, "create")' => Asks(c, "create") /\ request'[c] = request[c]
  BY <1>2, <1>3 DEF Asks
<1>6. \A q \in Person, c \in Office : membership'[<<q, c>>].verification = "VERIFIED" => Accepted(q, c)'
  BY <1>1 DEF ConsentInv, AcceptedFirst, Accepted
<1>7. AskedAccepted'
  BY <1>1, <1>2, <1>3 DEF ConsentInv, AcceptedFirst, AskedAccepted, Accepted, Asks
<1>8. (\A x \in linkedBy : Accepted(x[2], x[3]))'
  BY <1>1 DEF ConsentInv, AcceptedFirst, Accepted
<1> QED
  BY <1>1, <1>4, <1>5, <1>6, <1>7, <1>8, Unaccepting DEF ConsentInv, AcceptedFirst

(* The link is made, or the request fails. *)
LEMMA RequestEndsStep ==
  ASSUME ConsentInv, NEW o \in Office, FinishLink(o) \/ GiveUp(o)
  PROVE  ConsentInv'
<1>1. Ended(o) /\ UNCHANGED <<login, profiles, membership, unasked, consented, unseen>>
  BY DEF FinishLink, GiveUp, Ended, accountVars, historyVars
<1>2. linkedBy' = linkedBy \/ \E x : linkedBy' = linkedBy \cup {x} /\ Accepted(x[2], x[3])
  <2>1. CASE FinishLink(o)
    <3>1. /\ Accepted(request[o].person, o)
          /\ linkedBy' = linkedBy \cup {<<request[o].ward, request[o].person, o>>}
      BY <2>1 DEF FinishLink, ConsentInv, AcceptedFirst, AskedAccepted, Asks
    <3> DEFINE x == <<request[o].ward, request[o].person, o>>
    <3>2. x[2] = request[o].person /\ x[3] = o
      OBVIOUS
    <3> QED
      BY <3>1, <3>2
  <2>2. CASE GiveUp(o)
    BY <2>2 DEF GiveUp, historyVars
  <2> QED
    BY <2>1, <2>2
<1>3. /\ request' = [c \in Office |-> request'[c]]
      /\ \A c \in Office, op \in {"create", "onboard", "link", "join"} :
            Asks(c, op)' => Asks(c, op) /\ request'[c] = request[c]
  BY <1>1, RequestEnds
<1>4. ParentTables' /\ ParentsHaveAccounts'
  BY <1>1, <1>3 DEF ConsentInv, ParentTables, ParentsHaveAccounts
<1>5. \A q \in Person, c \in Office : membership'[<<q, c>>].verification = "VERIFIED" => Accepted(q, c)'
  BY <1>1 DEF ConsentInv, AcceptedFirst, Accepted
<1>6. AskedAccepted'
  BY <1>1, <1>3 DEF ConsentInv, AcceptedFirst, AskedAccepted, Accepted
<1>7. (\A x \in linkedBy : Accepted(x[2], x[3]))'
  BY <1>1, <1>2 DEF ConsentInv, AcceptedFirst, Accepted
<1> QED
  BY <1>1, <1>3, <1>4, <1>5, <1>6, <1>7, Unaccepting DEF ConsentInv, AcceptedFirst

(* Rows that are edited, removed or shown, and consent given on the page that is shown. *)
VerifiedKept ==
  /\ consented \subseteq consented' /\ ~unseen'
  /\ membership' \in [Person \X Office -> MembershipRow]
  /\ \A q \in Person, c \in Office : membership'[<<q, c>>].verification = "VERIFIED" => Accepted(q, c)'
LEMMA EditStep ==
  ASSUME ConsentInv, NEW o \in Office, NEW p \in Person,
         \/ \E m \in Mobile, status \in {"ACTIVE", "INACTIVE"} : UpdateParent(o, p, m, status)
         \/ RemoveParent(o, p) \/ ShowParent(o, p) \/ VerifyConsent(o, p)
         \/ \E w \in Ward : Unlink(o, p, w)
  PROVE  ConsentInv'
<1>1. UNCHANGED <<profiles, request, unasked, linkedBy>>
  BY DEF UpdateParent, RemoveParent, ShowParent, VerifyConsent, Unlink, accountVars, historyVars
<1>2. /\ login' \in [Person -> Mobile \cup {NoLogin}]
      /\ \A q \in Person : login[q] # NoLogin => login'[q] # NoLogin
  <2>1. ASSUME NEW m \in Mobile, NEW status \in {"ACTIVE", "INACTIVE"}, UpdateParent(o, p, m, status)
        PROVE  login' = [login EXCEPT ![p] = m] /\ m # NoLogin
    BY <2>1, FirstAccounts DEF UpdateParent
  <2>2. ASSUME RemoveParent(o, p) \/ ShowParent(o, p) \/ VerifyConsent(o, p) \/ \E w \in Ward : Unlink(o, p, w)
        PROVE  login' = login
    BY <2>2 DEF RemoveParent, ShowParent, VerifyConsent, Unlink, accountVars
  <2> QED
    BY <2>1, <2>2 DEF ConsentInv, ParentTables
<1>3. ASSUME NEW row \in MembershipRow, membership' = [membership EXCEPT ![<<p, o>>] = row], ~unseen',
             consented \subseteq consented', row.verification = "VERIFIED" => Accepted(p, o)'
      PROVE  VerifiedKept
  <2>1. /\ membership' \in [Person \X Office -> MembershipRow] /\ membership'[<<p, o>>] = row
        /\ \A q \in Person, c \in Office : q # p \/ c # o => membership'[<<q, c>>] = membership[<<q, c>>]
    BY <1>3 DEF ConsentInv, ParentTables
  <2> QED
    BY <1>1, <1>3, <2>1 DEF VerifiedKept, ConsentInv, AcceptedFirst, Accepted
<1>4. ASSUME UNCHANGED <<membership, consented, unseen>> PROVE VerifiedKept
  BY <1>1, <1>4 DEF VerifiedKept, ConsentInv, ParentTables, AcceptedFirst, Accepted
<1>5. VerifiedKept
  <2>1. ASSUME NEW m \in Mobile, NEW status \in {"ACTIVE", "INACTIVE"}, UpdateParent(o, p, m, status)
        PROVE  VerifiedKept
    <3> DEFINE row == [membership[<<p, o>>] EXCEPT !.status = status]
    <3>1. row \in MembershipRow /\ row.verification = membership[<<p, o>>].verification
      BY DEF ConsentInv, ParentTables, MembershipRow
    <3>2. /\ membership' = [membership EXCEPT ![<<p, o>>] = row] /\ UNCHANGED <<consented, unseen>>
      BY <2>1 DEF UpdateParent, historyVars
    <3>4. ~unseen'
      BY <3>2 DEF ConsentInv, AcceptedFirst
    <3> HIDE DEF row
    <3>3. row.verification = "VERIFIED" => Accepted(p, o)'
      BY <1>1, <3>1, <3>2 DEF ConsentInv, AcceptedFirst, Accepted
    <3> QED
      BY <1>3, <3>1, <3>2, <3>3, <3>4
  <2>2. CASE RemoveParent(o, p)
    <3>1. NoMembership \in MembershipRow /\ NoMembership.verification # "VERIFIED"
      BY DEF NoMembership, MembershipRow
    <3>2. membership' = [membership EXCEPT ![<<p, o>>] = NoMembership] /\ UNCHANGED <<consented, unseen>>
      BY <2>2 DEF RemoveParent, historyVars
    <3> QED
      BY <1>3, <3>1, <3>2 DEF ConsentInv, AcceptedFirst
  <2>3. CASE VerifyConsent(o, p)
    <3> DEFINE row == [membership[<<p, o>>] EXCEPT !.verification = "VERIFIED"]
    <3>1. row \in MembershipRow
      BY DEF ConsentInv, ParentTables, MembershipRow
    <3>2. /\ membership' = [membership EXCEPT ![<<p, o>>] = row] /\ consented' = consented \cup {<<p, o>>}
          /\ unseen' = (unseen \/ ~page[o].fresh) /\ page[o].fresh
      BY <2>3 DEF VerifyConsent, Consentable
    <3>3. ~unseen'
      BY <3>2 DEF ConsentInv, AcceptedFirst
    <3>4. Accepted(p, o)'
      BY <3>2 DEF Accepted
    <3> HIDE DEF row
    <3> QED
      BY <1>3, <3>1, <3>2, <3>3, <3>4
  <2>4. CASE ShowParent(o, p) \/ \E w \in Ward : Unlink(o, p, w)
    BY <1>4, <2>4 DEF ShowParent, Unlink, historyVars
  <2> QED
    BY <2>1, <2>2, <2>3, <2>4
<1>6. ParentTables' /\ ParentsHaveAccounts'
  BY <1>1, <1>2, <1>5 DEF ConsentInv, ParentTables, ParentsHaveAccounts, VerifiedKept, Asks
<1>7. AskedAccepted'
  BY <1>1, <1>5 DEF ConsentInv, AcceptedFirst, AskedAccepted, Accepted, VerifiedKept, Asks
<1>8. (\A x \in linkedBy : Accepted(x[2], x[3]))'
  BY <1>1, <1>5 DEF ConsentInv, AcceptedFirst, Accepted, VerifiedKept
<1>9. \A c \in Office : Asks(c, "create")' => Asks(c, "create") /\ request'[c] = request[c]
  BY <1>1 DEF Asks
<1> QED
  BY <1>1, <1>5, <1>6, <1>7, <1>8, <1>9, Unaccepting DEF VerifiedKept

(* Nothing that the invariant is about changes. *)
LEMMA IdleStep ==
  ASSUME ConsentInv, UNCHANGED <<login, profiles, membership, request, historyVars>>
  PROVE  ConsentInv'
BY DEF ConsentInv, ParentTables, ParentsHaveAccounts, BroughtOnce, Brought, AcceptedFirst, AskedAccepted, Accepted, Asks, historyVars

-----------------------------------------------------------------------------
(* At first nobody is a parent. *)
LEMMA ConsentStart == ParentsInit => ConsentInv
<1> SUFFICES ASSUME ParentsInit PROVE ConsentInv
  OBVIOUS
<1>1. ParentTables /\ ParentsHaveAccounts
  BY FirstAccounts DEF ParentsInit, ParentTables, ParentsHaveAccounts, Asks, NoMembership, MembershipRow
<1>2. BroughtOnce /\ AcceptedFirst
  BY DEF ParentsInit, BroughtOnce, Brought, AcceptedFirst, AskedAccepted, Asks, NoMembership
<1> QED
  BY <1>1, <1>2 DEF ConsentInv

(* Every step keeps the invariant. *)
LEMMA ConsentStep == ConsentInv /\ [ParentsNext]_parentVars => ConsentInv'
<1> SUFFICES ASSUME ConsentInv, [ParentsNext]_parentVars PROVE ConsentInv'
  OBVIOUS
<1>1. CASE UNCHANGED parentVars
  BY <1>1, IdleStep DEF parentVars, accountVars
<1>2. CASE ParentsNext
  <2>1. PICK o \in Office :
       \/ FinishCreate(o) \/ FinishLink(o) \/ GiveUp(o)
       \/ \E m \in Mobile : AskOnboard(o, m) \/ AskJoin(o, m)
       \/ \E p \in Person :
            \/ AskCreate(o, p) \/ FinishOnboard(o, p) \/ RemoveParent(o, p) \/ ShowParent(o, p) \/ VerifyConsent(o, p)
            \/ \E m \in Mobile, status \in {"ACTIVE", "INACTIVE"} : UpdateParent(o, p, m, status)
            \/ \E w \in Ward : FinishJoin(o, p, w) \/ Unlink(o, p, w) \/ \E primary \in BOOLEAN : AskLink(o, p, w, primary)
    BY <1>2 DEF ParentsNext
  <2> QED
    BY <2>1, AskCreateStep, FinishCreateStep, AskOnboardStep, FinishOnboardStep, AskJoinStep, FinishJoinStep, AskLinkStep, RequestEndsStep, EditStep
<1> QED
  BY <1>1, <1>2

(* The invariant holds always. *)
LEMMA ConsentStays == ParentsSpec => []ConsentInv
BY ConsentStart, ConsentStep, PTL DEF ParentsSpec

(* ParentsService verifies a membership at once only if it made the parent's profile for *)
(* it: one school per parent, however requests overlap and fail halfway; every other one *)
(* waits for a consent given on the membership as shown before it links a student.       *)
THEOREM ConsentComesFirst == ParentsSpec => []ConsentFirst
BY ConsentStays, BroughtByOne, PTL

-----------------------------------------------------------------------------
(* No number is that of two accounts; only parents are members or have children, and only *)
(* of parents a request writes a membership or a link.                                    *)
NumbersDiffer == \A p, q \in Person : login[p] = login[q] /\ login[p] # NoLogin => p = q
OnlyParents == \A p \in Person \ profiles : /\ \A o \in Office : ~Member(p, o)
                                            /\ \A w \in Ward : link[<<w, p>>] = NoLink
AskedParents == \A o \in Office :
  /\ Asks(o, "create") \/ Asks(o, "link") => request[o].person \in profiles
  /\ Asks(o, "link") => request[o].ward \in Ward /\ request[o].primary \in BOOLEAN
FamilyRows == /\ link \in [Ward \X Person -> LinkRow] /\ enrolledAt \in [Ward -> SUBSET Office]
              /\ consented \subseteq Person \X Office /\ linkedBy \subseteq Ward \X Person \X Office
FamilyInv == ConsentInv /\ NumbersDiffer /\ OnlyParents /\ AskedParents /\ FamilyRows

(* Two accounts of a number would differ. *)
LEMMA OneAccountOf ==
  ASSUME FamilyInv, NEW m \in Mobile
  PROVE  Cardinality(AccountOf(m)) <= 1
<1>1. \A p, q \in AccountOf(m) : p = q
  BY FirstAccounts DEF AccountOf, FamilyInv, NumbersDiffer
<1>2. CASE AccountOf(m) = {}
  <2>1. Cardinality({}) = 0
    BY FS_EmptySet
  <2> QED
    BY <1>2, <2>1
<1>3. ASSUME NEW p \in AccountOf(m) PROVE Cardinality(AccountOf(m)) <= 1
  <2>1. AccountOf(m) = {p}
    BY <1>1
  <2>2. Cardinality({p}) = 1
    BY FS_Singleton
  <2> QED
    BY <2>1, <2>2
<1> QED
  BY <1>2, <1>3

(* No link is a row, too. *)
LEMMA NoLinkRow == NoLink \in LinkRow
BY DEF NoLink, LinkRow

(* Profiles stay, so a step is safe that makes no new member, link or number, and whose  *)
(* requests are of parents.                                                               *)
LEMMA FamiliesStay ==
  ASSUME FamilyInv, profiles \subseteq profiles', login' = login, UNCHANGED <<enrolledAt, consented, linkedBy>>,
         link' = link \/ \E x : link' = [link EXCEPT ![x] = NoLink],
         \A p \in Person, o \in Office : Member(p, o)' => Member(p, o) \/ p \in profiles',
         \A o \in Office : Asks(o, "create")' => (Asks(o, "create") /\ request'[o] = request[o]) \/ request'[o].person \in profiles',
         \A o \in Office : Asks(o, "link")' => \/ Asks(o, "link") /\ request'[o] = request[o]
                                               \/ request'[o].person \in profiles' /\ request'[o].ward \in Ward /\ request'[o].primary \in BOOLEAN
  PROVE  NumbersDiffer' /\ OnlyParents' /\ AskedParents' /\ FamilyRows'
<1>1. link' \in [Ward \X Person -> LinkRow] /\ \A y \in Ward \X Person : link'[y] \in {link[y], NoLink}
  BY NoLinkRow DEF FamilyInv, FamilyRows
<1>2. OnlyParents'
  BY <1>1 DEF FamilyInv, OnlyParents
<1>3. AskedParents'
  BY DEF FamilyInv, AskedParents
<1> QED
  BY <1>1, <1>2, <1>3 DEF FamilyInv, NumbersDiffer, FamilyRows

(* A membership joined is that of the parent. *)
LEMMA JoinedMembers ==
  ASSUME ConsentInv, NEW p \in Person, NEW o \in Office, NEW known, Joined(p, o, known)
  PROVE  /\ consented' = consented
         /\ \A q \in Person, c \in Office : Member(q, c)' => Member(q, c) \/ q = p
BY DEF Joined, Member, ConsentInv, ParentTables

(* The first halves of the requests, and what leaves the families alone. *)
LEMMA FamilyAsks ==
  ASSUME FamilyInv, NEW o \in Office,
         \/ \E p \in Person : AskCreate(o, p)
         \/ \E m \in Mobile : AskOnboard(o, m) \/ AskJoin(o, m)
         \/ \E p \in Person, w \in Ward, primary \in BOOLEAN : AskLink(o, p, w, primary)
  PROVE  NumbersDiffer' /\ OnlyParents' /\ AskedParents' /\ FamilyRows'
<1>1. UNCHANGED <<login, membership, enrolledAt, link, consented, linkedBy>> /\ profiles \subseteq profiles'
  BY DEF AskCreate, AskOnboard, AskJoin, AskLink, accountVars, wardVars, historyVars
<1>2. PICK r : /\ request' = [request EXCEPT ![o] = r]
               /\ r.op = "create" => r.person \in profiles'
               /\ r.op = "link" => r.person \in profiles' /\ r.ward \in Ward /\ r.primary \in BOOLEAN
  <2>1. ASSUME NEW p \in Person, AskCreate(o, p)
        PROVE  \E r : /\ request' = [request EXCEPT ![o] = r]
                      /\ r.op = "create" => r.person \in profiles'
                      /\ r.op = "link" => r.person \in profiles' /\ r.ward \in Ward /\ r.primary \in BOOLEAN
    <3>1. PICK r : r = [op |-> "create", person |-> p, known |-> p \in profiles]
      OBVIOUS
    <3>2. r.op = "create" /\ r.person = p
      BY <3>1
    <3>3. request' = [request EXCEPT ![o] = r] /\ p \in profiles'
      BY <2>1, <3>1 DEF AskCreate
    <3> QED
      BY <3>2, <3>3
  <2>2. ASSUME NEW m \in Mobile, AskOnboard(o, m)
        PROVE  \E r : /\ request' = [request EXCEPT ![o] = r]
                      /\ r.op = "create" => r.person \in profiles'
                      /\ r.op = "link" => r.person \in profiles' /\ r.ward \in Ward /\ r.primary \in BOOLEAN
    <3>1. PICK r : r = [op |-> "onboard", mobile |-> m, found |-> AccountOf(m), profile |-> AccountOf(m) \cap profiles]
      OBVIOUS
    <3>2. r.op = "onboard"
      BY <3>1
    <3>3. request' = [request EXCEPT ![o] = r]
      BY <2>2, <3>1 DEF AskOnboard
    <3> QED
      BY <3>2, <3>3
  <2>3. ASSUME NEW p \in Person, NEW w \in Ward, NEW primary \in BOOLEAN, AskLink(o, p, w, primary)
        PROVE  \E r : /\ request' = [request EXCEPT ![o] = r]
                      /\ r.op = "create" => r.person \in profiles'
                      /\ r.op = "link" => r.person \in profiles' /\ r.ward \in Ward /\ r.primary \in BOOLEAN
    <3>1. PICK r : r = [op |-> "link", person |-> p, ward |-> w, primary |-> primary]
      OBVIOUS
    <3>2. r.op = "link" /\ r.person = p /\ r.ward = w /\ r.primary = primary
      BY <3>1
    <3>3. request' = [request EXCEPT ![o] = r] /\ p \in profiles'
      BY <2>3, <3>1 DEF AskLink, Linkable, FamilyInv, OnlyParents, accountVars
    <3> QED
      BY <3>2, <3>3
  <2>4. ASSUME NEW m \in Mobile, AskJoin(o, m)
        PROVE  \E r : /\ request' = [request EXCEPT ![o] = r]
                      /\ r.op = "create" => r.person \in profiles'
                      /\ r.op = "link" => r.person \in profiles' /\ r.ward \in Ward /\ r.primary \in BOOLEAN
    <3>1. PICK r : request' = [request EXCEPT ![o] = r] /\ r.op = "join"
      BY <2>4, JoinAsked
    <3> QED
      BY <3>1
  <2> QED
    BY <2>1, <2>2, <2>3, <2>4
<1>3. /\ request'[o] = r
      /\ \A c \in Office \ {o} : request'[c] = request[c]
  BY <1>2 DEF FamilyInv, ConsentInv, ParentTables
<1>4. \A c \in Office : Asks(c, "create")' => (Asks(c, "create") /\ request'[c] = request[c]) \/ request'[c].person \in profiles'
  BY <1>2, <1>3 DEF Asks
<1>5. \A c \in Office : Asks(c, "link")' => \/ Asks(c, "link") /\ request'[c] = request[c]
                                            \/ request'[c].person \in profiles' /\ request'[c].ward \in Ward /\ request'[c].primary \in BOOLEAN
  BY <1>2, <1>3 DEF Asks
<1>6. \A q \in Person, c \in Office : Member(q, c)' => Member(q, c) \/ q \in profiles'
  BY <1>1 DEF Member
<1> QED
  BY <1>1, <1>4, <1>5, <1>6, FamiliesStay

(* The second halves, and the requests that fail. *)
LEMMA FamilyEnds ==
  ASSUME FamilyInv, NEW o \in Office, FinishCreate(o) \/ GiveUp(o)
  PROVE  NumbersDiffer' /\ OnlyParents' /\ AskedParents' /\ FamilyRows'
<1>1. Ended(o) /\ UNCHANGED <<login, profiles>>
  BY DEF FinishCreate, GiveUp, Ended, accountVars
<1>2. /\ request' = [c \in Office |-> request'[c]]
      /\ \A c \in Office, op \in {"create", "onboard", "link", "join"} : Asks(c, op)' => Asks(c, op) /\ request'[c] = request[c]
  BY <1>1, RequestEnds DEF FamilyInv
<1>3. /\ UNCHANGED <<enrolledAt, link, consented, linkedBy>>
      /\ \A q \in Person, c \in Office : Member(q, c)' => Member(q, c) \/ q \in profiles'
  <2>1. CASE FinishCreate(o)
    <3>1. PICK p \in Person, known \in BOOLEAN : p = request[o].person /\ known = request[o].known
      BY <2>1 DEF FinishCreate, FamilyInv, ConsentInv, ParentTables, Asks
    <3>2. Joined(p, o, known) /\ p \in profiles
      BY <2>1, <3>1 DEF FinishCreate, FamilyInv, AskedParents, Asks
    <3>4. UNCHANGED <<enrolledAt, link, linkedBy>>
      BY <2>1 DEF FinishCreate, wardVars
    <3>3. /\ consented' = consented
          /\ \A q \in Person, c \in Office : Member(q, c)' => Member(q, c) \/ q = p
      BY <3>2, JoinedMembers DEF FamilyInv
    <3> QED
      BY <1>1, <3>2, <3>3, <3>4
  <2>2. CASE GiveUp(o)
    BY <2>2 DEF GiveUp, wardVars, historyVars, Member
  <2> QED
    BY <2>1, <2>2
<1> QED
  BY <1>1, <1>2, <1>3, FamiliesStay

(* An account is opened with a number nobody has, and the new member is its parent. *)
LEMMA FamilyTakes ==
  ASSUME FamilyInv, NEW o \in Office, NEW p \in Person, TakeAccount(o, p), Ended(o), consented' = consented,
         \A q \in Person, c \in Office : Member(q, c)' => Member(q, c) \/ q = p,
         \A q \in Person, w \in Ward : link'[<<w, q>>] = link[<<w, q>>] \/ q = p
  PROVE  NumbersDiffer' /\ OnlyParents' /\ AskedParents'
<1>1. /\ profiles' = profiles \cup {p}
      /\ \/ login' = login
         \/ login[p] = NoLogin /\ AccountOf(request[o].mobile) = {} /\ login' = [login EXCEPT ![p] = request[o].mobile]
  BY DEF TakeAccount
<1>2. /\ request' = [c \in Office |-> request'[c]]
      /\ \A c \in Office, op \in {"create", "onboard", "link", "join"} : Asks(c, op)' => Asks(c, op) /\ request'[c] = request[c]
  BY RequestEnds DEF FamilyInv
<1>3. NumbersDiffer'
  BY <1>1 DEF FamilyInv, NumbersDiffer, AccountOf, ConsentInv, ParentTables
<1>4. OnlyParents'
  BY <1>1 DEF FamilyInv, OnlyParents
<1>5. AskedParents'
  BY <1>1, <1>2 DEF FamilyInv, AskedParents
<1> QED
  BY <1>3, <1>4, <1>5

LEMMA FamilyOnboards ==
  ASSUME FamilyInv, NEW o \in Office, NEW p \in Person, FinishOnboard(o, p)
  PROVE  NumbersDiffer' /\ OnlyParents' /\ AskedParents' /\ FamilyRows'
<1>1. PICK known : known = (request[o].found # {})
  OBVIOUS
<1>2. TakeAccount(o, p) /\ Joined(p, o, known) /\ Ended(o) /\ UNCHANGED <<enrolledAt, link, linkedBy>>
  BY <1>1 DEF FinishOnboard, Ended, wardVars
<1>3. consented' = consented /\ \A q \in Person, c \in Office : Member(q, c)' => Member(q, c) \/ q = p
  BY <1>2, JoinedMembers DEF FamilyInv
<1> QED
  BY <1>2, <1>3, FamilyTakes DEF FamilyInv, FamilyRows

(* A student who joins is linked to the parent it brings. *)
LEMMA FamilyJoins ==
  ASSUME FamilyInv, NEW o \in Office, NEW p \in Person, NEW w \in Ward, FinishJoin(o, p, w)
  PROVE  NumbersDiffer' /\ OnlyParents' /\ AskedParents' /\ FamilyRows'
<1>1. TakeAccount(o, p) /\ Ended(o) /\ enrolledAt' = [enrolledAt EXCEPT ![w] = {o}]
  BY DEF FinishJoin, Ended
<1>2. PICK row \in LinkRow : link' = [link EXCEPT ![<<w, p>>] = row]
  <2>1. \E status \in {"ACTIVE", "PENDING"} : link' = [link EXCEPT ![<<w, p>>] = [status |-> status, primary |-> TRUE]]
    BY DEF FinishJoin
  <2>2. \A status \in {"ACTIVE", "PENDING"} : [status |-> status, primary |-> TRUE] \in LinkRow
    BY DEF LinkRow
  <2> QED
    BY <2>1, <2>2
<1>3. linkedBy' = linkedBy \/ linkedBy' = linkedBy \cup {<<w, p, o>>}
  BY DEF FinishJoin
<1>4. consented' = consented /\ \A q \in Person, c \in Office : Member(q, c)' => Member(q, c) \/ q = p
  <2>1. CASE p \in request[o].member
    BY <2>1 DEF FinishJoin, Member
  <2>2. CASE p \notin request[o].member
    <3>1. PICK known : known = (request[o].found # {})
      OBVIOUS
    <3>2. Joined(p, o, known)
      BY <2>2, <3>1 DEF FinishJoin
    <3> QED
      BY <3>2, JoinedMembers DEF FamilyInv
  <2> QED
    BY <2>1, <2>2
<1>5. FamilyRows'
  BY <1>1, <1>2, <1>3, <1>4 DEF FamilyInv, FamilyRows
<1>6. \A q \in Person, v \in Ward : link'[<<v, q>>] = link[<<v, q>>] \/ q = p
  BY <1>2 DEF FamilyInv, FamilyRows
<1> QED
  BY <1>1, <1>4, <1>5, <1>6, FamilyTakes

(* The link is made between a ward and a parent. *)
LEMMA FamilyLinks ==
  ASSUME FamilyInv, NEW o \in Office, FinishLink(o)
  PROVE  NumbersDiffer' /\ OnlyParents' /\ AskedParents' /\ FamilyRows'
<1>1. PICK w \in Ward, p \in profiles : w = request[o].ward /\ p = request[o].person
  BY DEF FinishLink, FamilyInv, AskedParents, Asks
<1>2. p \in Person
  BY DEF FamilyInv, ConsentInv, ParentsHaveAccounts
<1>3. /\ Ended(o) /\ UNCHANGED <<login, profiles, membership, enrolledAt, consented>>
      /\ linkedBy' = linkedBy \cup {<<w, p, o>>}
      /\ link' = [x \in Ward \X Person |->
            IF x = <<w, p>> THEN [status |-> "ACTIVE", primary |-> request[o].primary]
            ELSE IF x[1] = w /\ request[o].primary THEN [link[x] EXCEPT !.primary = FALSE] ELSE link[x]]
  BY <1>1 DEF FinishLink, Ended, accountVars
<1>4. /\ request' = [c \in Office |-> request'[c]]
      /\ \A c \in Office, op \in {"create", "onboard", "link", "join"} : Asks(c, op)' => Asks(c, op) /\ request'[c] = request[c]
  BY <1>3, RequestEnds DEF FamilyInv
<1>5. FamilyRows'
  <2>1. [status |-> "ACTIVE", primary |-> request[o].primary] \in LinkRow
    BY DEF FinishLink, FamilyInv, AskedParents, Asks, LinkRow
  <2>2. \A x \in Ward \X Person : [link[x] EXCEPT !.primary = FALSE] \in LinkRow
    BY DEF FamilyInv, FamilyRows, LinkRow
  <2>3. link' \in [Ward \X Person -> LinkRow]
    BY <1>3, <2>1, <2>2 DEF FamilyInv, FamilyRows
  <2> QED
    BY <1>2, <1>3, <2>3 DEF FamilyInv, FamilyRows
<1>6. OnlyParents'
  <2>1. ASSUME NEW q \in Person \ profiles, NEW v \in Ward PROVE link'[<<v, q>>] = NoLink
    <3>1. link[<<v, q>>] = NoLink /\ q # p /\ q \in Person /\ <<v, q>> # <<w, p>>
      BY <2>1 DEF FamilyInv, OnlyParents
    <3>2. [NoLink EXCEPT !.primary = FALSE] = NoLink
      <4>1. \A row \in LinkRow : row.primary = FALSE => [row EXCEPT !.primary = FALSE] = row
        BY DEF LinkRow
      <4>2. NoLink.primary = FALSE
        BY DEF NoLink
      <4> QED
        BY <4>1, <4>2, NoLinkRow
    <3>3. \A x \in Ward \X Person : x # <<w, p>> =>
             link'[x] = link[x] \/ link'[x] = [link[x] EXCEPT !.primary = FALSE]
      BY <1>3
    <3>4. <<v, q>> \in Ward \X Person
      BY <3>1
    <3> QED
      BY <3>1, <3>2, <3>3, <3>4
  <2> QED
    BY <1>3, <2>1 DEF FamilyInv, OnlyParents, Member
<1>7. NumbersDiffer' /\ AskedParents'
  BY <1>3, <1>4 DEF FamilyInv, NumbersDiffer, AskedParents
<1> QED
  BY <1>5, <1>6, <1>7

(* The rest: edits, pages, consents and links that end. *)
LEMMA FamilyEdits ==
  ASSUME FamilyInv, NEW o \in Office, NEW p \in Person,
         \/ RemoveParent(o, p) \/ ShowParent(o, p) \/ VerifyConsent(o, p)
         \/ \E m \in Mobile, status \in {"ACTIVE", "INACTIVE"} : UpdateParent(o, p, m, status)
         \/ \E w \in Ward : Unlink(o, p, w)
  PROVE  NumbersDiffer' /\ OnlyParents' /\ AskedParents' /\ FamilyRows'
<1>1. UNCHANGED <<profiles, request, linkedBy>>
  BY DEF RemoveParent, ShowParent, VerifyConsent, UpdateParent, Unlink, accountVars, historyVars
<1>2. AskedParents'
  BY <1>1 DEF FamilyInv, AskedParents, Asks
<1>3. NumbersDiffer'
  <2>1. login' = login \/ \E m \in Mobile : AccountOf(m) \subseteq {p} /\ login' = [login EXCEPT ![p] = m]
    BY DEF RemoveParent, ShowParent, VerifyConsent, UpdateParent, Unlink, accountVars
  <2>2. CASE login' = login
    BY <2>2 DEF FamilyInv, NumbersDiffer
  <2>3. ASSUME NEW m \in Mobile, AccountOf(m) \subseteq {p}, login' = [login EXCEPT ![p] = m]
        PROVE  NumbersDiffer'
    <3>1. \A q \in Person : login[q] = m => q = p
      BY <2>3 DEF AccountOf
    <3>2. \A q \in Person : login'[q] = IF q = p THEN m ELSE login[q]
      BY <2>3 DEF FamilyInv, ConsentInv, ParentTables
    <3> QED
      BY <3>1, <3>2 DEF FamilyInv, NumbersDiffer
  <2> QED
    BY <2>1, <2>2, <2>3
<1>4. \A q \in Person, c \in Office : Member(q, c)' => Member(q, c)
  <2>1. membership \in [Person \X Office -> MembershipRow]
    BY DEF FamilyInv, ConsentInv, ParentTables
  <2>2. membership' = membership \/ \E row : /\ membership' = [membership EXCEPT ![<<p, o>>] = row]
                                             /\ row.status # "NONE" => Member(p, o)
    <3>1. CASE RemoveParent(o, p)
      BY <3>1 DEF RemoveParent
    <3>2. CASE VerifyConsent(o, p)
      <4>1. membership' = [membership EXCEPT ![<<p, o>>] = [membership[<<p, o>>] EXCEPT !.verification = "VERIFIED"]] /\ Member(p, o)
        BY <3>2 DEF VerifyConsent, Consentable, Member
      <4> QED
        BY <4>1
    <3>3. ASSUME NEW m \in Mobile, NEW status \in {"ACTIVE", "INACTIVE"}, UpdateParent(o, p, m, status)
          PROVE  \E row : membership' = [membership EXCEPT ![<<p, o>>] = row] /\ (row.status # "NONE" => Member(p, o))
      <4>1. membership' = [membership EXCEPT ![<<p, o>>] = [membership[<<p, o>>] EXCEPT !.status = status]] /\ Member(p, o)
        BY <3>3 DEF UpdateParent
      <4> QED
        BY <4>1
    <3>4. ASSUME ShowParent(o, p) \/ \E w \in Ward : Unlink(o, p, w) PROVE membership' = membership
      BY <3>4 DEF ShowParent, Unlink
    <3> QED
      BY <3>1, <3>2, <3>3, <3>4
  <2> QED
    BY <2>1, <2>2 DEF Member
<1>5. /\ link' \in [Ward \X Person -> LinkRow] /\ enrolledAt' = enrolledAt
      /\ \A x \in Ward \X Person : link'[x] \in {link[x], NoLink}
  BY NoLinkRow DEF RemoveParent, ShowParent, VerifyConsent, UpdateParent, Unlink, accountVars, wardVars, FamilyInv, FamilyRows
<1>6. OnlyParents'
  BY <1>1, <1>4, <1>5 DEF FamilyInv, OnlyParents
<1>7. consented' \subseteq Person \X Office
  <2>1. consented' = consented \/ consented' = consented \cup {<<p, o>>}
    BY DEF RemoveParent, ShowParent, VerifyConsent, UpdateParent, Unlink, historyVars
  <2> QED
    BY <2>1 DEF FamilyInv, FamilyRows
<1> QED
  BY <1>1, <1>2, <1>3, <1>5, <1>6, <1>7 DEF FamilyInv, FamilyRows

(* Every step keeps families as they are to be. *)
LEMMA FamilyStep == FamilyInv /\ [ParentsNext]_parentVars => FamilyInv'
<1> SUFFICES ASSUME FamilyInv, [ParentsNext]_parentVars PROVE NumbersDiffer' /\ OnlyParents' /\ AskedParents' /\ FamilyRows'
  BY ConsentStep DEF FamilyInv
<1>1. CASE UNCHANGED parentVars
  BY <1>1 DEF parentVars, accountVars, wardVars, historyVars, FamilyInv, NumbersDiffer, OnlyParents, AskedParents, FamilyRows, Member, Asks
<1> QED
  BY <1>1, FamilyAsks, FamilyEnds, FamilyOnboards, FamilyJoins, FamilyLinks, FamilyEdits DEF ParentsNext

(* However requests overlap and fail halfway, no two accounts share a number, and only     *)
(* accounts have profiles, and only profiles memberships and children (parents.service.ts). *)
THEOREM ParentsWellFormed == ParentsSpec => []ParentsTypeOK
<1>1. ParentsInit => FamilyInv
  <2> SUFFICES ASSUME ParentsInit PROVE FamilyInv
    OBVIOUS
  <2>1. ConsentInv
    BY ConsentStart
  <2>2. NumbersDiffer /\ AskedParents /\ FamilyRows
    BY FirstAccounts, FirstWards, NoLinkRow DEF ParentsInit, NumbersDiffer, AskedParents, FamilyRows, Asks
  <2>3. OnlyParents
    BY DEF ParentsInit, OnlyParents, Member, NoMembership, NoLink
  <2> QED
    BY <2>1, <2>2, <2>3 DEF FamilyInv
<1>2. FamilyInv => ParentsTypeOK
  BY OneAccountOf DEF FamilyInv, ConsentInv, ParentTables, ParentsHaveAccounts, OnlyParents, FamilyRows, ParentsTypeOK
<1> QED
  BY <1>1, <1>2, FamilyStep, PTL DEF ParentsSpec

-----------------------------------------------------------------------------
(* Schools, accounts and roles.  Most statements leave most rows as they are; the frame *)
(* lemmas say what that keeps, so that a step is about the rows it writes.              *)
AccountsOK ==
  /\ account \in [Account -> AccountRow \cup {NoAccount}] /\ UniqueLogins(account)
  /\ \A u \in Accounts : Standing(account[u].school)
PeopleOK ==
  /\ staff = [u \in Account |-> staff[u]] /\ teacher = [u \in Account |-> teacher[u]]
  /\ \A u \in Account \ Accounts : staff[u] = "NONE" /\ teacher[u] = "NONE"
  /\ signedIn \cup registering \subseteq Accounts
RolesOK ==
  /\ role \in [RoleNo -> RoleRow \cup {NoRole}] /\ UniqueCodes(role)
  /\ \A r \in Roles : Standing(role[r].school)
  /\ \A r \in removing : r \in Roles /\ ~role[r].system

(* Accounts hold roles of their school. *)
Fair(h) == /\ h \in Accounts \X Roles
           /\ role[h[2]].school = account[h[1]].school
HoldsOK == \A h \in holds : Fair(h)

SchoolsOK ==
  /\ campus \in [Campus -> Stage] /\ creating = [s \in Campus |-> creating[s]]
  /\ settings \subseteq {s \in Campus : campus[s] # "NONE"}
OptionsOK == \A o \in options :
  /\ o \in Campus \X OptionKey \X (Account \cup {NoPerson})
  /\ campus[o[1]] # "NONE" /\ <<o[1], o[2], NoPerson>> \in options
  /\ o[3] # NoPerson => o[3] \in Accounts /\ account[o[3]].school = o[1]

(* What the creation of a school has made so far: an administrator of the school, who may have *)
(* been removed meanwhile but comes back as nobody else, and a role that nobody can remove.     *)
Underway(s) == creating[s] # NoPerson =>
  /\ creating[s] = [login |-> creating[s].login, admin |-> creating[s].admin, role |-> creating[s].role]
  /\ creating[s].login \in Login
  /\ campus[s] \in {"ADMIN", "ROLE", "GRANTED"} =>
       /\ creating[s].admin \in Accounts \cup vanished
       /\ creating[s].admin \in Accounts => account[creating[s].admin].school = s
  /\ campus[s] \in {"ROLE", "GRANTED"} =>
       /\ creating[s].role \in RolesOf(s, "SCHOOL_ADMIN") /\ role[creating[s].role].system
  /\ campus[s] = "GRANTED" => role[creating[s].role].grants = "ALL"
Established(s) == campus[s] = "DONE" =>
  \E r \in RolesOf(s, "SCHOOL_ADMIN") : role[r].system /\ role[r].grants = "ALL"
CreationOK == \A s \in Campus : Underway(s) /\ Established(s)

DirectoryInv == AccountsOK /\ PeopleOK /\ RolesOK /\ HoldsOK /\ SchoolsOK /\ OptionsOK /\ CreationOK

LEMMA DirectoryInvariants == DirectoryInv => DirectoryTypeOK /\ SchoolsKeepRoles
<1> SUFFICES ASSUME DirectoryInv PROVE DirectoryTypeOK /\ SchoolsKeepRoles
  OBVIOUS
<1>1. SchoolsKeepRoles
  BY DEF DirectoryInv, HoldsOK, Fair, CreationOK, Established, SchoolsKeepRoles
<1>2. holds \subseteq Accounts \X Roles
  BY DEF DirectoryInv, HoldsOK, Fair
<1>3. \A u \in Account : {staff[u], teacher[u]} # {"NONE"} => u \in Accounts
  BY DEF DirectoryInv, PeopleOK
<1>4. \A o \in options : /\ campus[o[1]] # "NONE" /\ <<o[1], o[2], NoPerson>> \in options
                         /\ (o[3] # NoPerson => o[3] \in Accounts /\ account[o[3]].school = o[1])
  BY DEF DirectoryInv, OptionsOK
<1> QED
  BY <1>1, <1>2, <1>3, <1>4 DEF DirectoryInv, AccountsOK, PeopleOK, RolesOK, SchoolsOK, DirectoryTypeOK

-----------------------------------------------------------------------------
(* A step that removes no row. *)
AccountsStay == \A u \in Accounts : account'[u] # NoAccount /\ account'[u].school = account[u].school
NewNames == \A u \in Account \ Accounts : account'[u] # NoAccount => u \notin vanished
RolesStay == \A r \in Roles :
  /\ role'[r] # NoRole /\ role'[r].school = role[r].school /\ role'[r].system = role[r].system
  /\ role[r].system /\ role[r].code = "SCHOOL_ADMIN" =>
       /\ role'[r].code = "SCHOOL_ADMIN"
       /\ role[r].grants = "ALL" => role'[r].grants = "ALL"
SchoolsStay == \A s \in Campus : campus[s] # "NONE" => campus'[s] # "NONE"

LEMMA StaysWhenSame ==
  /\ account' = account => AccountsStay /\ NewNames
  /\ role' = role => RolesStay
  /\ campus' = campus => SchoolsStay
BY DEF AccountsStay, NewNames, RolesStay, SchoolsStay, Accounts, Roles

LEMMA AccountsSame ==
  ASSUME AccountsOK, account' = account, SchoolsStay PROVE AccountsOK'
BY DEF AccountsOK, Accounts, SchoolsStay, Standing

LEMMA PeopleSame ==
  ASSUME PeopleOK, AccountsStay, UNCHANGED <<staff, teacher, signedIn, registering>> PROVE PeopleOK'
BY DEF PeopleOK, Accounts, AccountsStay

LEMMA RolesSame ==
  ASSUME RolesOK, UNCHANGED <<role, removing>>, SchoolsStay PROVE RolesOK'
BY DEF RolesOK, Roles, SchoolsStay, Standing

LEMMA HoldsStay ==
  ASSUME HoldsOK, AccountsStay, RolesStay, \A h \in holds' : h \in holds \/ Fair(h)' PROVE HoldsOK'
<1>1. ASSUME NEW h, Fair(h) PROVE Fair(h)'
  BY <1>1 DEF Fair, Accounts, Roles, AccountsStay, RolesStay
<1> QED
  BY <1>1 DEF HoldsOK

LEMMA SchoolsSame ==
  ASSUME SchoolsOK, UNCHANGED <<campus, creating, settings>> PROVE SchoolsOK'
BY DEF SchoolsOK

LEMMA OptionsSame ==
  ASSUME OptionsOK, AccountsStay, SchoolsStay, options' = options PROVE OptionsOK'
BY DEF OptionsOK, Accounts, AccountsStay, SchoolsStay

LEMMA CreationStays ==
  ASSUME AccountsStay, NewNames, RolesStay, vanished' = vanished, NEW s \in Campus,
         Underway(s) /\ Established(s), UNCHANGED <<campus[s], creating[s]>>
  PROVE  Underway(s)' /\ Established(s)'
<1>1. ASSUME NEW r \in RolesOf(s, "SCHOOL_ADMIN"), role[r].system
      PROVE  /\ r \in RolesOf(s, "SCHOOL_ADMIN")' /\ role'[r].system
             /\ role[r].grants = "ALL" => role'[r].grants = "ALL"
  BY <1>1 DEF RolesOf, Roles, RolesStay
<1>2. Underway(s)'
  <2>1. ASSUME creating[s].admin \in Accounts \cup vanished,
               creating[s].admin \in Accounts => account[creating[s].admin].school = s
        PROVE  /\ creating[s].admin \in Accounts' \cup vanished
               /\ creating[s].admin \in Accounts' => account'[creating[s].admin].school = s
    BY <2>1 DEF Accounts, AccountsStay, NewNames
  <2> QED
    BY <1>1, <2>1 DEF Underway
<1>3. Established(s)'
  BY <1>1 DEF Established
<1> QED
  BY <1>2, <1>3

(* Steps in which schools and what is under way to create them stay as they are. *)
LEMMA QuietStep ==
  ASSUME DirectoryInv, UNCHANGED <<campus, creating, vanished>>, AccountsStay, NewNames, RolesStay,
         AccountsOK', PeopleOK', RolesOK', \A h \in holds' : h \in holds \/ Fair(h)', SchoolsOK', OptionsOK'
  PROVE  DirectoryInv'
<1>1. HoldsOK'
  BY HoldsStay DEF DirectoryInv
<1>2. CreationOK'
  <2>1. ASSUME NEW s \in Campus PROVE Underway(s)' /\ Established(s)'
    <3>1. Underway(s) /\ Established(s) /\ UNCHANGED <<campus[s], creating[s]>>
      BY DEF DirectoryInv, CreationOK
    <3> QED
      BY <3>1, CreationStays
  <2> QED
    BY <2>1 DEF CreationOK
<1> QED
  BY <1>1, <1>2 DEF DirectoryInv

(* Only accounts and what depends on them change ... *)
LEMMA PeopleStep ==
  ASSUME DirectoryInv, UNCHANGED <<schoolVars, role, removing, vanished>>, AccountsStay, NewNames,
         AccountsOK', PeopleOK', \A h \in holds' : h \in holds \/ Fair(h)'
  PROVE  DirectoryInv'
<1>1. RolesStay /\ SchoolsStay /\ UNCHANGED <<campus, creating, settings, options>>
  BY StaysWhenSame DEF schoolVars
<1>2. RolesOK' /\ SchoolsOK' /\ OptionsOK'
  BY <1>1, RolesSame, SchoolsSame, OptionsSame DEF DirectoryInv
<1> QED
  BY <1>1, <1>2, QuietStep

(* ... only roles and who holds them ... *)
LEMMA RolesStep ==
  ASSUME DirectoryInv, UNCHANGED <<schoolVars, peopleVars, vanished>>, RolesStay, RolesOK',
         \A h \in holds' : h \in holds \/ Fair(h)'
  PROVE  DirectoryInv'
<1>1. /\ AccountsStay /\ NewNames /\ SchoolsStay /\ UNCHANGED <<campus, creating, settings, options>>
      /\ UNCHANGED <<account, staff, teacher, signedIn, registering>>
  BY StaysWhenSame DEF schoolVars, peopleVars
<1>2. AccountsOK' /\ PeopleOK' /\ SchoolsOK' /\ OptionsOK'
  BY <1>1, AccountsSame, PeopleSame, SchoolsSame, OptionsSame DEF DirectoryInv
<1> QED
  BY <1>1, <1>2, QuietStep

(* ... or only settings and options. *)
LEMMA SettingsStep ==
  ASSUME DirectoryInv, UNCHANGED <<campus, creating, peopleVars, roleVars, vanished>>, SchoolsOK', OptionsOK'
  PROVE  DirectoryInv'
<1>1. /\ AccountsStay /\ NewNames /\ SchoolsStay /\ RolesStay
      /\ UNCHANGED <<account, staff, teacher, signedIn, registering, role, holds, removing>>
  BY StaysWhenSame DEF peopleVars, roleVars
<1>2. AccountsOK' /\ PeopleOK' /\ RolesOK'
  BY <1>1, AccountsSame, PeopleSame, RolesSame DEF DirectoryInv
<1> QED
  BY <1>1, <1>2, QuietStep

(* An account that is opened, and one whose row is edited. *)
LEMMA AccountOpened ==
  ASSUME AccountsOK, NEW u \in Account, NEW row \in AccountRow, Opened(u, row), SchoolsStay, Standing(row.school)
  PROVE  /\ AccountsOK' /\ AccountsStay /\ NewNames /\ account'[u] = row /\ u \in Accounts'
         /\ \A v \in Accounts : v \in Accounts'
<1>1. /\ account' = [account EXCEPT ![u] = row] /\ u \notin Accounts \cup vanished /\ UniqueLogins(account')
      /\ row # NoAccount
  BY DirectoryAssumption DEF Opened
<1>2. /\ account' \in [Account -> AccountRow \cup {NoAccount}] /\ account'[u] = row
      /\ \A v \in Account \ {u} : account'[v] = account[v]
  BY <1>1 DEF AccountsOK
<1>3. AccountsStay /\ NewNames /\ u \in Accounts' /\ \A v \in Accounts : v \in Accounts'
  BY <1>1, <1>2 DEF Accounts, AccountsStay, NewNames
<1>4. (\A v \in Accounts : Standing(account[v].school))'
  <2>1. ASSUME NEW s, Standing(s) PROVE Standing(s)'
    BY <2>1 DEF Standing, SchoolsStay
  <2> QED
    BY <1>1, <1>2, <2>1 DEF Accounts, AccountsOK
<1> QED
  BY <1>1, <1>2, <1>3, <1>4 DEF AccountsOK

LEMMA AccountEdited ==
  ASSUME AccountsOK, NEW u \in Accounts, NEW row \in AccountRow, row.school = account[u].school,
         account' = [account EXCEPT ![u] = row], UniqueLogins(account'), campus' = campus
  PROVE  AccountsOK' /\ AccountsStay /\ NewNames
<1>1. u \in Account /\ row # NoAccount
  BY DirectoryAssumption DEF Accounts
<1>2. /\ account' \in [Account -> AccountRow \cup {NoAccount}] /\ account'[u] = row
      /\ \A v \in Account \ {u} : account'[v] = account[v]
  BY <1>1 DEF AccountsOK
<1>3. AccountsStay /\ NewNames /\ Accounts' = Accounts
  BY <1>1, <1>2 DEF Accounts, AccountsStay, NewNames
<1>4. (\A v \in Accounts : Standing(account[v].school))'
  BY <1>2, <1>3 DEF AccountsOK, Standing
<1> QED
  BY <1>2, <1>3, <1>4 DEF AccountsOK

(* What a statement may change of an account without looking at other accounts. *)
LEMMA LoginsKept ==
  ASSUME AccountsOK, NEW u \in Accounts, NEW row \in AccountRow, account' = [account EXCEPT ![u] = row],
         row.school = account[u].school, row.email = account[u].email, row.username = account[u].username
  PROVE  UniqueLogins(account')
<1>1. u \in Account /\ account[u] # NoAccount
  BY DEF Accounts
<1>2. \A v \in Account : /\ account'[v] # NoAccount => account[v] # NoAccount
                         /\ account'[v].school = account[v].school /\ account'[v].email = account[v].email
                         /\ account'[v].username = account[v].username
  BY <1>1 DEF AccountsOK
<1>3. UniqueLogins(account)
  BY DEF AccountsOK
<1> QED
  BY <1>2, <1>3 DEF UniqueLogins

-----------------------------------------------------------------------------
(* New accounts: registration, users and staff. *)
LEMMA NewAccounts ==
  ASSUME NEW s \in Anywhere, NEW email \in Login, NEW username \in Login \cup {NoName}
  PROVE  NewAccount(s, email, username) \in AccountRow /\ NewAccount(s, email, username).school = s
BY DEF NewAccount, AccountRow

LEMMA RegisterStep ==
  ASSUME DirectoryInv, NEW s \in Anywhere, NEW u \in Account, NEW id \in Identity, NEW temporary \in BOOLEAN,
         Register(s, u, id[1], id[2], temporary), vanished' = vanished
  PROVE  DirectoryInv'
<1>0. PICK new \in AccountRow : new = NewAccount(s, id[1], id[2]) /\ new.school = s
  BY NewAccounts, DirectoryAssumption
<1>1. PICK row : row = [new EXCEPT !.temporary = temporary]
  OBVIOUS
<1>2. row \in AccountRow /\ row.school = s
  BY <1>0, <1>1 DEF AccountRow
<1>3. Standing(row.school) /\ Opened(u, row) /\ campus' = campus
  BY <1>0, <1>1, <1>2 DEF Register, schoolVars
<1>4. /\ AccountsOK' /\ AccountsStay /\ NewNames /\ u \in Accounts' /\ \A v \in Accounts : v \in Accounts'
  BY <1>2, <1>3, AccountOpened, StaysWhenSame DEF DirectoryInv
<1>5. PeopleOK'
  BY <1>4 DEF Register, DirectoryInv, PeopleOK
<1> QED
  BY <1>4, <1>5, PeopleStep DEF Register, roleVars

LEMMA CreateUserStep ==
  ASSUME DirectoryInv, NEW s \in Campus, NEW u \in Account, NEW email \in Login, NEW active \in BOOLEAN,
         CreateUser(s, u, email, active), vanished' = vanished
  PROVE  DirectoryInv'
<1>0. PICK new \in AccountRow : new = NewAccount(s, email, NoName) /\ new.school = s
  BY NewAccounts DEF Anywhere
<1>1. PICK row : row = [new EXCEPT !.active = active]
  OBVIOUS
<1>2. row \in AccountRow /\ row.school = s
  BY <1>0, <1>1 DEF AccountRow
<1>3. Standing(row.school) /\ Opened(u, row) /\ campus' = campus
  BY <1>0, <1>1, <1>2 DEF CreateUser, schoolVars, Standing
<1>4. /\ AccountsOK' /\ AccountsStay /\ NewNames /\ u \in Accounts' /\ \A v \in Accounts : v \in Accounts'
  BY <1>2, <1>3, AccountOpened, StaysWhenSame DEF DirectoryInv
<1>5. PeopleOK'
  BY <1>4 DEF CreateUser, DirectoryInv, PeopleOK
<1> QED
  BY <1>4, <1>5, PeopleStep DEF CreateUser, roleVars

LEMMA HireStep ==
  ASSUME DirectoryInv, NEW s \in Anywhere, NEW u \in Account, NEW id \in Identity, NEW r \in RoleNo,
         NEW teaching \in BOOLEAN, Hire(s, u, id[1], id[2], r, teaching), vanished' = vanished
  PROVE  DirectoryInv'
<1>1. PICK row : row = NewAccount(s, id[1], id[2])
  OBVIOUS
<1>2. row \in AccountRow /\ row.school = s
  BY <1>1, NewAccounts, DirectoryAssumption
<1>3. Standing(row.school) /\ Opened(u, row) /\ UNCHANGED <<schoolVars, role, removing>> /\ campus' = campus
  BY <1>1, <1>2 DEF Hire, schoolVars
<1>4. /\ AccountsOK' /\ AccountsStay /\ NewNames /\ u \in Accounts' /\ (\A v \in Accounts : v \in Accounts')
      /\ account'[u] = row
  BY <1>2, <1>3, AccountOpened, StaysWhenSame DEF DirectoryInv
<1>5. PeopleOK'
  BY <1>4 DEF Hire, DirectoryInv, PeopleOK
<1>6. \A h \in holds' : h \in holds \/ Fair(h)'
  <2>1. Fair(<<u, r>>)'
    BY <1>2, <1>3, <1>4 DEF Fair, Hire, Roles
  <2> QED
    BY <2>1 DEF Hire, Held
<1> QED
  BY <1>3, <1>4, <1>5, <1>6, PeopleStep

(* Edits of an account. *)
LEMMA UpdateUserStep ==
  ASSUME DirectoryInv, NEW u \in Account, NEW email \in Login, NEW active \in BOOLEAN,
         UpdateUser(u, email, active), vanished' = vanished
  PROVE  DirectoryInv'
<1>1. PICK old \in AccountRow : old = account[u]
  BY DEF UpdateUser, DirectoryInv, AccountsOK, Accounts
<1>2. PICK row \in AccountRow : row = [old EXCEPT !.email = email, !.active = active] /\ row.school = old.school
  <2>1. [old EXCEPT !.email = email, !.active = active] \in AccountRow
    BY DEF AccountRow
  <2>2. [old EXCEPT !.email = email, !.active = active].school = old.school
    BY DEF AccountRow
  <2> QED
    BY <2>1, <2>2
<1>3. account' = [account EXCEPT ![u] = row] /\ UniqueLogins(account') /\ u \in Accounts
  BY <1>1, <1>2 DEF UpdateUser, DirectoryInv, AccountsOK
<1>4. AccountsOK' /\ AccountsStay /\ NewNames
  BY <1>1, <1>2, <1>3, AccountEdited DEF DirectoryInv, UpdateUser, schoolVars
<1>5. PeopleOK'
  BY <1>4, PeopleSame DEF DirectoryInv, UpdateUser
<1> QED
  BY <1>4, <1>5, PeopleStep DEF UpdateUser, roleVars

LEMMA FlagWritten ==
  ASSUME DirectoryInv, NEW u \in Accounts, NEW row \in AccountRow, account' = [account EXCEPT ![u] = row],
         row.school = account[u].school, row.email = account[u].email, row.username = account[u].username,
         campus' = campus
  PROVE  AccountsOK' /\ AccountsStay /\ NewNames
BY AccountEdited, LoginsKept DEF DirectoryInv

LEMMA ChangePasswordStep ==
  ASSUME DirectoryInv, NEW u \in Account, ChangePassword(u), vanished' = vanished
  PROVE  DirectoryInv'
<1>1. u \in Accounts
  BY DEF ChangePassword, DirectoryInv, PeopleOK
<1>2. PICK old \in AccountRow : old = account[u]
  BY <1>1 DEF DirectoryInv, AccountsOK, Accounts
<1>3. PICK row \in AccountRow : /\ row = [old EXCEPT !.temporary = FALSE]
                                /\ row.school = old.school /\ row.email = old.email /\ row.username = old.username
  <2>1. [old EXCEPT !.temporary = FALSE] \in AccountRow
    BY DEF AccountRow
  <2>2. LET row == [old EXCEPT !.temporary = FALSE]
        IN row.school = old.school /\ row.email = old.email /\ row.username = old.username
    BY DEF AccountRow
  <2> QED
    BY <2>1, <2>2
<1>4. account' = [account EXCEPT ![u] = row]
  BY <1>2, <1>3 DEF ChangePassword, DirectoryInv, AccountsOK
<1>5. AccountsOK' /\ AccountsStay /\ NewNames
  <2>1. campus' = campus
    BY DEF ChangePassword, schoolVars
  <2> QED
    BY <1>1, <1>2, <1>3, <1>4, <2>1, FlagWritten
<1>6. PeopleOK'
  BY <1>5, PeopleSame DEF DirectoryInv, ChangePassword
<1> QED
  BY <1>5, <1>6, PeopleStep DEF ChangePassword, roleVars

LEMMA StatusesWritten ==
  ASSUME DirectoryInv, NEW u \in Account, NEW status, Statuses(u, status), UNCHANGED <<campus, signedIn, registering>>
  PROVE  AccountsOK' /\ AccountsStay /\ NewNames /\ PeopleOK' /\ u \in Accounts
<1>1. u \in Accounts
  BY DEF Statuses, DirectoryInv, PeopleOK
<1>2. PICK old \in AccountRow : old = account[u]
  BY <1>1 DEF DirectoryInv, AccountsOK, Accounts
<1>3. PICK active \in BOOLEAN : active = (status = "ACTIVE")
  OBVIOUS
<1>4. PICK row \in AccountRow : /\ row = [old EXCEPT !.active = active]
                                /\ row.school = old.school /\ row.email = old.email /\ row.username = old.username
  <2>1. [old EXCEPT !.active = active] \in AccountRow
    BY DEF AccountRow
  <2>2. LET row == [old EXCEPT !.active = active]
        IN row.school = old.school /\ row.email = old.email /\ row.username = old.username
    BY DEF AccountRow
  <2> QED
    BY <2>1, <2>2
<1>5. account' = [account EXCEPT ![u] = row]
  <2>1. account' = [account EXCEPT ![u].active = active]
    BY <1>3 DEF Statuses
  <2> QED
    BY <1>2, <1>4, <2>1 DEF DirectoryInv, AccountsOK
<1>6. AccountsOK' /\ AccountsStay /\ NewNames
  BY <1>1, <1>2, <1>4, <1>5, FlagWritten
<1>7. PeopleOK'
  <2>1. \A v \in Accounts : v \in Accounts'
    BY <1>6 DEF AccountsStay, Accounts
  <2>2. /\ staff' = [v \in Account |-> staff'[v]] /\ teacher' = [v \in Account |-> teacher'[v]]
        /\ \A v \in Account \ {u} : staff'[v] = staff[v] /\ teacher'[v] = teacher[v]
    BY DEF Statuses, DirectoryInv, PeopleOK
  <2> QED
    BY <1>1, <2>1, <2>2 DEF DirectoryInv, PeopleOK
<1> QED
  BY <1>1, <1>6, <1>7

LEMMA UpdateStaffStep ==
  ASSUME DirectoryInv, NEW u \in Account, NEW status \in {"ACTIVE", "INACTIVE"}, NEW R \in SUBSET RoleNo,
         UpdateStaff(u, status, R), vanished' = vanished
  PROVE  DirectoryInv'
<1>1. Statuses(u, status) /\ UNCHANGED <<schoolVars, registering, signedIn, role, removing>>
  BY DEF UpdateStaff
<1>2. AccountsOK' /\ AccountsStay /\ NewNames /\ PeopleOK' /\ u \in Accounts
  BY <1>1, StatusesWritten DEF schoolVars
<1>3. ASSUME NEW h \in holds' PROVE h \in holds \/ Fair(h)'
  <2>1. CASE h \in {u} \X R
    <3>1. h \in Accounts' \X Roles'
      BY <1>1, <1>2, <2>1 DEF UpdateStaff, Accounts, AccountsStay, Roles
    <3>2. role'[h[2]].school = account'[h[1]].school
      BY <1>1, <1>2, <2>1 DEF UpdateStaff, AccountsStay
    <3> QED
      BY <3>1, <3>2 DEF Fair
  <2>2. CASE h \notin {u} \X R
    BY <1>3, <2>2 DEF UpdateStaff
  <2> QED
    BY <2>1, <2>2
<1> QED
  BY <1>1, <1>2, <1>3, PeopleStep

LEMMA DeactivateStep ==
  ASSUME DirectoryInv, NEW u \in Account, Deactivate(u), vanished' = vanished
  PROVE  DirectoryInv'
<1>1. /\ Statuses(u, "INACTIVE") /\ UNCHANGED <<schoolVars, registering, signedIn, role, removing>>
      /\ holds' = holds
  BY DEF Deactivate, roleVars
<1>2. AccountsOK' /\ AccountsStay /\ NewNames /\ PeopleOK'
  BY <1>1, StatusesWritten DEF schoolVars
<1> QED
  BY <1>1, <1>2, PeopleStep

LEMMA TeacherSteps ==
  ASSUME DirectoryInv, NEW u \in Account, vanished' = vanished,
         CreateTeacher(u) \/ RemoveTeacher(u) \/ \E status \in {"ACTIVE", "INACTIVE"} : UpdateTeacher(u, status)
  PROVE  DirectoryInv'
<1>1. /\ UNCHANGED <<schoolVars, account, staff, registering, signedIn, roleVars>>
      /\ staff[u] # "NONE" \/ teacher[u] # "NONE"
      /\ \E status : teacher' = [teacher EXCEPT ![u] = status]
  BY DEF CreateTeacher, RemoveTeacher, UpdateTeacher
<1>2. u \in Accounts /\ AccountsStay /\ NewNames
  BY <1>1, StaysWhenSame DEF DirectoryInv, PeopleOK
<1>3. AccountsOK'
  BY <1>1, <1>2, AccountsSame, StaysWhenSame DEF DirectoryInv, schoolVars
<1>4. PeopleOK'
  <2>1. /\ teacher' = [v \in Account |-> teacher'[v]] /\ \A v \in Account \ {u} : teacher'[v] = teacher[v]
        /\ Accounts' = Accounts
    BY <1>1 DEF DirectoryInv, PeopleOK, Accounts
  <2> QED
    BY <1>1, <1>2, <2>1 DEF DirectoryInv, PeopleOK
<1> QED
  BY <1>1, <1>2, <1>3, <1>4, PeopleStep DEF roleVars

LEMMA TokenSteps ==
  ASSUME DirectoryInv, vanished' = vanished,
         (\E u \in Account : EndRegister(u)) \/ \E id \in Login, s \in Anywhere : SignIn(id, s)
  PROVE  DirectoryInv'
<1>1. UNCHANGED <<schoolVars, account, staff, teacher, roleVars>>
  BY DEF EndRegister, SignIn
<1>2. signedIn' \cup registering' \subseteq Accounts
  BY DEF EndRegister, SignIn, Found, Named, DirectoryInv, PeopleOK
<1>3. AccountsStay /\ NewNames /\ AccountsOK' /\ Accounts' = Accounts
  BY <1>1, AccountsSame, StaysWhenSame DEF DirectoryInv, schoolVars, Accounts
<1>4. PeopleOK'
  BY <1>1, <1>2, <1>3 DEF DirectoryInv, PeopleOK
<1> QED
  BY <1>1, <1>3, <1>4, PeopleStep DEF roleVars

-----------------------------------------------------------------------------
(* A role that is made, and one whose row is edited. *)
LEMMA RoleMade ==
  ASSUME RolesOK, NEW r \in NewCode, NEW row \in RoleRow, role' = [role EXCEPT ![r] = row], SchoolsStay,
         Standing(row.school), removing' = removing,
         UniqueCodes(role') \/ row.school = Platform \/ RolesOf(row.school, row.code) = {}
  PROVE  RolesOK' /\ RolesStay /\ r \in Roles' /\ role'[r] = row
<1>1. r \in RoleNo /\ row # NoRole /\ role[r] = NoRole
  BY DirectoryAssumption DEF NewCode
<1>2. /\ role' \in [RoleNo -> RoleRow \cup {NoRole}] /\ role'[r] = row /\ \A q \in RoleNo \ {r} : role'[q] = role[q]
  BY <1>1 DEF RolesOK
<1>3. RolesStay /\ r \in Roles' /\ \A q \in Roles : q \in Roles' /\ q # r
  BY <1>1, <1>2 DEF Roles, RolesStay
<1>4. UniqueCodes(role')
  <2> SUFFICES ASSUME row.school = Platform \/ RolesOf(row.school, row.code) = {} PROVE UniqueCodes(role')
    OBVIOUS
  <2>1. UniqueCodes(role)
    BY DEF RolesOK
  <2>2. \A q \in RoleNo \ {r} : role[q] # NoRole /\ role[q].school = row.school /\ row.school # Platform => role[q].code # row.code
    BY DEF RolesOf, Roles
  <2> QED
    BY <1>1, <1>2, <2>1, <2>2 DEF UniqueCodes
<1>5. (\A q \in Roles : Standing(role[q].school))'
  <2>1. ASSUME NEW s, Standing(s) PROVE Standing(s)'
    BY <2>1 DEF Standing, SchoolsStay
  <2> QED
    BY <1>1, <1>2, <2>1 DEF Roles, RolesOK
<1>6. (\A q \in removing : q \in Roles /\ ~role[q].system)'
  BY <1>2, <1>3 DEF RolesOK, Roles
<1> QED
  BY <1>2, <1>3, <1>4, <1>5, <1>6 DEF RolesOK

LEMMA RoleEdited ==
  ASSUME RolesOK, NEW r \in Roles, NEW row \in RoleRow, role' = [role EXCEPT ![r] = row], SchoolsStay,
         row.school = role[r].school, row.system = role[r].system, UniqueCodes(role'), removing' = removing,
         role[r].system /\ role[r].code = "SCHOOL_ADMIN" =>
           row.code = "SCHOOL_ADMIN" /\ (role[r].grants = "ALL" => row.grants = "ALL")
  PROVE  RolesOK' /\ RolesStay /\ role'[r] = row
<1>1. r \in RoleNo /\ row # NoRole
  BY DirectoryAssumption DEF Roles
<1>2. /\ role' \in [RoleNo -> RoleRow \cup {NoRole}] /\ role'[r] = row /\ \A q \in RoleNo \ {r} : role'[q] = role[q]
  BY <1>1 DEF RolesOK
<1>3. RolesStay /\ Roles' = Roles
  BY <1>1, <1>2 DEF Roles, RolesStay
<1>4. (\A q \in Roles : Standing(role[q].school))'
  <2>1. ASSUME NEW s, Standing(s) PROVE Standing(s)'
    BY <2>1 DEF Standing, SchoolsStay
  <2>2. \A q \in Roles : role'[q].school = role[q].school /\ Standing(role[q].school)
    BY <1>2 DEF RolesOK, Roles
  <2> QED
    BY <1>3, <2>1, <2>2
<1>5. (\A q \in removing : q \in Roles /\ ~role[q].system)'
  BY <1>2, <1>3 DEF RolesOK, Roles
<1> QED
  BY <1>2, <1>3, <1>4, <1>5 DEF RolesOK

(* What a statement may change of a role without looking at other roles. *)
LEMMA CodesKept ==
  ASSUME RolesOK, NEW r \in Roles, NEW row \in RoleRow, role' = [role EXCEPT ![r] = row],
         row.school = role[r].school, row.code = role[r].code
  PROVE  UniqueCodes(role')
<1>1. r \in RoleNo /\ role[r] # NoRole
  BY DEF Roles
<1>2. \A q \in RoleNo : /\ role'[q] # NoRole => role[q] # NoRole
                        /\ role'[q].school = role[q].school /\ role'[q].code = role[q].code
  BY <1>1 DEF RolesOK
<1>3. UniqueCodes(role)
  BY DEF RolesOK
<1> QED
  BY <1>2, <1>3 DEF UniqueCodes

LEMMA NewRoles ==
  ASSUME NEW s \in Anywhere, NEW code \in RoleCode
  PROVE  /\ NewRole(s, code) \in RoleRow /\ NewRole(s, code).school = s /\ NewRole(s, code).code = code
         /\ ~NewRole(s, code).system
BY DEF NewRole, RoleRow

LEMMA TakeRoleStep ==
  ASSUME DirectoryInv, NEW u \in Account, NEW code \in RoleCode, TakeRole(u, code), vanished' = vanished
  PROVE  DirectoryInv'
<1>1. UNCHANGED <<schoolVars, peopleVars, removing>> /\ UNCHANGED <<campus, account>> /\ SchoolsStay
  BY StaysWhenSame DEF TakeRole, schoolVars, peopleVars
<1>2. PICK s \in Anywhere : s = account[u].school /\ u \in Accounts /\ Standing(s)
  BY DEF TakeRole, DirectoryInv, PeopleOK, AccountsOK, Standing, Anywhere
<1>3. CASE RolesOf(s, code) # {}
  <2>1. PICK r \in RolesOf(s, code) : holds' = holds \cup {<<u, r>>} /\ role' = role
    BY <1>2, <1>3 DEF TakeRole, Held
  <2>2. RolesStay /\ RolesOK'
    BY <1>1, <2>1, StaysWhenSame, RolesSame DEF DirectoryInv
  <2>3. Fair(<<u, r>>)'
    BY <1>1, <1>2, <2>1 DEF Fair, RolesOf, Roles, Accounts
  <2> QED
    BY <1>1, <2>1, <2>2, <2>3, RolesStep
<1>4. CASE RolesOf(s, code) = {}
  <2>1. PICK r \in NewCode : /\ holds' = holds \cup {<<u, r>>}
                             /\ role' = [role EXCEPT ![r] = [NewRole(s, code) EXCEPT !.system = (code = "SCHOOL_ADMIN")]]
    BY <1>2, <1>4 DEF TakeRole, Held
  <2>2. PICK new \in RoleRow : new = NewRole(s, code) /\ new.school = s /\ new.code = code
    BY NewRoles
  <2>3. PICK system \in BOOLEAN : system = (code = "SCHOOL_ADMIN")
    OBVIOUS
  <2>4. PICK row : row = [new EXCEPT !.system = system]
    OBVIOUS
  <2>5. row \in RoleRow /\ row.school = s /\ row.code = code
    BY <2>2, <2>4 DEF RoleRow
  <2>6. role' = [role EXCEPT ![r] = row]
    BY <2>1, <2>2, <2>3, <2>4
  <2>7. RolesOK' /\ RolesStay /\ r \in Roles' /\ role'[r] = row
    BY <1>1, <1>2, <1>4, <2>5, <2>6, RoleMade DEF DirectoryInv
  <2>8. Fair(<<u, r>>)'
    BY <1>1, <1>2, <2>5, <2>7 DEF Fair, Accounts
  <2> QED
    BY <1>1, <2>1, <2>7, <2>8, RolesStep
<1> QED
  BY <1>3, <1>4

LEMMA HoldingSteps ==
  ASSUME DirectoryInv, NEW u \in Account, NEW r \in RoleNo, AssignRole(u, r) \/ TakeAway(u, r), vanished' = vanished
  PROVE  DirectoryInv'
<1>1. UNCHANGED <<schoolVars, peopleVars, role, removing>> /\ UNCHANGED <<campus, account>>
  BY DEF AssignRole, TakeAway, schoolVars, peopleVars
<1>2. RolesStay /\ RolesOK'
  BY <1>1, StaysWhenSame, RolesSame DEF DirectoryInv
<1>3. \A h \in holds' : h \in holds \/ Fair(h)'
  <2>1. CASE AssignRole(u, r)
    <3>1. Fair(<<u, r>>)'
      BY <1>1, <2>1 DEF AssignRole, Assignable, Fair, Accounts, Roles
    <3> QED
      BY <2>1, <3>1 DEF AssignRole, Held
  <2>2. CASE TakeAway(u, r)
    BY <2>2 DEF TakeAway
  <2> QED
    BY <2>1, <2>2
<1> QED
  BY <1>1, <1>2, <1>3, RolesStep

LEMMA CreateRoleStep ==
  ASSUME DirectoryInv, NEW s \in Campus, NEW r \in RoleNo, NEW code \in RoleCode, CreateRole(s, r, code),
         vanished' = vanished
  PROVE  DirectoryInv'
<1>1. UNCHANGED <<schoolVars, peopleVars, holds, removing>> /\ UNCHANGED <<campus>> /\ SchoolsStay
  BY StaysWhenSame DEF CreateRole, schoolVars
<1>2. PICK row \in RoleRow : row = NewRole(s, code) /\ row.school = s /\ row.code = code
  BY NewRoles DEF Anywhere
<1>3. /\ r \in NewCode /\ role' = [role EXCEPT ![r] = row] /\ Standing(row.school)
      /\ RolesOf(row.school, row.code) = {}
  BY <1>2 DEF CreateRole, Standing
<1>4. RolesOK' /\ RolesStay
  BY <1>1, <1>3, RoleMade DEF DirectoryInv
<1> QED
  BY <1>1, <1>4, RolesStep

LEMMA UpdateRoleStep ==
  ASSUME DirectoryInv, NEW r \in RoleNo, NEW code \in RoleCode, NEW active \in BOOLEAN, UpdateRole(r, code, active),
         vanished' = vanished
  PROVE  DirectoryInv'
<1>1. UNCHANGED <<schoolVars, peopleVars, holds, removing>> /\ UNCHANGED <<campus>> /\ SchoolsStay
  BY StaysWhenSame DEF UpdateRole, schoolVars
<1>2. PICK old \in RoleRow : old = role[r] /\ r \in Roles
  BY DEF UpdateRole, DirectoryInv, RolesOK, Roles
<1>3. PICK row : row = [old EXCEPT !.code = code, !.active = active]
  OBVIOUS
<1>4. row \in RoleRow
  BY <1>3 DEF RoleRow
<1>5. row.school = old.school /\ row.system = old.system /\ row.code = code /\ row.grants = old.grants
  BY <1>3 DEF RoleRow
<1>6. role' = [role EXCEPT ![r] = row] /\ UniqueCodes(role') /\ (old.system => code = old.code)
  BY <1>2, <1>3 DEF UpdateRole, DirectoryInv, RolesOK
<1>7. RolesOK' /\ RolesStay
  BY <1>1, <1>2, <1>4, <1>5, <1>6, RoleEdited DEF DirectoryInv
<1> QED
  BY <1>1, <1>7, RolesStep

LEMMA ReplacePermissionsStep ==
  ASSUME DirectoryInv, NEW r \in RoleNo, NEW grants \in {"NONE", "SOME", "ALL"}, ReplacePermissions(r, grants),
         vanished' = vanished
  PROVE  DirectoryInv'
<1>1. UNCHANGED <<schoolVars, peopleVars, holds, removing>> /\ UNCHANGED <<campus>> /\ SchoolsStay
  BY StaysWhenSame DEF ReplacePermissions, schoolVars
<1>2. PICK old \in RoleRow : old = role[r] /\ r \in Roles /\ ~(old.system /\ old.code = "SCHOOL_ADMIN")
  BY DEF ReplacePermissions, DirectoryInv, RolesOK, Roles
<1>3. PICK row : row = [old EXCEPT !.grants = grants]
  OBVIOUS
<1>4. row \in RoleRow /\ row.school = old.school /\ row.system = old.system /\ row.code = old.code
  BY <1>3 DEF RoleRow
<1>5. role' = [role EXCEPT ![r] = row]
  BY <1>2, <1>3 DEF ReplacePermissions, DirectoryInv, RolesOK
<1>6. UniqueCodes(role')
  BY <1>2, <1>4, <1>5, CodesKept DEF DirectoryInv
<1>7. RolesOK' /\ RolesStay
  BY <1>1, <1>2, <1>4, <1>5, <1>6, RoleEdited DEF DirectoryInv
<1> QED
  BY <1>1, <1>7, RolesStep

LEMMA FindUnusedStep ==
  ASSUME DirectoryInv, NEW r \in RoleNo, FindUnused(r), vanished' = vanished
  PROVE  DirectoryInv'
<1>1. UNCHANGED <<schoolVars, peopleVars, holds, role>> /\ UNCHANGED <<campus>> /\ SchoolsStay /\ RolesStay
  BY StaysWhenSame DEF FindUnused, schoolVars
<1>2. RolesOK'
  BY <1>1 DEF FindUnused, DirectoryInv, RolesOK, Roles, Standing
<1> QED
  BY <1>1, <1>2, RolesStep

-----------------------------------------------------------------------------
(* Settings and profile options. *)
LEMMA SettingSteps ==
  ASSUME DirectoryInv, NEW s \in Campus, KeepSettings(s) \/ DropSettings(s), vanished' = vanished
  PROVE  DirectoryInv'
<1>1. UNCHANGED <<campus, creating, options, peopleVars, roleVars>>
  BY DEF KeepSettings, DropSettings
<1>2. SchoolsOK'
  BY <1>1 DEF KeepSettings, DropSettings, DirectoryInv, SchoolsOK
<1>3. OptionsOK'
  BY <1>1, OptionsSame, StaysWhenSame DEF DirectoryInv, peopleVars
<1> QED
  BY <1>1, <1>2, <1>3, SettingsStep

LEMMA OptionSteps ==
  ASSUME DirectoryInv, NEW s \in Campus, NEW k \in OptionKey, vanished' = vanished,
         \/ SaveOption(s, k) \/ DropOption(s, k) \/ \E n \in OptionKey : RenameOption(s, k, n)
         \/ \E u \in Account : AnswerOption(s, k, u) \/ ClearAnswer(s, k, u)
  PROVE  DirectoryInv'
<1>1. UNCHANGED <<campus, creating, settings, peopleVars, roleVars>> /\ account' = account
  BY DEF SaveOption, DropOption, RenameOption, AnswerOption, ClearAnswer, peopleVars
<1>2. SchoolsOK'
  BY <1>1, SchoolsSame DEF DirectoryInv
<1>3. OptionsOK /\ Accounts' = Accounts
  BY <1>1 DEF DirectoryInv, Accounts
<1>4. OptionsOK'
  <2>1. CASE SaveOption(s, k)
    BY <1>1, <1>3, <2>1 DEF SaveOption, OptionsOK
  <2>2. CASE DropOption(s, k)
    BY <1>1, <1>3, <2>2 DEF DropOption, OptionsOK
  <2>3. ASSUME NEW n \in OptionKey, RenameOption(s, k, n) PROVE OptionsOK'
    <3> DEFINE Renamed(o) == IF o[1] = s /\ o[2] = k THEN <<s, n, o[3]>> ELSE o
    <3>1. options' = {Renamed(o) : o \in options} /\ <<s, k, NoPerson>> \in options
      BY <2>3 DEF RenameOption
    <3> SUFFICES ASSUME NEW x \in options'
        PROVE  /\ x \in Campus \X OptionKey \X (Account \cup {NoPerson})
               /\ campus'[x[1]] # "NONE" /\ <<x[1], x[2], NoPerson>> \in options'
               /\ x[3] # NoPerson => x[3] \in Accounts' /\ account'[x[3]].school = x[1]
      BY DEF OptionsOK
    <3>2. PICK o \in options : x = Renamed(o)
      BY <3>1
    <3>3. o \in Campus \X OptionKey \X (Account \cup {NoPerson}) /\ <<o[1], o[2], NoPerson>> \in options
      BY <1>3 DEF OptionsOK
    <3>4. CASE o[1] = s /\ o[2] = k
      <4>1. Renamed(<<s, k, NoPerson>>) = <<s, n, NoPerson>> /\ Renamed(o) = <<s, n, o[3]>>
        BY <3>4
      <4>2. <<s, n, NoPerson>> \in options'
        BY <3>1, <4>1
      <4> QED
        BY <1>1, <1>3, <3>2, <3>3, <3>4, <4>1, <4>2 DEF OptionsOK
    <3>5. CASE ~(o[1] = s /\ o[2] = k)
      <4>1. Renamed(<<o[1], o[2], NoPerson>>) = <<o[1], o[2], NoPerson>> /\ Renamed(o) = o
        BY <3>5
      <4>2. <<o[1], o[2], NoPerson>> \in options'
        BY <3>1, <3>3, <4>1
      <4> QED
        BY <1>1, <1>3, <3>2, <3>3, <4>1, <4>2 DEF OptionsOK
    <3> QED
      BY <3>4, <3>5
  <2>4. ASSUME NEW u \in Account, AnswerOption(s, k, u) PROVE OptionsOK'
    BY <1>1, <1>3, <2>4, DirectoryAssumption DEF AnswerOption, OptionsOK
  <2>5. ASSUME NEW u \in Account, ClearAnswer(s, k, u) PROVE OptionsOK'
    <3>1. options' = options \ {<<s, k, u>>} /\ u # NoPerson
      BY <2>5 DEF ClearAnswer
    <3>2. ASSUME NEW o \in options'
          PROVE  /\ o \in Campus \X OptionKey \X (Account \cup {NoPerson})
                 /\ campus'[o[1]] # "NONE" /\ <<o[1], o[2], NoPerson>> \in options'
                 /\ o[3] # NoPerson => o[3] \in Accounts' /\ account'[o[3]].school = o[1]
      <4>1. o \in options /\ <<o[1], o[2], NoPerson>> \in options
        BY <1>3, <3>1 DEF OptionsOK
      <4>2. <<o[1], o[2], NoPerson>> # <<s, k, u>>
        BY <3>1
      <4>3. <<o[1], o[2], NoPerson>> \in options'
        BY <3>1, <4>1, <4>2
      <4> QED
        BY <1>1, <1>3, <4>1, <4>3 DEF OptionsOK
    <3> QED
      BY <3>2 DEF OptionsOK
  <2> QED
    BY <2>1, <2>2, <2>3, <2>4, <2>5
<1> QED
  BY <1>1, <1>2, <1>4, SettingsStep

-----------------------------------------------------------------------------
(* The creation of a school: only what has been made for this school needs a look. *)
LEMMA CreationMoves ==
  ASSUME DirectoryInv, NEW s \in Campus, AccountsStay, NewNames, RolesStay, SchoolsStay,
         UNCHANGED <<settings, options, vanished>>, AccountsOK', PeopleOK', RolesOK',
         campus' \in [Campus -> Stage], creating' = [t \in Campus |-> creating'[t]],
         \A t \in Campus \ {s} : UNCHANGED <<campus[t], creating[t]>>,
         \A h \in holds' : h \in holds \/ Fair(h)', Underway(s)', Established(s)'
  PROVE  DirectoryInv'
<1>1. HoldsOK' /\ OptionsOK'
  BY HoldsStay, OptionsSame DEF DirectoryInv
<1>2. SchoolsOK'
  BY DEF DirectoryInv, SchoolsOK, SchoolsStay
<1>3. ASSUME NEW t \in Campus PROVE Underway(t)' /\ Established(t)'
  <2>1. CASE t = s
    BY <2>1
  <2>2. CASE t # s
    BY <2>2, CreationStays DEF DirectoryInv, CreationOK
  <2> QED
    BY <2>1, <2>2
<1> QED
  BY <1>1, <1>2, <1>3 DEF DirectoryInv, CreationOK

LEMMA NothingMoved ==
  ASSUME DirectoryInv, SchoolsStay
  PROVE  /\ UNCHANGED peopleVars => AccountsOK' /\ PeopleOK' /\ AccountsStay /\ NewNames
         /\ UNCHANGED <<role, removing>> => RolesOK' /\ RolesStay
         /\ UNCHANGED holds => \A h \in holds' : h \in holds \/ Fair(h)'
BY AccountsSame, PeopleSame, RolesSame, StaysWhenSame DEF DirectoryInv, peopleVars

LEMMA CreateSchoolStep ==
  ASSUME DirectoryInv, NEW s \in Campus, NEW email \in Login, CreateSchool(s, email), vanished' = vanished
  PROVE  DirectoryInv'
<1>1. UNCHANGED <<settings, options>> /\ UNCHANGED peopleVars /\ UNCHANGED <<role, removing>> /\ UNCHANGED holds
  BY DEF CreateSchool, roleVars
<1>2. /\ campus' \in [Campus -> Stage] /\ creating' = [t \in Campus |-> creating'[t]] /\ SchoolsStay
      /\ \A t \in Campus \ {s} : UNCHANGED <<campus[t], creating[t]>>
      /\ campus'[s] = "BARE" /\ creating'[s] = [login |-> email, admin |-> NoPerson, role |-> NoPerson]
  BY DEF CreateSchool, DirectoryInv, SchoolsOK, SchoolsStay, Stage
<1>3. Underway(s)' /\ Established(s)'
  BY <1>2 DEF Underway, Established
<1> QED
  BY <1>1, <1>2, <1>3, CreationMoves, NothingMoved

LEMMA ReachedStage ==
  ASSUME DirectoryInv, NEW s \in Campus, NEW from \in Stage \ {"NONE"}, NEW to \in Stage \ {"NONE"}, Reached(s, from, to)
  PROVE  /\ campus' \in [Campus -> Stage] /\ SchoolsStay /\ campus[s] = from /\ campus'[s] = to
         /\ \A t \in Campus \ {s} : campus'[t] = campus[t]
         /\ creating[s] = [login |-> creating[s].login, admin |-> creating[s].admin, role |-> creating[s].role]
         /\ creating[s].login \in Login /\ creating[s] # NoPerson
BY DEF Reached, DirectoryInv, SchoolsOK, SchoolsStay, CreationOK, Underway

LEMMA CreateAdminStep ==
  ASSUME DirectoryInv, NEW s \in Campus, NEW u \in Account, CreateAdmin(s, u), vanished' = vanished
  PROVE  DirectoryInv'
<1>1. /\ campus' \in [Campus -> Stage] /\ SchoolsStay /\ campus[s] = "BARE" /\ campus'[s] = "ADMIN"
      /\ \A t \in Campus \ {s} : campus'[t] = campus[t]
      /\ creating[s] = [login |-> creating[s].login, admin |-> creating[s].admin, role |-> creating[s].role]
      /\ creating[s].login \in Login
  BY ReachedStage DEF CreateAdmin, Stage
<1>2. PICK row \in AccountRow : row = NewAccount(s, creating[s].login, creating[s].login) /\ row.school = s
  BY <1>1, NewAccounts DEF Anywhere
<1>3. Opened(u, row) /\ Standing(row.school) /\ Standing(s)'
  BY <1>1, <1>2 DEF CreateAdmin, Standing
<1>4. AccountsOK' /\ AccountsStay /\ NewNames /\ account'[u] = row /\ u \in Accounts' /\ \A v \in Accounts : v \in Accounts'
  BY <1>1, <1>2, <1>3, AccountOpened DEF DirectoryInv
<1>5. PeopleOK'
  BY <1>4 DEF CreateAdmin, DirectoryInv, PeopleOK
<1>6. RolesOK' /\ RolesStay /\ \A h \in holds' : h \in holds \/ Fair(h)'
  BY <1>1, NothingMoved DEF CreateAdmin, roleVars
<1>7. /\ creating' = [t \in Campus |-> creating'[t]] /\ \A t \in Campus \ {s} : creating'[t] = creating[t]
      /\ creating'[s] = [creating[s] EXCEPT !.admin = u]
  BY DEF CreateAdmin, DirectoryInv, SchoolsOK
<1>8. creating'[s] = [login |-> creating[s].login, admin |-> u, role |-> creating[s].role]
  BY <1>1, <1>7
<1>9. Underway(s)' /\ Established(s)'
  BY <1>1, <1>2, <1>4, <1>8 DEF Underway, Established
<1> QED
  BY <1>1, <1>4, <1>5, <1>6, <1>7, <1>9, CreationMoves DEF CreateAdmin

LEMMA CreateAdminRoleStep ==
  ASSUME DirectoryInv, NEW s \in Campus, NEW r \in RoleNo, CreateAdminRole(s, r), vanished' = vanished
  PROVE  DirectoryInv'
<1>1. /\ campus' \in [Campus -> Stage] /\ SchoolsStay /\ campus[s] = "ADMIN" /\ campus'[s] = "ROLE"
      /\ \A t \in Campus \ {s} : campus'[t] = campus[t]
      /\ creating[s] = [login |-> creating[s].login, admin |-> creating[s].admin, role |-> creating[s].role]
      /\ creating[s].login \in Login /\ creating[s] # NoPerson
  BY ReachedStage DEF CreateAdminRole, Stage
<1>2. PICK new \in RoleRow : new = NewRole(s, "SCHOOL_ADMIN") /\ new.school = s /\ new.code = "SCHOOL_ADMIN"
  BY NewRoles, DirectoryAssumption DEF Anywhere
<1>3. PICK row : row = [new EXCEPT !.system = TRUE]
  OBVIOUS
<1>4. row \in RoleRow /\ row.school = s /\ row.code = "SCHOOL_ADMIN" /\ row.system
  BY <1>2, <1>3 DEF RoleRow
<1>5. r \in NewCode /\ role' = [role EXCEPT ![r] = row] /\ UniqueCodes(role') /\ removing' = removing
  BY <1>2, <1>3 DEF CreateAdminRole
<1>6. Standing(row.school)
  BY <1>1, <1>4 DEF Standing
<1>7. RolesOK' /\ RolesStay /\ r \in Roles' /\ role'[r] = row
  BY <1>1, <1>4, <1>5, <1>6, RoleMade DEF DirectoryInv
<1>8. /\ AccountsOK' /\ PeopleOK' /\ AccountsStay /\ NewNames /\ \A h \in holds' : h \in holds \/ Fair(h)'
  BY <1>1, NothingMoved DEF CreateAdminRole
<1>9. /\ creating' = [t \in Campus |-> creating'[t]] /\ \A t \in Campus \ {s} : creating'[t] = creating[t]
      /\ creating'[s] = [creating[s] EXCEPT !.role = r]
  BY DEF CreateAdminRole, DirectoryInv, SchoolsOK
<1>10. creating'[s] = [login |-> creating[s].login, admin |-> creating[s].admin, role |-> r]
  BY <1>1, <1>9
<1>11. Underway(s)' /\ Established(s)'
  <2>1. /\ creating[s].admin \in Accounts \cup vanished
        /\ creating[s].admin \in Accounts => account[creating[s].admin].school = s
    BY <1>1 DEF DirectoryInv, CreationOK, Underway
  <2>2. account' = account /\ Accounts' = Accounts
    BY DEF CreateAdminRole, peopleVars, Accounts
  <2>3. r \in RolesOf(s, "SCHOOL_ADMIN")' /\ role'[r].system
    BY <1>4, <1>7 DEF RolesOf
  <2> QED
    BY <1>1, <1>10, <2>1, <2>2, <2>3 DEF Underway, Established
<1> QED
  BY <1>1, <1>7, <1>8, <1>9, <1>11, CreationMoves DEF CreateAdminRole

LEMMA GrantAllStep ==
  ASSUME DirectoryInv, NEW s \in Campus, GrantAll(s), vanished' = vanished
  PROVE  DirectoryInv'
<1>1. /\ campus' \in [Campus -> Stage] /\ SchoolsStay /\ campus[s] = "ROLE" /\ campus'[s] = "GRANTED"
      /\ \A t \in Campus \ {s} : campus'[t] = campus[t]
      /\ creating[s] # NoPerson
  BY ReachedStage DEF GrantAll, Stage
<1>2. PICK r \in Roles : r = creating[s].role
  BY DEF GrantAll
<1>3. PICK old \in RoleRow : old = role[r]
  BY DEF DirectoryInv, RolesOK, Roles
<1>4. PICK row : row = [old EXCEPT !.grants = "ALL"]
  OBVIOUS
<1>5. row \in RoleRow /\ row.school = old.school /\ row.code = old.code /\ row.system = old.system /\ row.grants = "ALL"
  BY <1>4 DEF RoleRow
<1>6. role' = [role EXCEPT ![r] = row] /\ removing' = removing
  BY <1>2, <1>3, <1>4 DEF GrantAll, DirectoryInv, RolesOK
<1>7. UniqueCodes(role')
  BY <1>3, <1>5, <1>6, CodesKept DEF DirectoryInv
<1>8. RolesOK' /\ RolesStay /\ role'[r] = row
  <2>1. /\ row.school = role[r].school /\ row.system = role[r].system
        /\ role[r].system /\ role[r].code = "SCHOOL_ADMIN" =>
             row.code = "SCHOOL_ADMIN" /\ (role[r].grants = "ALL" => row.grants = "ALL")
    BY <1>3, <1>5
  <2> QED
    BY <1>1, <1>5, <1>6, <1>7, <2>1, RoleEdited DEF DirectoryInv
<1>9. /\ AccountsOK' /\ PeopleOK' /\ AccountsStay /\ NewNames /\ \A h \in holds' : h \in holds \/ Fair(h)'
  BY <1>1, NothingMoved DEF GrantAll
<1>10. creating' = creating /\ creating' = [t \in Campus |-> creating'[t]]
  BY DEF GrantAll, DirectoryInv, SchoolsOK
<1>11. Underway(s)' /\ Established(s)'
  <2>1. /\ creating[s] = [login |-> creating[s].login, admin |-> creating[s].admin, role |-> creating[s].role]
        /\ creating[s].login \in Login
        /\ creating[s].admin \in Accounts \cup vanished
        /\ creating[s].admin \in Accounts => account[creating[s].admin].school = s
        /\ r \in RolesOf(s, "SCHOOL_ADMIN") /\ role[r].system
    BY <1>1, <1>2 DEF DirectoryInv, CreationOK, Underway
  <2>2. account' = account /\ Accounts' = Accounts
    BY DEF GrantAll, peopleVars, Accounts
  <2>3. r \in RolesOf(s, "SCHOOL_ADMIN")' /\ role'[r].system /\ role'[r].grants = "ALL"
    BY <1>3, <1>5, <1>8, <2>1 DEF RolesOf, RolesStay, Roles
  <2> QED
    BY <1>1, <1>2, <1>10, <2>1, <2>2, <2>3 DEF Underway, Established
<1> QED
  BY <1>1, <1>8, <1>9, <1>10, <1>11, CreationMoves DEF GrantAll

LEMMA AppointAdminStep ==
  ASSUME DirectoryInv, NEW s \in Campus, AppointAdmin(s), vanished' = vanished
  PROVE  DirectoryInv'
<1>1. /\ campus' \in [Campus -> Stage] /\ SchoolsStay /\ campus[s] = "GRANTED" /\ campus'[s] = "DONE"
      /\ \A t \in Campus \ {s} : campus'[t] = campus[t]
      /\ creating[s] # NoPerson
  BY ReachedStage DEF AppointAdmin, Stage
<1>2. /\ AccountsOK' /\ PeopleOK' /\ RolesOK' /\ AccountsStay /\ NewNames /\ RolesStay
      /\ UNCHANGED <<role, account>> /\ Accounts' = Accounts /\ Roles' = Roles
  BY <1>1, NothingMoved DEF AppointAdmin, peopleVars, Accounts, Roles
<1>3. PICK u \in Accounts, r \in Roles : u = creating[s].admin /\ r = creating[s].role
  BY DEF AppointAdmin
<1>4. account[u].school = s /\ r \in RolesOf(s, "SCHOOL_ADMIN") /\ role[r].system /\ role[r].grants = "ALL"
  BY <1>1, <1>3 DEF DirectoryInv, CreationOK, Underway
<1>5. \A h \in holds' : h \in holds \/ Fair(h)'
  <2>1. Fair(<<u, r>>)'
    BY <1>2, <1>4 DEF Fair, RolesOf
  <2> QED
    BY <1>3, <2>1 DEF AppointAdmin, Held
<1>6. /\ creating' = [t \in Campus |-> creating'[t]] /\ \A t \in Campus \ {s} : creating'[t] = creating[t]
      /\ creating'[s] = NoPerson
  BY DEF AppointAdmin, DirectoryInv, SchoolsOK
<1>7. Underway(s)' /\ Established(s)'
  BY <1>2, <1>4, <1>6 DEF Underway, Established, RolesOf
<1> QED
  BY <1>1, <1>2, <1>5, <1>6, <1>7, CreationMoves DEF AppointAdmin

LEMMA BreakOffStep ==
  ASSUME DirectoryInv, NEW s \in Campus, BreakOff(s), vanished' = vanished
  PROVE  DirectoryInv'
<1>1. SchoolsStay /\ campus' = campus /\ campus' \in [Campus -> Stage]
  BY StaysWhenSame DEF BreakOff, DirectoryInv, SchoolsOK
<1>2. /\ AccountsOK' /\ PeopleOK' /\ RolesOK' /\ AccountsStay /\ NewNames /\ RolesStay
      /\ \A h \in holds' : h \in holds \/ Fair(h)'
  BY <1>1, NothingMoved DEF BreakOff, roleVars
<1>3. /\ creating' = [t \in Campus |-> creating'[t]] /\ \A t \in Campus \ {s} : creating'[t] = creating[t]
      /\ creating'[s] = NoPerson
  BY DEF BreakOff, DirectoryInv, SchoolsOK
<1>4. Underway(s)' /\ Established(s)'
  <2>1. Underway(s)'
    BY <1>3 DEF Underway
  <2>2. role' = role /\ RolesOf(s, "SCHOOL_ADMIN")' = RolesOf(s, "SCHOOL_ADMIN")
    BY DEF BreakOff, roleVars, RolesOf, Roles
  <2>3. Established(s)'
    BY <1>1, <2>2 DEF DirectoryInv, CreationOK, Established
  <2> QED
    BY <2>1, <2>3
<1> QED
  BY <1>1, <1>2, <1>3, <1>4, CreationMoves DEF BreakOff

-----------------------------------------------------------------------------
(* Removals: the rows that stay are what they were. *)
LEMMA RowsLeft ==
  ASSUME DirectoryInv, NEW U, NEW R, Gone(U, R)
  PROVE  /\ Accounts' = Accounts \ U /\ (\A u \in Account \ U : account'[u] = account[u])
         /\ Roles' = Roles \ R /\ (\A r \in RoleNo \ R : role'[r] = role[r])
         /\ account' \in [Account -> AccountRow \cup {NoAccount}] /\ UniqueLogins(account')
         /\ role' \in [RoleNo -> RoleRow \cup {NoRole}] /\ UniqueCodes(role')
         /\ PeopleOK' /\ HoldsOK' /\ \A r \in removing' : r \in Roles' /\ ~role'[r].system
<1>1. /\ account' = [u \in Account |-> IF u \in U THEN NoAccount ELSE account[u]]
      /\ role' = [r \in RoleNo |-> IF r \in R THEN NoRole ELSE role[r]]
      /\ holds' = {h \in holds : h[1] \notin U /\ h[2] \notin R} /\ removing' = removing \ R
  BY DEF Gone
<1>2. /\ account \in [Account -> AccountRow \cup {NoAccount}] /\ UniqueLogins(account)
      /\ role \in [RoleNo -> RoleRow \cup {NoRole}] /\ UniqueCodes(role)
  BY DEF DirectoryInv, AccountsOK, RolesOK
<1>3. /\ account' \in [Account -> AccountRow \cup {NoAccount}] /\ (\A u \in Account \ U : account'[u] = account[u])
      /\ \A u \in Account : u \in U => account'[u] = NoAccount
  BY <1>1, <1>2
<1>4. /\ role' \in [RoleNo -> RoleRow \cup {NoRole}] /\ (\A r \in RoleNo \ R : role'[r] = role[r])
      /\ \A r \in RoleNo : r \in R => role'[r] = NoRole
  BY <1>1, <1>2
<1>5. Accounts' = Accounts \ U /\ Roles' = Roles \ R
  BY <1>3, <1>4 DEF Accounts, Roles
<1>6. UniqueLogins(account')
  BY <1>2, <1>3 DEF UniqueLogins
<1>7. UniqueCodes(role')
  BY <1>2, <1>4 DEF UniqueCodes
<1>8. PeopleOK'
  BY <1>5 DEF Gone, DirectoryInv, PeopleOK
<1>9. HoldsOK'
  <2>1. ASSUME NEW h \in holds, h[1] \notin U, h[2] \notin R PROVE Fair(h)'
    BY <1>3, <1>4, <1>5, <2>1 DEF DirectoryInv, HoldsOK, Fair, Accounts, Roles
  <2> QED
    BY <1>1, <2>1 DEF HoldsOK
<1>10. \A r \in removing' : r \in Roles' /\ ~role'[r].system
  BY <1>1, <1>4, <1>5 DEF DirectoryInv, RolesOK, Roles
<1> QED
  BY <1>3, <1>4, <1>5, <1>6, <1>7, <1>8, <1>9, <1>10

(* A school whose system role is not among the removed. *)
LEMMA CreationLeft ==
  ASSUME DirectoryInv, NEW U, NEW R, Gone(U, R), NEW s \in Campus, UNCHANGED <<campus[s], creating[s]>>,
         \A r \in Roles : r \in R => role[r].school # s \/ ~role[r].system
  PROVE  Underway(s)' /\ Established(s)'
<1>1. /\ Accounts' = Accounts \ U /\ (\A u \in Account \ U : account'[u] = account[u])
      /\ Roles' = Roles \ R /\ (\A r \in RoleNo \ R : role'[r] = role[r])
      /\ vanished' = vanished \cup U \cup R
  BY RowsLeft DEF Gone
<1>2. ASSUME NEW r \in RolesOf(s, "SCHOOL_ADMIN"), role[r].system
      PROVE  r \in RolesOf(s, "SCHOOL_ADMIN")' /\ role'[r] = role[r]
  BY <1>1, <1>2 DEF RolesOf, Roles
<1>3. Underway(s) /\ Established(s)
  BY DEF DirectoryInv, CreationOK
<1>4. ASSUME NEW u \in Accounts \cup vanished, u \in Accounts => account[u].school = s
      PROVE  u \in Accounts' \cup vanished' /\ (u \in Accounts' => account'[u].school = s)
  BY <1>1, <1>4 DEF Accounts
<1>5. Underway(s)'
  BY <1>2, <1>3, <1>4 DEF Underway
<1>6. Established(s)'
  BY <1>2, <1>3 DEF Established
<1> QED
  BY <1>5, <1>6

LEMMA RemoveUserStep ==
  ASSUME DirectoryInv, NEW u \in Account, RemoveUser(u)
  PROVE  DirectoryInv'
<1>1. Gone({u}, {}) /\ UNCHANGED <<campus, creating, settings>> /\ options' = {o \in options : o[3] # u}
  BY DEF RemoveUser
<1>2. /\ Accounts' = Accounts \ {u} /\ (\A v \in Account \ {u} : account'[v] = account[v])
      /\ Roles' = Roles /\ (\A r \in RoleNo : role'[r] = role[r])
      /\ account' \in [Account -> AccountRow \cup {NoAccount}] /\ UniqueLogins(account')
      /\ role' \in [RoleNo -> RoleRow \cup {NoRole}] /\ UniqueCodes(role')
      /\ PeopleOK' /\ HoldsOK' /\ \A r \in removing' : r \in Roles' /\ ~role'[r].system
  <2>1. PICK R : R = {}
    OBVIOUS
  <2>2. PICK U : U = {u}
    OBVIOUS
  <2>3. Gone(U, R)
    BY <1>1, <2>1, <2>2
  <2>4. /\ Accounts' = Accounts \ U /\ (\A v \in Account \ U : account'[v] = account[v])
        /\ Roles' = Roles \ R /\ (\A r \in RoleNo \ R : role'[r] = role[r])
        /\ account' \in [Account -> AccountRow \cup {NoAccount}] /\ UniqueLogins(account')
        /\ role' \in [RoleNo -> RoleRow \cup {NoRole}] /\ UniqueCodes(role')
        /\ PeopleOK' /\ HoldsOK' /\ \A r \in removing' : r \in Roles' /\ ~role'[r].system
    BY <2>3, RowsLeft
  <2> QED
    BY <2>1, <2>2, <2>4
<1>3. AccountsOK' /\ RolesOK'
  BY <1>1, <1>2 DEF DirectoryInv, AccountsOK, RolesOK, Standing, Accounts, Roles
<1>4. SchoolsOK'
  BY <1>1, SchoolsSame DEF DirectoryInv
<1>5. OptionsOK'
  BY <1>1, <1>2, DirectoryAssumption DEF DirectoryInv, OptionsOK, Accounts
<1>6. CreationOK'
  <2>1. ASSUME NEW s \in Campus PROVE Underway(s)' /\ Established(s)'
    <3>1. PICK R : R = {}
      OBVIOUS
    <3>2. PICK U : U = {u}
      OBVIOUS
    <3>3. Gone(U, R) /\ UNCHANGED <<campus[s], creating[s]>>
      BY <1>1, <3>1, <3>2
    <3>4. \A r \in Roles : r \in R => role[r].school # s \/ ~role[r].system
      BY <3>1
    <3> QED
      BY <3>3, <3>4, CreationLeft
  <2> QED
    BY <2>1 DEF CreationOK
<1> QED
  BY <1>2, <1>3, <1>4, <1>5, <1>6 DEF DirectoryInv

LEMMA RemoveRoleStep ==
  ASSUME DirectoryInv, NEW q \in RoleNo, RemoveRole(q)
  PROVE  DirectoryInv'
<1>1. /\ Gone({}, {q}) /\ UNCHANGED schoolVars /\ UNCHANGED <<campus, creating, settings, options>>
      /\ q \in Roles /\ ~role[q].system
  BY DEF RemoveRole, schoolVars, DirectoryInv, RolesOK
<1>2. PICK U, R : U = {} /\ R = {q} /\ Gone(U, R)
  BY <1>1
<1>3. /\ Accounts' = Accounts /\ (\A v \in Account : account'[v] = account[v])
      /\ Roles' = Roles \ R /\ (\A r \in RoleNo \ R : role'[r] = role[r])
      /\ account' \in [Account -> AccountRow \cup {NoAccount}] /\ UniqueLogins(account')
      /\ role' \in [RoleNo -> RoleRow \cup {NoRole}] /\ UniqueCodes(role')
      /\ PeopleOK' /\ HoldsOK' /\ \A r \in removing' : r \in Roles' /\ ~role'[r].system
  <2>1. /\ Accounts' = Accounts \ U /\ (\A v \in Account \ U : account'[v] = account[v])
        /\ Roles' = Roles \ R /\ (\A r \in RoleNo \ R : role'[r] = role[r])
        /\ account' \in [Account -> AccountRow \cup {NoAccount}] /\ UniqueLogins(account')
        /\ role' \in [RoleNo -> RoleRow \cup {NoRole}] /\ UniqueCodes(role')
        /\ PeopleOK' /\ HoldsOK' /\ \A r \in removing' : r \in Roles' /\ ~role'[r].system
    BY <1>2, RowsLeft
  <2> QED
    BY <1>2, <2>1
<1>4. AccountsOK' /\ RolesOK'
  BY <1>1, <1>3 DEF DirectoryInv, AccountsOK, RolesOK, Standing, Accounts, Roles
<1>5. SchoolsOK' /\ OptionsOK'
  BY <1>1, <1>3, SchoolsSame DEF DirectoryInv, OptionsOK, Accounts
<1>6. CreationOK'
  <2>1. ASSUME NEW s \in Campus PROVE Underway(s)' /\ Established(s)'
    BY <1>1, <1>2, CreationLeft
  <2> QED
    BY <2>1 DEF CreationOK
<1> QED
  BY <1>3, <1>4, <1>5, <1>6 DEF DirectoryInv

LEMMA RemoveSchoolStep ==
  ASSUME DirectoryInv, NEW s \in Campus, RemoveSchool(s)
  PROVE  DirectoryInv'
<1>1. PICK U, R : /\ U = {u \in Accounts : account[u].school = s} /\ R = {r \in Roles : role[r].school = s}
                  /\ Gone(U, R)
  BY DEF RemoveSchool
<1>2. /\ Accounts' = Accounts \ U /\ (\A u \in Account \ U : account'[u] = account[u])
      /\ Roles' = Roles \ R /\ (\A r \in RoleNo \ R : role'[r] = role[r])
      /\ account' \in [Account -> AccountRow \cup {NoAccount}] /\ UniqueLogins(account')
      /\ role' \in [RoleNo -> RoleRow \cup {NoRole}] /\ UniqueCodes(role')
      /\ PeopleOK' /\ HoldsOK' /\ \A r \in removing' : r \in Roles' /\ ~role'[r].system
  BY <1>1, RowsLeft
<1>3. /\ campus' \in [Campus -> Stage] /\ campus'[s] = "NONE" /\ creating'[s] = NoPerson
      /\ \A t \in Campus \ {s} : campus'[t] = campus[t] /\ creating'[t] = creating[t]
      /\ creating' = [t \in Campus |-> creating'[t]] /\ settings' = settings \ {s}
      /\ options' = {o \in options : o[1] # s}
  BY DEF RemoveSchool, DirectoryInv, SchoolsOK, Stage
<1>4. \A x : Standing(x) /\ x # s => Standing(x)'
  BY <1>3 DEF Standing
<1>5. AccountsOK'
  <2>1. \A u \in Accounts' : u \in Accounts /\ account'[u] = account[u] /\ account[u].school # s
    BY <1>1, <1>2 DEF Accounts
  <2>2. (\A u \in Accounts : Standing(account[u].school))'
    BY <1>4, <2>1 DEF DirectoryInv, AccountsOK
  <2> QED
    BY <1>2, <2>2 DEF AccountsOK
<1>6. RolesOK'
  <2>1. \A r \in Roles' : r \in Roles /\ role'[r] = role[r] /\ role[r].school # s
    BY <1>1, <1>2 DEF Roles
  <2>2. (\A r \in Roles : Standing(role[r].school))'
    BY <1>4, <2>1 DEF DirectoryInv, RolesOK
  <2> QED
    BY <1>2, <2>2 DEF RolesOK
<1>7. SchoolsOK'
  BY <1>3 DEF DirectoryInv, SchoolsOK
<1>8. OptionsOK'
  <2> SUFFICES ASSUME NEW o \in options'
      PROVE  /\ o \in Campus \X OptionKey \X (Account \cup {NoPerson})
             /\ campus'[o[1]] # "NONE" /\ <<o[1], o[2], NoPerson>> \in options'
             /\ o[3] # NoPerson => o[3] \in Accounts' /\ account'[o[3]].school = o[1]
    BY DEF OptionsOK
  <2>1. /\ o[1] # s /\ o \in Campus \X OptionKey \X (Account \cup {NoPerson})
        /\ campus[o[1]] # "NONE" /\ <<o[1], o[2], NoPerson>> \in options
        /\ o[3] # NoPerson => o[3] \in Accounts /\ account[o[3]].school = o[1]
    BY <1>3 DEF DirectoryInv, OptionsOK
  <2>2. o[3] # NoPerson => o[3] \in Accounts' /\ account'[o[3]].school = o[1]
    BY <1>1, <1>2, <2>1 DEF Accounts
  <2> QED
    BY <1>3, <2>1, <2>2
<1>9. CreationOK'
  <2>1. Underway(s)' /\ Established(s)'
    BY <1>3 DEF Underway, Established
  <2>2. ASSUME NEW t \in Campus \ {s} PROVE Underway(t)' /\ Established(t)'
    <3>1. UNCHANGED <<campus[t], creating[t]>> /\ \A r \in Roles : r \in R => role[r].school # t \/ ~role[r].system
      BY <1>1, <1>3
    <3> QED
      BY <1>1, <3>1, CreationLeft
  <2> QED
    BY <2>1, <2>2 DEF CreationOK
<1> QED
  BY <1>2, <1>5, <1>6, <1>7, <1>8, <1>9 DEF DirectoryInv

-----------------------------------------------------------------------------
(* The schools that are set up at the beginning have an administrator and two roles each. *)
LEMMA DirectoryStart == DirectoryInit => DirectoryInv
<1> SUFFICES ASSUME DirectoryInit PROVE DirectoryInv
  OBVIOUS
<1> DEFINE First == DOMAIN FirstCampus
<1>1. ASSUME NEW s \in First
      PROVE  /\ s \in Campus /\ s # Platform /\ campus[s] = "DONE" /\ Standing(s) /\ s \in Anywhere
             /\ FirstCampus[s].admin \in Account /\ FirstCampus[s].login \in Login
             /\ FirstCampus[s].role \in RoleNo /\ FirstCampus[s].other \in RoleNo
             /\ FirstCampus[s].role # FirstCampus[s].other
             /\ FirstCampus[s].code \in RoleCode /\ FirstCampus[s].code # "SCHOOL_ADMIN"
  <2>1. s \in Campus /\ s # Platform /\ s \in Anywhere
    BY FirstSchools, DirectoryAssumption DEF Anywhere
  <2>2. campus[s] = "DONE" /\ Standing(s)
    BY <2>1 DEF DirectoryInit, Standing
  <2> QED
    BY <2>1, <2>2, FirstSchools
<1>2. ASSUME NEW s \in First, NEW t \in First, s # t
      PROVE  /\ FirstCampus[s].admin # FirstCampus[t].admin
             /\ {FirstCampus[s].role, FirstCampus[s].other} \cap {FirstCampus[t].role, FirstCampus[t].other} = {}
  BY <1>2, FirstSchools
<1>3. ASSUME NEW u \in Account, account[u] # NoAccount
      PROVE  \E s \in First : /\ FirstCampus[s].admin = u
                             /\ account[u] = NewAccount(s, FirstCampus[s].login, FirstCampus[s].login)
  <2>1. \E s \in First : FirstCampus[s].admin = u
    BY <1>3 DEF DirectoryInit
  <2>2. PICK s : s = CHOOSE x \in First : FirstCampus[x].admin = u
    OBVIOUS
  <2>3. s \in First /\ FirstCampus[s].admin = u
    BY <2>1, <2>2
  <2> QED
    BY <2>1, <2>2, <2>3 DEF DirectoryInit
<1>4. ASSUME NEW s \in First
      PROVE  LET u == FirstCampus[s].admin
             IN u \in Accounts /\ account[u] \in AccountRow /\ account[u].school = s
  <2>1. PICK u \in Account : u = FirstCampus[s].admin
    BY <1>1
  <2>2. PICK t : t = CHOOSE x \in First : FirstCampus[x].admin = u
    OBVIOUS
  <2>3. t = s
    BY <1>2, <2>1, <2>2
  <2>4. account[u] = NewAccount(s, FirstCampus[s].login, FirstCampus[s].login)
    BY <2>1, <2>2, <2>3 DEF DirectoryInit
  <2>5. account[u] \in AccountRow /\ account[u].school = s
    BY <1>1, <2>4, NewAccounts
  <2> QED
    BY <2>1, <2>5, DirectoryAssumption DEF Accounts
<1>5. ASSUME NEW s \in First, NEW r \in {FirstCampus[s].role, FirstCampus[s].other}
      PROVE  /\ r \in Roles /\ role[r] \in RoleRow /\ role[r].school = s
             /\ r = FirstCampus[s].other => role[r].code = FirstCampus[s].code
             /\ r = FirstCampus[s].role => role[r].code = "SCHOOL_ADMIN" /\ role[r].system /\ role[r].grants = "ALL"
  <2>1. PICK t : t = CHOOSE x \in First : r \in {FirstCampus[x].role, FirstCampus[x].other}
    OBVIOUS
  <2>2. t = s
    BY <1>2, <2>1
  <2>3. r \in RoleNo /\ s \in Anywhere
    BY <1>1
  <2>4. role[r] = IF r = FirstCampus[s].other THEN NewRole(s, FirstCampus[s].code)
                  ELSE [NewRole(s, "SCHOOL_ADMIN") EXCEPT !.system = TRUE, !.grants = "ALL"]
    BY <2>1, <2>2, <2>3 DEF DirectoryInit
  <2>5. CASE r = FirstCampus[s].other
    <3>1. role[r] \in RoleRow /\ role[r].school = s /\ role[r].code = FirstCampus[s].code
      BY <1>1, <2>3, <2>4, <2>5, NewRoles
    <3> QED
      BY <1>1, <2>3, <2>5, <3>1, DirectoryAssumption DEF Roles
  <2>6. CASE r # FirstCampus[s].other
    <3>1. PICK new \in RoleRow : new = NewRole(s, "SCHOOL_ADMIN") /\ new.school = s /\ new.code = "SCHOOL_ADMIN"
      BY <2>3, NewRoles, DirectoryAssumption
    <3>2. PICK row : row = [new EXCEPT !.system = TRUE, !.grants = "ALL"]
      OBVIOUS
    <3>3. row \in RoleRow
      BY <3>2 DEF RoleRow
    <3>4. row.school = s /\ row.code = "SCHOOL_ADMIN" /\ row.system /\ row.grants = "ALL"
      BY <3>1, <3>2 DEF RoleRow
    <3>5. role[r] = row
      BY <2>4, <2>6, <3>1, <3>2
    <3> QED
      BY <2>3, <2>6, <3>3, <3>4, <3>5, DirectoryAssumption DEF Roles
  <2> QED
    BY <2>5, <2>6
<1>6. ASSUME NEW r \in Roles PROVE \E s \in First : r \in {FirstCampus[s].role, FirstCampus[s].other}
  BY DEF DirectoryInit, Roles
<1>7. AccountsOK
  <2>1. account \in [Account -> AccountRow \cup {NoAccount}]
    <3>1. account = [u \in Account |-> account[u]]
      BY DEF DirectoryInit
    <3>2. \A u \in Account : account[u] \in AccountRow \cup {NoAccount}
      BY <1>3, <1>4
    <3> QED
      BY <3>1, <3>2
  <2>2. UniqueLogins(account)
    BY <1>3, <1>4 DEF UniqueLogins
  <2>3. \A u \in Accounts : Standing(account[u].school)
    BY <1>1, <1>3, <1>4 DEF Accounts
  <2> QED
    BY <2>1, <2>2, <2>3 DEF AccountsOK
<1>8. RolesOK
  <2>1. role \in [RoleNo -> RoleRow \cup {NoRole}]
    <3>1. role = [r \in RoleNo |-> role[r]]
      BY DEF DirectoryInit
    <3>2. \A r \in RoleNo : role[r] \in RoleRow \cup {NoRole}
      BY <1>5, <1>6 DEF Roles
    <3> QED
      BY <3>1, <3>2
  <2>2. UniqueCodes(role)
    <3> SUFFICES ASSUME NEW r \in Roles, NEW q \in Roles, r # q, role[r].school = role[q].school
        PROVE  role[r].code # role[q].code
      BY DEF UniqueCodes, Roles
    <3>1. PICK s \in First : r \in {FirstCampus[s].role, FirstCampus[s].other}
      BY <1>6
    <3>2. PICK t \in First : q \in {FirstCampus[t].role, FirstCampus[t].other}
      BY <1>6
    <3>3. s = t
      BY <1>5, <3>1, <3>2
    <3> QED
      BY <1>1, <1>5, <3>1, <3>2, <3>3
  <2>3. \A r \in Roles : Standing(role[r].school)
    BY <1>1, <1>5, <1>6
  <2> QED
    BY <2>1, <2>2, <2>3 DEF RolesOK, DirectoryInit
<1>9. PeopleOK
  BY DEF DirectoryInit, PeopleOK
<1>10. HoldsOK
  <2>1. ASSUME NEW s \in First PROVE Fair(<<FirstCampus[s].admin, FirstCampus[s].role>>)
    <3>1. FirstCampus[s].admin \in Accounts /\ account[FirstCampus[s].admin].school = s
      BY <1>4
    <3>2. FirstCampus[s].role \in Roles /\ role[FirstCampus[s].role].school = s
      BY <1>5
    <3> QED
      BY <3>1, <3>2 DEF Fair
  <2>2. \A h \in holds : \E s \in First : h = <<FirstCampus[s].admin, FirstCampus[s].role>>
    BY DEF DirectoryInit
  <2> QED
    BY <2>1, <2>2 DEF HoldsOK
<1>11. SchoolsOK
  BY DEF DirectoryInit, SchoolsOK, Stage
<1>12. OptionsOK
  <2>1. options \subseteq First \X OptionKey \X {NoPerson}
    BY FirstSchools DEF DirectoryInit
  <2> QED
    BY <1>1, <2>1 DEF OptionsOK
<1>13. CreationOK
  <2>1. ASSUME NEW s \in Campus PROVE Underway(s) /\ Established(s)
    <3>1. Underway(s)
      BY DEF Underway, DirectoryInit
    <3>2. Established(s)
      <4>1. campus[s] = "DONE" => s \in First
        BY DEF DirectoryInit
      <4>2. ASSUME s \in First
            PROVE  LET r == FirstCampus[s].role IN
                   r \in RolesOf(s, "SCHOOL_ADMIN") /\ role[r].system /\ role[r].grants = "ALL"
        BY <1>5, <4>2 DEF RolesOf
      <4> QED
        BY <4>1, <4>2 DEF Established
    <3> QED
      BY <3>1, <3>2
  <2> QED
    BY <2>1 DEF CreationOK
<1> QED
  BY <1>7, <1>8, <1>9, <1>10, <1>11, <1>12, <1>13 DEF DirectoryInv

LEMMA CreationSteps ==
  ASSUME DirectoryInv, CreationStep, vanished' = vanished PROVE DirectoryInv'
<1>1. PICK s \in Campus :
        \/ \E id \in Login : CreateSchool(s, id)
        \/ \E u \in Account : CreateAdmin(s, u)
        \/ \E r \in RoleNo : CreateAdminRole(s, r)
        \/ GrantAll(s) \/ AppointAdmin(s) \/ BreakOff(s)
  BY DEF CreationStep
<1> QED
  BY <1>1, CreateSchoolStep, CreateAdminStep, CreateAdminRoleStep, GrantAllStep, AppointAdminStep, BreakOffStep

LEMMA AccountSteps ==
  ASSUME DirectoryInv, AccountStep, vanished' = vanished PROVE DirectoryInv'
<1>1. CASE \E u \in Account, email \in Login, active \in BOOLEAN :
             UpdateUser(u, email, active) \/ \E s \in Campus : CreateUser(s, u, email, active)
  BY <1>1, UpdateUserStep, CreateUserStep
<1>2. CASE \E s \in Anywhere, u \in Account, id \in Identity, temporary \in BOOLEAN :
             Register(s, u, id[1], id[2], temporary)
  BY <1>2, RegisterStep
<1>3. CASE \E s \in Anywhere, u \in Account, id \in Identity, r \in RoleNo, teaching \in BOOLEAN :
             Hire(s, u, id[1], id[2], r, teaching)
  BY <1>3, HireStep
<1>4. CASE \E u \in Account, code \in RoleCode : TakeRole(u, code)
  BY <1>4, TakeRoleStep
<1>5. CASE (\E u \in Account : EndRegister(u)) \/ \E id \in Login, s \in Anywhere : SignIn(id, s)
  BY <1>5, TokenSteps
<1>6. CASE \E u \in Account : ChangePassword(u) \/ Deactivate(u)
  BY <1>6, ChangePasswordStep, DeactivateStep
<1>7. CASE \E u \in Account : \/ CreateTeacher(u) \/ RemoveTeacher(u)
                              \/ \E status \in {"ACTIVE", "INACTIVE"} : UpdateTeacher(u, status)
  BY <1>7, TeacherSteps
<1>8. CASE \E u \in Account, status \in {"ACTIVE", "INACTIVE"}, R \in SUBSET RoleNo : UpdateStaff(u, status, R)
  BY <1>8, UpdateStaffStep
<1> QED
  BY <1>1, <1>2, <1>3, <1>4, <1>5, <1>6, <1>7, <1>8 DEF AccountStep

LEMMA RoleSteps ==
  ASSUME DirectoryInv, RoleStep, vanished' = vanished PROVE DirectoryInv'
BY HoldingSteps, CreateRoleStep, UpdateRoleStep, FindUnusedStep, ReplacePermissionsStep DEF RoleStep

LEMMA SchoolSteps ==
  ASSUME DirectoryInv, SchoolStep, vanished' = vanished PROVE DirectoryInv'
BY SettingSteps, OptionSteps DEF SchoolStep

(* Every step keeps the invariant. *)
LEMMA DirectoryStep == DirectoryInv /\ [DirectoryNext]_directoryVars => DirectoryInv'
<1> SUFFICES ASSUME DirectoryInv, [DirectoryNext]_directoryVars PROVE DirectoryInv'
  OBVIOUS
<1>1. CASE UNCHANGED directoryVars
  <2>1. UNCHANGED <<campus, creating, peopleVars, roleVars, vanished>> /\ UNCHANGED <<settings, options, account, campus>>
    BY <1>1 DEF directoryVars, schoolVars, peopleVars
  <2>2. SchoolsOK' /\ OptionsOK'
    BY <2>1, SchoolsSame, OptionsSame, StaysWhenSame DEF DirectoryInv
  <2> QED
    BY <2>1, <2>2, SettingsStep
<1>2. CASE DirectoryNext
  <2>1. CASE RemovalStep
    BY <2>1, RemoveSchoolStep, RemoveUserStep, RemoveRoleStep DEF RemovalStep
  <2>2. CASE (CreationStep \/ SchoolStep \/ AccountStep \/ RoleStep) /\ vanished' = vanished
    BY <2>2, CreationSteps, SchoolSteps, AccountSteps, RoleSteps
  <2> QED
    BY <1>2, <2>1, <2>2 DEF DirectoryNext
<1> QED
  BY <1>1, <1>2

(* The invariant holds always. *)
LEMMA DirectoryStays == DirectorySpec => []DirectoryInv
BY DirectoryStart, DirectoryStep, PTL DEF DirectorySpec

(* SchoolsService, AuthService, UsersService, RolesService and StaffService, whose statements *)
(* may come in any order: nobody of a school holds a role of another school, and a school    *)
(* whose creation came to its end has a system role SCHOOL_ADMIN with every permission.      *)
THEOREM SchoolsNeverLoseTheirRoles == DirectorySpec => []SchoolsKeepRoles
BY DirectoryStays, DirectoryInvariants, PTL

(* The rows of accounts, roles, staff, settings and options stay well formed and unique, and *)
(* each stands on rows that exist, although schools, accounts and roles are removed.         *)
THEOREM DirectoryWellFormed == DirectorySpec => []DirectoryTypeOK
BY DirectoryStays, DirectoryInvariants, PTL

-----------------------------------------------------------------------------
(* The parts of the school year share no variable: whichever of them moves, each of them   *)
(* behaves as its own specification says.                                                   *)
THEOREM PartsOfTheYear == YearSpec => SeatsSpec /\ PipelineSpec /\ DirectorySpec /\ ParentsSpec
<1> DEFINE vars == <<part, seatsVars, pipelineVars, directoryVars, parentVars>>
<1>1. YearInit => SeatsInit /\ PipelineInit /\ DirectoryInit /\ ParentsInit
  BY DEF YearInit
<1>2. [YearNext]_vars => /\ [SeatsNext]_seatsVars /\ [PipelineNext]_pipelineVars
                         /\ [DirectoryNext]_directoryVars /\ [ParentsNext]_parentVars
  BY DEF YearNext, SeatsMove, PipelineMove, DirectoryMove, ParentsMove
<1> QED
  BY <1>1, <1>2, PTL DEF YearSpec, SeatsSpec, PipelineSpec, DirectorySpec, ParentsSpec

(* So all their rows are well formed together. *)
THEOREM YearWellFormed == YearSpec => []YearTypeOK
<1>1. SeatsTypeOK /\ PipelineTypeOK /\ DirectoryTypeOK /\ ParentsTypeOK => YearTypeOK
  BY DEF YearTypeOK
<1> QED
  BY <1>1, PartsOfTheYear, SeatsWellFormed, ApplicationsWellFormed, DirectoryWellFormed, ParentsWellFormed, PTL
=============================================================================
