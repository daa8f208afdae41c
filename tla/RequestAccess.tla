---------------------------- MODULE RequestAccess ----------------------------
(***************************************************************************)
(* What a request goes through before a handler serves it: the token, the   *)
(* account behind it, and the rights its route asks for.  Each guard reads  *)
(* the database with a query of its own, and the administrators change      *)
(* accounts, roles and who holds them in between.  A token carries nothing  *)
(* but the account, and stays valid until it expires.                       *)
(*                                                                          *)
(* At most MaxOnTheWay requests are on their way at a time, one of a caller. *)
(* The expiry of a token (seven days after sign-in) is a step of its own,   *)
(* and so is every edit by an administrator.  Of names and codes the model  *)
(* keeps what the guards compare: a name is its text in lower case.         *)
(***************************************************************************)
EXTENDS Naturals, FiniteSets, TLC, AccessRoutes

CONSTANTS
    Caller, Role,
    HomeOf,     \* the school of each account, or NoHome for a platform account
    RoleAt,     \* the school of each role, or NoHome
    SystemRole, \* roles the platform created: their codes stay
    RoleName, RoleCode,
    NoHome,
    School,     \* the schools a path may name
    Asked,      \* the routes that are called
    Grantable,  \* the sets of rights a role may be given
    FirstName, FirstCode, FirstGrants, FirstHeld, FirstMustChange,
    NoRoute,
    MaxOnTheWay, MaxAccessEdits

ASSUME AskedOfApi == /\ Asked \subseteq Api /\ NoRoute \notin Api
                     /\ \A r \in Asked : r.guard # "NONE"
ASSUME RightsAssumption == /\ FirstGrants \in [Role -> SUBSET Catalogue] /\ Grantable \subseteq SUBSET Catalogue
                           /\ FirstHeld \subseteq Caller \X Role /\ FirstMustChange \subseteq Caller
                           /\ FirstName \in [Role -> RoleName] /\ FirstCode \in [Role -> RoleCode] /\ SystemRole \subseteq Role

VARIABLES
    activeCallers, \* accounts whose status is ACTIVE
    mustChange,    \* accounts that must change their password first
    roleActive, grants, held,   \* roles in force, what they grant, who holds them
    roleName, roleCode,
    signedIn,      \* callers with a token that has not expired
    asking,        \* the request of each caller, and the names JwtAuthGuard gave its roles
    moments,       \* history: what held at some moment since the request was sent
    answered,      \* history: the last request that was served, until the next one is sent
    accessEdits

rightsVars == <<activeCallers, mustChange, roleActive, grants, held, roleName, roleCode>>
accessVars == <<rightsVars, signedIn, asking, moments, answered, accessEdits>>

-----------------------------------------------------------------------------
HeldBy(c) == {r \in Role : <<c, r>> \in held}
Granted(roles) == UNION {grants[r] : r \in roles}
Covers(roles, need) == \E rights \in need : rights \subseteq Granted(roles)
HasCode(roles, codes) == \E r \in roles : roleCode[r] \in codes
Administrators == {"SCHOOL_ADMIN", "SUPER_ADMIN"}

(* Older rights that stand for the ones of the daily operations. *)
Legacy ==
  [right \in {"staff.attendance.view"} |-> {"ATTENDANCE_VIEW"}]
  @@ [right \in {"staff.attendance.mark"} |-> {"ATTENDANCE_MARK", "STAFF_UPDATE"}]
  @@ [right \in {"staff.attendance.override", "staff.attendance.manage"} |-> {"ATTENDANCE_UPDATE", "STAFF_UPDATE"}]
  @@ [right \in {"timetable.substitution.view"} |-> {"ATTENDANCE_VIEW", "STAFF_VIEW"}]
  @@ [right \in {"timetable.substitution.generate", "timetable.substitution.approve",
                 "timetable.substitution.cancel"} |-> {"TIMETABLE_UPDATE", "STAFF_VIEW"}]
InPlaceOf(right, granted) == right \in DOMAIN Legacy /\ Legacy[right] \subseteq granted

(* The roles that count for the admissions and the operations of the caller's school. *)
OfHome(c) == {r \in HeldBy(c) : r \in roleActive /\ RoleAt[r] = HomeOf[c]}
OfHomeOrPlatform(c) == {r \in HeldBy(c) : r \in roleActive /\ RoleAt[r] \in {HomeOf[c], NoHome}}

(* What JwtAuthGuard calls the roles of an account: by name and by code.  Of a code only  *)
(* the one matters that RolesGuard asks for.                                               *)
Text(code) == IF code = "SUPER_ADMIN" THEN "super-admin" ELSE code
Texts(roles) == UNION {{roleName[r], Text(roleCode[r])} : r \in roles}

(* JwtAuthGuard looks the account up; without a new password it lets pass what names the  *)
(* address of one of two routes: a request to them, and any other whose address, with what *)
(* follows the path, contains it.                                                          *)
WithoutNewPassword(route) == route.controller = "auth" /\ route.handler \in {"changePassword", "me"}
Named(route) == IF WithoutNewPassword(route) THEN {TRUE} ELSE BOOLEAN
Known_ByToken(c, req) == c \in mustChange => req.exempt
Known(c, req) == c \in activeCallers /\ (c \in mustChange => req.exempt)

(* RolesGuard asks what JwtAuthGuard called the roles; the other guards ask the database. *)
RolesGuard(req) == "super-admin" \in req.roles
PermissionsGuard(c, req) ==
  /\ req.route.inPath => (HomeOf[c] = NoHome \/ req.path = HomeOf[c])
  /\ HasCode(HeldBy(c), Administrators) \/ Covers(HeldBy(c), req.route.need)
AdmissionsSchoolGuard(c, req) ==
  /\ HomeOf[c] # NoHome /\ c \in activeCallers /\ OfHome(c) # {}
  /\ HasCode(OfHome(c), {"SCHOOL_ADMIN"}) \/ Covers(OfHome(c), req.route.need)
OperationsAccess(c, req) ==
  /\ HomeOf[c] # NoHome /\ c \in activeCallers
  /\ \/ HasCode(OfHomeOrPlatform(c), Administrators)
     \/ \E rights \in req.route.need : \A x \in rights :
          x \in Granted(OfHomeOrPlatform(c)) \/ InPlaceOf(x, Granted(OfHomeOrPlatform(c)))
Admits(c, req) ==
  \/ req.route.guard = "TOKEN"
  \/ req.route.guard = "ROLE" /\ RolesGuard(req)
  \/ req.route.guard = "PERMISSION" /\ PermissionsGuard(c, req)
  \/ req.route.guard = "SCHOOL" /\ AdmissionsSchoolGuard(c, req)
  \/ req.route.guard = "OPERATIONS" /\ OperationsAccess(c, req)

(* What holds of a caller now: the account may act, the roles it holds suffice, and the   *)
(* account may act and its roles in force in its school suffice, at one and the same time. *)
Suffice(roles, route) ==
  \/ IF route.guard = "ROLE" THEN "super-admin" \in Texts(roles) ELSE HasCode(roles, Administrators)
  \/ \E rights \in route.need : \A x \in rights :
       x \in Granted(roles) \/ (route.guard = "OPERATIONS" /\ InPlaceOf(x, Granted(roles)))
Moments == {"known", "able", "fit"}
Nowadays(c, req) ==
     {m \in {"known"} : c \in activeCallers /\ (c \in mustChange => req.exempt)}
\cup {m \in {"able"} : Suffice(HeldBy(c), req.route)}
\cup {m \in {"fit"} : c \in activeCallers /\ Suffice(OfHomeOrPlatform(c), req.route)}

NoAsking == [phase |-> "IDLE", route |-> NoRoute, path |-> NoHome, exempt |-> FALSE, roles |-> {}]
NoAnswer == [route |-> NoRoute, own |-> TRUE, since |-> {}]

AccessInit ==
  /\ activeCallers = Caller /\ mustChange = FirstMustChange
  /\ roleActive = Role /\ grants = FirstGrants /\ held = FirstHeld
  /\ roleName = FirstName /\ roleCode = FirstCode
  /\ signedIn = {} /\ asking = [c \in Caller |-> NoAsking]
  /\ moments = [c \in Caller |-> {}] /\ answered = NoAnswer /\ accessEdits = 0

-----------------------------------------------------------------------------
(* AuthService.login, and the end of the token's life. *)
SignIn(c) ==
  /\ c \in activeCallers /\ c \notin signedIn /\ signedIn' = signedIn \cup {c}
  /\ UNCHANGED <<rightsVars, asking, moments, answered, accessEdits>>
TokenExpires(c) ==
  /\ c \in signedIn /\ signedIn' = signedIn \ {c}
  /\ UNCHANGED <<rightsVars, asking, moments, answered, accessEdits>>

Ask(c) ==
  /\ c \in signedIn /\ asking[c].phase = "IDLE" /\ Cardinality({d \in Caller : asking[d].phase # "IDLE"}) < MaxOnTheWay
  /\ \E route \in Asked : \E path \in (IF route.inPath THEN School ELSE {NoHome}), exempt \in Named(route) :
       LET req == [phase |-> "SENT", route |-> route, path |-> path, exempt |-> exempt, roles |-> {}] IN
       asking' = [asking EXCEPT ![c] = req] /\ moments' = [moments EXCEPT ![c] = Nowadays(c, req)]
  /\ answered' = NoAnswer /\ UNCHANGED <<rightsVars, signedIn, accessEdits>>

Dismiss(c) == asking' = [asking EXCEPT ![c] = NoAsking] /\ moments' = [moments EXCEPT ![c] = {}]

(* JwtAuthGuard.canActivate: the account and its roles are read by one query, and the     *)
(* roles are called by the names and codes they have now.                                  *)
Authenticate(c) ==
  /\ asking[c].phase = "SENT"
  /\ IF c \in signedIn /\ Known(c, asking[c])
     THEN /\ asking' = [asking EXCEPT ![c] = [asking[c] EXCEPT !.phase = "KNOWN", !.roles = Texts(HeldBy(c))]]
          /\ moments' = moments
     ELSE Dismiss(c)
  /\ UNCHANGED <<rightsVars, signedIn, answered, accessEdits>>

(* The second guard, or the question of the service, and then the handler.  Of the        *)
(* handlers only AuthService.changePassword concerns the guards.                           *)
Serve(c) ==
  /\ asking[c].phase = "KNOWN" /\ Admits(c, asking[c])
  /\ answered' = [route |-> asking[c].route, since |-> moments[c],
                  own |-> (asking[c].route.inPath => HomeOf[c] \in {NoHome, asking[c].path})]
  /\ mustChange' = IF asking[c].route.handler = "changePassword" /\ c \in activeCallers THEN mustChange \ {c} ELSE mustChange
  /\ Dismiss(c)
  /\ UNCHANGED <<activeCallers, roleActive, grants, held, roleName, roleCode, signedIn, accessEdits>>
TurnAway(c) ==
  /\ asking[c].phase = "KNOWN" /\ ~Admits(c, asking[c]) /\ Dismiss(c)
  /\ UNCHANGED <<rightsVars, signedIn, answered, accessEdits>>

-----------------------------------------------------------------------------
(* The administrators: each edit is one statement or one transaction. *)
Edited ==
  /\ accessEdits < MaxAccessEdits /\ accessEdits' = accessEdits + 1
  /\ UNCHANGED <<mustChange, signedIn, asking, answered>>
  /\ moments' = [c \in Caller |-> IF asking[c].phase = "IDLE" THEN moments[c]
                                ELSE moments[c] \cup Nowadays(c, asking[c])']

(* UsersService.update and remove, StaffService.update and deactivate. *)
SetAccountStatus(c) ==
  /\ HomeOf[c] # NoHome
  /\ activeCallers' = (IF c \in activeCallers THEN activeCallers \ {c} ELSE activeCallers \cup {c})
  /\ UNCHANGED <<roleActive, grants, held, roleName, roleCode>> /\ Edited
(* RolesService.update, for a role of the school: another name, another code unless the   *)
(* platform created the role or the school has the code already, in force or not.          *)
UpdateRole(r) ==
  /\ RoleAt[r] # NoHome
  /\ \E name \in RoleName, code \in RoleCode, inForce \in BOOLEAN :
       /\ r \in SystemRole => code = roleCode[r]
       /\ \A other \in Role \ {r} : RoleAt[other] = RoleAt[r] => roleCode[other] # code
       /\ <<name, code, inForce>> # <<roleName[r], roleCode[r], r \in roleActive>>
       /\ roleName' = [roleName EXCEPT ![r] = name] /\ roleCode' = [roleCode EXCEPT ![r] = code]
       /\ roleActive' = IF inForce THEN roleActive \cup {r} ELSE roleActive \ {r}
  /\ UNCHANGED <<activeCallers, grants, held>> /\ Edited
(* RolesService.replacePermissions. *)
ReplaceGrants(r) ==
  /\ RoleAt[r] # NoHome /\ ~(r \in SystemRole /\ roleCode[r] = "SCHOOL_ADMIN")
  /\ \E g \in Grantable : g # grants[r] /\ grants' = [grants EXCEPT ![r] = g]
  /\ UNCHANGED <<activeCallers, roleActive, held, roleName, roleCode>> /\ Edited
(* UsersService.assignRole and removeRole, and the one role StaffService.update leaves. *)
OwnRole(c, r) == HomeOf[c] # NoHome /\ RoleAt[r] = HomeOf[c]
GiveRole(c, r) ==
  /\ OwnRole(c, r) /\ <<c, r>> \notin held /\ held' = held \cup {<<c, r>>}
  /\ UNCHANGED <<activeCallers, roleActive, grants, roleName, roleCode>> /\ Edited
TakeRole(c, r) ==
  /\ HomeOf[c] # NoHome /\ <<c, r>> \in held /\ held' = held \ {<<c, r>>}
  /\ UNCHANGED <<activeCallers, roleActive, grants, roleName, roleCode>> /\ Edited
ReplaceRole(c, r) ==
  /\ OwnRole(c, r) /\ r \in roleActive
  /\ held' = {h \in held : h[1] = c => RoleAt[h[2]] # HomeOf[c]} \cup {<<c, r>>}
  /\ UNCHANGED <<activeCallers, roleActive, grants, roleName, roleCode>> /\ Edited

AccessNext ==
  \/ \E c \in Caller : SignIn(c) \/ TokenExpires(c) \/ Ask(c) \/ Authenticate(c) \/ Serve(c) \/ TurnAway(c)
                      \/ SetAccountStatus(c) \/ \E r \in Role : GiveRole(c, r) \/ TakeRole(c, r) \/ ReplaceRole(c, r)
  \/ \E r \in Role : UpdateRole(r) \/ ReplaceGrants(r)
AccessSpec == AccessInit /\ [][AccessNext]_accessVars

-----------------------------------------------------------------------------
RoleTexts == RoleName \cup {Text(code) : code \in RoleCode}
AccessTypeOK ==
  /\ activeCallers \subseteq Caller /\ mustChange \subseteq Caller /\ signedIn \subseteq Caller
  /\ roleActive \subseteq Role /\ grants \in [Role -> SUBSET Catalogue] /\ held \subseteq Caller \X Role
  /\ roleName \in [Role -> RoleName] /\ roleCode \in [Role -> RoleCode]
  /\ asking \in [Caller -> [phase : {"IDLE", "SENT", "KNOWN"}, route : Asked \cup {NoRoute},
                            path : School \cup {NoHome}, exempt : BOOLEAN, roles : SUBSET RoleTexts]]
  /\ moments \in [Caller -> SUBSET Moments]
  /\ answered \in [route : Asked \cup {NoRoute}, own : BOOLEAN, since : SUBSET Moments]

(* A request is served on rights of its own time, however the administrators' edits fall  *)
(* between the token, the guards and the service: at some moment after it was sent the    *)
(* account was active, and either free of a pending change of password or asking by an     *)
(* address JwtAuthGuard exempts from it, and at some moment its roles sufficed, as they    *)
(* were called then; a route of the admissions, the assessments or the daily operations    *)
(* was served to an account for which both held at one moment, through roles in force in   *)
(* its own school; and a path that names a school named the caller's.  What a token was    *)
(* given for, what an earlier request found and what has been taken away serve nobody.     *)
RightsAreCurrent ==
  answered.route # NoRoute =>
    /\ answered.own /\ "known" \in answered.since
    /\ answered.route.guard \in {"PERMISSION", "ROLE"} => "able" \in answered.since
    /\ answered.route.guard \in {"SCHOOL", "OPERATIONS"} => "fit" \in answered.since
=============================================================================
