--------------------------- MODULE SchoolDirectory ---------------------------
(***************************************************************************)
(* Schools, their accounts, roles and staff.  A school is created by a       *)
(* chain of statements without a transaction, any of which may be the last; *)
(* roles are looked up, checked and deleted by statements of their own, so  *)
(* other requests come between.  Foreign keys cascade: a school's rows, an  *)
(* account's rows and a role's grants go with it.                           *)
(*                                                                          *)
(* The school of the platform's own accounts is Platform.  An email or a    *)
(* user name is a Login; passwords are temporary or chosen.  Names,         *)
(* addresses and the values of options are left out.                        *)
(***************************************************************************)
EXTENDS Naturals, FiniteSets, FiniteSetsExt

CONSTANTS
    Campus, Platform, Account, Login, RoleNo, RoleCode, OptionKey,
    Identity,     \* emails and user names that are typed in together
    NoAccount, NoRole, NoName, NoPerson,
    FirstCampus,  \* schools that are set up at the beginning: administrator, system role, another role
    FirstOptions, \* their profile options
    MaxDirectorySteps  \* bound on steps besides the creation of schools

Anywhere == Campus \cup {Platform}
AccountRow == [school : Anywhere, email : Login, username : Login \cup {NoName}, active : BOOLEAN, temporary : BOOLEAN]
RoleRow == [school : Anywhere, code : RoleCode, system : BOOLEAN, active : BOOLEAN, grants : {"NONE", "SOME", "ALL"}]
Stage == {"NONE", "BARE", "ADMIN", "ROLE", "GRANTED", "DONE"}
ASSUME DirectoryAssumption ==
  /\ Platform \notin Campus /\ NoAccount \notin AccountRow /\ NoRole \notin RoleRow /\ NoPerson \notin Account
  /\ "SCHOOL_ADMIN" \in RoleCode /\ Identity \subseteq Login \X (Login \cup {NoName})
ASSUME FirstSchools ==
  /\ DOMAIN FirstCampus \subseteq Campus
  /\ \A s \in DOMAIN FirstCampus : LET f == FirstCampus[s] IN
       /\ f.admin \in Account /\ f.login \in Login /\ f.role \in RoleNo /\ f.other \in RoleNo \ {f.role}
       /\ f.code \in RoleCode \ {"SCHOOL_ADMIN"}
       /\ \A t \in (DOMAIN FirstCampus) \ {s} : LET g == FirstCampus[t] IN
            f.admin # g.admin /\ {f.role, f.other} \cap {g.role, g.other} = {}
  /\ FirstOptions \subseteq (DOMAIN FirstCampus) \X OptionKey \X {NoPerson}

VARIABLES
    campus,      \* how far each school was created
    creating,    \* the account and role of the creation that is under way
    account,     \* rows of User
    role,        \* rows of Role
    holds,       \* rows of UserRole
    staff,       \* status of the rows of Staff
    teacher,     \* status of the rows of Teacher
    settings,    \* schools with a row of SchoolSetting
    options,     \* rows of SchoolProfileOption and of UserSchoolProfileOption
    registering, \* accounts whose registration is under way
    signedIn,    \* accounts with a token
    removing,    \* roles that were found unused and are about to be deleted
    vanished,    \* identifiers of deleted accounts and roles, which nothing else will get
    directorySteps

schoolVars == <<campus, creating, settings, options>>
peopleVars == <<account, staff, teacher, registering, signedIn>>
roleVars == <<role, holds, removing>>
directoryVars == <<schoolVars, peopleVars, roleVars, vanished, directorySteps>>

-----------------------------------------------------------------------------
Accounts == {u \in Account : account[u] # NoAccount}
Roles == {r \in RoleNo : role[r] # NoRole}
RolesOf(s, code) == {r \in Roles : role[r].school = s /\ role[r].code = code}
Standing(s) == s \in {Platform} \cup {c \in Campus : campus[c] # "NONE"}

(* The unique indexes on users and roles, and the accounts an identifier may mean. *)
UniqueLogins(acc) == \A u, v \in Account : u # v /\ NoAccount \notin {acc[u], acc[v]} /\ acc[u].school = acc[v].school
  => acc[u].email # acc[v].email /\ (acc[u].username = acc[v].username => acc[u].username = NoName)
UniqueCodes(rol) == \A r, q \in RoleNo : r # q /\ NoRole \notin {rol[r], rol[q]} /\ rol[r].school = rol[q].school /\ rol[r].school # Platform
  => rol[r].code # rol[q].code
Named(id) == {u \in Accounts : id \in {account[u].email, account[u].username}}
Found(id, s) == {u \in Named(id) : account[u].active /\ (s = Platform \/ account[u].school = s)}

NewAccount(s, email, username) == [school |-> s, email |-> email, username |-> username, active |-> TRUE, temporary |-> TRUE]
NewRole(s, code) == [school |-> s, code |-> code, system |-> FALSE, active |-> TRUE, grants |-> "NONE"]
NewCode == {r \in RoleNo \ vanished : role[r] = NoRole}
Opened(u, row) == u \notin Accounts \cup vanished /\ account' = [account EXCEPT ![u] = row] /\ UniqueLogins(account')
Held(u, r) == holds' = holds \cup {<<u, r>>}

(* Rows go with the accounts and roles they belong to. *)
Gone(U, R) ==
  /\ account' = [u \in Account |-> IF u \in U THEN NoAccount ELSE account[u]]
  /\ role' = [r \in RoleNo |-> IF r \in R THEN NoRole ELSE role[r]]
  /\ holds' = {h \in holds : h[1] \notin U /\ h[2] \notin R}
  /\ staff' = [u \in Account |-> IF u \in U THEN "NONE" ELSE staff[u]]
  /\ teacher' = [u \in Account |-> IF u \in U THEN "NONE" ELSE teacher[u]]
  /\ signedIn' = signedIn \ U /\ registering' = registering \ U /\ removing' = removing \ R /\ vanished' = vanished \cup U \cup R

DirectoryInit ==
  /\ campus = [s \in Campus |-> IF s \in DOMAIN FirstCampus THEN "DONE" ELSE "NONE"]
  /\ creating = [s \in Campus |-> NoPerson]
  /\ account = [u \in Account |-> IF \E s \in DOMAIN FirstCampus : FirstCampus[s].admin = u
       THEN LET s == CHOOSE s \in DOMAIN FirstCampus : FirstCampus[s].admin = u
            IN NewAccount(s, FirstCampus[s].login, FirstCampus[s].login) ELSE NoAccount]
  /\ role = [r \in RoleNo |-> IF \E s \in DOMAIN FirstCampus : r \in {FirstCampus[s].role, FirstCampus[s].other}
       THEN LET s == CHOOSE s \in DOMAIN FirstCampus : r \in {FirstCampus[s].role, FirstCampus[s].other}
            IN IF r = FirstCampus[s].other THEN NewRole(s, FirstCampus[s].code)
               ELSE [NewRole(s, "SCHOOL_ADMIN") EXCEPT !.system = TRUE, !.grants = "ALL"] ELSE NoRole]
  /\ holds = {<<FirstCampus[s].admin, FirstCampus[s].role>> : s \in DOMAIN FirstCampus}
  /\ staff = [u \in Account |-> "NONE"] /\ teacher = [u \in Account |-> "NONE"]
  /\ settings = {} /\ options = FirstOptions /\ signedIn = {} /\ registering = {} /\ removing = {} /\ vanished = {} /\ directorySteps = 0

-----------------------------------------------------------------------------
(* SchoolsService.create: the school, its administrator, the role, the role's permissions *)
(* and the administrator's hold of it, one statement after the other.                     *)
CreateSchool(s, login) ==
  /\ campus[s] = "NONE" /\ {u \in Accounts : account[u].email = login} = {}
  /\ campus' = [campus EXCEPT ![s] = "BARE"] /\ creating' = [creating EXCEPT ![s] = [login |-> login, admin |-> NoPerson, role |-> NoPerson]]
  /\ UNCHANGED <<settings, options, peopleVars, roleVars>>

Reached_Always(s, from, to) == campus[s] # "NONE" /\ creating[s] # NoPerson /\ campus' = [campus EXCEPT ![s] = to]
Reached(s, from, to) == campus[s] = from /\ creating[s] # NoPerson /\ campus' = [campus EXCEPT ![s] = to]
CreateAdmin(s, u) ==
  /\ Reached(s, "BARE", "ADMIN") /\ Opened(u, NewAccount(s, creating[s].login, creating[s].login))
  /\ creating' = [creating EXCEPT ![s].admin = u] /\ UNCHANGED <<settings, options, staff, teacher, registering, signedIn, roleVars>>
CreateAdminRole(s, r) ==
  /\ Reached(s, "ADMIN", "ROLE") /\ r \in NewCode
  /\ role' = [role EXCEPT ![r] = [NewRole(s, "SCHOOL_ADMIN") EXCEPT !.system = TRUE]] /\ UniqueCodes(role')
  /\ creating' = [creating EXCEPT ![s].role = r] /\ UNCHANGED <<settings, options, peopleVars, holds, removing>>
GrantAll(s) ==
  /\ Reached(s, "ROLE", "GRANTED") /\ creating[s].role \in Roles /\ role' = [role EXCEPT ![creating[s].role].grants = "ALL"]
  /\ UNCHANGED <<creating, settings, options, peopleVars, holds, removing>>
AppointAdmin(s) ==
  /\ Reached(s, "GRANTED", "DONE") /\ creating[s].admin \in Accounts /\ creating[s].role \in Roles
  /\ Held(creating[s].admin, creating[s].role) /\ creating' = [creating EXCEPT ![s] = NoPerson]
  /\ UNCHANGED <<settings, options, peopleVars, role, removing>>
BreakOff(s) == creating[s] # NoPerson /\ creating' = [creating EXCEPT ![s] = NoPerson]
               /\ UNCHANGED <<campus, settings, options, peopleVars, roleVars>>

RemoveSchool(s) ==
  /\ campus[s] # "NONE" /\ campus' = [campus EXCEPT ![s] = "NONE"] /\ creating' = [creating EXCEPT ![s] = NoPerson]
  /\ settings' = settings \ {s} /\ options' = {o \in options : o[1] # s}
  /\ Gone({u \in Accounts : account[u].school = s}, {r \in Roles : role[r].school = s})

(* Settings and profile options: one row each, options with the users' values. *)
KeepSettings(s) == campus[s] # "NONE" /\ settings' = settings \cup {s} /\ UNCHANGED <<campus, creating, options, peopleVars, roleVars>>
DropSettings(s) == s \in settings /\ settings' = settings \ {s} /\ UNCHANGED <<campus, creating, options, peopleVars, roleVars>>
SaveOption(s, k) == campus[s] # "NONE" /\ options' = options \cup {<<s, k, NoPerson>>}
                    /\ UNCHANGED <<campus, creating, settings, peopleVars, roleVars>>
RenameOption(s, k, n) == /\ <<s, k, NoPerson>> \in options /\ <<s, n, NoPerson>> \notin options
  /\ options' = {IF o[1] = s /\ o[2] = k THEN <<s, n, o[3]>> ELSE o : o \in options}
  /\ UNCHANGED <<campus, creating, settings, peopleVars, roleVars>>
DropOption(s, k) == <<s, k, NoPerson>> \in options /\ options' = {o \in options : o[1] # s \/ o[2] # k}
                    /\ UNCHANGED <<campus, creating, settings, peopleVars, roleVars>>
AnswerOption(s, k, u) == /\ u \in Accounts /\ account[u].school = s /\ <<s, k, NoPerson>> \in options
  /\ options' = options \cup {<<s, k, u>>} /\ UNCHANGED <<campus, creating, settings, peopleVars, roleVars>>
ClearAnswer(s, k, u) == <<s, k, u>> \in options /\ u # NoPerson /\ options' = options \ {<<s, k, u>>}
                        /\ UNCHANGED <<campus, creating, settings, peopleVars, roleVars>>

-----------------------------------------------------------------------------
(* AuthService: registration creates the account, then finds or creates the role and lets *)
(* it be held, each by its own statement; the token is returned at the end.               *)
Register(s, u, email, username, temporary) ==
  /\ Standing(s) /\ {v \in Accounts : account[v].school = s /\ account[v].email = email} = {}
  /\ Opened(u, [NewAccount(s, email, username) EXCEPT !.temporary = temporary])
  /\ registering' = registering \cup {u} /\ UNCHANGED <<schoolVars, staff, teacher, signedIn, roleVars>>
TakeRole(u, code) ==
  /\ u \in registering
  /\ LET s == account[u].school IN
       IF RolesOf(s, code) # {} THEN UNCHANGED role /\ \E r \in RolesOf(s, code) : Held(u, r)
       ELSE \E r \in NewCode : Held(u, r) /\ role' = [role EXCEPT ![r] = [NewRole(s, code) EXCEPT !.system = (code = "SCHOOL_ADMIN")]]
  /\ UNCHANGED <<schoolVars, peopleVars, removing>>
EndRegister(u) == /\ u \in registering /\ registering' = registering \ {u} /\ signedIn' = signedIn \cup {u}
                  /\ UNCHANGED <<schoolVars, account, staff, teacher, roleVars>>

SignIn(id, s) == /\ Cardinality(Found(id, s)) = 1 /\ signedIn' = signedIn \cup Found(id, s)
                 /\ UNCHANGED <<schoolVars, account, staff, teacher, registering, roleVars>>
ChangePassword(u) == /\ u \in signedIn /\ account[u].active /\ account' = [account EXCEPT ![u].temporary = FALSE]
                     /\ UNCHANGED <<schoolVars, staff, teacher, registering, signedIn, roleVars>>

(* UsersService: a school's accounts, and the roles they hold. *)
CreateUser(s, u, email, active) ==
  /\ campus[s] # "NONE" /\ Opened(u, [NewAccount(s, email, NoName) EXCEPT !.active = active])
  /\ UNCHANGED <<schoolVars, staff, teacher, registering, signedIn, roleVars>>
UpdateUser(u, email, active) ==
  /\ u \in Accounts /\ account[u].school # Platform
  /\ account' = [account EXCEPT ![u].email = email, ![u].active = active] /\ UniqueLogins(account')
  /\ UNCHANGED <<schoolVars, staff, teacher, registering, signedIn, roleVars>>
RemoveUser(u) == /\ u \in Accounts /\ account[u].school # Platform /\ Gone({u}, {})
                 /\ options' = {o \in options : o[3] # u} /\ UNCHANGED <<campus, creating, settings>>

Assignable_Anywhere(u, r) == u \in Accounts /\ r \in Roles
Assignable(u, r) == u \in Accounts /\ r \in Roles /\ account[u].school # Platform /\ role[r].school = account[u].school
AssignRole(u, r) == Assignable(u, r) /\ Held(u, r) /\ UNCHANGED <<schoolVars, peopleVars, role, removing>>
TakeAway(u, r) == <<u, r>> \in holds /\ holds' = holds \ {<<u, r>>} /\ UNCHANGED <<schoolVars, peopleVars, role, removing>>

(* RolesService: a role in use or of the system is not deleted, but the count of its *)
(* holders and the deletion are two statements.                                      *)
CreateRole(s, r, code) ==
  /\ campus[s] # "NONE" /\ RolesOf(s, code) = {} /\ r \in NewCode /\ role' = [role EXCEPT ![r] = NewRole(s, code)]
  /\ UNCHANGED <<schoolVars, peopleVars, holds, removing>>
UpdateRole(r, code, active) ==
  /\ r \in Roles /\ role[r].school # Platform /\ (role[r].system => code = role[r].code)
  /\ role' = [role EXCEPT ![r].code = code, ![r].active = active] /\ UniqueCodes(role')
  /\ UNCHANGED <<schoolVars, peopleVars, holds, removing>>
ReplacePermissions(r, grants) ==
  /\ r \in Roles /\ role[r].school # Platform /\ ~(role[r].system /\ role[r].code = "SCHOOL_ADMIN")
  /\ role' = [role EXCEPT ![r].grants = grants] /\ UNCHANGED <<schoolVars, peopleVars, holds, removing>>
FindUnused(r) == /\ r \in Roles /\ ~role[r].system /\ {h \in holds : h[2] = r} = {} /\ removing' = removing \cup {r}
                 /\ UNCHANGED <<schoolVars, peopleVars, role, holds>>
RemoveRole(r) == r \in removing /\ Gone({}, {r}) /\ UNCHANGED schoolVars

(* StaffService: account, staff row, role and, for teaching staff, teacher row together. *)
Hire(s, u, email, username, r, teaching) ==
  /\ Standing(s) /\ r \in Roles /\ role[r].school = s /\ role[r].active
  /\ Opened(u, NewAccount(s, email, username)) /\ Held(u, r)
  /\ staff' = [staff EXCEPT ![u] = "ACTIVE"] /\ teacher' = [teacher EXCEPT ![u] = IF teaching THEN "ACTIVE" ELSE "NONE"]
  /\ UNCHANGED <<schoolVars, registering, signedIn, role, removing>>

Statuses(u, status) ==
  /\ staff[u] # "NONE"
  /\ account' = [account EXCEPT ![u].active = (status = "ACTIVE")] /\ staff' = [staff EXCEPT ![u] = status]
  /\ teacher' = [teacher EXCEPT ![u] = IF @ = "NONE" THEN @ ELSE status]
UpdateStaff(u, status, R) ==
  /\ Statuses(u, status) /\ Cardinality(R) <= 1 /\ R \subseteq Roles
  /\ \A r \in R : role[r].school = account[u].school /\ role[r].active
  /\ holds' = IF R = {} THEN holds ELSE {h \in holds : h[1] # u} \cup ({u} \X R)
  /\ UNCHANGED <<schoolVars, registering, signedIn, role, removing>>
Deactivate(u) == Statuses(u, "INACTIVE") /\ UNCHANGED <<schoolVars, registering, signedIn, roleVars>>

(* TeachersService: the teacher's row alone. *)
CreateTeacher(u) == /\ staff[u] = "ACTIVE" /\ account[u].active /\ teacher[u] = "NONE" /\ teacher' = [teacher EXCEPT ![u] = "ACTIVE"]
                    /\ UNCHANGED <<schoolVars, account, staff, registering, signedIn, roleVars>>
UpdateTeacher(u, status) == /\ teacher[u] # "NONE" /\ teacher' = [teacher EXCEPT ![u] = status]
                            /\ UNCHANGED <<schoolVars, account, staff, registering, signedIn, roleVars>>
RemoveTeacher(u) == /\ teacher[u] # "NONE" /\ teacher' = [teacher EXCEPT ![u] = "NONE"]
                    /\ UNCHANGED <<schoolVars, account, staff, registering, signedIn, roleVars>>

-----------------------------------------------------------------------------
CreationStep == \E s \in Campus :
  \/ \E id \in Login : CreateSchool(s, id)
  \/ \E u \in Account : CreateAdmin(s, u)
  \/ \E r \in RoleNo : CreateAdminRole(s, r)
  \/ GrantAll(s) \/ AppointAdmin(s) \/ BreakOff(s)
SchoolStep == \E s \in Campus :
  \/ KeepSettings(s) \/ DropSettings(s)
  \/ \E k \in OptionKey : \/ SaveOption(s, k) \/ DropOption(s, k) \/ \E n \in OptionKey : RenameOption(s, k, n)
                          \/ \E u \in Account : AnswerOption(s, k, u) \/ ClearAnswer(s, k, u)
AccountStep ==
  \/ \E u \in Account, email \in Login, active \in BOOLEAN :
       UpdateUser(u, email, active) \/ \E s \in Campus : CreateUser(s, u, email, active)
  \/ \E s \in Anywhere, u \in Account, id \in Identity :
       \/ \E temporary \in BOOLEAN : Register(s, u, id[1], id[2], temporary)
       \/ \E r \in RoleNo, teaching \in BOOLEAN : Hire(s, u, id[1], id[2], r, teaching)
  \/ \E u \in Account, code \in RoleCode : TakeRole(u, code)
  \/ \E id \in Login, s \in Anywhere : SignIn(id, s)
  \/ \E u \in Account : EndRegister(u) \/ ChangePassword(u) \/ Deactivate(u) \/ CreateTeacher(u) \/ RemoveTeacher(u)
  \/ \E u \in Account, status \in {"ACTIVE", "INACTIVE"} :
       UpdateTeacher(u, status) \/ \E R \in SUBSET RoleNo : UpdateStaff(u, status, R)
RoleStep ==
  \/ \E u \in Account, r \in RoleNo : AssignRole(u, r) \/ TakeAway(u, r)
  \/ \E s \in Campus, r \in RoleNo, code \in RoleCode : CreateRole(s, r, code)
  \/ \E r \in RoleNo, code \in RoleCode, active \in BOOLEAN : UpdateRole(r, code, active)
  \/ \E r \in RoleNo : FindUnused(r) \/ \E grants \in {"NONE", "SOME", "ALL"} : ReplacePermissions(r, grants)
RemovalStep == \/ \E s \in Campus : RemoveSchool(s)
               \/ \E u \in Account : RemoveUser(u)
               \/ \E r \in RoleNo : RemoveRole(r)
DirectoryNext == \/ CreationStep /\ UNCHANGED <<vanished, directorySteps>>
                 \/ /\ directorySteps < MaxDirectorySteps /\ directorySteps' = directorySteps + 1
                    /\ RemovalStep \/ ((SchoolStep \/ AccountStep \/ RoleStep) /\ UNCHANGED vanished)
DirectorySpec == DirectoryInit /\ [][DirectoryNext]_directoryVars

-----------------------------------------------------------------------------
(* The rows are well formed and unique; every account, role, staff and teacher row stands   *)
(* on rows that exist.                                                                      *)
DirectoryTypeOK ==
  /\ campus \in [Campus -> Stage] /\ account \in [Account -> AccountRow \cup {NoAccount}]
  /\ role \in [RoleNo -> RoleRow \cup {NoRole}] /\ UniqueLogins(account) /\ UniqueCodes(role)
  /\ holds \subseteq Accounts \X Roles /\ removing \subseteq Roles /\ signedIn \cup registering \subseteq Accounts
  /\ \A u \in Accounts : Standing(account[u].school)
  /\ \A r \in Roles : Standing(role[r].school)
  /\ \A u \in Account : {staff[u], teacher[u]} # {"NONE"} => u \in Accounts
  /\ \A o \in options : campus[o[1]] # "NONE" /\ <<o[1], o[2], NoPerson>> \in options
                        /\ (o[3] # NoPerson => o[3] \in Accounts /\ account[o[3]].school = o[1])
  /\ settings \subseteq {s \in Campus : campus[s] # "NONE"}

(* Whatever is created, renamed and deleted between the statements of the requests: an       *)
(* account of a school's people (parents, who belong to no school, are in ParentConsent)     *)
(* holds only roles of its own school; and a school whose creation came to its end keeps a   *)
(* system role SCHOOL_ADMIN with all permissions.                                            *)
SchoolsKeepRoles ==
  /\ \A h \in holds : role[h[2]].school = account[h[1]].school
  /\ \A s \in Campus : campus[s] = "DONE" =>
       \E r \in RolesOf(s, "SCHOOL_ADMIN") : role[r].system /\ role[r].grants = "ALL"
=============================================================================
