----------------------------- MODULE UserAccess -----------------------------
(***************************************************************************)
(* The persisted users of the operator console, their roles and passwords  *)
(* (user_admin_service.py, user_login_service.py and their repositories),  *)
(* the console requests that log in or act for a user (operator_login_ui,  *)
(* operator_access, operator_user_admin_ui, operator_user_credentials_ui)  *)
(* and the bootstrap of the administrator.                                 *)
(*                                                                         *)
(* An action is one statement that reads or one transaction that writes,   *)
(* with what the code computes up to the next one.  The audit rows that    *)
(* follow a change are left out: one that fails ends the request where it  *)
(* ends anyway.  A user is named by the username, which is unique.         *)
(***************************************************************************)
EXTENDS Integers, Sequences, FiniteSets

CONSTANTS
  Users,        \* usernames
  Passwords,    \* passwords of a length that hash_password accepts
  Threads,      \* threads that serve requests of the console
  Bootstraps,   \* processes that run the bootstrap of the administrator
  BootUser,     \* AE_BOOTSTRAP_ADMIN_USERNAME
  BootPassword, \* its password, or NoPassword
  NoPassword,
  Env,          \* the session of the administrator named in the environment
  EnvUser,      \* OPERATOR_UI_USERNAME, may be a persisted user's as well
  EnvPassword,  \* OPERATOR_UI_PASSWORD
  Offers,       \* bound: the requests that may be made
  Idle,         \* the task of a thread that has none
  Upgrade,      \* user -> the password of a hash by an older argon2, or NoPassword
  MaxFaults     \* bound: threads or processes that die, databases that fail

Admin == "admin_operator"
Roles == {Admin, "data_engineer", "ml_analyst", "campaign_user"}

ASSUME UsersAssumption == BootUser \in Users /\ Env \notin Users
ASSUME PasswordsAssumption == BootPassword \in Passwords \cup {NoPassword} /\ NoPassword \notin Passwords
ASSUME ActorsAssumption == Threads \cap Bootstraps = {}
\* roles: those asked for at creation, or the one assigned or removed; some are no roles.
ASSUME OffersAssumption ==
  /\ Offers \subseteq [op: STRING, user: Users, roles: Seq(STRING), flag: BOOLEAN,
                       password: Passwords]
  /\ \A o \in Offers : o.op \in {"assign", "remove"} => Len(o.roles) = 1
  /\ Idle \notin Offers
ASSUME UpgradeAssumption == Upgrade \in [Users -> Passwords \cup {NoPassword}]
ASSUME FaultsAssumption == MaxFaults \in Nat

VARIABLES
  users,      \* rows of ae_users
  active,     \* those with is_active
  roles,      \* user -> rows of ae_user_role_assignments
  credential, \* user -> row of ae_user_credentials
  cookies,    \* the subjects of the session cookies that were issued
  pc,         \* actor -> the next operation
  task,       \* thread -> the request that it serves
  todo,       \* thread -> the roles that it has yet to assign
  subject,    \* thread -> whom it acts for
  held,       \* thread -> the credential that a login has verified
  found,      \* bootstrap -> is_active as it has read it
  latest,     \* user -> the password that was last set, with its reset flag
  settled,    \* users whose password was set while no outdated one was held
  stood,      \* thread -> how its user has stood at some moment since it began
  meddled,    \* bootstraps whose user lost standing since they began
  faults

tables == << users, active, roles, credential >>
serving == << cookies, task, todo, subject, held >>
sets == << latest, settled >>
watched == << stood, meddled >>
vars == << tables, serving, pc, found, sets, watched, faults >>

NoCredential == << >>
Choice(p, reset) == [password |-> p, reset |-> reset]
Credential == [password: Passwords, reset: BOOLEAN, outdated: BOOLEAN]
ChoiceOf(c) == IF c = NoCredential THEN NoCredential ELSE Choice(c.password, c.reset)

Subjects == Users \cup {Env}
Actors == Threads \cup Bootstraps

-----------------------------------------------------------------------------
(* Access                                                                  *)

\* PAGE_ACCESS_MATRIX and ACTION_ACCESS_MATRIX, by what the request does.
PageRoles(op) ==
  CASE op \in {"view", "deliver", "readiness"}          -> Roles
    [] op = "defaults"                                  -> {Admin, "data_engineer"}
    [] op = "trigger"                                   -> Roles \ {"ml_analyst"}
    [] op \in {"versions", "transition", "evidence"}    -> Roles \ {"campaign_user"}
    [] OTHER                                            -> {Admin}

ActionRoles(op) ==
  CASE op \in {"view", "deliver", "readiness", "versions"} -> Roles
    [] op = "evidence"                                     -> {Admin, "ml_analyst"}
    [] op = "transition"                                   -> {Admin}
    [] OTHER                                               -> PageRoles(op)

\* evaluate_access
Allowed(held_roles, op) ==
  held_roles \cap PageRoles(op) # {} /\ held_roles \cap ActionRoles(op) # {}

\* What a user has of what a request needs, by the rows act and rs.
Standing(s, op, act, rs) ==
  {x \in {"active", "allowed"} : IF x = "active" THEN s \in act ELSE Allowed(rs[s], op)}

-----------------------------------------------------------------------------
(* Types                                                                   *)

LoggingIn == {"login_row", "login_roles", "login_credential", "rehash"}
Granted == {"acting", "insert", "assigning"}
Booting == {"find", "check", "boot_insert", "boot_assign", "reread", "list", "ensure_role",
            "ensure_active", "verify", "seed"}

TypeOK ==
  /\ users \subseteq Users
  /\ active \subseteq users
  /\ roles \in [Users -> SUBSET Roles]
  /\ \A u \in Users : roles[u] # {} \/ credential[u] # NoCredential => u \in users
  /\ credential \in [Users -> Credential \cup {NoCredential}]
  /\ cookies \subseteq users \cup {Env}
  /\ \A t \in Threads : pc[t] \in {"idle", "row", "roles"} \cup LoggingIn \cup Granted
  /\ \A b \in Bootstraps : pc[b] \in {"idle"} \cup Booting
  /\ \A t \in Threads :
       /\ task[t] = Idle <=> pc[t] = "idle"
       /\ pc[t] = "assigning" => todo[t] # << >>
       /\ pc[t] \in {"row", "roles"} \cup Granted => subject[t] \in users \cup {Env}
       /\ pc[t] = "assigning" => task[t].user \in users
  /\ task \in [Threads -> Offers \cup {Idle}]
  /\ todo \in [Threads -> Seq(Roles)]
  /\ subject \in [Threads -> Subjects]
  /\ held \in [Threads -> Credential \cup {NoCredential}]
  /\ found \in [Bootstraps -> BOOLEAN]
  /\ latest \in [Users -> [password: Passwords, reset: BOOLEAN] \cup {NoCredential}]
  /\ settled \subseteq Users
  /\ stood \in [Threads -> SUBSET {"active", "allowed"}]
  /\ meddled \subseteq Bootstraps
  /\ faults \in 0..MaxFaults

\* Tables from before: users with a role and a password, by argon2 as it was then.
Init ==
  /\ users \in SUBSET Users
  /\ active = users
  /\ roles = [u \in Users |-> IF u \in users THEN {Admin} ELSE {}]
  /\ credential = [u \in Users |->
       IF u \in users /\ Upgrade[u] # NoPassword
       THEN [password |-> Upgrade[u], reset |-> FALSE, outdated |-> TRUE] ELSE NoCredential]
  /\ cookies = {}
  /\ pc = [a \in Actors |-> "idle"]
  /\ task = [t \in Threads |-> Idle]
  /\ todo = [t \in Threads |-> << >>]
  /\ subject = [t \in Threads |-> Env]
  /\ held = [t \in Threads |-> NoCredential]
  /\ found = [b \in Bootstraps |-> FALSE]
  /\ latest = [u \in Users |-> ChoiceOf(credential[u])]
  /\ settled = Users
  /\ stood = [t \in Threads |-> {}]
  /\ meddled = {}
  /\ faults = 0

Goto(a, next) == pc' = [pc EXCEPT ![a] = next]

\* A request ends, with its answer.
End(t) ==
  /\ Goto(t, "idle")
  /\ task' = [task EXCEPT ![t] = Idle]
  /\ todo' = [todo EXCEPT ![t] = << >>]
  /\ subject' = [subject EXCEPT ![t] = Env]
  /\ held' = [held EXCEPT ![t] = NoCredential]

-----------------------------------------------------------------------------
(* verify_login and operator_login_submit                                  *)

BeginLogin(t) ==
  /\ pc[t] = "idle"
  /\ \E o \in Offers : o.op = "login" /\ task' = [task EXCEPT ![t] = o]
  /\ Goto(t, "login_row")
  /\ UNCHANGED << tables, cookies, todo, subject, held, found, sets, faults >>

\* Not a user, or anything raised: the credentials of the environment are tried.
FallBack(t) ==
  /\ cookies' = cookies \cup
       (IF task[t].user = EnvUser /\ task[t].password = EnvPassword THEN {Env} ELSE {})
  /\ End(t)

LoginRow(t) ==
  /\ pc[t] = "login_row"
  /\ IF task[t].user \in active
     THEN Goto(t, "login_roles") /\ UNCHANGED serving
     ELSE FallBack(t)
  /\ UNCHANGED << tables, found, sets, faults >>

LoginRoles(t) ==
  /\ pc[t] = "login_roles"
  /\ IF roles[task[t].user] # {}
     THEN Goto(t, "login_credential") /\ UNCHANGED serving
     ELSE FallBack(t)
  /\ UNCHANGED << tables, found, sets, faults >>

IssueCookie(t) ==
  /\ cookies' = cookies \cup {task[t].user}
  /\ End(t)

Verifies(t, c) == c # NoCredential /\ c.password = task[t].password

\* Mutant: whatever the version of the hash, it is stored again.
AlwaysRehash(t) ==
  /\ pc[t] = "login_credential"
  /\ LET c == credential[task[t].user] IN
     IF ~ Verifies(t, c) THEN FallBack(t)
     ELSE /\ held' = [held EXCEPT ![t] = c]
          /\ Goto(t, "rehash")
          /\ UNCHANGED << cookies, task, todo, subject >>
  /\ UNCHANGED << tables, found, sets, faults >>

LoginCredential(t) ==
  /\ pc[t] = "login_credential"
  /\ LET c == credential[task[t].user] IN
     IF ~ Verifies(t, c) THEN FallBack(t)
     ELSE IF c.outdated
     THEN /\ held' = [held EXCEPT ![t] = c]
          /\ Goto(t, "rehash")
          /\ UNCHANGED << cookies, task, todo, subject >>
     ELSE IssueCookie(t)
  /\ UNCHANGED << tables, found, sets, faults >>

\* The upsert takes no account of what is stored by now.
Upsert(t) ==
  /\ pc[t] = "rehash"
  /\ credential' = [credential EXCEPT ![task[t].user] = [held[t] EXCEPT !.outdated = FALSE]]
  /\ UNCHANGED << users, active, roles, found, sets >>

Rehash(t) ==
  /\ Upsert(t)
  /\ IssueCookie(t)
  /\ UNCHANGED faults

-----------------------------------------------------------------------------
(* Requests with a session                                                 *)

\* Mutant: the session of a user is good until it expires.
TrustCookie(t) ==
  /\ pc[t] = "idle"
  /\ \E s \in cookies, o \in Offers :
       /\ o.op # "login"
       /\ task' = [task EXCEPT ![t] = o]
       /\ subject' = [subject EXCEPT ![t] = s]
       /\ Goto(t, IF s = Env THEN "acting" ELSE "roles")
  /\ UNCHANGED << tables, cookies, todo, held, found, sets, faults >>

\* resolve_session_subject: the cookie says who it is, and nothing else.
BeginRequest(t) ==
  /\ pc[t] = "idle"
  /\ \E s \in cookies, o \in Offers :
       /\ o.op # "login"
       /\ task' = [task EXCEPT ![t] = o]
       /\ subject' = [subject EXCEPT ![t] = s]
       /\ Goto(t, IF s = Env THEN "acting" ELSE "row")
  /\ UNCHANGED << tables, cookies, todo, held, found, sets, faults >>

ResolveRow(t) ==
  /\ pc[t] = "row"
  /\ IF subject[t] \in active
     THEN Goto(t, "roles") /\ UNCHANGED << task, todo, subject, held >>
     ELSE End(t)
  /\ UNCHANGED << tables, cookies, found, sets, faults >>

\* The roles come from a statement of their own; the matrices decide.
ResolveRoles(t) ==
  /\ pc[t] = "roles"
  /\ IF Allowed(roles[subject[t]], task[t].op)
     THEN Goto(t, "acting") /\ UNCHANGED << task, todo, subject, held >>
     ELSE End(t)
  /\ UNCHANGED << tables, cookies, found, sets, faults >>

\* A page, a trigger, a transition, a name or an e-mail of a user: nothing of this
\* module changes.
Serve(t) ==
  /\ pc[t] = "acting"
  /\ task[t].op \in {"view", "deliver", "readiness", "defaults", "trigger",
                     "versions", "transition", "evidence", "profile"}
  /\ End(t)
  /\ UNCHANGED << tables, cookies, found, sets, faults >>

\* create_user: the name is looked up, then inserted.
CheckName(t) ==
  /\ pc[t] = "acting"
  /\ task[t].op = "create"
  /\ IF task[t].user \in users THEN End(t)
     ELSE Goto(t, "insert") /\ UNCHANGED << task, todo, subject, held >>
  /\ UNCHANGED << tables, cookies, found, sets, faults >>

\* Mutant: create_user does not validate the roles.
AnyNames(names) == TRUE

AreRoles(names) == \A k \in DOMAIN names : names[k] \in Roles

\* The unique name may raise.  The roles are looked at when the row is there.
Insert(t) ==
  /\ pc[t] = "insert"
  /\ IF task[t].user \in users
     THEN End(t) /\ UNCHANGED << users, active >>
     ELSE /\ users' = users \cup {task[t].user}
          /\ active' = IF task[t].flag THEN active \cup {task[t].user} ELSE active
          /\ IF AreRoles(task[t].roles) /\ task[t].roles # << >>
             THEN /\ todo' = [todo EXCEPT ![t] = task[t].roles]
                  /\ Goto(t, "assigning")
                  /\ UNCHANGED << task, subject, held >>
             ELSE End(t)
  /\ UNCHANGED << roles, credential, cookies, found, sets, faults >>

Assigned(u, role) == roles' = [roles EXCEPT ![u] = @ \cup {role}]

AssignNext(t) ==
  /\ pc[t] = "assigning"
  /\ Assigned(task[t].user, Head(todo[t]))
  /\ IF Len(todo[t]) = 1 THEN End(t)
     ELSE /\ todo' = [todo EXCEPT ![t] = Tail(@)]
          /\ UNCHANGED << pc, task, subject, held >>
  /\ UNCHANGED << users, active, credential, cookies, found, sets, faults >>

SetActive(t) ==
  /\ pc[t] = "acting"
  /\ task[t].op = "set_active"
  /\ LET u == task[t].user IN
     IF u \notin users THEN UNCHANGED active
     ELSE active' = IF task[t].flag THEN active \cup {u} ELSE active \ {u}
  /\ End(t)
  /\ UNCHANGED << users, roles, credential, cookies, found, sets, faults >>

\* assign_role and remove_role; nothing happens if the user or the role is none.
ChangeRole(t) ==
  /\ pc[t] = "acting"
  /\ task[t].op \in {"assign", "remove"}
  /\ LET u == task[t].user
         role == Head(task[t].roles) IN
     IF u \notin users \/ role \notin Roles THEN UNCHANGED roles
     ELSE IF task[t].op = "assign" THEN Assigned(u, role)
     ELSE roles' = [roles EXCEPT ![u] = @ \ {role}]
  /\ End(t)
  /\ UNCHANGED << users, active, credential, cookies, found, sets, faults >>

\* Threads that hold an outdated credential of u and are going to store it again.
Rehashing(u) == {t \in Threads : pc[t] = "rehash" /\ task[t].user = u /\ held[t].outdated}

\* set_password of the login service: an upsert, by a hash of this version.
Store(u, p, reset) ==
  /\ credential' = [credential EXCEPT ![u] =
                      [password |-> p, reset |-> reset, outdated |-> FALSE]]
  /\ latest' = [latest EXCEPT ![u] = Choice(p, reset)]
  /\ settled' = IF Rehashing(u) = {} THEN settled \cup {u} ELSE settled \ {u}

\* set_password, with the flag of the form, and reset_password.
SetPassword(t) ==
  /\ pc[t] = "acting"
  /\ task[t].op \in {"set_password", "reset_password"}
  /\ IF task[t].user \in users
     THEN Store(task[t].user, task[t].password, task[t].flag \/ task[t].op = "reset_password")
     ELSE UNCHANGED << credential, latest, settled >>
  /\ End(t)
  /\ UNCHANGED << users, active, roles, cookies, found, faults >>

\* The thread dies, or the database fails: a login goes on to the environment.  The
\* commit of a rehash may have taken effect by then.
Fail(t) ==
  /\ pc[t] # "idle"
  /\ faults < MaxFaults
  /\ faults' = faults + 1
  /\ \/ UNCHANGED cookies /\ End(t)
     \/ pc[t] \in LoggingIn /\ FallBack(t)
  /\ UNCHANGED << tables, found, sets >> \/ Upsert(t)

-----------------------------------------------------------------------------
(* bootstrap_dev_admin_user                                                *)

Found(b) == found' = [found EXCEPT ![b] = BootUser \in active]

Start(b) ==
  /\ pc[b] = "idle"
  /\ Goto(b, "find")
  /\ UNCHANGED << tables, serving, found, sets, faults >>

\* ensure_bootstrap_admin_user looks the name up, and create_user does again.
Find(b) ==
  /\ pc[b] = "find"
  /\ IF BootUser \in users THEN Found(b) /\ Goto(b, "list")
     ELSE UNCHANGED found /\ Goto(b, "check")
  /\ UNCHANGED << tables, serving, sets, faults >>

CheckBoot(b) ==
  /\ pc[b] = "check"
  /\ Goto(b, IF BootUser \in users THEN "idle" ELSE "boot_insert")
  /\ UNCHANGED << tables, serving, found, sets, faults >>

InsertBoot(b) ==
  /\ pc[b] = "boot_insert"
  /\ IF BootUser \in users
     THEN Goto(b, "idle") /\ UNCHANGED << users, active >>
     ELSE /\ users' = users \cup {BootUser}
          /\ active' = active \cup {BootUser}
          /\ Goto(b, "boot_assign")
  /\ UNCHANGED << roles, credential, serving, found, sets, faults >>

\* The role of the user that was created, or the one that is found missing.
AssignBoot(b) ==
  /\ pc[b] \in {"boot_assign", "ensure_role"}
  /\ Assigned(BootUser, Admin)
  /\ Goto(b, IF pc[b] = "boot_assign" THEN "reread" ELSE "ensure_active")
  /\ UNCHANGED << users, active, credential, serving, found, sets, faults >>

Reread(b) ==
  /\ pc[b] = "reread"
  /\ Found(b)
  /\ Goto(b, "list")
  /\ UNCHANGED << tables, serving, sets, faults >>

\* Mutant: the user exists, so an earlier bootstrap has done this.
TrustEarlier(b) ==
  /\ pc[b] = "list"
  /\ Goto(b, "ensure_active")
  /\ UNCHANGED << tables, serving, found, sets, faults >>

ListRoles(b) ==
  /\ pc[b] = "list"
  /\ Goto(b, IF Admin \in roles[BootUser] THEN "ensure_active" ELSE "ensure_role")
  /\ UNCHANGED << tables, serving, found, sets, faults >>

\* By is_active as it was first read; bootstrap_admin_verified is audited after it.
EnsureActive(b) ==
  /\ pc[b] = "ensure_active"
  /\ IF found[b] THEN UNCHANGED active
     ELSE active' = active \cup {BootUser}
  /\ found' = [found EXCEPT ![b] = FALSE]
  /\ Goto(b, "verify")
  /\ UNCHANGED << users, roles, credential, serving, sets, faults >>

Verify(b) ==
  /\ pc[b] = "verify"
  /\ Goto(b, IF BootPassword = NoPassword THEN "idle" ELSE "seed")
  /\ UNCHANGED << tables, serving, found, sets, faults >>

Seed(b) ==
  /\ pc[b] = "seed"
  /\ Store(BootUser, BootPassword, FALSE)
  /\ Goto(b, "idle")
  /\ UNCHANGED << users, active, roles, serving, found, faults >>

FailBoot(b) ==
  /\ pc[b] # "idle"
  /\ faults < MaxFaults
  /\ faults' = faults + 1
  /\ found' = [found EXCEPT ![b] = FALSE]
  /\ Goto(b, "idle")
  /\ UNCHANGED << tables, serving, sets >>

Login(t) == BeginLogin(t) \/ LoginRow(t) \/ LoginRoles(t) \/ LoginCredential(t) \/ Rehash(t)
Request(t) ==
  \/ BeginRequest(t) \/ ResolveRow(t) \/ ResolveRoles(t) \/ Serve(t)
  \/ CheckName(t) \/ Insert(t) \/ AssignNext(t)
  \/ SetActive(t) \/ ChangeRole(t) \/ SetPassword(t)
Bootstrap(b) ==
  \/ Start(b) \/ Find(b) \/ CheckBoot(b) \/ InsertBoot(b) \/ AssignBoot(b) \/ Reread(b)
  \/ ListRoles(b) \/ EnsureActive(b) \/ Verify(b) \/ Seed(b) \/ FailBoot(b)

\* The history that the properties speak of, kept of every step.
Watch ==
  /\ stood' = [t \in Threads |->
       IF pc'[t] = "idle" \/ subject'[t] = Env THEN {}
       ELSE stood[t] \cup IF pc[t] \in Granted THEN {}
                          ELSE Standing(subject'[t], task'[t].op, active', roles')]
  /\ meddled' = {b \in Bootstraps :
       /\ pc'[b] # "idle"
       /\ \/ b \in meddled
          \/ BootUser \in active \ active'
          \/ Admin \in roles[BootUser] \ roles'[BootUser]}

Next ==
  /\ \/ \E t \in Threads : Login(t) \/ Request(t) \/ Fail(t)
     \/ \E b \in Bootstraps : Bootstrap(b)
  /\ Watch

Spec == Init /\ [][Next]_vars

-----------------------------------------------------------------------------
(* Properties                                                              *)

\* A session cookie never expires and outlives the user's roles.  Still no
\* request acts for a user who has been inactive, or without any role that it
\* needs, since before it began; the two need not have been so at one moment,
\* the row and the roles are two reads.  (operator_login_ui.py:122)
DeactivationBites ==
  \A t \in Threads :
    pc[t] \in Granted /\ subject[t] # Env => stood[t] = {"active", "allowed"}

\* A login with a hash of an older version stores the password again that it has
\* verified.  A password that an administrator sets meanwhile is overwritten, and
\* with it the demand to reset it; but a password that was set while no such login
\* was under way is the one that counts, with its flag, whatever logins follow.
\* (user_login_service.py:168)
PasswordSetStays ==
  \A u \in settled : ChoiceOf(credential[u]) = latest[u]

\* When a bootstrap reports that the administrator is verified, the user is
\* active and has the role, whatever an earlier bootstrap or a creation in the
\* console has left half done, and whatever others do meanwhile, short of taking
\* it away.  (user_admin_service.py:264)
BootstrapLeavesAdmin ==
  \A b \in Bootstraps \ meddled :
    pc[b] \in {"verify", "seed"} => BootUser \in active /\ Admin \in roles[BootUser]

=============================================================================
