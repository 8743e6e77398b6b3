----------------------------- MODULE UserProofs -----------------------------
(* Theorems about UserAccess for any number of users, threads, bootstraps, *)
(* offers and faults.                                                      *)
EXTENDS UserAccess, SequenceTheorems, TLAPS

USE UsersAssumption, PasswordsAssumption, ActorsAssumption, OffersAssumption,
    UpgradeAssumption, FaultsAssumption

-----------------------------------------------------------------------------
(* Types                                                                   *)

\* What TypeOK says, in parts: the tables, what serves, and what is watched.
TablesOK ==
  /\ users \subseteq Users
  /\ active \subseteq users
  /\ roles \in [Users -> SUBSET Roles]
  /\ credential \in [Users -> Credential \cup {NoCredential}]
  /\ \A u \in Users : roles[u] # {} \/ credential[u] # NoCredential => u \in users

ThreadsOK ==
  /\ cookies \subseteq users \cup {Env}
  /\ task \in [Threads -> Offers \cup {Idle}]
  /\ todo \in [Threads -> Seq(Roles)]
  /\ subject \in [Threads -> Subjects]
  /\ held \in [Threads -> Credential \cup {NoCredential}]

SetsOK ==
  /\ found \in [Bootstraps -> BOOLEAN]
  /\ latest \in [Users -> [password: Passwords, reset: BOOLEAN] \cup {NoCredential}]
  /\ settled \subseteq Users
  /\ faults \in 0..MaxFaults

ThreadPlaces == {"idle", "row", "roles"} \cup LoggingIn \cup Granted

\* A thread is somewhere, with a task; whom it acts for or logs in is a user.
PlaceOK(t) ==
  /\ pc[t] \in ThreadPlaces
  /\ task[t] = Idle <=> pc[t] = "idle"
  /\ pc[t] \in {"row", "roles"} \cup Granted => subject[t] \in users \cup {Env}
  /\ pc[t] = "assigning" => task[t].user \in users /\ todo[t] # << >>
  /\ pc[t] = "rehash" => task[t].user \in users /\ held[t] \in Credential /\ held[t].outdated

\* Once a bootstrap has met its user the row is there, as none is ever deleted.
BootPlaceOK(b) ==
  /\ pc[b] \in {"idle"} \cup Booting
  /\ pc[b] \notin {"idle", "find", "check", "boot_insert"} => BootUser \in users
  /\ pc[b] = "seed" => BootPassword # NoPassword

TypeInv ==
  /\ TablesOK /\ ThreadsOK /\ SetsOK
  /\ pc = [a \in Actors |-> pc[a]]
  /\ \A t \in Threads : PlaceOK(t)
  /\ \A b \in Bootstraps : BootPlaceOK(b)

LEMMA InitTypes == Init => TypeInv
  <1> SUFFICES ASSUME Init PROVE TypeInv
    OBVIOUS
  <1>1. TablesOK
    BY DEF Init, TablesOK, Credential, NoCredential, Roles, Admin
  <1>2. ThreadsOK /\ SetsOK
    <2>1. \A u \in Users :
            ChoiceOf(credential[u]) \in [password: Passwords, reset: BOOLEAN] \cup {NoCredential}
      BY <1>1 DEF TablesOK, ChoiceOf, Choice, Credential
    <2> QED BY <2>1 DEF Init, ThreadsOK, SetsOK, Subjects
  <1>3. \A t \in Threads : PlaceOK(t)
    BY DEF Init, PlaceOK, ThreadPlaces, Granted, Actors
  <1>4. \A b \in Bootstraps : BootPlaceOK(b)
    BY DEF Init, BootPlaceOK, Actors
  <1>5. pc = [a \in Actors |-> pc[a]]
    BY DEF Init
  <1> QED BY <1>1, <1>2, <1>3, <1>4, <1>5 DEF TypeInv

\* What a step of one actor does to the others.
Own(a) ==
  /\ pc' = [b \in Actors |-> pc'[b]]
  /\ \A b \in Actors \ {a} : pc'[b] = pc[b]
  /\ \A t \in Threads \ {a} :
       task'[t] = task[t] /\ todo'[t] = todo[t] /\ subject'[t] = subject[t] /\ held'[t] = held[t]
  /\ users \subseteq users'

StepTypes(t) == TablesOK' /\ ThreadsOK' /\ SetsOK' /\ Own(t)

LEMMA ThreadTypes ==
  ASSUME TypeInv, NEW t \in Threads, StepTypes(t), PlaceOK(t)'
  PROVE  TypeInv'
  <1>1. ASSUME NEW q \in Threads \ {t} PROVE PlaceOK(q)'
    BY DEF TypeInv, StepTypes, Own, PlaceOK, Actors
  <1>2. ASSUME NEW b \in Bootstraps PROVE BootPlaceOK(b)'
    BY DEF TypeInv, StepTypes, Own, BootPlaceOK, Actors
  <1> QED BY <1>1, <1>2 DEF TypeInv, StepTypes, Own

LEMMA BootTypes ==
  ASSUME TypeInv, NEW b \in Bootstraps, StepTypes(b), BootPlaceOK(b)'
  PROVE  TypeInv'
  <1>1. ASSUME NEW q \in Threads PROVE PlaceOK(q)'
    BY DEF TypeInv, StepTypes, Own, PlaceOK, Actors
  <1>2. ASSUME NEW q \in Bootstraps \ {b} PROVE BootPlaceOK(q)'
    BY DEF TypeInv, StepTypes, Own, BootPlaceOK, Actors
  <1> QED BY <1>1, <1>2 DEF TypeInv, StepTypes, Own

LEMMA GotoTypes ==
  ASSUME TypeInv, NEW a \in Actors, NEW next, Goto(a, next)
  PROVE  /\ pc'[a] = next
         /\ pc' = [b \in Actors |-> pc'[b]]
         /\ \A b \in Actors \ {a} : pc'[b] = pc[b]
  BY DEF TypeInv, Goto

\* A request ends whatever it was.
LEMMA EndTypes ==
  ASSUME TypeInv, NEW t \in Threads, End(t)
  PROVE  /\ task' \in [Threads -> Offers \cup {Idle}]
         /\ todo' \in [Threads -> Seq(Roles)]
         /\ subject' \in [Threads -> Subjects]
         /\ held' \in [Threads -> Credential \cup {NoCredential}]
         /\ users \subseteq users' => Own(t)
         /\ PlaceOK(t)'
  <1>1. t \in Actors /\ << >> \in Seq(Roles)
    BY DEF Actors
  <1>2. /\ task' \in [Threads -> Offers \cup {Idle}]
        /\ todo' \in [Threads -> Seq(Roles)]
        /\ subject' \in [Threads -> Subjects]
        /\ held' \in [Threads -> Credential \cup {NoCredential}]
    BY <1>1 DEF TypeInv, ThreadsOK, End, Subjects
  <1>3. /\ pc'[t] = "idle" /\ task'[t] = Idle
        /\ users \subseteq users' => Own(t)
    BY <1>1, GotoTypes DEF TypeInv, ThreadsOK, End, Own
  <1>4. PlaceOK(t)'
    BY <1>3 DEF PlaceOK, ThreadPlaces, Granted
  <1> QED BY <1>2, <1>3, <1>4

LEMMA StoreTypes ==
  ASSUME TypeInv, NEW u \in users, NEW p \in Passwords, NEW reset \in BOOLEAN, Store(u, p, reset),
         UNCHANGED << users, active, roles, found, faults >>
  PROVE  TablesOK' /\ SetsOK' /\ users' = users
  <1>1. [password |-> p, reset |-> reset, outdated |-> FALSE] \in Credential
    BY DEF Credential
  <1>2. Choice(p, reset) \in [password: Passwords, reset: BOOLEAN]
    BY DEF Choice
  <1>3. TablesOK'
    BY <1>1 DEF Store, TypeInv, TablesOK
  <1>4. latest' \in [Users -> [password: Passwords, reset: BOOLEAN] \cup {NoCredential}]
    BY <1>2 DEF Store, TypeInv, SetsOK
  <1>5. SetsOK'
    BY <1>4 DEF Store, TypeInv, SetsOK, TablesOK
  <1> QED BY <1>3, <1>5

LEMMA UpsertTypes ==
  ASSUME TypeInv, NEW t \in Threads, Upsert(t), faults' \in 0..MaxFaults
  PROVE  TablesOK' /\ SetsOK' /\ users' = users /\ task[t].user \in users
  <1>1. task[t].user \in users /\ held[t] \in Credential
    BY DEF Upsert, TypeInv, PlaceOK
  <1>2. [held[t] EXCEPT !.outdated = FALSE] \in Credential
    BY <1>1 DEF Credential
  <1> QED BY <1>1, <1>2 DEF Upsert, TypeInv, TablesOK, SetsOK, sets

LEMMA LoginTypes ==
  ASSUME TypeInv, NEW t \in Threads, Login(t)
  PROVE  TypeInv'
  <1>0. /\ t \in Actors /\ PlaceOK(t)
        /\ task[t] # Idle => task[t] \in Offers /\ task[t].user \in Users
    BY DEF TypeInv, Actors, ThreadsOK
  <1>1. CASE BeginLogin(t)
    <2>1. pc'[t] = "login_row" /\ Own(t)
      BY <1>0, <1>1, GotoTypes DEF BeginLogin, Own, tables, TypeInv, ThreadsOK
    <2>2. TablesOK' /\ ThreadsOK' /\ SetsOK'
      BY <1>1 DEF BeginLogin, TypeInv, TablesOK, ThreadsOK, SetsOK, tables, sets
    <2>3. PlaceOK(t)'
      BY <1>0, <1>1, <2>1 DEF BeginLogin, PlaceOK, ThreadPlaces, LoggingIn, Granted, TypeInv, ThreadsOK
    <2> QED BY <2>1, <2>2, <2>3, ThreadTypes DEF StepTypes
  <1>2. ASSUME FallBack(t), UNCHANGED << tables, found, sets, faults >> PROVE TypeInv'
    <2>1. TablesOK' /\ SetsOK' /\ users' = users
      BY <1>2 DEF TypeInv, TablesOK, SetsOK, tables, sets
    <2>2. ThreadsOK'
      BY <1>2, <2>1, EndTypes DEF FallBack, TypeInv, ThreadsOK
    <2> QED BY <1>2, <2>1, <2>2, EndTypes, ThreadTypes DEF FallBack, StepTypes
  <1>3. ASSUME NEW next \in {"login_roles", "login_credential"}, pc[t] \in LoggingIn, Goto(t, next),
               UNCHANGED << serving, tables, found, sets, faults >>
        PROVE  TypeInv'
    <2>1. TablesOK' /\ ThreadsOK' /\ SetsOK' /\ Own(t) /\ pc'[t] = next
      BY <1>0, <1>3, GotoTypes
         DEF TypeInv, TablesOK, ThreadsOK, SetsOK, tables, sets, serving, Own
    <2>2. PlaceOK(t)'
      BY <1>0, <1>3, <2>1 DEF PlaceOK, ThreadPlaces, LoggingIn, Granted, serving
    <2> QED BY <2>1, <2>2, ThreadTypes DEF StepTypes
  <1>4. CASE LoginRow(t) \/ LoginRoles(t)
    BY <1>2, <1>3, <1>4 DEF LoginRow, LoginRoles, LoggingIn
  <1>5. ASSUME IssueCookie(t), task[t].user \in users', TablesOK', SetsOK', users' = users
        PROVE  TypeInv'
    <2>1. ThreadsOK'
      BY <1>5, EndTypes DEF IssueCookie, TypeInv, ThreadsOK
    <2> QED BY <1>5, <2>1, EndTypes, ThreadTypes DEF IssueCookie, StepTypes
  <1>6. CASE LoginCredential(t)
    <2> DEFINE c == credential[task[t].user]
    <2>1. CASE ~ Verifies(t, c)
      BY <1>2, <1>6, <2>1 DEF LoginCredential
    <2>2. CASE Verifies(t, c)
      <3>1. task[t].user \in Users /\ task[t] # Idle
        BY <1>0, <1>6 DEF LoginCredential, PlaceOK
      <3>2. c # NoCredential /\ task[t].user \in users /\ c \in Credential
        BY <2>2, <3>1 DEF Verifies, TypeInv, TablesOK
      <3>3. TablesOK' /\ SetsOK' /\ users' = users
        BY <1>6 DEF LoginCredential, TypeInv, TablesOK, SetsOK, tables, sets
      <3>4. CASE c.outdated
        <4>1. /\ held' = [held EXCEPT ![t] = c] /\ Goto(t, "rehash")
              /\ UNCHANGED << cookies, task, todo, subject >>
          BY <1>6, <2>2, <3>4 DEF LoginCredential
        <4>2. ThreadsOK' /\ Own(t) /\ pc'[t] = "rehash" /\ held'[t] = c
          BY <1>0, <3>2, <3>3, <4>1, GotoTypes DEF TypeInv, ThreadsOK, Own
        <4>3. PlaceOK(t)'
          BY <3>1, <3>2, <3>3, <3>4, <4>1, <4>2
             DEF PlaceOK, ThreadPlaces, LoggingIn, Granted
        <4> QED BY <3>3, <4>2, <4>3, ThreadTypes DEF StepTypes
      <3>5. CASE ~ c.outdated
        BY <1>5, <1>6, <2>2, <3>2, <3>3, <3>5 DEF LoginCredential
      <3> QED BY <3>4, <3>5
    <2> QED BY <2>1, <2>2
  <1>7. CASE Rehash(t)
    <2>1. faults' \in 0..MaxFaults
      BY <1>7 DEF Rehash, TypeInv, SetsOK
    <2> QED BY <1>5, <1>7, <2>1, UpsertTypes DEF Rehash
  <1> QED BY <1>1, <1>4, <1>6, <1>7 DEF Login

LEMMA RequestTypes ==
  ASSUME TypeInv, NEW t \in Threads, Request(t)
  PROVE  TypeInv'
  <1>0. /\ t \in Actors /\ PlaceOK(t)
        /\ task[t] # Idle => /\ task[t] \in Offers /\ task[t].user \in Users
                             /\ task[t].roles \in Seq(STRING) /\ task[t].password \in Passwords
                             /\ task[t].flag \in BOOLEAN
    BY DEF TypeInv, Actors, ThreadsOK
  <1>1. CASE BeginRequest(t)
    <2> PICK s \in cookies, o \in Offers :
          /\ task' = [task EXCEPT ![t] = o] /\ subject' = [subject EXCEPT ![t] = s]
          /\ Goto(t, IF s = Env THEN "acting" ELSE "row")
      BY <1>1 DEF BeginRequest
    <2>1. pc'[t] \in {"acting", "row"} /\ Own(t)
      BY <1>0, <1>1, GotoTypes DEF BeginRequest, Own, tables, TypeInv, ThreadsOK
    <2>2. TablesOK' /\ ThreadsOK' /\ SetsOK' /\ s \in users' \cup {Env}
      BY <1>1 DEF BeginRequest, TypeInv, TablesOK, ThreadsOK, SetsOK, tables, sets, Subjects
    <2>3. task'[t] = o /\ subject'[t] = s
      BY DEF TypeInv, ThreadsOK
    <2>4. PlaceOK(t)'
      BY <2>1, <2>2, <2>3 DEF PlaceOK, ThreadPlaces, Granted
    <2> QED BY <2>1, <2>2, <2>4, ThreadTypes DEF StepTypes
  <1>2. ASSUME End(t), UNCHANGED cookies, users' = users, TablesOK', SetsOK'
        PROVE  TypeInv'
    <2>1. ThreadsOK'
      BY <1>2, EndTypes DEF TypeInv, ThreadsOK
    <2> QED BY <1>2, <2>1, EndTypes, ThreadTypes DEF StepTypes
  <1>3. ASSUME NEW next \in {"roles", "acting", "insert"}, Goto(t, next),
               pc[t] \in {"row", "roles"} \cup Granted,
               UNCHANGED << tables, serving, found, sets, faults >>
        PROVE  TypeInv'
    <2>1. TablesOK' /\ ThreadsOK' /\ SetsOK' /\ Own(t) /\ pc'[t] = next
      BY <1>0, <1>3, GotoTypes
         DEF TypeInv, TablesOK, ThreadsOK, SetsOK, tables, sets, serving, Own
    <2>2. PlaceOK(t)'
      BY <1>0, <1>3, <2>1 DEF PlaceOK, ThreadPlaces, Granted, serving, tables
    <2> QED BY <2>1, <2>2, ThreadTypes DEF StepTypes
  <1>4. ASSUME UNCHANGED << tables, found, sets, faults >> PROVE TablesOK' /\ SetsOK' /\ users' = users
    BY <1>4 DEF TypeInv, TablesOK, SetsOK, tables, sets
  <1>5. CASE ResolveRow(t) \/ ResolveRoles(t) \/ Serve(t) \/ CheckName(t)
    <2>1. CASE End(t) /\ UNCHANGED << tables, cookies, found, sets, faults >>
      BY <1>2, <1>4, <2>1
    <2>2. CASE ~ End(t) \/ ~ UNCHANGED << tables, cookies, found, sets, faults >>
      BY <1>3, <1>5, <2>2 DEF ResolveRow, ResolveRoles, Serve, CheckName, Granted, serving
    <2> QED BY <2>1, <2>2
  <1>6. CASE Insert(t)
    <2>1. task[t] # Idle
      BY <1>0, <1>6 DEF Insert, PlaceOK
    <2>2. TablesOK' /\ SetsOK' /\ users \subseteq users' /\ task[t].user \in users'
      BY <1>0, <1>6, <2>1 DEF Insert, TypeInv, TablesOK, SetsOK, sets
    <2>3. CASE End(t)
      <3>1. ThreadsOK'
        BY <1>6, <2>2, <2>3, EndTypes DEF Insert, TypeInv, ThreadsOK
      <3> QED BY <2>2, <2>3, <3>1, EndTypes, ThreadTypes DEF StepTypes
    <2>4. CASE ~ End(t)
      <3>1. /\ AreRoles(task[t].roles) /\ task[t].roles # << >>
            /\ todo' = [todo EXCEPT ![t] = task[t].roles]
            /\ Goto(t, "assigning") /\ UNCHANGED << task, subject, held, cookies >>
        BY <1>6, <2>4 DEF Insert
      <3>2. task[t].roles \in Seq(Roles)
        BY <1>0, <2>1, <3>1 DEF AreRoles
      <3>3. ThreadsOK' /\ Own(t) /\ pc'[t] = "assigning" /\ todo'[t] = task[t].roles
        BY <1>0, <2>2, <3>1, <3>2, GotoTypes DEF TypeInv, ThreadsOK, Own
      <3>4. PlaceOK(t)'
        BY <1>0, <1>6, <2>1, <2>2, <3>1, <3>3 DEF Insert, PlaceOK, ThreadPlaces, Granted
      <3> QED BY <2>2, <3>3, <3>4, ThreadTypes DEF StepTypes
    <2> QED BY <2>3, <2>4
  <1>7. CASE AssignNext(t)
    <2>1. todo[t] \in Seq(Roles) /\ todo[t] # << >> /\ task[t].user \in users
      BY <1>0, <1>7 DEF AssignNext, PlaceOK, TypeInv, ThreadsOK
    <2>2. Head(todo[t]) \in Roles /\ Tail(todo[t]) \in Seq(Roles)
      BY <2>1
    <2>3. TablesOK' /\ SetsOK' /\ users' = users
      BY <1>7, <2>1, <2>2 DEF AssignNext, Assigned, TypeInv, TablesOK, SetsOK, sets
    <2>4. CASE End(t)
      BY <1>2, <1>7, <2>3, <2>4 DEF AssignNext
    <2>5. CASE ~ End(t)
      <3>1. /\ Len(todo[t]) # 1 /\ todo' = [todo EXCEPT ![t] = Tail(@)]
            /\ UNCHANGED << pc, task, subject, held, cookies >>
        BY <1>7, <2>5 DEF AssignNext
      <3>2. Tail(todo[t]) # << >>
        <4>1. Len(todo[t]) \in Nat /\ Len(todo[t]) # 0 /\ Len(Tail(todo[t])) = Len(todo[t]) - 1
          BY <2>1, EmptySeq, HeadTailProperties
        <4>2. Len(Tail(todo[t])) # 0
          BY <3>1, <4>1
        <4>3. Len(<< >>) = 0
          OBVIOUS
        <4> QED BY <4>2, <4>3
      <3>3. ThreadsOK' /\ Own(t) /\ todo'[t] = Tail(todo[t])
        BY <2>2, <2>3, <3>1 DEF TypeInv, ThreadsOK, Own
      <3>4. PlaceOK(t)'
        BY <1>0, <2>3, <3>1, <3>2, <3>3 DEF PlaceOK
      <3> QED BY <2>3, <3>3, <3>4, ThreadTypes DEF StepTypes
    <2> QED BY <2>4, <2>5
  <1>8. CASE SetActive(t)
    <2>1. TablesOK' /\ SetsOK' /\ users' = users
      BY <1>8 DEF SetActive, TypeInv, TablesOK, SetsOK, sets
    <2> QED BY <1>2, <1>8, <2>1 DEF SetActive
  <1>9. CASE ChangeRole(t)
    <2>1. TablesOK' /\ SetsOK' /\ users' = users
      BY <1>9 DEF ChangeRole, Assigned, TypeInv, TablesOK, SetsOK, sets
    <2> QED BY <1>2, <1>9, <2>1 DEF ChangeRole
  <1>10. CASE SetPassword(t)
    <2>1. task[t] # Idle
      BY <1>0, <1>10 DEF SetPassword, PlaceOK, Granted
    <2> DEFINE reset == task[t].flag \/ task[t].op = "reset_password"
    <2>2. task[t].user \in Users /\ task[t].password \in Passwords /\ reset \in BOOLEAN
      BY <1>0, <2>1
    <2>3. CASE task[t].user \in users
      <3>1. TablesOK' /\ SetsOK' /\ users' = users
        BY <1>10, <2>2, <2>3, StoreTypes DEF SetPassword
      <3> QED BY <1>2, <1>10, <3>1 DEF SetPassword
    <2>4. CASE task[t].user \notin users
      <3>1. TablesOK' /\ SetsOK' /\ users' = users
        BY <1>10, <2>4 DEF SetPassword, TypeInv, TablesOK, SetsOK
      <3> QED BY <1>2, <1>10, <3>1 DEF SetPassword
    <2> QED BY <2>3, <2>4
  <1> QED BY <1>1, <1>5, <1>6, <1>7, <1>8, <1>9, <1>10 DEF Request

LEMMA FailTypes ==
  ASSUME TypeInv, NEW t \in Threads, Fail(t)
  PROVE  TypeInv'
  <1>1. TablesOK' /\ SetsOK' /\ users' = users
    <2>1. faults' \in 0..MaxFaults
      BY FaultsAssumption DEF Fail, TypeInv, SetsOK
    <2>2. CASE UNCHANGED << tables, found, sets >>
      BY <2>1, <2>2 DEF TypeInv, TablesOK, SetsOK, tables, sets
    <2>3. CASE Upsert(t)
      BY <2>1, <2>3, UpsertTypes
    <2> QED BY <2>2, <2>3 DEF Fail
  <1>2. End(t) /\ cookies' \subseteq cookies \cup {Env}
    BY DEF Fail, FallBack
  <1>3. ThreadsOK'
    BY <1>1, <1>2, EndTypes DEF TypeInv, ThreadsOK
  <1> QED BY <1>1, <1>2, <1>3, EndTypes, ThreadTypes DEF StepTypes

\* A bootstrap leaves the threads alone.
LEMMA BootStep ==
  ASSUME TypeInv, NEW b \in Bootstraps, NEW next, Goto(b, next), UNCHANGED serving,
         users \subseteq users', TablesOK', SetsOK',
         next \in {"idle"} \cup Booting,
         next \notin {"idle", "find", "check", "boot_insert"} => BootUser \in users',
         next = "seed" => BootPassword # NoPassword
  PROVE  TypeInv'
  <1>1. b \in Actors /\ \A t \in Threads : t # b
    BY DEF Actors
  <1>2. Own(b) /\ pc'[b] = next
    BY <1>1, GotoTypes DEF Own, serving
  <1>3. ThreadsOK'
    BY DEF TypeInv, ThreadsOK, serving
  <1>4. BootPlaceOK(b)'
    BY <1>2 DEF BootPlaceOK
  <1> QED BY <1>2, <1>3, <1>4, BootTypes DEF StepTypes

LEMMA BootstrapTypes ==
  ASSUME TypeInv, NEW b \in Bootstraps, Bootstrap(b)
  PROVE  TypeInv'
  <1>0. BootPlaceOK(b) /\ BootUser \in Users
    BY DEF TypeInv
  <1>1. ASSUME UNCHANGED << tables, sets, faults >>, found' \in [Bootstraps -> BOOLEAN]
        PROVE  TablesOK' /\ SetsOK' /\ users' = users
    BY <1>1 DEF TypeInv, TablesOK, SetsOK, tables, sets
  <1>2. found \in [Bootstraps -> BOOLEAN]
    BY DEF TypeInv, SetsOK
  <1>3. Found(b) => found' \in [Bootstraps -> BOOLEAN]
    BY <1>2 DEF Found
  <1>4. CASE Start(b)
    BY <1>1, <1>2, <1>4, BootStep DEF Start, Booting
  <1>5. CASE Find(b)
    BY <1>1, <1>2, <1>3, <1>5, BootStep DEF Find, Booting
  <1>6. CASE CheckBoot(b)
    BY <1>1, <1>2, <1>6, BootStep DEF CheckBoot, Booting
  <1>7. CASE InsertBoot(b)
    <2>1. TablesOK' /\ SetsOK' /\ users \subseteq users'
      BY <1>7 DEF InsertBoot, TypeInv, TablesOK, SetsOK, sets
    <2> QED BY <1>7, <2>1, BootStep DEF InsertBoot, Booting
  <1>8. CASE AssignBoot(b)
    <2>1. BootUser \in users
      BY <1>0, <1>8 DEF AssignBoot, BootPlaceOK
    <2>2. TablesOK' /\ SetsOK' /\ users' = users
      BY <1>8, <2>1 DEF AssignBoot, Assigned, Roles, TypeInv, TablesOK, SetsOK, sets
    <2> QED BY <1>8, <2>1, <2>2, BootStep DEF AssignBoot, Booting
  <1>9. CASE Reread(b)
    BY <1>0, <1>1, <1>3, <1>9, BootStep DEF Reread, Booting, BootPlaceOK
  <1>10. CASE ListRoles(b)
    BY <1>0, <1>1, <1>2, <1>10, BootStep DEF ListRoles, Booting, BootPlaceOK
  <1>11. CASE EnsureActive(b)
    <2>1. BootUser \in users
      BY <1>0, <1>11 DEF EnsureActive, BootPlaceOK
    <2>2. TablesOK' /\ SetsOK' /\ users' = users
      BY <1>11, <2>1 DEF EnsureActive, TypeInv, TablesOK, SetsOK, sets
    <2> QED BY <1>11, <2>1, <2>2, BootStep DEF EnsureActive, Booting
  <1>12. CASE Verify(b)
    BY <1>0, <1>1, <1>2, <1>12, BootStep DEF Verify, Booting, BootPlaceOK
  <1>13. CASE Seed(b)
    <2>1. BootUser \in users /\ BootPassword \in Passwords
      BY <1>0, <1>13 DEF Seed, BootPlaceOK
    <2>2. TablesOK' /\ SetsOK' /\ users' = users
      BY <1>13, <2>1, StoreTypes DEF Seed
    <2> QED BY <1>13, <2>2, BootStep DEF Seed, Booting
  <1>14. CASE FailBoot(b)
    <2>1. TablesOK' /\ SetsOK' /\ users' = users
      BY <1>14 DEF FailBoot, TypeInv, TablesOK, SetsOK, tables, sets
    <2> QED BY <1>14, <2>1, BootStep DEF FailBoot, Booting
  <1> QED BY <1>4, <1>5, <1>6, <1>7, <1>8, <1>9, <1>10, <1>11, <1>12, <1>13, <1>14 DEF Bootstrap

LEMMA TypeStep == TypeInv /\ [Next]_vars => TypeInv'
  <1> SUFFICES ASSUME TypeInv, [Next]_vars PROVE TypeInv'
    OBVIOUS
  <1>1. CASE Next
    BY <1>1, LoginTypes, RequestTypes, FailTypes, BootstrapTypes DEF Next
  <1>2. CASE UNCHANGED vars
    BY <1>2 DEF vars, tables, serving, sets, watched, TypeInv, TablesOK, ThreadsOK, SetsOK,
       PlaceOK, BootPlaceOK
  <1> QED BY <1>1, <1>2

-----------------------------------------------------------------------------
(* A step of a thread or a bootstrap leaves the others where they are      *)

Same(t) ==
  pc'[t] = pc[t] /\ task'[t] = task[t] /\ subject'[t] = subject[t] /\ held'[t] = held[t]

LEMMA EndFrame ==
  ASSUME TypeInv, NEW t \in Threads, End(t)
  PROVE  (\A q \in Threads \ {t} : Same(q)) /\ (\A b \in Bootstraps : pc'[b] = pc[b])
  BY DEF End, Goto, TypeInv, ThreadsOK, Same, Actors

LEMMA ThreadFrame ==
  ASSUME TypeInv, NEW t \in Threads, Login(t) \/ Request(t) \/ Fail(t)
  PROVE  /\ \A q \in Threads \ {t} : Same(q)
         /\ \A b \in Bootstraps : pc'[b] = pc[b]
         /\ found' = found
  <1> DEFINE Goal == /\ \A q \in Threads \ {t} : Same(q)
                     /\ \A b \in Bootstraps : pc'[b] = pc[b]
  <1>1. End(t) => Goal
    BY EndFrame
  <1>2. FallBack(t) \/ IssueCookie(t) => Goal
    BY <1>1 DEF FallBack, IssueCookie
  <1>3. ASSUME NEW next, Goto(t, next), UNCHANGED << task, subject, held >> PROVE Goal
    BY <1>3 DEF Goto, TypeInv, Same, Actors
  <1>4. ASSUME NEW next, Goto(t, next), NEW o, task' = [task EXCEPT ![t] = o], NEW s,
               subject' = [subject EXCEPT ![t] = s], UNCHANGED held
        PROVE  Goal
    BY <1>4 DEF Goto, TypeInv, ThreadsOK, Same, Actors
  <1>5. CASE Login(t)
    <2>1. CASE BeginLogin(t)
      BY <2>1 DEF BeginLogin, Goto, TypeInv, ThreadsOK, Same, Actors, tables
    <2>2. CASE LoginRow(t) \/ LoginRoles(t)
      BY <1>2, <1>3, <2>2 DEF LoginRow, LoginRoles, serving
    <2>3. CASE LoginCredential(t)
      <3>1. ASSUME NEW c, held' = [held EXCEPT ![t] = c], Goto(t, "rehash"),
                   UNCHANGED << cookies, task, todo, subject >>
            PROVE  Goal
        BY <3>1 DEF Goto, TypeInv, ThreadsOK, Same, Actors
      <3> QED BY <1>2, <2>3, <3>1 DEF LoginCredential
    <2>4. CASE Rehash(t)
      BY <1>2, <2>4 DEF Rehash, Upsert
    <2>5. found' = found
      BY <1>5 DEF Login, BeginLogin, LoginRow, LoginRoles, LoginCredential, Rehash, Upsert
    <2> QED BY <1>5, <2>1, <2>2, <2>3, <2>4, <2>5 DEF Login
  <1>6. CASE Request(t)
    <2>1. CASE BeginRequest(t)
      BY <1>4, <2>1 DEF BeginRequest
    <2>2. CASE ResolveRow(t) \/ ResolveRoles(t) \/ Serve(t) \/ CheckName(t)
      BY <1>1, <1>3, <2>2 DEF ResolveRow, ResolveRoles, Serve, CheckName
    <2>3. CASE Insert(t)
      BY <1>1, <1>3, <2>3 DEF Insert
    <2>4. CASE AssignNext(t)
      BY <1>1, <2>4 DEF AssignNext, Same
    <2>5. CASE SetActive(t) \/ ChangeRole(t) \/ SetPassword(t)
      BY <1>1, <2>5 DEF SetActive, ChangeRole, SetPassword
    <2>6. found' = found
      BY <1>6 DEF Request, BeginRequest, ResolveRow, ResolveRoles, Serve, CheckName, Insert,
         AssignNext, SetActive, ChangeRole, SetPassword
    <2> QED BY <1>6, <2>1, <2>2, <2>3, <2>4, <2>5, <2>6 DEF Request
  <1>7. CASE Fail(t)
    BY <1>1, <1>2, <1>7 DEF Fail, Upsert
  <1> QED BY <1>5, <1>6, <1>7

LEMMA BootFrame ==
  ASSUME TypeInv, NEW b \in Bootstraps, Bootstrap(b)
  PROVE  /\ UNCHANGED serving /\ \A t \in Threads : Same(t)
         /\ \A c \in Bootstraps \ {b} : pc'[c] = pc[c] /\ found'[c] = found[c]
  <1>1. UNCHANGED serving
    BY DEF Bootstrap, Start, Find, CheckBoot, InsertBoot, AssignBoot, Reread, ListRoles,
       EnsureActive, Verify, Seed, FailBoot
  <1>2. \E next : Goto(b, next)
    BY DEF Bootstrap, Start, Find, CheckBoot, InsertBoot, AssignBoot, Reread, ListRoles,
       EnsureActive, Verify, Seed, FailBoot
  <1>3. \A a \in Actors \ {b} : pc'[a] = pc[a]
    BY <1>2, GotoTypes DEF Actors
  <1>4. found' = found \/ \E x : found' = [found EXCEPT ![b] = x]
    BY DEF Bootstrap, Start, Find, CheckBoot, InsertBoot, AssignBoot, Reread, ListRoles,
       EnsureActive, Verify, Seed, FailBoot, Found
  <1>5. \A c \in Bootstraps \ {b} : found'[c] = found[c]
    BY <1>4 DEF TypeInv, SetsOK
  <1> QED BY <1>1, <1>3, <1>5 DEF Same, serving, Actors

-----------------------------------------------------------------------------
(* Sessions: what a request has read of its user, row and roles            *)

\* The row was active before the roles are looked at, and both before it acts.
StandsOK(t) ==
  subject[t] # Env =>
    /\ pc[t] \in {"roles"} \cup Granted => "active" \in stood[t]
    /\ pc[t] \in Granted => "allowed" \in stood[t]

WatchedOK == stood \in [Threads -> SUBSET {"active", "allowed"}] /\ meddled \subseteq Bootstraps

AccessInv == WatchedOK /\ \A t \in Threads : StandsOK(t)

\* What is noted of a thread stays until its request ends.
LEMMA StoodGrows ==
  ASSUME WatchedOK, Watch
  PROVE  /\ WatchedOK'
         /\ \A t \in Threads : pc'[t] # "idle" /\ subject'[t] # Env =>
              /\ stood[t] \subseteq stood'[t]
              /\ pc[t] \notin Granted =>
                   Standing(subject'[t], task'[t].op, active', roles') \subseteq stood'[t]
  BY DEF WatchedOK, Watch, Standing

\* How a thread comes to act for its user.
Advances(t) ==
  \/ pc'[t] \notin {"roles"} \cup Granted
  \/ subject'[t] = Env
  \/ pc[t] = "row" /\ pc'[t] = "roles" /\ subject'[t] \in active'
  \/ /\ pc[t] = "roles" /\ pc'[t] = "acting" /\ subject'[t] = subject[t]
     /\ Allowed(roles'[subject'[t]], task'[t].op)
  \/ pc[t] \in Granted /\ subject'[t] = subject[t]

LEMMA AdvanceKeeps ==
  ASSUME AccessInv, Watch, NEW t \in Threads, Advances(t) \/ Same(t)
  PROVE  StandsOK(t)'
  BY StoodGrows DEF AccessInv, Advances, Same, StandsOK, Standing, Granted

LEMMA ThreadAdvances ==
  ASSUME TypeInv, NEW t \in Threads, Login(t) \/ Request(t) \/ Fail(t)
  PROVE  Advances(t)
  <1>0. t \in Actors
    BY DEF Actors
  <1>1. ASSUME End(t) PROVE pc'[t] = "idle"
    BY <1>0, <1>1, GotoTypes DEF End
  <1>2. FallBack(t) \/ IssueCookie(t) => pc'[t] = "idle"
    BY <1>1 DEF FallBack, IssueCookie
  <1>3. CASE Login(t)
    <2>1. pc'[t] \in {"idle"} \cup LoggingIn
      BY <1>0, <1>2, <1>3, GotoTypes
         DEF Login, BeginLogin, LoginRow, LoginRoles, LoginCredential, Rehash, LoggingIn
    <2> QED BY <2>1 DEF Advances, LoggingIn, Granted
  <1>4. CASE BeginRequest(t)
    <2>1. pc'[t] = "row" \/ subject'[t] = Env
      BY <1>0, <1>4, GotoTypes DEF BeginRequest, TypeInv, ThreadsOK
    <2> QED BY <2>1 DEF Advances, Granted
  <1>5. CASE ResolveRow(t)
    <2>1. pc'[t] = "idle" \/ (pc'[t] = "roles" /\ subject'[t] \in active')
      BY <1>0, <1>1, <1>5, GotoTypes DEF ResolveRow, tables
    <2> QED BY <1>5, <2>1 DEF ResolveRow, Advances, Granted
  <1>6. CASE ResolveRoles(t)
    <2>1. \/ pc'[t] = "idle"
          \/ /\ pc'[t] = "acting" /\ subject'[t] = subject[t]
             /\ Allowed(roles'[subject'[t]], task'[t].op)
      BY <1>0, <1>1, <1>6, GotoTypes DEF ResolveRoles, tables
    <2> QED BY <1>6, <2>1 DEF ResolveRoles, Advances, Granted
  <1>7. CASE \/ Serve(t) \/ CheckName(t) \/ Insert(t) \/ AssignNext(t) \/ SetActive(t)
             \/ ChangeRole(t) \/ SetPassword(t)
    <2>1. pc[t] \in Granted /\ (pc'[t] = "idle" \/ subject'[t] = subject[t])
      BY <1>1, <1>7 DEF Serve, CheckName, Insert, AssignNext, SetActive, ChangeRole, SetPassword, Granted
    <2> QED BY <2>1 DEF Advances, Granted
  <1>8. CASE Fail(t)
    BY <1>1, <1>2, <1>8 DEF Fail, Advances, Granted
  <1> QED BY <1>3, <1>4, <1>5, <1>6, <1>7, <1>8 DEF Request

LEMMA AccessStep == TypeInv /\ AccessInv /\ [Next]_vars => AccessInv'
  <1> SUFFICES ASSUME TypeInv, AccessInv, [Next]_vars PROVE AccessInv'
    OBVIOUS
  <1>1. CASE Next
    <2>1. Watch /\ WatchedOK'
      BY <1>1, StoodGrows DEF Next, AccessInv
    <2>2. \A t \in Threads : Advances(t) \/ Same(t)
      BY <1>1, ThreadAdvances, ThreadFrame, BootFrame DEF Next
    <2> QED BY <2>1, <2>2, AdvanceKeeps DEF AccessInv
  <1>2. CASE UNCHANGED vars
    BY <1>2 DEF vars, serving, watched, AccessInv, WatchedOK, StandsOK
  <1> QED BY <1>1, <1>2

-----------------------------------------------------------------------------
(* Passwords: what a login that stores a hash again holds                  *)

HoldsLatest(t) ==
  pc[t] = "rehash" /\ task[t].user \in settled => ChoiceOf(held[t]) = latest[task[t].user]

PasswordInv == PasswordSetStays /\ \A t \in Threads : HoldsLatest(t)

LEMMA ChoiceOfRow ==
  ASSUME NEW c \in Credential
  PROVE  ChoiceOf(c) = Choice(c.password, c.reset)
  BY DEF Credential, ChoiceOf, NoCredential

\* A step that sets no password and holds none.
LEMMA PasswordsRest ==
  ASSUME PasswordInv, UNCHANGED << credential, sets >>,
         \A t \in Threads : pc'[t] = "rehash" => Same(t)
  PROVE  PasswordInv'
  BY DEF PasswordInv, PasswordSetStays, HoldsLatest, Same, sets

LEMMA StoreKeeps ==
  ASSUME TypeInv, PasswordInv, NEW u \in users, NEW p \in Passwords, NEW reset \in BOOLEAN,
         Store(u, p, reset), \A t \in Threads : pc'[t] = "rehash" => Same(t)
  PROVE  PasswordInv'
  <1>0. u \in Users /\ settled \subseteq Users /\ credential \in [Users -> Credential \cup {NoCredential}]
        /\ DOMAIN latest = Users
    BY DEF TypeInv, TablesOK, SetsOK
  <1>1. [password |-> p, reset |-> reset, outdated |-> FALSE] \in Credential
    BY DEF Credential
  <1>2. ChoiceOf(credential'[u]) = Choice(p, reset) /\ latest'[u] = Choice(p, reset)
    BY <1>0, <1>1, ChoiceOfRow DEF Store, TypeInv, SetsOK
  <1>3. \A v \in Users \ {u} : credential'[v] = credential[v] /\ latest'[v] = latest[v]
    BY <1>0 DEF Store, TypeInv, SetsOK
  <1>4. \A v \in settled' : v = u \/ v \in settled
    BY DEF Store
  <1>5. PasswordSetStays'
    BY <1>0, <1>2, <1>3, <1>4 DEF PasswordInv, PasswordSetStays
  <1>6. ASSUME NEW t \in Threads, pc'[t] = "rehash", task'[t].user \in settled'
        PROVE  ChoiceOf(held'[t]) = latest'[task'[t].user]
    <2>1. Same(t) /\ PlaceOK(t) /\ HoldsLatest(t)
      BY <1>6 DEF TypeInv, PasswordInv
    <2>2. task[t].user # u
      <3>1. task[t].user = u => t \in Rehashing(u)
        BY <1>6, <2>1 DEF Rehashing, PlaceOK, Same
      <3>2. u \in settled' => Rehashing(u) = {}
        BY DEF Store
      <3> QED BY <1>6, <2>1, <3>1, <3>2 DEF Same
    <2>3. task[t].user \in settled /\ task[t].user \in Users
      BY <1>0, <1>4, <1>6, <2>1, <2>2 DEF Same
    <2> QED BY <1>3, <1>6, <2>1, <2>2, <2>3 DEF Same, HoldsLatest
  <1> QED BY <1>5, <1>6 DEF PasswordInv, HoldsLatest

\* All that takes a thread to "rehash" is a login, all that sets a password is Store.
LEMMA NoRehash ==
  ASSUME TypeInv, NEW t \in Threads, Request(t) \/ Fail(t)
  PROVE  pc'[t] # "rehash"
  <1>0. t \in Actors
    BY DEF Actors
  <1>1. End(t) => pc'[t] = "idle"
    BY <1>0, GotoTypes DEF End
  <1>2. CASE Fail(t)
    BY <1>1, <1>2 DEF Fail, FallBack
  <1>3. CASE Request(t)
    BY <1>0, <1>1, <1>3, GotoTypes DEF Request, BeginRequest, ResolveRow, ResolveRoles, Serve,
       CheckName, Insert, AssignNext, SetActive, ChangeRole, SetPassword
  <1> QED BY <1>2, <1>3

\* What is stored again is what was set last, unless it was set meanwhile.
LEMMA UpsertPasswords ==
  ASSUME TypeInv, PasswordInv, NEW t \in Threads, Upsert(t), pc'[t] # "rehash",
         \A q \in Threads \ {t} : Same(q)
  PROVE  PasswordInv'
  <1> DEFINE u == task[t].user
             c == [held[t] EXCEPT !.outdated = FALSE]
  <1>1. u \in Users /\ held[t] \in Credential /\ UNCHANGED sets
    BY DEF Upsert, PlaceOK, TypeInv, TablesOK
  <1>2. c \in Credential /\ c.password = held[t].password /\ c.reset = held[t].reset
    BY <1>1 DEF Credential
  <1>3. ChoiceOf(c) = ChoiceOf(held[t])
    BY <1>1, <1>2, ChoiceOfRow
  <1>4. credential' = [credential EXCEPT ![u] = c]
    BY DEF Upsert
  <1>5. u \in settled => ChoiceOf(held[t]) = latest[u]
    BY DEF Upsert, PasswordInv, HoldsLatest
  <1>6. PasswordSetStays'
    BY <1>1, <1>3, <1>4, <1>5 DEF PasswordInv, PasswordSetStays, TypeInv, TablesOK, SetsOK, sets
  <1>7. \A q \in Threads : HoldsLatest(q)'
    BY <1>1 DEF PasswordInv, HoldsLatest, Same, sets
  <1> QED BY <1>6, <1>7 DEF PasswordInv

LEMMA LoginPasswords ==
  ASSUME TypeInv, PasswordInv, NEW t \in Threads, Login(t)
  PROVE  PasswordInv'
  <1>0. t \in Actors /\ PlaceOK(t) /\ \A q \in Threads \ {t} : Same(q)
    BY ThreadFrame DEF TypeInv, Actors
  <1>1. End(t) => pc'[t] = "idle"
    BY <1>0, GotoTypes DEF End
  <1>2. FallBack(t) \/ IssueCookie(t) => pc'[t] = "idle"
    BY <1>1 DEF FallBack, IssueCookie
  <1>3. CASE BeginLogin(t) \/ LoginRow(t) \/ LoginRoles(t)
    <2>1. pc'[t] # "rehash"
      BY <1>0, <1>2, <1>3, GotoTypes DEF BeginLogin, LoginRow, LoginRoles
    <2> QED BY <1>0, <1>3, <2>1, PasswordsRest DEF BeginLogin, LoginRow, LoginRoles, tables, Same
  <1>4. CASE LoginCredential(t)
    <2>1. UNCHANGED << credential, sets >>
      BY <1>4 DEF LoginCredential, tables
    <2>2. CASE pc'[t] # "rehash"
      BY <1>0, <2>1, <2>2, PasswordsRest
    <2>3. CASE pc'[t] = "rehash"
      <3> DEFINE c == credential[task[t].user]
      <3>1. held' = [held EXCEPT ![t] = c] /\ task' = task
        BY <1>2, <1>4, <2>3 DEF LoginCredential
      <3>2. held'[t] = c
        BY <3>1 DEF TypeInv, ThreadsOK
      <3>3. task[t].user \in settled => ChoiceOf(c) = latest[task[t].user]
        BY DEF PasswordInv, PasswordSetStays
      <3>4. HoldsLatest(t)'
        BY <2>1, <3>1, <3>2, <3>3 DEF HoldsLatest, sets
      <3>5. \A q \in Threads \ {t} : HoldsLatest(q)'
        BY <1>0, <2>1 DEF PasswordInv, HoldsLatest, Same, sets
      <3> QED BY <2>1, <3>4, <3>5 DEF PasswordInv, PasswordSetStays, sets
    <2> QED BY <2>2, <2>3
  <1>5. CASE Rehash(t)
    BY <1>0, <1>2, <1>5, UpsertPasswords DEF Rehash
  <1> QED BY <1>3, <1>4, <1>5 DEF Login

LEMMA PasswordStep == TypeInv /\ PasswordInv /\ [Next]_vars => PasswordInv'
  <1> SUFFICES ASSUME TypeInv, PasswordInv, [Next]_vars PROVE PasswordInv'
    OBVIOUS
  <1>1. ASSUME NEW t \in Threads, Request(t) \/ Fail(t) PROVE PasswordInv'
    <2>1. \A q \in Threads : pc'[q] = "rehash" => Same(q)
      BY <1>1, NoRehash, ThreadFrame
    <2>2. CASE UNCHANGED << credential, sets >>
      BY <2>1, <2>2, PasswordsRest
    <2>3. CASE Upsert(t) /\ Fail(t)
      BY <1>1, <2>3, NoRehash, ThreadFrame, UpsertPasswords
    <2>4. CASE ~ UNCHANGED << credential, sets >> /\ ~ (Upsert(t) /\ Fail(t))
      <3>1. SetPassword(t) /\ task[t].user \in users
        BY <1>1, <2>4 DEF Fail, Request, BeginRequest, ResolveRow, ResolveRoles, Serve, CheckName,
           Insert, AssignNext, SetActive, ChangeRole, SetPassword, tables, sets
      <3>2. task[t] \in Offers
        BY <3>1 DEF SetPassword, TypeInv, ThreadsOK, PlaceOK
      <3>3. /\ task[t].password \in Passwords
            /\ (task[t].flag \/ task[t].op = "reset_password") \in BOOLEAN
        BY <3>2
      <3> QED BY <2>1, <3>1, <3>3, StoreKeeps DEF SetPassword
    <2> QED BY <2>2, <2>3, <2>4
  <1>2. ASSUME NEW b \in Bootstraps, Bootstrap(b) PROVE PasswordInv'
    <2>1. \A q \in Threads : Same(q)
      BY <1>2, BootFrame
    <2>2. CASE UNCHANGED << credential, sets >>
      BY <2>1, <2>2, PasswordsRest
    <2>3. CASE ~ UNCHANGED << credential, sets >>
      <3>1. Seed(b)
        BY <1>2, <2>3 DEF Bootstrap, Start, Find, CheckBoot, InsertBoot, AssignBoot, Reread,
           ListRoles, EnsureActive, Verify, FailBoot, tables, sets
      <3>2. BootUser \in users /\ BootPassword \in Passwords
        BY <3>1 DEF Seed, TypeInv, BootPlaceOK
      <3> QED BY <2>1, <3>1, <3>2, StoreKeeps DEF Seed
    <2> QED BY <2>2, <2>3
  <1>3. CASE Next
    BY <1>1, <1>2, <1>3, LoginPasswords DEF Next
  <1>4. CASE UNCHANGED vars
    BY <1>4, PasswordsRest DEF vars, tables, serving, Same
  <1> QED BY <1>3, <1>4

-----------------------------------------------------------------------------
(* The bootstrap                                                           *)

\* What a bootstrap has read of its user, and what it has seen to since.
BootOK(b) ==
  /\ found[b] => pc[b] \in {"list", "ensure_role", "ensure_active"}
  /\ b \notin meddled =>
       /\ found[b] => BootUser \in active
       /\ pc[b] \in {"ensure_active", "verify", "seed"} => Admin \in roles[BootUser]
       /\ pc[b] \in {"verify", "seed"} => BootUser \in active

BootInv == \A b \in Bootstraps : BootOK(b)

\* Without being noted as meddled with, it cannot lose what it relies on.
LEMMA StandingStays ==
  ASSUME Watch, NEW b \in Bootstraps, b \notin meddled', pc'[b] # "idle"
  PROVE  /\ b \notin meddled
         /\ BootUser \in active => BootUser \in active'
         /\ Admin \in roles[BootUser] => Admin \in roles'[BootUser]
  BY DEF Watch

LEMMA OtherBoot ==
  ASSUME BootInv, Watch, NEW b \in Bootstraps, pc'[b] = pc[b], found'[b] = found[b]
  PROVE  BootOK(b)'
  BY StandingStays DEF BootInv, BootOK

LEMMA OwnBoot ==
  ASSUME TypeInv, BootInv, Watch, NEW b \in Bootstraps, Bootstrap(b)
  PROVE  BootOK(b)'
  <1>0. /\ b \in Actors /\ BootOK(b) /\ found \in [Bootstraps -> BOOLEAN]
        /\ roles \in [Users -> SUBSET Roles]
    BY DEF BootInv, Actors, TypeInv, SetsOK, TablesOK
  <1>1. Found(b) => found'[b] = (BootUser \in active)
    BY <1>0 DEF Found
  <1>2. CASE Start(b) \/ CheckBoot(b) \/ InsertBoot(b)
    <2>1. pc'[b] \in {"find", "idle", "boot_insert", "boot_assign"} /\ ~ found'[b]
      BY <1>0, <1>2, GotoTypes DEF Start, CheckBoot, InsertBoot, BootOK
    <2> QED BY <2>1 DEF BootOK
  <1>3. CASE Find(b)
    <2>1. \/ pc'[b] = "check" /\ ~ found'[b]
          \/ pc'[b] = "list" /\ found'[b] = (BootUser \in active')
      BY <1>0, <1>1, <1>3, GotoTypes DEF Find, BootOK, tables
    <2> QED BY <2>1 DEF BootOK
  <1>4. CASE AssignBoot(b)
    <2>1. Admin \in roles'[BootUser]
      BY <1>0, <1>4 DEF AssignBoot, Assigned
    <2>2. found'[b] = found[b] /\ pc[b] # "idle"
          /\ pc'[b] = IF pc[b] = "boot_assign" THEN "reread" ELSE "ensure_active"
      BY <1>0, <1>4, GotoTypes DEF AssignBoot
    <2> QED BY <1>0, <1>4, <2>1, <2>2, StandingStays DEF AssignBoot, BootOK
  <1>5. CASE Reread(b)
    <2>1. pc'[b] = "list" /\ found'[b] = (BootUser \in active')
      BY <1>0, <1>1, <1>5, GotoTypes DEF Reread, tables
    <2> QED BY <2>1 DEF BootOK
  <1>6. CASE ListRoles(b)
    <2>1. /\ found'[b] = found[b] /\ UNCHANGED << active, roles >>
          /\ pc'[b] = IF Admin \in roles[BootUser] THEN "ensure_active" ELSE "ensure_role"
      BY <1>0, <1>6, GotoTypes DEF ListRoles, tables
    <2> QED BY <1>0, <2>1, StandingStays DEF BootOK
  <1>7. CASE EnsureActive(b)
    <2>1. /\ pc[b] = "ensure_active" /\ pc'[b] = "verify" /\ ~ found'[b] /\ roles' = roles
          /\ found[b] => active' = active
          /\ ~ found[b] => BootUser \in active'
      BY <1>0, <1>7, GotoTypes DEF EnsureActive
    <2> QED BY <1>0, <2>1, StandingStays DEF BootOK
  <1>8. CASE Verify(b)
    <2>1. /\ pc[b] = "verify" /\ pc'[b] \in {"idle", "seed"} /\ found'[b] = found[b]
          /\ UNCHANGED << active, roles >>
      BY <1>0, <1>8, GotoTypes DEF Verify, tables
    <2> QED BY <1>0, <2>1, StandingStays DEF BootOK
  <1>9. CASE Seed(b) \/ FailBoot(b)
    <2>1. pc'[b] = "idle" /\ ~ found'[b]
      BY <1>0, <1>9, GotoTypes DEF Seed, FailBoot, BootOK
    <2> QED BY <2>1 DEF BootOK
  <1> QED BY <1>2, <1>3, <1>4, <1>5, <1>6, <1>7, <1>8, <1>9 DEF Bootstrap

LEMMA BootInvStep == TypeInv /\ BootInv /\ [Next]_vars => BootInv'
  <1> SUFFICES ASSUME TypeInv, BootInv, [Next]_vars PROVE BootInv'
    OBVIOUS
  <1>1. CASE Next
    BY <1>1, OwnBoot, OtherBoot, ThreadFrame, BootFrame DEF Next, BootInv
  <1>2. CASE UNCHANGED vars
    BY <1>2 DEF vars, tables, watched, BootInv, BootOK
  <1> QED BY <1>1, <1>2

-----------------------------------------------------------------------------
(* Theorems                                                                *)

UserInv == TypeInv /\ AccessInv /\ PasswordInv /\ BootInv

LEMMA UserInvariant == Spec => []UserInv
  <1>1. Init => UserInv
    <2> SUFFICES ASSUME Init PROVE UserInv
      OBVIOUS
    <2>1. TypeInv
      BY InitTypes
    <2>2. AccessInv /\ BootInv
      BY DEF Init, AccessInv, WatchedOK, StandsOK, BootInv, BootOK, Actors, Granted
    <2>3. PasswordInv
      BY DEF Init, PasswordInv, PasswordSetStays, HoldsLatest, Actors
    <2> QED BY <2>1, <2>2, <2>3 DEF UserInv
  <1>2. UserInv /\ [Next]_vars => UserInv'
    BY TypeStep, AccessStep, PasswordStep, BootInvStep DEF UserInv
  <1> QED BY <1>1, <1>2, PTL DEF Spec

\* The tables, sessions and bootstraps keep their types: no row or cookie without a
\* user, no request for a user that does not exist, no role outside the known ones.
THEOREM UserTypes == Spec => []TypeOK
  <1>1. UserInv => TypeOK
    <2> SUFFICES ASSUME UserInv PROVE TypeOK
      OBVIOUS
    <2>1. \A t \in Threads :
            /\ pc[t] \in {"idle", "row", "roles"} \cup LoggingIn \cup Granted
            /\ task[t] = Idle <=> pc[t] = "idle"
            /\ pc[t] = "assigning" => todo[t] # << >>
            /\ pc[t] \in {"row", "roles"} \cup Granted => subject[t] \in users \cup {Env}
            /\ pc[t] = "assigning" => task[t].user \in users
      BY DEF UserInv, TypeInv, PlaceOK, ThreadPlaces
    <2>2. \A b \in Bootstraps : pc[b] \in {"idle"} \cup Booting
      BY DEF UserInv, TypeInv, BootPlaceOK
    <2> QED BY <2>1, <2>2 DEF UserInv, TypeInv, TypeOK, TablesOK, ThreadsOK, SetsOK, AccessInv, WatchedOK
  <1> QED BY <1>1, UserInvariant, PTL

\* resolve_authenticated_user: whatever others change meanwhile, a request acts only
\* for a user that has been active, and has had a role it needs, since it began.
THEOREM RequestsStand == Spec => []DeactivationBites
  <1>1. UserInv => DeactivationBites
    BY DEF UserInv, AccessInv, WatchedOK, StandsOK, DeactivationBites
  <1> QED BY <1>1, UserInvariant, PTL

\* verify_login: only a login that holds an outdated hash while a password is set
\* can put an earlier one in its place.
THEOREM PasswordsStay == Spec => []PasswordSetStays
  <1>1. UserInv => PasswordSetStays
    BY DEF UserInv, PasswordInv
  <1> QED BY <1>1, UserInvariant, PTL

\* ensure_bootstrap_admin_user: any number of bootstraps, creations and failures
\* leave an active administrator behind every bootstrap that is not meddled with.
THEOREM BootstrapsLeaveAdmin == Spec => []BootstrapLeavesAdmin
  <1>1. UserInv => BootstrapLeavesAdmin
    BY DEF UserInv, BootInv, BootOK, BootstrapLeavesAdmin
  <1> QED BY <1>1, UserInvariant, PTL

=============================================================================
