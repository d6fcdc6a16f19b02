---------------------------- MODULE AccountsProofs -----------------------------
(***************************************************************************)
(* What the console guarantees about its accounts, for any number of       *)
(* accounts, sessions and requests in progress: an edit that loses the     *)
(* last administrator either comes from the command line or counted other  *)
(* administrators than there were when it committed, and a session ended   *)
(* by an edit stays ended unless its login overlapped the edit.            *)
(***************************************************************************)
EXTENDS Accounts, TLAPS

USE RootAssumption, GrantableAssumption, EditsAssumption

\* Every action changes requests in one of two ways: one goes on, or one ends.
LEMMA IdleTyped == Idle \in Request
BY DEF Idle, Request, Op, Roles, ROLE_RANK

LEMMA ProceedTypes ==
    ASSUME TypeOK, NEW t \in Txns, NEW u \in Users, NEW refused \in BOOLEAN,
           NEW role \in Roles \cup {"keep"}, NEW active \in {"keep", "on", "off"},
           NEW kills \in SUBSET Tokens, Proceed(t, u, refused, role, active, kills)
    PROVE  TypeOK'
<1>1. Loaded(t, u) \in [role : Roles, active : BOOLEAN]
  BY DEF Loaded, TypeOK, Account, Roles, ROLE_RANK
<1>2. ActiveAdmins \in SUBSET Users
  BY DEF ActiveAdmins
<1>3. \A r \in Request, seen \in [role : Roles, active : BOOLEAN], admins \in SUBSET Users :
         [r EXCEPT !.pc = "loaded", !.target = u, !.role = role, !.active = active,
                   !.seen = seen, !.admins = admins, !.kills = kills] \in Request
  BY DEF Request
<1>4. txn' \in [Txns -> Request]
  BY <1>1, <1>2, <1>3, IdleTyped DEF Proceed, TypeOK
<1> QED BY <1>4 DEF Proceed, TypeOK

\* Every step keeps the types.
LEMMA TypeStep == TypeOK /\ [Next]_vars => TypeOK'
<1> SUFFICES ASSUME TypeOK, [Next]_vars PROVE TypeOK'
  OBVIOUS
<1>0. /\ user \in [Users -> Account] /\ token \in [Tokens -> SessionRow]
      /\ txn \in [Txns -> Request] /\ edits \in 0 .. MaxEdits
  BY DEF TypeOK
<1>a. edits < MaxEdits => edits + 1 \in 0 .. MaxEdits
  BY <1>0
<1>b. \A t \in Txns : [txn EXCEPT ![t] = Idle] \in [Txns -> Request]
  BY <1>0, IdleTyped
<1>1. ASSUME NEW k \in Tokens, Expire(k) \/ Logout(k) PROVE TypeOK'
  <2>1. [token[k] EXCEPT !.row = "gone"] \in SessionRow
    BY <1>0 DEF SessionRow
  <2> QED BY <1>0, <1>1, <2>1 DEF Expire, Logout, TypeOK
<1>2. ASSUME NEW t \in Txns, NEW u \in Users, Authenticate(t, u) PROVE TypeOK'
  <2>1. user[u].cuts \in Nat
    BY <1>0 DEF Account
  <2>2. [Idle EXCEPT !.pc = "loaded", !.op = "login", !.target = u, !.cut = user[u].cuts]
           \in Request
    BY <2>1, IdleTyped DEF Request, Op
  <2> QED BY <1>0, <1>2, <2>2 DEF Authenticate, TypeOK
<1>3. ASSUME NEW t \in Txns, NEW u \in Users, ResetPassword(t, u) \/ DeleteUser(t, u)
      PROVE TypeOK'
  <2>1. SessionsOf(u) \in SUBSET Tokens
    BY DEF SessionsOf
  <2>2. (~Present(u)) \in BOOLEAN /\ (~Present(u) \/ u = txn[t].actor \/ LastAdmin(t, u)) \in BOOLEAN
    OBVIOUS
  <2> QED BY <1>3, <2>1, <2>2, ProceedTypes DEF ResetPassword, DeleteUser
<1>4. ASSUME NEW t \in Txns, NEW k \in Tokens, CreateSession(t, k) PROVE TypeOK'
  <2>1. txn[t].target \in Users /\ txn[t].cut \in Nat
    BY <1>0 DEF Request
  <2> DEFINE raced == BeingCut(txn[t].target) \/ user[txn[t].target].cuts # txn[t].cut
  <2>2. raced \in BOOLEAN
    OBVIOUS
  <2>3. [row |-> "live", user |-> txn[t].target, cut |-> txn[t].cut, raced |-> raced] \in SessionRow
    <3> HIDE DEF raced
    <3> QED BY <2>1, <2>2 DEF SessionRow
  <2>4. token' \in [Tokens -> SessionRow]
    BY <1>0, <1>4, <2>3 DEF CreateSession
  <2> QED BY <1>0, <1>b, <1>4, <2>4 DEF CreateSession, TypeOK
<1>5. ASSUME NEW t \in Txns, NEW k \in Tokens, NEW op \in Op \ {"none", "login"},
             Authorise(t, k, op)
      PROVE  TypeOK'
  <2>1. token[k].user \in Users
    BY <1>0 DEF SessionRow
  <2>2. [Idle EXCEPT !.pc = "authorised", !.op = op, !.actor = token[k].user] \in Request
    BY <2>1, IdleTyped DEF Request
  <2> QED BY <1>0, <1>a, <1>5, <2>2 DEF Authorise, TypeOK
<1>6. ASSUME NEW t \in Txns, NEW u \in Users, NEW r \in Grantable, CreateUser(t, u, r)
      PROVE  TypeOK'
  <2>1. (user[u].state # "absent") \in BOOLEAN /\ {} \in SUBSET Tokens
    OBVIOUS
  <2> QED BY <1>6, <2>1, ProceedTypes DEF CreateUser
<1>7. ASSUME NEW t \in Txns, NEW u \in Users, NEW r \in Grantable \cup {"keep"},
             NEW a \in {"keep", "on", "off"}, UpdateUser(t, u, r, a)
      PROVE  TypeOK'
  <2>1. (IF Revokes(r, a) THEN SessionsOf(u) ELSE {}) \in SUBSET Tokens
    BY DEF SessionsOf
  <2>2. \A b \in BOOLEAN : (~Present(u) \/ (b /\ LastAdmin(t, u))) \in BOOLEAN
    OBVIOUS
  <2>3. (r \notin {"keep", "admin"} \/ a = "off") \in BOOLEAN
    OBVIOUS
  <2> QED BY <1>7, <2>1, <2>2, <2>3, ProceedTypes DEF UpdateUser
<1>8. ASSUME NEW t \in Txns,
             CreateCommit(t) \/ UpdateCommit(t) \/ ResetCommit(t) \/ DeleteCommit(t)
      PROVE  TypeOK'
  <2> DEFINE u == txn[t].target
  <2>0. /\ u \in Users /\ txn[t].role \in Roles \cup {"keep"}
        /\ txn[t].seen \in [role : Roles, active : BOOLEAN]
        /\ user[u] \in Account
    BY <1>0 DEF Request
  <2>1. \A kills \in SUBSET Tokens : WithoutRows(kills) \in [Tokens -> SessionRow]
    <3>1. \A k \in Tokens : [token[k] EXCEPT !.row = "gone"] \in SessionRow
      BY <1>0 DEF SessionRow
    <3> QED BY <1>0, <3>1 DEF WithoutRows
  <2>2. txn[t].kills \in SUBSET Tokens /\ (txn[t].kills \cup SessionsOf(u)) \in SUBSET Tokens
    BY <1>0 DEF Request, SessionsOf
  <2>3. txn' \in [Txns -> Request] /\ edits' = edits
    BY <1>b, <1>8 DEF CreateCommit, UpdateCommit, ResetCommit, DeleteCommit, Committing
  <2>4. token' \in [Tokens -> SessionRow]
    BY <1>0, <1>8, <2>1, <2>2
       DEF CreateCommit, UpdateCommit, ResetCommit, DeleteCommit
  <2>5. user' \in [Users -> Account]
    <3>1. CASE CreateCommit(t)
      <4>1. txn[t].role \in Roles =>
               [user[u] EXCEPT !.state = "present", !.role = txn[t].role, !.active = TRUE] \in Account
        BY <2>0 DEF Account
      <4> QED BY <1>0, <3>1, <4>1, <2>0 DEF CreateCommit, Account
    <3>2. CASE UpdateCommit(t)
      <4> DEFINE role == Patched(txn[t].role, txn[t].seen.role)
                 active == IF txn[t].active = "keep" THEN txn[t].seen.active
                                                     ELSE txn[t].active = "on"
                 row(r, a, c) == [user EXCEPT ![u].role = r, ![u].active = a, ![u].cuts = c]
      <4>1. role \in Roles /\ active \in BOOLEAN
        BY <2>0 DEF Patched
      <4>2. \A r \in Roles, a \in BOOLEAN, c \in Nat : row(r, a, c) \in [Users -> Account]
        BY <1>0, <2>0 DEF Account
      <4>3. user[u].role \in Roles /\ user[u].active \in BOOLEAN /\ user[u].cuts \in Nat
            /\ user[u].cuts + 1 \in Nat
        BY <2>0 DEF Account
      <4>4. user' = user \/ \E r \in Roles, a \in BOOLEAN, c \in Nat : user' = row(r, a, c)
        <5> HIDE DEF role, active
        <5>1. user' = IF ~Present(u) THEN user
                      ELSE row(IF role # txn[t].seen.role THEN role ELSE user[u].role,
                               IF active # txn[t].seen.active THEN active ELSE user[u].active,
                               IF Cutting(t) THEN user[u].cuts + 1 ELSE user[u].cuts)
          BY <1>0, <2>0, <3>2 DEF UpdateCommit, role, active
        <5> QED BY <5>1, <4>1, <4>3
      <4> HIDE DEF row
      <4> QED BY <1>0, <4>2, <4>4
    <3>3. CASE ResetCommit(t)
      BY <1>0, <2>0, <3>3 DEF ResetCommit, Account
    <3>4. CASE DeleteCommit(t)
      BY <1>0, <2>0, <3>4 DEF DeleteCommit, Account
    <3> QED BY <1>8, <3>1, <3>2, <3>3, <3>4
  <2> QED BY <1>0, <2>3, <2>4, <2>5 DEF TypeOK
<1>9. ASSUME NEW u \in Users, CliPasswd(u) \/ CliDisable(u) PROVE TypeOK'
  BY <1>0, <1>a, <1>9 DEF CliPasswd, CliDisable, TypeOK, Account
<1>10. ASSUME NEW u \in Users, NEW r \in Grantable, CliCreate(u, r) PROVE TypeOK'
  BY <1>0, <1>a, <1>10 DEF CliCreate, TypeOK, Account
<1>11. CASE UNCHANGED vars
  BY <1>0, <1>11 DEF vars, TypeOK
<1> QED BY <1>1, <1>2, <1>3, <1>4, <1>5, <1>6, <1>7, <1>8, <1>9, <1>10, <1>11 DEF Next

LEMMA InitTyped == Init => TypeOK
<1> SUFFICES ASSUME Init PROVE TypeOK
  OBVIOUS
<1>1. user \in [Users -> Account]
  <2>1. Grantable \cup {"admin"} \subseteq Roles
    BY DEF Roles, ROLE_RANK
  <2>2. \A R \in SUBSET Roles, B \in SUBSET BOOLEAN :
           [state : {"absent", "present"}, role : R, active : B, cuts : {0}] \subseteq Account
    BY DEF Account
  <2>3. {TRUE} \in SUBSET BOOLEAN
    OBVIOUS
  <2> QED BY <2>1, <2>2, <2>3 DEF Init
<1>2. token \in [Tokens -> SessionRow]
  BY DEF Init, Free, SessionRow
<1>3. txn \in [Txns -> Request]
  BY IdleTyped DEF Init
<1> QED BY <1>1, <1>2, <1>3 DEF Init, TypeOK

\* TypeOK holds in every state.
THEOREM AccountsTyped == Spec => []TypeOK
BY InitTyped, TypeStep, PTL DEF Spec

-----------------------------------------------------------------------------
(* The last administrator *)

\* An edit that takes a role or access away.
TakesAway(r) ==
    r.op = "delete" \/ (r.op = "update" /\ (r.role \notin {"keep", "admin"} \/ r.active = "off"))

\* What a request that goes on to its commit knows of the administrators it counted: an
\* account it did not see as one was not among them, and an administrator it takes away
\* was not the only one.
GuardPassed(r) ==
    r.pc = "loaded" =>
        IF r.seen.role = "admin" /\ r.seen.active THEN TakesAway(r) => r.admins \ {r.target} # {}
                                                  ELSE r.target \notin r.admins

Guarded == \A t \in Txns : GuardPassed(txn[t])

LEMMA IdleGuarded == GuardPassed(Idle)
BY DEF GuardPassed, Idle

\* The guard reads the account and counts the administrators in one step, and an actor's
\* own account is an active administrator's as it read it.
LEMMA ProceedGuarded ==
    ASSUME TypeOK, Guarded, NEW t \in Txns, NEW u \in Users, NEW refused,
           NEW role, NEW active, NEW kills,
           Proceed(t, u, refused, role, active, kills),
           txn[t].op \in {"create", "update", "reset", "delete"},
           ~refused /\ (txn[t].op = "delete" \/ (txn[t].op = "update" /\
                         (role \notin {"keep", "admin"} \/ active = "off")))
             => ~LastAdmin(t, u)
    PROVE  Guarded'
<1> DEFINE new == [txn[t] EXCEPT !.pc = "loaded", !.target = u, !.role = role,
                                 !.active = active, !.seen = Loaded(t, u),
                                 !.admins = ActiveAdmins, !.kills = kills]
<1>0. txn \in [Txns -> Request] /\ txn[t] \in Request
  BY DEF TypeOK
<1>1. /\ new.op = txn[t].op /\ new.target = u /\ new.role = role /\ new.active = active
      /\ new.seen = Loaded(t, u) /\ new.admins = ActiveAdmins
  BY <1>0 DEF Request
<1>2. ~(Loaded(t, u).role = "admin" /\ Loaded(t, u).active) => u \notin ActiveAdmins
  BY DEF Loaded, ActiveAdmins
<1>3. ~refused => GuardPassed(new)
  <2> HIDE DEF new
  <2> QED BY <1>1, <1>2 DEF GuardPassed, TakesAway, LastAdmin, NoOtherAdmin
<1>4. txn' = [txn EXCEPT ![t] = IF refused THEN Idle ELSE new]
  BY DEF Proceed
<1> HIDE DEF new
<1> QED BY <1>0, <1>3, <1>4, IdleGuarded DEF Guarded

\* Every step keeps the guard's knowledge.
LEMMA GuardStep == TypeOK /\ Guarded /\ [Next]_vars => Guarded'
<1> SUFFICES ASSUME TypeOK, Guarded, [Next]_vars PROVE Guarded'
  OBVIOUS
<1>0. txn \in [Txns -> Request]
  BY DEF TypeOK
<1>a. ASSUME txn' = txn PROVE Guarded'
  BY <1>a DEF Guarded
<1>b. ASSUME NEW t \in Txns, NEW r, GuardPassed(r), txn' = [txn EXCEPT ![t] = r] PROVE Guarded'
  BY <1>0, <1>b DEF Guarded
<1>1. ASSUME NEW k \in Tokens, Expire(k) \/ Logout(k) PROVE Guarded'
  BY <1>1, <1>a DEF Expire, Logout
<1>2. ASSUME NEW t \in Txns, NEW u \in Users, Authenticate(t, u) PROVE Guarded'
  <2>1. GuardPassed([Idle EXCEPT !.pc = "loaded", !.op = "login", !.target = u,
                                 !.cut = user[u].cuts])
    BY DEF GuardPassed, Idle
  <2> QED BY <1>2, <2>1, <1>b DEF Authenticate
<1>3. ASSUME NEW t \in Txns, NEW u \in Users, ResetPassword(t, u) PROVE Guarded'
  BY <1>3, ProceedGuarded DEF ResetPassword
<1>4. ASSUME NEW t \in Txns, NEW u \in Users, DeleteUser(t, u) PROVE Guarded'
  BY <1>4, ProceedGuarded DEF DeleteUser
<1>5. ASSUME NEW t \in Txns, NEW k \in Tokens, CreateSession(t, k) PROVE Guarded'
  BY <1>5, <1>b, IdleGuarded DEF CreateSession
<1>6. ASSUME NEW t \in Txns, NEW k \in Tokens, NEW op \in Op \ {"none", "login"},
             Authorise(t, k, op)
      PROVE  Guarded'
  <2>1. GuardPassed([Idle EXCEPT !.pc = "authorised", !.op = op, !.actor = token[k].user])
    BY DEF GuardPassed, Idle
  <2> QED BY <1>6, <2>1, <1>b DEF Authorise
<1>7. ASSUME NEW t \in Txns, NEW u \in Users, NEW r \in Grantable, CreateUser(t, u, r)
      PROVE  Guarded'
  BY <1>7, ProceedGuarded DEF CreateUser
<1>8. ASSUME NEW t \in Txns, NEW u \in Users, NEW r \in Grantable \cup {"keep"},
             NEW a \in {"keep", "on", "off"}, UpdateUser(t, u, r, a)
      PROVE  Guarded'
  BY <1>8, ProceedGuarded DEF UpdateUser
<1>9. ASSUME NEW t \in Txns,
             CreateCommit(t) \/ UpdateCommit(t) \/ ResetCommit(t) \/ DeleteCommit(t)
      PROVE  Guarded'
  BY <1>9, <1>b, IdleGuarded
     DEF CreateCommit, UpdateCommit, ResetCommit, DeleteCommit, Committing
<1>10. ASSUME NEW u \in Users, CliPasswd(u) \/ CliDisable(u) PROVE Guarded'
  BY <1>10, <1>a DEF CliPasswd, CliDisable
<1>11. ASSUME NEW u \in Users, NEW r \in Grantable, CliCreate(u, r) PROVE Guarded'
  BY <1>11, <1>a DEF CliCreate
<1>12. CASE UNCHANGED vars
  BY <1>12, <1>a DEF vars
<1> QED BY <1>1, <1>2, <1>3, <1>4, <1>5, <1>6, <1>7, <1>8, <1>9, <1>10, <1>11, <1>12 DEF Next

\* A console step that takes the last administrator away is a commit whose request counted
\* other administrators than there are now: had it counted these, its guard left one.
LEMMA AdminsStep ==
    ASSUME TypeOK, Guarded, Next, ActiveAdmins # {}, ActiveAdmins' = {}
    PROVE  \/ \E u \in Users : CliDisable(u)
           \/ \E t \in Txns : /\ txn[t].pc = "loaded" /\ txn'[t] = Idle
                               /\ txn[t].admins # ActiveAdmins
<1>0. /\ user \in [Users -> Account] /\ txn \in [Txns -> Request]
  BY DEF TypeOK
<1>a. user' # user
  BY DEF ActiveAdmins, Present
<1>b. PICK a \in Users : Present(a) /\ user[a].role = "admin" /\ user[a].active
  BY DEF ActiveAdmins
<1>c. ~(user'[a].state = "present" /\ user'[a].role = "admin" /\ user'[a].active)
  BY DEF ActiveAdmins, Present
<1>1. ASSUME NEW t \in Txns, UpdateCommit(t) \/ DeleteCommit(t)
      PROVE  txn[t].pc = "loaded" /\ txn'[t] = Idle /\ txn[t].admins # ActiveAdmins
  <2> DEFINE u == txn[t].target
  <2>0. /\ u \in Users /\ user[u] \in Account /\ txn[t].pc = "loaded" /\ txn'[t] = Idle
        /\ txn[t].seen \in [role : Roles, active : BOOLEAN]
        /\ txn[t].role \in Roles \cup {"keep"} /\ txn[t].active \in {"keep", "on", "off"}
    BY <1>0, <1>1 DEF UpdateCommit, DeleteCommit, Committing, Request
  <2>1. \A v \in Users \ {u} : user'[v] = user[v]
    BY <1>0, <1>1, <2>0 DEF UpdateCommit, DeleteCommit
  <2>2. SUFFICES ASSUME txn[t].admins = ActiveAdmins PROVE FALSE
    BY <2>0
  <2>3. ActiveAdmins \subseteq {u}
    BY <2>1 DEF ActiveAdmins, Present
  <2>4. u \in ActiveAdmins
    BY <2>3
  <2>5. txn[t].seen.role = "admin" /\ txn[t].seen.active /\ ~TakesAway(txn[t])
    BY <2>0, <2>2, <2>3, <2>4 DEF Guarded, GuardPassed
  <2>6. UpdateCommit(t)
    BY <1>1, <2>5 DEF DeleteCommit, Committing, TakesAway
  <2>7. txn[t].op = "update" /\ txn[t].role \in {"keep", "admin"} /\ txn[t].active # "off"
    BY <2>5, <2>6 DEF UpdateCommit, Committing, TakesAway
  <2>8. Patched(txn[t].role, txn[t].seen.role) = txn[t].seen.role
    BY <2>5, <2>7 DEF Patched
  <2>9. (IF txn[t].active = "keep" THEN txn[t].seen.active ELSE txn[t].active = "on")
           = txn[t].seen.active
    BY <2>0, <2>5, <2>7
  <2>10. user'[u].state = user[u].state /\ user'[u].role = user[u].role
         /\ user'[u].active = user[u].active
    BY <1>0, <2>0, <2>6, <2>8, <2>9 DEF UpdateCommit, Account
  <2>11. u \in ActiveAdmins'
    BY <2>4, <2>10 DEF ActiveAdmins, Present
  <2> QED BY <2>11
<1>2. ASSUME NEW t \in Txns, CreateCommit(t) \/ ResetCommit(t) PROVE FALSE
  <2>1. txn[t].target \in Users
    BY <1>0 DEF Request
  <2> QED BY <1>0, <1>2, <1>b, <1>c, <2>1 DEF CreateCommit, ResetCommit, Present, Account
<1>3. ASSUME NEW u \in Users, CliPasswd(u) PROVE FALSE
  BY <1>0, <1>3, <1>b, <1>c DEF CliPasswd, Present, Account
<1>4. ASSUME NEW u \in Users, NEW r \in Grantable, CliCreate(u, r) PROVE FALSE
  BY <1>0, <1>4, <1>b, <1>c DEF CliCreate, Present, Account
<1> QED BY <1>1, <1>2, <1>3, <1>4, <1>a
        DEF Next, Expire, Logout, Authenticate, ResetPassword, DeleteUser, CreateSession,
            Authorise, CreateUser, UpdateUser, Proceed

\* AdminsLostOnlyByRace holds of every behaviour: without the command line and without two
\* edits that overlap, the console keeps an active administrator.
THEOREM AdminGuard == Spec => AdminsLostOnlyByRace
<1>1. Init => TypeOK /\ Guarded
  BY InitTyped, IdleGuarded DEF Init, Guarded
<1>2. TypeOK /\ Guarded /\ [Next]_vars => (TypeOK /\ Guarded)'
  BY TypeStep, GuardStep
<1>3. TypeOK /\ Guarded /\ [Next]_vars =>
        [ActiveAdmins # {} /\ ActiveAdmins' = {} =>
           \/ \E u \in Users : CliDisable(u)
           \/ \E t \in Txns : /\ txn[t].pc = "loaded" /\ txn'[t] = Idle
                               /\ txn[t].admins # ActiveAdmins]_vars
  BY AdminsStep
<1> QED BY <1>1, <1>2, <1>3, PTL DEF Spec, AdminsLostOnlyByRace

-----------------------------------------------------------------------------
(* The sessions an edit ends *)

\* A session that is still there is newer than every edit that ended its user's, and an
\* edit that is about to commit takes it along, or its login overlapped one of them.
OlderOnesEnded(k) ==
    token[k].row = "live" =>
        /\ token[k].cut < user[token[k].user].cuts => token[k].raced
        /\ \A t \in Txns : Cutting(t) /\ txn[t].target = token[k].user
                           => k \in txn[t].kills \/ token[k].raced

CutInv == \A k \in Tokens : OlderOnesEnded(k)

\* A step that opens no session, cuts nobody and loads no edit that cuts is harmless.
LEMMA HarmlessStep ==
    ASSUME CutInv,
           \A k \in Tokens : token'[k].row = "live" => token'[k] = token[k],
           \A k \in Tokens : token'[k].row = "live" =>
                              user'[token[k].user].cuts = user[token[k].user].cuts,
           \A t \in Txns : txn'[t] = txn[t] \/ ~Cutting(t)'
    PROVE  CutInv'
<1>1. SUFFICES ASSUME NEW k \in Tokens, token'[k].row = "live" PROVE OlderOnesEnded(k)'
  BY DEF CutInv, OlderOnesEnded
<1>2. OlderOnesEnded(k) /\ token'[k] = token[k] /\ token[k].row = "live"
  BY <1>1 DEF CutInv
<1>3. token'[k].cut < user'[token'[k].user].cuts => token'[k].raced
  BY <1>1, <1>2 DEF OlderOnesEnded
<1>4. ASSUME NEW t \in Txns, Cutting(t)', txn'[t].target = token'[k].user
      PROVE  k \in txn'[t].kills \/ token'[k].raced
  <2>1. txn'[t] = txn[t] /\ Cutting(t)
    BY <1>4 DEF Cutting
  <2> QED BY <1>2, <1>4, <2>1 DEF OlderOnesEnded
<1> QED BY <1>3, <1>4 DEF OlderOnesEnded

\* A request that goes on to cut its target deletes all the sessions there are.
LEMMA ProceedCuts ==
    ASSUME TypeOK, CutInv, NEW t \in Txns, NEW u \in Users, NEW refused, NEW role, NEW active,
           NEW kills, Proceed(t, u, refused, role, active, kills),
           \/ txn[t].op \notin {"reset", "delete", "update"}
           \/ kills = SessionsOf(u)
           \/ txn[t].op = "update" /\ role = "keep" /\ active # "off"
    PROVE  CutInv'
<1> DEFINE new == [txn[t] EXCEPT !.pc = "loaded", !.target = u, !.role = role,
                                 !.active = active, !.seen = Loaded(t, u),
                                 !.admins = ActiveAdmins, !.kills = kills]
<1>0. txn \in [Txns -> Request] /\ txn[t] \in Request
  BY DEF TypeOK
<1>1. /\ new.op = txn[t].op /\ new.target = u /\ new.role = role /\ new.active = active
      /\ new.kills = kills
  BY <1>0 DEF Request
<1>2. /\ txn' = [txn EXCEPT ![t] = IF refused THEN Idle ELSE new]
      /\ user' = user /\ token' = token
  BY DEF Proceed
<1> HIDE DEF new
<1>3. \A x \in Txns \ {t} : txn'[x] = txn[x]
  BY <1>0, <1>2
<1>4. CASE refused \/ kills # SessionsOf(u)
  <2>1. ~Cutting(t)'
    <3>1. txn'[t] = Idle \/ (txn'[t] = new /\ kills # SessionsOf(u))
      BY <1>0, <1>2, <1>4
    <3>2. txn'[t] = Idle => txn'[t].pc = "idle"
      BY DEF Idle
    <3> QED BY <1>1, <3>1, <3>2 DEF Cutting
  <2> QED BY <1>2, <1>3, <2>1, HarmlessStep
<1>5. CASE ~refused /\ kills = SessionsOf(u)
  <2>1. txn'[t] = new
    BY <1>0, <1>2, <1>5
  <2>2. SUFFICES ASSUME NEW k \in Tokens, token[k].row = "live",
                        NEW x \in Txns, Cutting(x)', txn'[x].target = token[k].user
                 PROVE  k \in txn'[x].kills \/ token[k].raced
    BY <1>2 DEF CutInv, OlderOnesEnded
  <2>3. CASE x = t
    BY <1>1, <1>5, <2>1, <2>2, <2>3 DEF SessionsOf
  <2>4. CASE x # t
    BY <1>3, <2>2, <2>4 DEF Cutting, CutInv, OlderOnesEnded
  <2> QED BY <2>3, <2>4
<1> QED BY <1>4, <1>5

LEMMA CutStep == TypeOK /\ CutInv /\ [Next]_vars => CutInv'
<1> SUFFICES ASSUME TypeOK, CutInv, [Next]_vars PROVE CutInv'
  OBVIOUS
<1>0. /\ user \in [Users -> Account] /\ token \in [Tokens -> SessionRow]
      /\ txn \in [Txns -> Request]
  BY DEF TypeOK
<1>a. ASSUME NEW t \in Txns, NEW r, r.pc # "loaded" \/ r.op = "login",
             txn' = [txn EXCEPT ![t] = r]
      PROVE  \A x \in Txns : txn'[x] = txn[x] \/ ~Cutting(x)'
  BY <1>0, <1>a DEF Cutting
<1>b. Idle.pc # "loaded"
  BY DEF Idle
<1>1. ASSUME NEW k \in Tokens, Expire(k) \/ Logout(k) PROVE CutInv'
  <2>1. \A x \in Tokens : token'[x].row = "live" => token'[x] = token[x]
    BY <1>0, <1>1 DEF Expire, Logout, SessionRow
  <2> QED BY <1>1, <2>1, HarmlessStep DEF Expire, Logout
<1>2. ASSUME NEW t \in Txns, NEW u \in Users, Authenticate(t, u) PROVE CutInv'
  <2> DEFINE r == [Idle EXCEPT !.pc = "loaded", !.op = "login", !.target = u,
                               !.cut = user[u].cuts]
  <2>1. r.op = "login"
    BY DEF Idle
  <2>2. txn' = [txn EXCEPT ![t] = r] /\ user' = user /\ token' = token
    BY <1>2 DEF Authenticate
  <2> HIDE DEF r
  <2>3. \A x \in Txns : txn'[x] = txn[x] \/ ~Cutting(x)'
    BY <2>1, <2>2, <1>a
  <2> QED BY <2>2, <2>3, HarmlessStep
<1>3. ASSUME NEW t \in Txns, NEW u \in Users, ResetPassword(t, u) \/ DeleteUser(t, u)
      PROVE  CutInv'
  BY <1>3, ProceedCuts DEF ResetPassword, DeleteUser
<1>4. ASSUME NEW t \in Txns, NEW k \in Tokens, CreateSession(t, k) PROVE CutInv'
  <2> DEFINE u == txn[t].target
             raced == BeingCut(u) \/ user[u].cuts # txn[t].cut
             row == [row |-> "live", user |-> u, cut |-> txn[t].cut, raced |-> raced]
  <2>1. /\ user' = user /\ txn' = [txn EXCEPT ![t] = Idle]
        /\ token' = IF Present(u) THEN [token EXCEPT ![k] = row] ELSE token
    BY <1>4 DEF CreateSession
  <2>2. \A x \in Txns : txn'[x] = txn[x] \/ ~Cutting(x)'
    BY <2>1, <1>a, <1>b
  <2>3. CASE ~Present(u)
    BY <2>1, <2>2, <2>3, HarmlessStep
  <2>4. CASE Present(u)
    <3>1. /\ row.row = "live" /\ row.user = u /\ row.cut = txn[t].cut /\ row.raced = raced
      OBVIOUS
    <3>2. token' = [token EXCEPT ![k] = row]
      BY <2>1, <2>4
    <3> HIDE DEF row
    <3>3. OlderOnesEnded(k)'
      <4>1. token'[k] = row
        BY <1>0, <3>2
      <4>2. txn[t].cut < user'[u].cuts => raced
        BY <2>1, <1>0 DEF Request, Account
      <4>3. ASSUME NEW x \in Txns, Cutting(x)', txn'[x].target = u PROVE raced
        <5>1. Cutting(x) /\ txn[x].target = u
          BY <2>2, <4>3 DEF Cutting
        <5> QED BY <5>1 DEF BeingCut
      <4> HIDE DEF raced, u
      <4> QED BY <3>1, <4>1, <4>2, <4>3 DEF OlderOnesEnded
    <3>4. ASSUME NEW j \in Tokens \ {k} PROVE OlderOnesEnded(j)'
      <4>1. token'[j] = token[j]
        BY <1>0, <3>2
      <4>2. \A x \in Txns : Cutting(x)' => Cutting(x) /\ txn'[x] = txn[x]
        BY <2>2 DEF Cutting
      <4> QED BY <2>1, <4>1, <4>2 DEF CutInv, OlderOnesEnded
    <3> QED BY <3>3, <3>4 DEF CutInv
  <2> QED BY <2>3, <2>4
<1>5. ASSUME NEW t \in Txns, NEW k \in Tokens, NEW op \in Op \ {"none", "login"},
             Authorise(t, k, op)
      PROVE  CutInv'
  <2> DEFINE r == [Idle EXCEPT !.pc = "authorised", !.op = op, !.actor = token[k].user]
  <2>1. r.pc # "loaded"
    BY DEF Idle
  <2>2. txn' = [txn EXCEPT ![t] = r] /\ user' = user /\ token' = token
    BY <1>5 DEF Authorise
  <2> HIDE DEF r
  <2>3. \A x \in Txns : txn'[x] = txn[x] \/ ~Cutting(x)'
    BY <2>1, <2>2, <1>a
  <2> QED BY <2>2, <2>3, HarmlessStep
<1>6. ASSUME NEW t \in Txns, NEW u \in Users, NEW r \in Grantable, CreateUser(t, u, r)
      PROVE  CutInv'
  BY <1>6, ProceedCuts DEF CreateUser
<1>7. ASSUME NEW t \in Txns, NEW u \in Users, NEW r \in Grantable \cup {"keep"},
             NEW a \in {"keep", "on", "off"}, UpdateUser(t, u, r, a)
      PROVE  CutInv'
  <2>1. CASE Revokes(r, a)
    BY <1>7, <2>1, ProceedCuts DEF UpdateUser
  <2>2. CASE ~Revokes(r, a)
    BY <1>7, <2>2, ProceedCuts DEF UpdateUser, Revokes
  <2> QED BY <2>1, <2>2
<1>8. ASSUME NEW t \in Txns,
             CreateCommit(t) \/ UpdateCommit(t) \/ ResetCommit(t) \/ DeleteCommit(t)
      PROVE  CutInv'
  <2> DEFINE u == txn[t].target
  <2>0. u \in Users /\ user[u] \in Account /\ txn[t].kills \in SUBSET Tokens
    BY <1>0 DEF Request
  <2>1. \A x \in Txns : txn'[x] = txn[x] \/ ~Cutting(x)'
    BY <1>8, <1>a, <1>b
       DEF CreateCommit, UpdateCommit, ResetCommit, DeleteCommit, Committing
  <2>2. \A k \in Tokens : token'[k].row = "live" => token'[k] = token[k]
    BY <1>0, <1>8
       DEF CreateCommit, UpdateCommit, ResetCommit, DeleteCommit, WithoutRows, SessionRow
  <2>3. \A v \in Users : user'[v].cuts = user[v].cuts \/ (v = u /\ Cutting(t) /\ Present(u))
    BY <1>0, <1>8, <2>0
       DEF CreateCommit, UpdateCommit, ResetCommit, DeleteCommit, Committing, Cutting, Account
  <2>4. CASE \A v \in Users : user'[v].cuts = user[v].cuts
    BY <1>0, <2>1, <2>2, <2>4, HarmlessStep DEF SessionRow
  <2>5. CASE \E v \in Users : user'[v].cuts # user[v].cuts
    <3>1. Cutting(t) /\ Present(u) /\ (UpdateCommit(t) \/ ResetCommit(t))
      BY <1>0, <1>8, <2>0, <2>3, <2>5 DEF CreateCommit, DeleteCommit, Account
    <3>2. token' = WithoutRows(txn[t].kills)
      BY <3>1 DEF UpdateCommit, ResetCommit
    <3>3. SUFFICES ASSUME NEW k \in Tokens, token'[k].row = "live" PROVE OlderOnesEnded(k)'
      BY DEF CutInv, OlderOnesEnded
    <3>4. token'[k] = token[k] /\ k \notin txn[t].kills
      BY <1>0, <2>0, <2>2, <3>2, <3>3 DEF WithoutRows, SessionRow
    <3>5. CASE token[k].user = u
      <4>1. token[k].raced
        BY <3>1, <3>3, <3>4, <3>5 DEF CutInv, OlderOnesEnded
      <4> QED BY <3>4, <4>1 DEF OlderOnesEnded
    <3>6. CASE token[k].user # u
      <4>1. user'[token[k].user].cuts = user[token[k].user].cuts
        BY <1>0, <2>3, <3>6 DEF SessionRow
      <4>2. \A x \in Txns : Cutting(x)' => Cutting(x) /\ txn'[x] = txn[x]
        BY <2>1 DEF Cutting
      <4> QED BY <3>3, <3>4, <4>1, <4>2 DEF CutInv, OlderOnesEnded
    <3> QED BY <3>5, <3>6
  <2> QED BY <2>4, <2>5
<1>9. ASSUME NEW u \in Users, CliPasswd(u) \/ CliDisable(u) PROVE CutInv'
  <2>1. \A v \in Users : user'[v].cuts = user[v].cuts
    BY <1>0, <1>9 DEF CliPasswd, CliDisable, Account
  <2>2. token' = token /\ txn' = txn /\ \A k \in Tokens : token[k].user \in Users
    BY <1>0, <1>9 DEF CliPasswd, CliDisable, SessionRow
  <2> QED BY <2>1, <2>2, HarmlessStep
<1>10. ASSUME NEW u \in Users, NEW r \in Grantable, CliCreate(u, r) PROVE CutInv'
  <2>1. \A v \in Users : user'[v].cuts = user[v].cuts
    BY <1>0, <1>10 DEF CliCreate, Account
  <2>2. token' = token /\ txn' = txn /\ \A k \in Tokens : token[k].user \in Users
    BY <1>0, <1>10 DEF CliCreate, SessionRow
  <2> QED BY <2>1, <2>2, HarmlessStep
<1>11. CASE UNCHANGED vars
  BY <1>11, HarmlessStep DEF vars
<1> QED BY <1>1, <1>2, <1>3, <1>4, <1>5, <1>6, <1>7, <1>8, <1>9, <1>10, <1>11 DEF Next

\* SessionsEndAtRevocation holds in every state: disabling an account, changing its role
\* or its password leaves no older session of it usable, but for overlapping logins.
THEOREM SessionsEnd == Spec => []SessionsEndAtRevocation
<1>1. Init => TypeOK /\ CutInv
  <2>1. Init => \A k \in Tokens : token[k].row = "free"
    <3>1. Init => token = [k \in Tokens |-> Free]
      BY DEF Init
    <3> QED BY <3>1 DEF Free
  <2> QED BY <2>1, InitTyped DEF CutInv, OlderOnesEnded
<1>2. TypeOK /\ CutInv /\ [Next]_vars => (TypeOK /\ CutInv)'
  BY TypeStep, CutStep
<1>3. CutInv => SessionsEndAtRevocation
  BY DEF CutInv, OlderOnesEnded, SessionsEndAtRevocation, Usable
<1> QED BY <1>1, <1>2, <1>3, PTL DEF Spec
=============================================================================
