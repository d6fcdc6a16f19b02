------------------------------- MODULE Accounts -------------------------------
(***************************************************************************)
(* The console's accounts and the sessions (tokens) that let people in:    *)
(* login and logout, the edits an administrator makes from the console,    *)
(* and the janus-print-admin command line, which shares the tables but not *)
(* the console's rules.                                                    *)
(*                                                                         *)
(* A console request is a thread with a READ COMMITTED session of its own: *)
(* it reads its actor, later reads the account it edits, counts the other  *)
(* administrators and deletes the sessions it can see, and commits last.   *)
(* Writes of one transaction are invisible before its commit, so a flush   *)
(* and its commit are one step here; an UPDATE writes only the columns     *)
(* that differ from what was loaded, and fails when its row is gone.       *)
(*                                                                         *)
(* An account is its id: a deleted one never comes back.  Passwords are    *)
(* left out: a login that fails for its password changes nothing.          *)
(***************************************************************************)
EXTENDS Naturals

CONSTANTS Users,     \* accounts that exist or may be created
          Root,      \* the one ensure_admin_user seeds
          Tokens,    \* session tokens; each is handed out at most once
          Txns,      \* requests the API can have in progress at once
          Grantable, \* the roles edits give
          MaxEdits   \* bound: console and command-line edits altogether

ROLE_RANK == [viewer |-> 0, analyst |-> 1, approver |-> 2, admin |-> 3]
Roles == DOMAIN ROLE_RANK

ASSUME RootAssumption      == Root \in Users
ASSUME GrantableAssumption == Grantable \subseteq Roles
ASSUME EditsAssumption     == MaxEdits \in Nat

VARIABLES user,   \* user[u]: its committed row
          token,  \* token[k]: its committed row
          txn,    \* txn[t]: the request thread t is serving
          edits   \* edits begun so far

vars == <<user, token, txn, edits>>

\* `cuts` counts the edits that were to end u's sessions: history, read by no action.
Account == [state : {"absent", "present", "deleted"}, role : Roles, active : BOOLEAN,
            cuts : Nat]

\* `cut` is u's `cuts` when the password was checked, `raced` that an edit which was to end
\* u's sessions was under way between that and the insert: history, read by no action.
SessionRow == [row : {"free", "live", "gone"}, user : Users, cut : Nat, raced : BOOLEAN]

Free == [row |-> "free", user |-> Root, cut |-> 0, raced |-> FALSE]

Op == {"none", "login", "create", "update", "reset", "delete"}

\* The edited account as loaded (`seen`), the active administrators there were when the
\* guard counted (`admins`), and the sessions the request has deleted (`kills`).
Request == [pc : {"idle", "authorised", "loaded"}, op : Op, actor : Users, target : Users,
            role : Roles \cup {"keep"}, active : {"keep", "on", "off"},
            seen : [role : Roles, active : BOOLEAN], admins : SUBSET Users,
            kills : SUBSET Tokens, cut : Nat]

Idle == [pc |-> "idle", op |-> "none", actor |-> Root, target |-> Root, role |-> "keep",
         active |-> "keep", seen |-> [role |-> "viewer", active |-> FALSE],
         admins |-> {}, kills |-> {}, cut |-> 0]

Present(u) == user[u].state = "present"
ActiveAdmins == {u \in Users : Present(u) /\ user[u].role = "admin" /\ user[u].active}

Init ==
    /\ user \in [Users -> [state : {"absent", "present"}, role : Grantable \cup {"admin"},
                           active : {TRUE}, cuts : {0}]]
    /\ user[Root] = [state |-> "present", role |-> "admin", active |-> TRUE, cuts |-> 0]
    /\ token = [k \in Tokens |-> Free]
    /\ txn = [t \in Txns |-> Idle]
    /\ edits = 0

-----------------------------------------------------------------------------
(* Sessions *)

\* current_user_optional: the token's row exists, its user is active.
Usable(k) ==
    /\ token[k].row = "live"
    /\ Present(token[k].user) /\ user[token[k].user].active

\* Its time is up: the row may stay until it is presented or revoked, but opens nothing.
Expire(k) ==
    /\ token[k].row = "live"
    /\ token' = [token EXCEPT ![k].row = "gone"]
    /\ UNCHANGED <<user, txn, edits>>

Authenticate(t, u) ==
    /\ txn[t].pc = "idle"
    /\ Present(u) /\ user[u].active
    /\ txn' = [txn EXCEPT ![t] = [Idle EXCEPT !.pc = "loaded", !.op = "login",
                                              !.target = u, !.cut = user[u].cuts]]
    /\ UNCHANGED <<user, token, edits>>

\* Request t is an edit that deletes its target's sessions, has done so and must commit.
Cutting(t) ==
    /\ txn[t].pc = "loaded"
    /\ \/ txn[t].op \in {"reset", "delete"}
       \/ txn[t].op = "update" /\ (txn[t].role # "keep" \/ txn[t].active = "off")

BeingCut(u) == \E t \in Txns : Cutting(t) /\ txn[t].target = u

\* create_session inserts with a foreign key: it fails if the account is gone.
CreateSession(t, k) ==
    LET u == txn[t].target IN
    /\ txn[t].pc = "loaded" /\ txn[t].op = "login"
    /\ token[k].row = "free"
    /\ token' = IF Present(u)
                THEN [token EXCEPT ![k] = [row |-> "live", user |-> u,
                         cut |-> txn[t].cut,
                         raced |-> BeingCut(u) \/ user[u].cuts # txn[t].cut]]
                ELSE token
    /\ txn' = [txn EXCEPT ![t] = Idle]
    /\ UNCHANGED <<user, edits>>

Logout(k) ==
    /\ token[k].row = "live"
    /\ token' = [token EXCEPT ![k].row = "gone"]
    /\ UNCHANGED <<user, txn, edits>>

-----------------------------------------------------------------------------
(* The console's edits *)

\* require_role("admin"), through the cookie's session.
Authorise(t, k, op) ==
    LET u == token[k].user IN
    /\ txn[t].pc = "idle" /\ edits < MaxEdits
    /\ Usable(k) /\ ROLE_RANK[user[u].role] >= ROLE_RANK["admin"]
    /\ txn' = [txn EXCEPT ![t] = [Idle EXCEPT !.pc = "authorised", !.op = op, !.actor = u]]
    /\ edits' = edits + 1
    /\ UNCHANGED <<user, token>>

\* session.get of one's own account answers from the session, as it was at Authorise.
Loaded(t, u) == IF u = txn[t].actor THEN [role |-> "admin", active |-> TRUE]
                                    ELSE [role |-> user[u].role, active |-> user[u].active]

\* Mutant of NoOtherAdmin, without `exclude`: the target counts as another administrator.
NoAdmin(u) == ActiveAdmins = {}

\* _admin_count(session, exclude=u) = 0
NoOtherAdmin(u) == ActiveAdmins \ {u} = {}

LastAdmin(t, u) ==
    /\ Loaded(t, u).role = "admin" /\ Loaded(t, u).active
    /\ NoOtherAdmin(u)

\* _revoke_sessions deletes the rows it can see.
SessionsOf(u) == {k \in Tokens : token[k].row = "live" /\ token[k].user = u}

\* The request goes on to its commit with what it has read, or ends with an error.
Proceed(t, u, refused, role, active, kills) ==
    /\ txn' = [txn EXCEPT ![t] =
                 IF refused THEN Idle
                 ELSE [@ EXCEPT !.pc = "loaded", !.target = u, !.role = role,
                                !.active = active, !.seen = Loaded(t, u),
                                !.admins = ActiveAdmins, !.kills = kills]]
    /\ UNCHANGED <<user, token, edits>>

CreateUser(t, u, role) ==
    /\ txn[t].pc = "authorised" /\ txn[t].op = "create"
    /\ Proceed(t, u, user[u].state # "absent", role, "on", {})

\* Mutant of Revokes: disabling an account is taken to be enough.
RevokesForRole(role, active) == role # "keep"

Revokes(role, active) == role # "keep" \/ active = "off"

UpdateUser(t, u, role, active) ==
    LET demoting  == role \notin {"keep", "admin"}
        disabling == active = "off"
    IN  /\ txn[t].pc = "authorised" /\ txn[t].op = "update"
        /\ Proceed(t, u, ~Present(u) \/ ((demoting \/ disabling) /\ LastAdmin(t, u)),
                   role, active, IF Revokes(role, active) THEN SessionsOf(u) ELSE {})

ResetPassword(t, u) ==
    /\ txn[t].pc = "authorised" /\ txn[t].op = "reset"
    /\ Proceed(t, u, ~Present(u), "keep", "keep", SessionsOf(u))

DeleteUser(t, u) ==
    /\ txn[t].pc = "authorised" /\ txn[t].op = "delete"
    /\ Proceed(t, u, ~Present(u) \/ u = txn[t].actor \/ LastAdmin(t, u),
               "keep", "keep", SessionsOf(u))

WithoutRows(kills) == [k \in Tokens |-> IF k \in kills THEN [token[k] EXCEPT !.row = "gone"]
                                                       ELSE token[k]]

Committing(t, op) == txn[t].pc = "loaded" /\ txn[t].op = op /\ txn' = [txn EXCEPT ![t] = Idle]

\* The username is unique: of two requests that found it free, one fails.
CreateCommit(t) ==
    LET u == txn[t].target IN
    /\ Committing(t, "create")
    /\ user' = IF user[u].state = "absent"
               THEN [user EXCEPT ![u].state = "present", ![u].role = txn[t].role,
                                 ![u].active = TRUE]
               ELSE user
    /\ UNCHANGED <<token, edits>>

\* Mutant of Patched: what the patch leaves out is written too.
PatchedBlindly(new, old) == new

Patched(new, old) == IF new = "keep" THEN old ELSE new

UpdateCommit(t) ==
    LET u == txn[t].target
        role   == Patched(txn[t].role, txn[t].seen.role)
        active == IF txn[t].active = "keep" THEN txn[t].seen.active ELSE txn[t].active = "on"
        newRole   == role # txn[t].seen.role
        newActive == active # txn[t].seen.active
        stale  == (newRole \/ newActive) /\ ~Present(u)
    IN  /\ Committing(t, "update")
        /\ user' = IF ~Present(u) THEN user
                   ELSE [user EXCEPT ![u].role = IF newRole THEN role ELSE @,
                                     ![u].active = IF newActive THEN active ELSE @,
                                     ![u].cuts = IF Cutting(t) THEN @ + 1 ELSE @]
        /\ token' = IF stale THEN token ELSE WithoutRows(txn[t].kills)
        /\ UNCHANGED edits

ResetCommit(t) ==
    LET u == txn[t].target IN
    /\ Committing(t, "reset")
    /\ user' = IF Present(u) THEN [user EXCEPT ![u].cuts = @ + 1] ELSE user
    /\ token' = IF Present(u) THEN WithoutRows(txn[t].kills) ELSE token
    /\ UNCHANGED edits

\* The foreign key takes the sessions made since with the account.
DeleteCommit(t) ==
    LET u == txn[t].target IN
    /\ Committing(t, "delete")
    /\ user' = [user EXCEPT ![u].state = "deleted"]
    /\ token' = WithoutRows(txn[t].kills \cup SessionsOf(u))
    /\ UNCHANGED edits

-----------------------------------------------------------------------------
(* janus-print-admin: no guard, and no session is ended *)

CliCreate(u, role) ==
    /\ edits < MaxEdits /\ user[u].state = "absent"
    /\ user' = [user EXCEPT ![u].state = "present", ![u].role = role, ![u].active = TRUE]
    /\ edits' = edits + 1
    /\ UNCHANGED <<token, txn>>

CliPasswd(u) ==
    /\ edits < MaxEdits /\ Present(u)
    /\ user' = [user EXCEPT ![u].active = TRUE]
    /\ edits' = edits + 1
    /\ UNCHANGED <<token, txn>>

CliDisable(u) ==
    /\ edits < MaxEdits /\ Present(u)
    /\ user' = [user EXCEPT ![u].active = FALSE]
    /\ edits' = edits + 1
    /\ UNCHANGED <<token, txn>>

Next ==
    \/ \E k \in Tokens : Expire(k) \/ Logout(k)
    \/ \E t \in Txns, u \in Users : Authenticate(t, u) \/ ResetPassword(t, u) \/ DeleteUser(t, u)
    \/ \E t \in Txns, k \in Tokens : CreateSession(t, k)
    \/ \E t \in Txns, k \in Tokens, op \in Op \ {"none", "login"} : Authorise(t, k, op)
    \/ \E t \in Txns, u \in Users, r \in Grantable : CreateUser(t, u, r)
    \/ \E t \in Txns, u \in Users, r \in Grantable \cup {"keep"}, a \in {"keep", "on", "off"} :
          (r # "keep" \/ a # "keep") /\ UpdateUser(t, u, r, a)
    \/ \E t \in Txns : CreateCommit(t) \/ UpdateCommit(t) \/ ResetCommit(t) \/ DeleteCommit(t)
    \/ \E u \in Users : CliPasswd(u) \/ CliDisable(u)
    \/ \E u \in Users, r \in Grantable : CliCreate(u, r)

Spec == Init /\ [][Next]_vars

-----------------------------------------------------------------------------
(* Properties *)

TypeOK ==
    /\ user \in [Users -> Account]
    /\ token \in [Tokens -> SessionRow]
    /\ txn \in [Txns -> Request]
    /\ edits \in 0 .. MaxEdits

\* routes_users.py's first rule, as far as it holds: the console loses its last active
\* administrator only through the command line, which has no guard, or through an edit
\* whose guard counted administrators that another request changed before it committed.
AdminsLostOnlyByRace ==
    [][ActiveAdmins # {} /\ ActiveAdmins' = {} =>
         \/ \E u \in Users : CliDisable(u)
         \/ \E t \in Txns : /\ txn[t].pc = "loaded" /\ txn'[t] = Idle
                             /\ txn[t].admins # ActiveAdmins]_vars

\* _revoke_sessions: whoever was disabled, given another role or a new password from the
\* console has no older session left, unless the login that made it overlapped the edit.
\* (Disabling from the command line ends none: enabling the account revives them.)
SessionsEndAtRevocation ==
    \A k \in Tokens : Usable(k) /\ token[k].cut < user[token[k].user].cuts => token[k].raced
=============================================================================
