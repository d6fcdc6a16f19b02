----------------------------- MODULE ContentGate -----------------------------
(***************************************************************************)
(* Who may read the archived job of Retention from the console: an analyst *)
(* asks, an approver who is somebody else approves, and for two hours the  *)
(* grant opens the extracted text, page previews and, once, the original   *)
(* document.  A job in review may be previewed without.                    *)
(*                                                                         *)
(* Every request runs in its own READ COMMITTED session, on a thread.  It  *)
(* reads the job and the grant, loads the body, and then its answer and    *)
(* its commit come in either order, as FastAPI's versions differ in it.    *)
(***************************************************************************)
EXTENDS Retention, FiniteSets

CONSTANTS People,       \* with a console account
          Analysts,     \* those with at least the analyst role
          Approvers,    \* those with at least the approver role
          Grants,       \* content requests, made once each
          Accesses,     \* requests for content that come to something
          Nobody,
          DualApproval, \* require_dual_approval_for_content
          TriageAllowed \* allow_preview_for_held_jobs

ASSUME RolesAssumption    == Approvers \subseteq Analysts /\ Analysts \subseteq People
ASSUME NobodyAssumption   == Nobody \notin People /\ Nobody \notin Grants
ASSUME SettingsAssumption == DualApproval \in BOOLEAN /\ TriageAllowed \in BOOLEAN

VARIABLES req,     \* req[g]: the committed ContentRequest g
          deciding,\* deciding[p]: the request p has read as pending, and approves
          access   \* access[x]: request x for content

requestVars == <<req, deciding, access>>
vars == <<retentionVars, req, deciding, access>>

ContentRequest == [status : {"none", "pending", "approved"}, requester : People \cup {Nobody},
                   approver : People \cup {Nobody}, used : BOOLEAN, expired : BOOLEAN]

NotAsked == [status |-> "none", requester |-> Nobody, approver |-> Nobody,
             used |-> FALSE, expired |-> FALSE]

\* `grant` and `who` are Nobody where no grant is needed; an access that comes to nothing
\* leaves no trace.  `sent` and `logged`: the answer has gone out, the audit row is
\* committed.  `after` are the accesses logged before this one began: history, read by no
\* action.
Access == [pc : {"new", "checked", "ready", "over"}, kind : {"text", "preview", "content"},
           who : People \cup {Nobody}, grant : Grants \cup {Nobody}, sent : BOOLEAN,
           logged : BOOLEAN, after : SUBSET Accesses]

NoAccess == [pc |-> "new", kind |-> "text", who |-> Nobody, grant |-> Nobody,
             sent |-> FALSE, logged |-> FALSE, after |-> {}]

Init ==
    /\ RetentionInit
    /\ req = [g \in Grants |-> NotAsked]
    /\ deciding = [p \in People |-> Nobody]
    /\ access = [x \in Accesses |-> NoAccess]

-----------------------------------------------------------------------------
(* Asking and approving *)

\* request_content
RequestContent(p, g) ==
    /\ p \in Analysts /\ req[g].status = "none" /\ ~job.purged
    /\ req' = [req EXCEPT ![g] = [NotAsked EXCEPT !.status = "pending", !.requester = p]]
    /\ UNCHANGED <<deciding, access, retentionVars>>

\* Mutant of ApproveRead: whoever is an approver may approve.
ApproveOwn(p, g) ==
    /\ p \in Approvers /\ deciding[p] = Nobody
    /\ req[g].status = "pending"
    /\ deciding' = [deciding EXCEPT ![p] = g]
    /\ UNCHANGED <<req, access, retentionVars>>

\* approve_content, up to its flush
ApproveRead(p, g) ==
    /\ p \in Approvers /\ deciding[p] = Nobody
    /\ req[g].status = "pending" /\ req[g].requester # p
    /\ deciding' = [deciding EXCEPT ![p] = g]
    /\ UNCHANGED <<req, access, retentionVars>>

\* The UPDATE does not look at the status again: another approver's decision is
\* overwritten, and the two hours begin anew.
ApproveCommit(p) ==
    LET g == deciding[p] IN
    /\ g # Nobody
    /\ req' = [req EXCEPT ![g].status = "approved", ![g].approver = p, ![g].expired = FALSE]
    /\ deciding' = [deciding EXCEPT ![p] = Nobody]
    /\ UNCHANGED <<access, retentionVars>>

\* Mutant of GrantExpires: the expiry is noted as a status.
GrantExpiresByStatus(g) ==
    /\ req[g].status = "approved"
    /\ req' = [req EXCEPT ![g].status = "expired"]
    /\ UNCHANGED <<deciding, access, retentionVars>>

GrantExpires(g) ==
    /\ req[g].status = "approved" /\ ~req[g].expired
    /\ req' = [req EXCEPT ![g].expired = TRUE]
    /\ UNCHANGED <<deciding, access, retentionVars>>

-----------------------------------------------------------------------------
(* Reading *)

\* Mutant of ValidGrants: used_at is not looked at.
UnexpiredGrants(p) == {g \in Grants : /\ req[g].status = "approved" /\ req[g].requester = p
                                      /\ ~req[g].expired}

\* _valid_grant; with several, the query's order decides.
ValidGrants(p) == {g \in Grants : /\ req[g].status = "approved" /\ req[g].requester = p
                                  /\ ~req[g].used /\ ~req[g].expired}

\* _preview_gate: a job in review, whose state is not modelled, needs none for a preview.
GrantsFor(p, kind) ==
    IF ~DualApproval THEN {Nobody}
    ELSE ValidGrants(p) \cup (IF kind = "preview" /\ TriageAllowed THEN {Nobody} ELSE {})

Logged == {x \in Accesses : access[x].logged}

\* The handler's checks: get_extracted_text needs the text, the others the row's word
\* that there is a body.
Check(x, p, kind) ==
    /\ access[x].pc = "new"
    /\ IF kind = "text" THEN job.text ELSE Promised
    /\ \E g \in GrantsFor(p, kind) :
         access' = [access EXCEPT ![x] =
            [NoAccess EXCEPT !.pc = IF kind = "text" THEN "ready" ELSE "checked",
                             !.kind = kind, !.who = IF g = Nobody THEN Nobody ELSE p,
                             !.grant = g, !.after = Logged]]
    /\ UNCHANGED <<req, deciding, retentionVars>>

\* download_content marks the grant used; the text and the previews leave it as it is.
UsesUp(x) == access[x].kind = "content" /\ access[x].grant # Nobody

\* Mutant of LoadBody: used_at is committed as soon as it is set.
LoadBodyUsingGrant(x) ==
    /\ access[x].pc = "checked"
    /\ req' = IF UsesUp(x) THEN [req EXCEPT ![access[x].grant].used = TRUE] ELSE req
    /\ access' = [access EXCEPT ![x] = IF blob THEN [@ EXCEPT !.pc = "ready"] ELSE NoAccess]
    /\ UNCHANGED <<deciding, retentionVars>>

\* The row was read before the blob: a purge may have come between, and the handler raises.
LoadBody(x) ==
    /\ access[x].pc = "checked"
    /\ access' = [access EXCEPT ![x] = IF blob THEN [@ EXCEPT !.pc = "ready"] ELSE NoAccess]
    /\ UNCHANGED <<req, deciding, retentionVars>>

Answer(x) ==
    /\ access[x].pc = "ready" /\ ~access[x].sent
    /\ access' = [access EXCEPT ![x].sent = TRUE,
                                ![x].pc = IF access[x].logged THEN "over" ELSE "ready"]
    /\ UNCHANGED <<req, deciding, retentionVars>>

\* used_at, the audit row, and nothing without the other.
Record(x) ==
    /\ access[x].pc = "ready" /\ ~access[x].logged
    /\ req' = IF UsesUp(x) THEN [req EXCEPT ![access[x].grant].used = TRUE] ELSE req
    /\ access' = [access EXCEPT ![x].logged = TRUE,
                                ![x].pc = IF access[x].sent THEN "over" ELSE "ready"]
    /\ UNCHANGED <<deciding, retentionVars>>

\* The API dies: what is not committed is rolled back, what is sent is sent.
ApiCrash ==
    /\ crashes < MaxCrashes
    /\ crashes' = crashes + 1
    /\ insp' = "idle"
    /\ deciding' = [p \in People |-> Nobody]
    /\ access' = [x \in Accesses |-> IF access[x].sent \/ access[x].logged
                                     THEN [access[x] EXCEPT !.pc = "over"] ELSE NoAccess]
    /\ UNCHANGED <<req, job, blob, purge>>

-----------------------------------------------------------------------------
Next ==
    \/ RetentionStep /\ UNCHANGED requestVars
    \/ \E p \in People, g \in Grants : RequestContent(p, g) \/ ApproveRead(p, g)
    \/ \E p \in People : ApproveCommit(p)
    \/ \E g \in Grants : GrantExpires(g)
    \/ \E x \in Accesses, p \in People, kind \in {"text", "preview", "content"} :
          Check(x, p, kind)
    \/ \E x \in Accesses : LoadBody(x) \/ Answer(x) \/ Record(x)
    \/ ApiCrash

\* run_retention_loop comes round every hour, whatever went wrong the last time; an
\* inspection has a deadline, and PostgreSQL hands a row's lock to whoever waited longest.
Fairness ==
    /\ WF_vars(PurgeBody /\ UNCHANGED requestVars)
    /\ SF_vars(PurgeFlush /\ UNCHANGED requestVars)
    /\ WF_vars(PurgeCommit /\ UNCHANGED requestVars)
    /\ WF_vars(InspectCommit /\ UNCHANGED requestVars)

Spec == Init /\ [][Next]_vars /\ Fairness

-----------------------------------------------------------------------------
(* Properties *)

TypeOK ==
    /\ RetentionTypeOK
    /\ req \in [Grants -> ContentRequest]
    /\ deciding \in [People -> Grants \cup {Nobody}]
    /\ access \in [Accesses -> Access]

\* download_content, "Single-use grant", as far as it holds: once a download is recorded,
\* no request that begins later reads anything under its grant.  (Two that are in
\* progress at once may both read it.)
RecordedGrantIsSpent ==
    \A x, y \in Accesses :
        /\ access[x].logged /\ access[x].kind = "content" /\ access[x].grant # Nobody
        /\ x \in access[y].after
        => access[y].grant # access[x].grant

\* A grant is spent only on a document that was read and accounted for: a download that
\* finds the body purged, or dies, leaves it as it was.
GrantUsedMeansRead ==
    \A g \in Grants : req[g].used =>
        \E x \in Accesses : access[x].grant = g /\ access[x].kind = "content" /\ access[x].logged

\* Without the threads and the transactions: two people open a document.
TwoPerson == INSTANCE TwoPersonRule WITH
    holder   <- [g \in Grants |-> req[g].requester],
    approver <- [g \in Grants |-> req[g].approver],
    opened   <- {<<access[x].grant, access[x].who>> :
                   x \in {y \in Accesses : access[y].sent /\ access[y].grant # Nobody}}

\* README.md: reading content needs a second approver, and never the requester.
TwoPeopleOpen == TwoPerson!Spec
=============================================================================
