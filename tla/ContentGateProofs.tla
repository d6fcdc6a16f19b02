--------------------------- MODULE ContentGateProofs ---------------------------
(***************************************************************************)
(* The content gate for any number of people, grants and requests: it      *)
(* implements the two-person rule, a recorded download spends its grant, a *)
(* spent grant was read under, and a body that is missing is due.          *)
(***************************************************************************)
EXTENDS ContentGate, TLAPS

USE RolesAssumption, NobodyAssumption, SettingsAssumption, CrashesAssumption

Reading == {"text", "preview", "content"}

-----------------------------------------------------------------------------
(* Types *)

LEMMA NoAccessTyped == NoAccess \in Access
BY DEF NoAccess, Access

LEMMA InitTyped == Init => TypeOK
<1> SUFFICES ASSUME Init PROVE TypeOK
  OBVIOUS
<1>1. RetentionTypeOK
  <2>1. \A A, B \in SUBSET BOOLEAN :
           [key : A, text : BOOLEAN, purged : B, due : B] \subseteq JobRow
    BY DEF JobRow
  <2>2. {blob} \in SUBSET BOOLEAN /\ {FALSE} \in SUBSET BOOLEAN
    BY DEF Init, RetentionInit
  <2>3. job \in JobRow
    BY <2>1, <2>2 DEF Init, RetentionInit
  <2> QED BY <2>3 DEF Init, RetentionInit, RetentionTypeOK
<1>2. req \in [Grants -> ContentRequest]
  BY DEF Init, NotAsked, ContentRequest
<1>3. deciding \in [People -> Grants \cup {Nobody}]
  BY DEF Init
<1>4. access \in [Accesses -> Access]
  BY NoAccessTyped DEF Init
<1> QED BY <1>1, <1>2, <1>3, <1>4 DEF TypeOK

LEMMA RetentionTypes == RetentionTypeOK /\ RetentionStep => RetentionTypeOK'
<1> SUFFICES ASSUME RetentionTypeOK, RetentionStep PROVE RetentionTypeOK'
  OBVIOUS
<1>1. job \in JobRow /\ blob \in BOOLEAN /\ crashes \in 0 .. MaxCrashes
  BY DEF RetentionTypeOK
<1>2. \A d \in BOOLEAN : /\ [job EXCEPT !.due = d] \in JobRow
                         /\ [job EXCEPT !.text = d] \in JobRow
  BY <1>1 DEF JobRow
<1>3. [job EXCEPT !.key = FALSE, !.text = FALSE, !.purged = TRUE] \in JobRow
  BY <1>1 DEF JobRow
<1>4. job' \in JobRow
  BY <1>1, <1>2, <1>3
     DEF RetentionStep, RetentionDateComes, PurgeBody, PurgeFlush, PurgeCommit, WorkerCrash,
         InspectAgain, InspectFlush, InspectCommit
<1>5. blob' \in BOOLEAN
  <2>1. PurgeBody \/ blob' = blob
    BY DEF RetentionStep, RetentionDateComes, PurgeFlush, PurgeCommit, WorkerCrash,
           InspectAgain, InspectFlush, InspectCommit
  <2>2. PurgeBody => blob' = blob \/ blob' = FALSE
    BY Zenon DEF PurgeBody
  <2> QED BY <1>1, <2>1, <2>2, Zenon
<1>6. crashes' \in 0 .. MaxCrashes
  <2>1. WorkerCrash \/ crashes' = crashes
    BY DEF RetentionStep, RetentionDateComes, PurgeBody, PurgeFlush, PurgeCommit,
           InspectAgain, InspectFlush, InspectCommit
  <2>2. WorkerCrash => crashes' \in 0 .. MaxCrashes
    BY <1>1 DEF WorkerCrash
  <2> QED BY <1>1, <2>1, <2>2
<1>7. purge' \in {"idle", "deleted", "flushed"} /\ insp' \in {"idle", "selected", "locked"}
  BY DEF RetentionTypeOK, RetentionStep, RetentionDateComes, PurgeBody, PurgeFlush, PurgeCommit,
         WorkerCrash, InspectAgain, InspectFlush, InspectCommit
<1> QED BY <1>4, <1>5, <1>6, <1>7 DEF RetentionTypeOK

LEMMA TypeStep == TypeOK /\ [Next]_vars => TypeOK'
<1> SUFFICES ASSUME TypeOK, [Next]_vars PROVE TypeOK'
  OBVIOUS
<1>0. /\ RetentionTypeOK /\ req \in [Grants -> ContentRequest]
      /\ deciding \in [People -> Grants \cup {Nobody}] /\ access \in [Accesses -> Access]
  BY DEF TypeOK
<1>a. ASSUME UNCHANGED retentionVars PROVE RetentionTypeOK'
  BY <1>0, <1>a DEF RetentionTypeOK, retentionVars
<1>b. \A r \in Access, pc \in {"ready", "over"} :
         /\ [r EXCEPT !.pc = pc] \in Access
         /\ [r EXCEPT !.sent = TRUE, !.pc = pc] \in Access
         /\ [r EXCEPT !.logged = TRUE, !.pc = pc] \in Access
  BY DEF Access
<1>c. ASSUME NEW x \in Accesses
      PROVE  (IF UsesUp(x) THEN [req EXCEPT ![access[x].grant].used = TRUE] ELSE req)
               \in [Grants -> ContentRequest]
  <2>1. \A g \in Grants : [req[g] EXCEPT !.used = TRUE] \in ContentRequest
    BY <1>0 DEF ContentRequest
  <2> QED BY <1>0, <2>1
<1>1. CASE RetentionStep /\ UNCHANGED requestVars
  BY <1>0, <1>1, RetentionTypes DEF TypeOK, requestVars
<1>2. ASSUME NEW p \in People, NEW g \in Grants, RequestContent(p, g) PROVE TypeOK'
  <2>1. [NotAsked EXCEPT !.status = "pending", !.requester = p] \in ContentRequest
    BY DEF NotAsked, ContentRequest
  <2> QED BY <1>0, <1>a, <1>2, <2>1 DEF RequestContent, TypeOK
<1>3. ASSUME NEW p \in People, NEW g \in Grants, ApproveRead(p, g) PROVE TypeOK'
  BY <1>0, <1>a, <1>3 DEF ApproveRead, TypeOK
<1>4. ASSUME NEW p \in People, ApproveCommit(p) PROVE TypeOK'
  <2>1. deciding[p] \in Grants
    BY <1>0, <1>4 DEF ApproveCommit
  <2>2. \A r \in ContentRequest :
           [r EXCEPT !.status = "approved", !.approver = p, !.expired = FALSE] \in ContentRequest
    BY DEF ContentRequest
  <2> QED BY <1>0, <1>a, <1>4, <2>1, <2>2 DEF ApproveCommit, TypeOK
<1>5. ASSUME NEW g \in Grants, GrantExpires(g) PROVE TypeOK'
  <2>1. [req[g] EXCEPT !.expired = TRUE] \in ContentRequest
    BY <1>0 DEF ContentRequest
  <2> QED BY <1>0, <1>a, <1>5, <2>1 DEF GrantExpires, TypeOK
<1>6. ASSUME NEW x \in Accesses, NEW p \in People, NEW kind \in Reading, Check(x, p, kind)
      PROVE  TypeOK'
  <2>1. PICK g \in GrantsFor(p, kind) :
          access' = [access EXCEPT ![x] =
            [NoAccess EXCEPT !.pc = IF kind = "text" THEN "ready" ELSE "checked",
                             !.kind = kind, !.who = IF g = Nobody THEN Nobody ELSE p,
                             !.grant = g, !.after = Logged]]
    BY <1>6 DEF Check
  <2>2. g \in Grants \cup {Nobody} /\ Logged \in SUBSET Accesses
    BY <2>1 DEF GrantsFor, ValidGrants, Logged
  <2>3. \A pc \in {"ready", "checked"}, who \in People \cup {Nobody}, l \in SUBSET Accesses :
          [NoAccess EXCEPT !.pc = pc, !.kind = kind, !.who = who, !.grant = g, !.after = l]
            \in Access
    BY <2>2 DEF NoAccess, Access, Reading
  <2>4. access' \in [Accesses -> Access]
    BY <1>0, <2>1, <2>2, <2>3
  <2> QED BY <1>0, <1>a, <1>6, <2>4 DEF Check, TypeOK
<1>7. ASSUME NEW x \in Accesses, LoadBody(x) PROVE TypeOK'
  BY <1>0, <1>a, <1>b, <1>7, NoAccessTyped DEF LoadBody, TypeOK
<1>8. ASSUME NEW x \in Accesses, Answer(x) PROVE TypeOK'
  BY <1>0, <1>a, <1>b, <1>8 DEF Answer, TypeOK
<1>9. ASSUME NEW x \in Accesses, Record(x) PROVE TypeOK'
  BY <1>0, <1>a, <1>b, <1>c, <1>9 DEF Record, TypeOK
<1>10. CASE ApiCrash
  <2>1. RetentionTypeOK'
    <3>1. job' = job /\ blob' = blob /\ purge' = purge /\ insp' = "idle"
      BY <1>10 DEF ApiCrash
    <3>2. crashes' \in 0 .. MaxCrashes
      BY <1>0, <1>10 DEF ApiCrash, RetentionTypeOK
    <3> QED BY <1>0, <3>1, <3>2 DEF RetentionTypeOK
  <2>2. access' \in [Accesses -> Access]
    BY <1>0, <1>b, <1>10, NoAccessTyped DEF ApiCrash
  <2> QED BY <1>0, <1>10, <2>1, <2>2 DEF ApiCrash, TypeOK
<1>11. CASE UNCHANGED vars
  BY <1>0, <1>a, <1>11 DEF vars, TypeOK
<1> QED BY <1>1, <1>2, <1>3, <1>4, <1>5, <1>6, <1>7, <1>8, <1>9, <1>10, <1>11
        DEF Next, Reading

\* TypeOK holds in every state.
THEOREM GateTyped == Spec => []TypeOK
BY InitTyped, TypeStep, PTL DEF Spec

-----------------------------------------------------------------------------
(* Who reads under which grant *)

\* A request that nobody made is blank; one that was approved has an approver.
RequestSound(g) ==
    /\ req[g].status = "none" => /\ req[g].requester = Nobody /\ req[g].approver = Nobody
                                 /\ ~req[g].used
    /\ req[g].status # "none" => req[g].requester # Nobody
    /\ req[g].status = "approved" => req[g].approver # Nobody

\* An approver is deciding about somebody else's request.
DecidingSound(p) ==
    deciding[p] # Nobody => /\ req[deciding[p]].status # "none"
                            /\ req[deciding[p]].requester # p

\* A request for content reads under an approved grant of its own, and leaves no trace
\* before it has its body.
AccessSound(x) ==
    /\ access[x].grant # Nobody => /\ req[access[x].grant].status = "approved"
                                   /\ req[access[x].grant].requester = access[x].who
    /\ access[x].pc \in {"new", "checked"} => ~access[x].sent /\ ~access[x].logged

GateInv ==
    /\ \A g \in Grants : RequestSound(g)
    /\ \A p \in People : DecidingSound(p)
    /\ \A x \in Accesses : AccessSound(x)

\* Every action moves one request, one decision or one access; what the others rely on,
\* that a request keeps its requester and stays approved, it keeps.
Kept == \A g \in Grants : req[g].status # "none" =>
           /\ req'[g].status # "none" /\ req'[g].requester = req[g].requester
           /\ req[g].status = "approved" => req'[g].status = "approved"

LEMMA OthersSound ==
    ASSUME TypeOK, GateInv, Kept
    PROVE  /\ \A p \in People : deciding'[p] \in {deciding[p], Nobody} => DecidingSound(p)'
           /\ \A x \in Accesses : access'[x] = access[x] => AccessSound(x)'
<1>1. ASSUME NEW p \in People, deciding'[p] \in {deciding[p], Nobody} PROVE DecidingSound(p)'
  BY <1>1 DEF TypeOK, GateInv, DecidingSound, Kept
<1>2. ASSUME NEW x \in Accesses, access'[x] = access[x] PROVE AccessSound(x)'
  <2>1. access[x].grant # Nobody => access[x].grant \in Grants
    BY DEF TypeOK, Access
  <2> QED BY <1>2, <2>1 DEF GateInv, AccessSound, Kept
<1> QED BY <1>1, <1>2

LEMMA GateStep == TypeOK /\ GateInv /\ [Next]_vars => GateInv'
<1> SUFFICES ASSUME TypeOK, GateInv, [Next]_vars PROVE GateInv'
  OBVIOUS
<1>0. /\ req \in [Grants -> ContentRequest]
      /\ deciding \in [People -> Grants \cup {Nobody}] /\ access \in [Accesses -> Access]
  BY DEF TypeOK
<1>a. ASSUME req' = req PROVE Kept /\ \A g \in Grants : RequestSound(g)'
  BY <1>a DEF Kept, GateInv, RequestSound
<1>1. CASE RetentionStep /\ UNCHANGED requestVars
  BY <1>1, <1>a, OthersSound DEF requestVars, GateInv
<1>2. ASSUME NEW p \in People, NEW g \in Grants, RequestContent(p, g) PROVE GateInv'
  <2> DEFINE new == [NotAsked EXCEPT !.status = "pending", !.requester = p]
  <2>1. /\ new.status = "pending" /\ new.requester = p /\ new.approver = Nobody
    BY DEF NotAsked
  <2>2. /\ req' = [req EXCEPT ![g] = new] /\ req[g].status = "none"
        /\ deciding' = deciding /\ access' = access
    BY <1>2 DEF RequestContent
  <2> HIDE DEF new
  <2>3. Kept
    BY <1>0, <2>2 DEF Kept
  <2>4. \A h \in Grants : RequestSound(h)'
    BY <1>0, <2>1, <2>2 DEF GateInv, RequestSound
  <2> QED BY <2>2, <2>3, <2>4, OthersSound DEF GateInv
<1>3. ASSUME NEW p \in People, NEW g \in Grants, ApproveRead(p, g) PROVE GateInv'
  <2>1. DecidingSound(p)'
    BY <1>0, <1>3 DEF ApproveRead, DecidingSound
  <2>2. \A q \in People \ {p} : deciding'[q] = deciding[q]
    BY <1>0, <1>3 DEF ApproveRead
  <2> QED BY <1>3, <1>a, <2>1, <2>2, OthersSound DEF ApproveRead, GateInv
<1>4. ASSUME NEW p \in People, ApproveCommit(p) PROVE GateInv'
  <2> DEFINE g == deciding[p]
             new == [req[g] EXCEPT !.status = "approved", !.approver = p, !.expired = FALSE]
  <2>1. g \in Grants /\ req[g] \in ContentRequest /\ req[g].status # "none"
        /\ req[g].requester # Nobody
    BY <1>0, <1>4 DEF ApproveCommit, GateInv, DecidingSound, RequestSound
  <2>2. /\ new.status = "approved" /\ new.requester = req[g].requester /\ new.approver = p
    BY <2>1 DEF ContentRequest
  <2>3. /\ req' = [req EXCEPT ![g] = new] /\ access' = access
        /\ deciding' = [deciding EXCEPT ![p] = Nobody]
    BY <1>0, <1>4, <2>1 DEF ApproveCommit
  <2> HIDE DEF g, new
  <2>4. Kept
    BY <1>0, <2>1, <2>2, <2>3 DEF Kept
  <2>5. \A h \in Grants : RequestSound(h)'
    BY <1>0, <2>1, <2>2, <2>3 DEF GateInv, RequestSound
  <2> QED BY <1>0, <2>3, <2>4, <2>5, OthersSound DEF GateInv
<1>5. ASSUME NEW g \in Grants, GrantExpires(g) PROVE GateInv'
  <2>1. \A h \in Grants : /\ req'[h].status = req[h].status
                           /\ req'[h].requester = req[h].requester
                           /\ req'[h].approver = req[h].approver
                           /\ req'[h].used = req[h].used
    BY <1>0, <1>5 DEF GrantExpires, ContentRequest
  <2> QED BY <1>5, <2>1, OthersSound DEF GrantExpires, GateInv, Kept, RequestSound
<1>6. ASSUME NEW x \in Accesses, NEW p \in People, NEW kind \in Reading, Check(x, p, kind)
      PROVE  GateInv'
  <2>1. PICK g \in GrantsFor(p, kind) :
          access' = [access EXCEPT ![x] =
            [NoAccess EXCEPT !.pc = IF kind = "text" THEN "ready" ELSE "checked",
                             !.kind = kind, !.who = IF g = Nobody THEN Nobody ELSE p,
                             !.grant = g, !.after = Logged]]
    BY <1>6 DEF Check
  <2>2. g = Nobody \/ (g \in Grants /\ req[g].status = "approved" /\ req[g].requester = p)
    BY <2>1 DEF GrantsFor, ValidGrants
  <2>3. /\ access'[x].grant = g /\ access'[x].who = (IF g = Nobody THEN Nobody ELSE p)
        /\ ~access'[x].sent /\ ~access'[x].logged
    BY <1>0, <2>1 DEF NoAccess
  <2>4. req' = req /\ deciding' = deciding /\ \A y \in Accesses \ {x} : access'[y] = access[y]
    BY <1>0, <1>6, <2>1 DEF Check
  <2>5. AccessSound(x)'
    BY <2>2, <2>3, <2>4 DEF AccessSound
  <2> QED BY <1>a, <2>4, <2>5, OthersSound DEF GateInv
<1>7. ASSUME NEW x \in Accesses, LoadBody(x) PROVE GateInv'
  <2>1. access'[x].grant \in {access[x].grant, Nobody} /\ access'[x].who \in {access[x].who, Nobody}
        /\ (access'[x].grant # Nobody => access'[x].who = access[x].who)
        /\ ~access'[x].sent /\ ~access'[x].logged
    BY <1>0, <1>7 DEF LoadBody, GateInv, AccessSound, NoAccess, Access
  <2>2. req' = req /\ deciding' = deciding /\ \A y \in Accesses \ {x} : access'[y] = access[y]
    BY <1>0, <1>7 DEF LoadBody
  <2>3. AccessSound(x)'
    BY <2>1, <2>2 DEF GateInv, AccessSound
  <2> QED BY <1>a, <2>2, <2>3, OthersSound DEF GateInv
<1>8. ASSUME NEW x \in Accesses, Answer(x) \/ Record(x) PROVE GateInv'
  <2>1. /\ access'[x].grant = access[x].grant /\ access'[x].who = access[x].who
        /\ access'[x].pc \in {"ready", "over"}
    BY <1>0, <1>8 DEF Answer, Record, Access
  <2>2. \A h \in Grants : /\ req'[h].status = req[h].status
                           /\ req'[h].requester = req[h].requester
                           /\ req'[h].approver = req[h].approver
    BY <1>0, <1>8 DEF Answer, Record, UsesUp, GateInv, AccessSound, ContentRequest
  <2>a. \A h \in Grants : req[h].status = "none" => ~req'[h].used
    BY <1>0, <1>8
       DEF Answer, Record, UsesUp, GateInv, AccessSound, RequestSound, ContentRequest
  <2>3. deciding' = deciding /\ \A y \in Accesses \ {x} : access'[y] = access[y]
    BY <1>0, <1>8 DEF Answer, Record
  <2>4. Kept
    BY <2>2 DEF Kept
  <2>5. \A h \in Grants : RequestSound(h)'
    BY <2>2, <2>a DEF GateInv, RequestSound
  <2>6. AccessSound(x)'
    <3>1. access[x].grant # Nobody => access[x].grant \in Grants
      BY <1>0 DEF Access
    <3> QED BY <2>1, <2>2, <3>1 DEF GateInv, AccessSound
  <2> QED BY <2>3, <2>4, <2>5, <2>6, OthersSound DEF GateInv
<1>9. CASE ApiCrash
  <2>1. req' = req /\ \A p \in People : deciding'[p] = Nobody
    BY <1>9 DEF ApiCrash
  <2>2. ASSUME NEW x \in Accesses PROVE AccessSound(x)'
    <3>1. \/ access'[x] = NoAccess
          \/ /\ access'[x].grant = access[x].grant /\ access'[x].who = access[x].who
             /\ access'[x].pc = "over"
      BY <1>0, <1>9 DEF ApiCrash, Access
    <3>2. /\ NoAccess.grant = Nobody /\ ~NoAccess.sent /\ ~NoAccess.logged
      BY DEF NoAccess
    <3> QED BY <2>1, <3>1, <3>2 DEF GateInv, AccessSound
  <2> QED BY <1>a, <2>1, <2>2, OthersSound DEF GateInv
<1>10. CASE UNCHANGED vars
  BY <1>10, <1>a, OthersSound DEF vars, GateInv
<1> QED BY <1>1, <1>2, <1>3, <1>4, <1>5, <1>6, <1>7, <1>8, <1>9, <1>10
        DEF Next, Reading

LEMMA GateInit == Init => GateInv
<1> SUFFICES ASSUME Init PROVE GateInv
  OBVIOUS
<1>1. \A g \in Grants : RequestSound(g)
  BY DEF Init, NotAsked, RequestSound
<1>2. \A p \in People : DecidingSound(p)
  BY DEF Init, DecidingSound
<1>3. \A x \in Accesses : AccessSound(x)
  BY DEF Init, NoAccess, AccessSound
<1> QED BY <1>1, <1>2, <1>3 DEF GateInv

-----------------------------------------------------------------------------
(* The two-person rule *)

Opened == {<<access[x].grant, access[x].who>> :
             x \in {y \in Accesses : access[y].sent /\ access[y].grant # Nobody}}

\* What is opened depends only on what was sent, by whom and under which grant.
LEMMA OpenedKept ==
    ASSUME \A x \in Accesses :
             /\ access'[x].sent <=> access[x].sent
             /\ access[x].sent => /\ access'[x].grant = access[x].grant
                                  /\ access'[x].who = access[x].who
    PROVE  Opened' = Opened
BY DEF Opened

LEMMA GateImplementsStep ==
    ASSUME TypeOK, GateInv, [Next]_vars
    PROVE  [TwoPerson!Next]_(TwoPerson!gateVars)
<1> DEFINE holder == [g \in Grants |-> req[g].requester]
           approver == [g \in Grants |-> req[g].approver]
<1>0. /\ req \in [Grants -> ContentRequest]
      /\ deciding \in [People -> Grants \cup {Nobody}] /\ access \in [Accesses -> Access]
  BY DEF TypeOK
<1>a. SUFFICES \/ \E g \in Grants, p \in People :
                    \/ /\ holder[g] = Nobody /\ holder' = [holder EXCEPT ![g] = p]
                       /\ approver' = approver /\ Opened' = Opened
                    \/ /\ holder[g] # Nobody /\ holder[g] # p /\ holder' = holder
                       /\ approver' = [approver EXCEPT ![g] = p] /\ Opened' = Opened
                    \/ /\ holder[g] = p /\ approver[g] # Nobody
                       /\ holder' = holder /\ approver' = approver
                       /\ Opened' = Opened \cup {<<g, p>>}
               \/ holder' = holder /\ approver' = approver /\ Opened' = Opened
  BY DEF TwoPerson!Next, TwoPerson!Ask, TwoPerson!Approve, TwoPerson!Open, TwoPerson!gateVars,
         Opened
<1>b. ASSUME \A g \in Grants : /\ req'[g].requester = req[g].requester
                               /\ req'[g].approver = req[g].approver
      PROVE  holder' = holder /\ approver' = approver
  BY <1>b
<1>c. ASSUME access' = access PROVE Opened' = Opened
  BY <1>c DEF Opened
<1>1. ASSUME NEW p \in People, NEW g \in Grants, RequestContent(p, g)
      PROVE  /\ holder[g] = Nobody /\ holder' = [holder EXCEPT ![g] = p]
             /\ approver' = approver /\ Opened' = Opened
  <2>1. req[g].requester = Nobody /\ req[g].approver = Nobody
    BY <1>1 DEF RequestContent, GateInv, RequestSound
  <2>2. req'[g].requester = p /\ req'[g].approver = Nobody
    BY <1>0, <1>1 DEF RequestContent, NotAsked
  <2>3. \A h \in Grants \ {g} : req'[h] = req[h]
    BY <1>0, <1>1 DEF RequestContent
  <2>4. holder[g] = Nobody /\ holder' = [holder EXCEPT ![g] = p]
    BY <2>1, <2>2, <2>3
  <2>5. approver' = approver
    BY <2>1, <2>2, <2>3
  <2>6. Opened' = Opened
    BY <1>1, <1>c DEF RequestContent
  <2> QED BY <2>4, <2>5, <2>6
<1>2. ASSUME NEW p \in People, ApproveCommit(p)
      PROVE  \E g \in Grants : /\ holder[g] # Nobody /\ holder[g] # p /\ holder' = holder
                               /\ approver' = [approver EXCEPT ![g] = p] /\ Opened' = Opened
  <2> DEFINE g == deciding[p]
  <2>1. g \in Grants /\ req[g].requester # Nobody /\ req[g].requester # p
    BY <1>0, <1>2 DEF ApproveCommit, GateInv, DecidingSound, RequestSound
  <2>2. req'[g].requester = req[g].requester /\ req'[g].approver = p
    BY <1>0, <1>2, <2>1 DEF ApproveCommit, ContentRequest
  <2>3. \A h \in Grants \ {g} : req'[h] = req[h]
    BY <1>0, <1>2, <2>1 DEF ApproveCommit
  <2>4. holder' = holder /\ approver' = [approver EXCEPT ![g] = p]
    BY <2>1, <2>2, <2>3
  <2> QED BY <1>2, <1>c, <2>1, <2>4 DEF ApproveCommit
<1>3. ASSUME NEW x \in Accesses, Answer(x), access[x].grant # Nobody
      PROVE  \E g \in Grants, p \in People :
               /\ holder[g] = p /\ approver[g] # Nobody /\ holder' = holder
               /\ approver' = approver /\ Opened' = Opened \cup {<<g, p>>}
  <2> DEFINE g == access[x].grant
             p == access[x].who
  <2>1. /\ g \in Grants /\ p \in People
        /\ req[g].requester = p /\ req[g].approver # Nobody
    BY <1>0, <1>3 DEF Access, GateInv, AccessSound, RequestSound, ContentRequest
  <2>2. /\ req' = req /\ \A y \in Accesses \ {x} : access'[y] = access[y]
        /\ access'[x].sent /\ access'[x].grant = g /\ access'[x].who = p
    BY <1>0, <1>3 DEF Answer, Access
  <2>3. Opened' = Opened \cup {<<g, p>>}
    BY <1>3, <2>2 DEF Opened
  <2> QED BY <1>b, <2>1, <2>2, <2>3
<1>4. ASSUME NEW x \in Accesses, NEW p \in People, NEW kind \in Reading, Check(x, p, kind)
      PROVE  holder' = holder /\ approver' = approver /\ Opened' = Opened
  <2>1. ~access[x].sent
    BY <1>4 DEF Check, GateInv, AccessSound
  <2>2. ~access'[x].sent /\ \A y \in Accesses \ {x} : access'[y] = access[y]
    BY <1>0, <1>4 DEF Check, NoAccess
  <2> QED BY <1>4, <1>b, <2>1, <2>2, OpenedKept DEF Check
<1>5. ASSUME NEW x \in Accesses, LoadBody(x)
      PROVE  holder' = holder /\ approver' = approver /\ Opened' = Opened
  <2>1. ~access[x].sent
    BY <1>5 DEF LoadBody, GateInv, AccessSound
  <2>2. ~access'[x].sent /\ \A y \in Accesses \ {x} : access'[y] = access[y]
    BY <1>0, <1>5, <2>1 DEF LoadBody, NoAccess, Access
  <2> QED BY <1>5, <1>b, <2>1, <2>2, OpenedKept DEF LoadBody
<1>6. ASSUME NEW x \in Accesses, Record(x) \/ (Answer(x) /\ access[x].grant = Nobody)
      PROVE  holder' = holder /\ approver' = approver /\ Opened' = Opened
  <2>1. \A h \in Grants : /\ req'[h].requester = req[h].requester
                           /\ req'[h].approver = req[h].approver
    BY <1>0, <1>6 DEF Record, Answer, ContentRequest
  <2>2. Opened' = Opened
    <3>1. \A y \in Accesses : /\ access'[y].grant = access[y].grant
                              /\ access'[y].who = access[y].who
                              /\ access[y].grant # Nobody =>
                                    (access'[y].sent <=> access[y].sent)
      BY <1>0, <1>6 DEF Record, Answer, Access
    <3> QED BY <3>1 DEF Opened
  <2> QED BY <1>b, <2>1, <2>2
<1>7. CASE ApiCrash
  <2>1. \A x \in Accesses : /\ access'[x].sent <=> access[x].sent
                            /\ access[x].sent => /\ access'[x].grant = access[x].grant
                                                 /\ access'[x].who = access[x].who
    BY <1>0, <1>7 DEF ApiCrash, NoAccess, Access
  <2> QED BY <1>7, <1>b, <2>1, OpenedKept DEF ApiCrash
<1>8. ASSUME NEW g \in Grants, GrantExpires(g)
      PROVE  holder' = holder /\ approver' = approver /\ Opened' = Opened
  <2>1. \A h \in Grants : /\ req'[h].requester = req[h].requester
                           /\ req'[h].approver = req[h].approver
    BY <1>0, <1>8 DEF GrantExpires, ContentRequest
  <2> QED BY <1>8, <1>b, <1>c, <2>1 DEF GrantExpires
<1>9. ASSUME UNCHANGED requestVars \/ UNCHANGED vars
             \/ \E p \in People, g \in Grants : ApproveRead(p, g)
      PROVE  holder' = holder /\ approver' = approver /\ Opened' = Opened
  <2>1. req' = req /\ access' = access
    BY <1>9 DEF requestVars, vars, ApproveRead
  <2> QED BY <1>b, <1>c, <2>1
<1> HIDE DEF holder, approver
<1> QED BY <1>1, <1>2, <1>3, <1>4, <1>5, <1>6, <1>7, <1>8, <1>9 DEF Next, Reading

\* TwoPeopleOpen holds of every behaviour: whatever is handed out under a grant goes to the
\* one who asked for it, after somebody else approved, however the requests interleave.
THEOREM TwoPeople == Spec => TwoPeopleOpen
<1>1. Init => TwoPerson!Init
  <2> SUFFICES ASSUME Init PROVE TwoPerson!Init
    OBVIOUS
  <2>1. \A x \in Accesses : ~access[x].sent
    BY DEF Init, NoAccess
  <2>2. \A g \in Grants : req[g].requester = Nobody /\ req[g].approver = Nobody
    BY DEF Init, NotAsked
  <2> QED BY <2>1, <2>2 DEF TwoPerson!Init
<1>2. Init => TypeOK /\ GateInv
  BY InitTyped, GateInit
<1>3. TypeOK /\ GateInv /\ [Next]_vars => (TypeOK /\ GateInv)'
  BY TypeStep, GateStep
<1>4. TypeOK /\ GateInv /\ [Next]_vars => [TwoPerson!Next]_(TwoPerson!gateVars)
  BY GateImplementsStep
<1> QED BY <1>1, <1>2, <1>3, <1>4, PTL DEF Spec, TwoPeopleOpen, TwoPerson!Spec

-----------------------------------------------------------------------------
(* Grants are spent, on what was read *)

\* A recorded download under a grant.
Downloaded(x) == access[x].logged /\ access[x].kind = "content" /\ access[x].grant # Nobody

\* A download marks its grant when it is recorded and nothing unmarks it, and what came
\* before a request is still recorded.
SpentInv ==
    /\ \A x \in Accesses : Downloaded(x) => req[access[x].grant].used
    /\ \A g \in Grants : req[g].used =>
          \E x \in Accesses : access[x].grant = g /\ access[x].kind = "content" /\ access[x].logged
    /\ \A y \in Accesses : access[y].after \subseteq Logged
    /\ RecordedGrantIsSpent

\* A step that records nothing, marks nothing and lets nobody begin.
LEMMA NothingSpent ==
    ASSUME SpentInv, TypeOK,
           \A g \in Grants : req'[g].used <=> req[g].used,
           \A x \in Accesses :
             \/ /\ access'[x].logged <=> access[x].logged
                /\ access'[x].kind = access[x].kind /\ access'[x].grant = access[x].grant
                /\ access'[x].after = access[x].after
             \/ /\ ~access[x].logged /\ ~access'[x].logged
                /\ access'[x].grant = Nobody /\ access'[x].after = {}
    PROVE  SpentInv'
<1>1. \A x \in Accesses : access'[x].logged <=> access[x].logged
  OBVIOUS
<1>2. Logged' = Logged
  BY <1>1 DEF Logged
<1>3. ASSUME NEW x \in Accesses, Downloaded(x)' PROVE req'[access'[x].grant].used
  <2>1. Downloaded(x) /\ access'[x].grant = access[x].grant
    BY <1>3 DEF Downloaded
  <2>2. access[x].grant \in Grants
    BY <2>1 DEF Downloaded, TypeOK, Access
  <2> QED BY <2>1, <2>2 DEF SpentInv
<1>4. ASSUME NEW g \in Grants, req'[g].used
      PROVE  \E x \in Accesses : /\ access'[x].grant = g /\ access'[x].kind = "content"
                                 /\ access'[x].logged
  <2>1. PICK x \in Accesses : access[x].grant = g /\ access[x].kind = "content" /\ access[x].logged
    BY <1>4 DEF SpentInv
  <2> QED BY <2>1
<1>5. \A y \in Accesses : access'[y].after \subseteq Logged'
  BY <1>2 DEF SpentInv
<1>6. RecordedGrantIsSpent'
  <2> SUFFICES ASSUME NEW x \in Accesses, NEW y \in Accesses,
                      access'[x].logged, access'[x].kind = "content",
                      access'[x].grant # Nobody, x \in access'[y].after
               PROVE  access'[y].grant # access'[x].grant
    BY DEF RecordedGrantIsSpent
  <2>1. access[x].logged /\ access[x].kind = "content" /\ access'[x].grant = access[x].grant
    OBVIOUS
  <2>2. access'[y].grant = access[y].grant /\ access'[y].after = access[y].after
    OBVIOUS
  <2> QED BY <2>1, <2>2 DEF SpentInv, RecordedGrantIsSpent
<1> QED BY <1>3, <1>4, <1>5, <1>6 DEF SpentInv

LEMMA SpentStep == TypeOK /\ GateInv /\ SpentInv /\ [Next]_vars => SpentInv'
<1> SUFFICES ASSUME TypeOK, GateInv, SpentInv, [Next]_vars PROVE SpentInv'
  OBVIOUS
<1>0. /\ req \in [Grants -> ContentRequest]
      /\ deciding \in [People -> Grants \cup {Nobody}] /\ access \in [Accesses -> Access]
  BY DEF TypeOK
<1>1. ASSUME access' = access, \A g \in Grants : req'[g].used <=> req[g].used PROVE SpentInv'
  BY <1>1, NothingSpent
<1>2. CASE UNCHANGED requestVars \/ UNCHANGED vars
           \/ \E p \in People, g \in Grants : ApproveRead(p, g)
  BY <1>1, <1>2 DEF requestVars, vars, ApproveRead
<1>3. ASSUME NEW p \in People, NEW g \in Grants, RequestContent(p, g) PROVE SpentInv'
  <2>1. ~req[g].used /\ ~req'[g].used
    BY <1>0, <1>3 DEF RequestContent, NotAsked, GateInv, RequestSound
  <2>2. \A h \in Grants \ {g} : req'[h] = req[h]
    BY <1>0, <1>3 DEF RequestContent
  <2> QED BY <1>1, <1>3, <2>1, <2>2 DEF RequestContent
<1>4. ASSUME NEW p \in People, ApproveCommit(p) PROVE SpentInv'
  <2>1. \A h \in Grants : req'[h].used = req[h].used
    BY <1>0, <1>4 DEF ApproveCommit, ContentRequest
  <2> QED BY <1>1, <1>4, <2>1 DEF ApproveCommit
<1>5. ASSUME NEW g \in Grants, GrantExpires(g) PROVE SpentInv'
  <2>1. \A h \in Grants : req'[h].used = req[h].used
    BY <1>0, <1>5 DEF GrantExpires, ContentRequest
  <2> QED BY <1>1, <1>5, <2>1 DEF GrantExpires
<1>6. ASSUME NEW x \in Accesses, NEW p \in People, NEW kind \in Reading, Check(x, p, kind)
      PROVE  SpentInv'
  <2>1. PICK g \in GrantsFor(p, kind) :
          access' = [access EXCEPT ![x] =
            [NoAccess EXCEPT !.pc = IF kind = "text" THEN "ready" ELSE "checked",
                             !.kind = kind, !.who = IF g = Nobody THEN Nobody ELSE p,
                             !.grant = g, !.after = Logged]]
    BY <1>6 DEF Check
  <2>2. /\ access'[x].grant = g /\ ~access'[x].logged /\ access'[x].after = Logged
        /\ req' = req /\ ~access[x].logged
        /\ \A y \in Accesses \ {x} : access'[y] = access[y]
    BY <1>0, <1>6, <2>1 DEF Check, NoAccess, GateInv, AccessSound
  <2>3. g # Nobody => ~req[g].used
    BY <2>1 DEF GrantsFor, ValidGrants
  <2>4. Logged' = Logged
    BY <2>2 DEF Logged
  <2>5. \A y \in Accesses : Downloaded(y)' => Downloaded(y) /\ y # x
    BY <2>2 DEF Downloaded
  <2>6. \A y \in Accesses : Downloaded(y)' => req'[access'[y].grant].used
    BY <2>2, <2>5 DEF SpentInv
  <2>7. \A h \in Grants : req'[h].used =>
          \E y \in Accesses : /\ access'[y].grant = h /\ access'[y].kind = "content"
                              /\ access'[y].logged
    BY <2>2 DEF SpentInv
  <2>8. \A y \in Accesses : access'[y].after \subseteq Logged'
    BY <2>2, <2>4 DEF SpentInv
  <2>9. RecordedGrantIsSpent'
    <3> SUFFICES ASSUME NEW a \in Accesses, NEW b \in Accesses, Downloaded(a)',
                        a \in access'[b].after
                 PROVE  access'[b].grant # access'[a].grant
      BY DEF RecordedGrantIsSpent, Downloaded
    <3>1. CASE b = x
      BY <2>2, <2>3, <2>5, <3>1 DEF SpentInv, Downloaded
    <3>2. CASE b # x
      BY <2>2, <2>5, <3>2 DEF SpentInv, RecordedGrantIsSpent, Downloaded
    <3> QED BY <3>1, <3>2
  <2> QED BY <2>6, <2>7, <2>8, <2>9 DEF SpentInv
<1>7. ASSUME NEW x \in Accesses, LoadBody(x) PROVE SpentInv'
  <2>1. ~access[x].logged
    BY <1>7 DEF LoadBody, GateInv, AccessSound
  <2>2. req' = req /\ \A y \in Accesses \ {x} : access'[y] = access[y]
    BY <1>0, <1>7 DEF LoadBody
  <2>3. \/ /\ access'[x].logged = access[x].logged /\ access'[x].kind = access[x].kind
           /\ access'[x].grant = access[x].grant /\ access'[x].after = access[x].after
        \/ ~access'[x].logged /\ access'[x].grant = Nobody /\ access'[x].after = {}
    BY <1>0, <1>7 DEF LoadBody, NoAccess, Access
  <2> QED BY <2>1, <2>2, <2>3, NothingSpent
<1>8. ASSUME NEW x \in Accesses, Answer(x) PROVE SpentInv'
  <2>1. req' = req /\ \A y \in Accesses \ {x} : access'[y] = access[y]
    BY <1>0, <1>8 DEF Answer
  <2>2. /\ access'[x].logged = access[x].logged /\ access'[x].kind = access[x].kind
        /\ access'[x].grant = access[x].grant /\ access'[x].after = access[x].after
    BY <1>0, <1>8 DEF Answer, Access
  <2> QED BY <2>1, <2>2, NothingSpent
<1>9. ASSUME NEW x \in Accesses, Record(x) PROVE SpentInv'
  <2>1. /\ access'[x].logged /\ access'[x].kind = access[x].kind
        /\ access'[x].grant = access[x].grant /\ access'[x].after = access[x].after
        /\ ~access[x].logged
        /\ \A y \in Accesses \ {x} : access'[y] = access[y]
    BY <1>0, <1>9 DEF Record, Access
  <2>2. UsesUp(x) => /\ access[x].grant \in Grants /\ req'[access[x].grant].used
                     /\ \A h \in Grants \ {access[x].grant} : req'[h] = req[h]
    BY <1>0, <1>9 DEF Record, UsesUp, Access, ContentRequest
  <2>3. ~UsesUp(x) => req' = req
    BY <1>9 DEF Record
  <2>4. Logged' = Logged \cup {x}
    BY <2>1 DEF Logged
  <2>5. \A y \in Accesses : Downloaded(y)' <=> Downloaded(y) \/ (y = x /\ UsesUp(x))
    BY <2>1 DEF Downloaded, UsesUp
  <2>6. \A y \in Accesses : Downloaded(y) => access[y].grant \in Grants
    BY <1>0 DEF Downloaded, Access
  <2>7. ASSUME NEW y \in Accesses, Downloaded(y)' PROVE req'[access'[y].grant].used
    <3>1. CASE y = x
      BY <2>1, <2>2, <2>5, <2>7, <3>1 DEF Downloaded
    <3>2. CASE y # x
      BY <2>1, <2>2, <2>3, <2>5, <2>6, <2>7, <3>2 DEF SpentInv
    <3> QED BY <3>1, <3>2
  <2>8. ASSUME NEW h \in Grants, req'[h].used
        PROVE  \E y \in Accesses : /\ access'[y].grant = h /\ access'[y].kind = "content"
                                   /\ access'[y].logged
    <3>1. CASE UsesUp(x) /\ h = access[x].grant
      BY <2>1, <3>1 DEF UsesUp
    <3>2. CASE ~(UsesUp(x) /\ h = access[x].grant)
      <4>1. req[h].used
        BY <2>2, <2>3, <2>8, <3>2
      <4>2. PICK y \in Accesses : /\ access[y].grant = h /\ access[y].kind = "content"
                                 /\ access[y].logged
        BY <4>1 DEF SpentInv
      <4> QED BY <2>1, <4>2
    <3> QED BY <3>1, <3>2
  <2>9. \A y \in Accesses : access'[y].after = access[y].after
    BY <2>1
  <2>10. \A y \in Accesses : access'[y].after \subseteq Logged'
    BY <2>4, <2>9 DEF SpentInv
  <2>11. RecordedGrantIsSpent'
    <3> SUFFICES ASSUME NEW a \in Accesses, NEW b \in Accesses, Downloaded(a)',
                        a \in access'[b].after
                 PROVE  access'[b].grant # access'[a].grant
      BY DEF RecordedGrantIsSpent, Downloaded
    <3>1. a # x
      BY <2>1, <2>9 DEF SpentInv, Logged
    <3>2. Downloaded(a) /\ access'[a].grant = access[a].grant /\ access'[b].grant = access[b].grant
      BY <2>1, <2>5, <3>1
    <3> QED BY <2>9, <3>2 DEF SpentInv, RecordedGrantIsSpent, Downloaded
  <2> QED BY <2>7, <2>8, <2>10, <2>11 DEF SpentInv
<1>10. CASE ApiCrash
  <2>1. \A x \in Accesses :
          \/ /\ access'[x].logged = access[x].logged /\ access'[x].kind = access[x].kind
             /\ access'[x].grant = access[x].grant /\ access'[x].after = access[x].after
          \/ /\ ~access[x].logged /\ ~access'[x].logged
             /\ access'[x].grant = Nobody /\ access'[x].after = {}
    BY <1>0, <1>10 DEF ApiCrash, NoAccess, Access
  <2> QED BY <1>10, <2>1, NothingSpent DEF ApiCrash
<1> QED BY <1>2, <1>3, <1>4, <1>5, <1>6, <1>7, <1>8, <1>9, <1>10 DEF Next, Reading

LEMMA SpentInit == Init => SpentInv
<1> SUFFICES ASSUME Init PROVE SpentInv
  OBVIOUS
<1>1. \A x \in Accesses : ~access[x].logged /\ access[x].after = {}
  BY DEF Init, NoAccess
<1>2. \A g \in Grants : ~req[g].used
  BY DEF Init, NotAsked
<1> QED BY <1>1, <1>2 DEF SpentInv, Downloaded, RecordedGrantIsSpent

\* The invariant of the grants holds in every state of the gate.
LEMMA SpentInvHolds == Spec => []SpentInv
<1>1. Init => TypeOK /\ GateInv /\ SpentInv
  BY InitTyped, GateInit, SpentInit
<1>2. TypeOK /\ GateInv /\ SpentInv /\ [Next]_vars => (TypeOK /\ GateInv /\ SpentInv)'
  BY TypeStep, GateStep, SpentStep
<1> QED BY <1>1, <1>2, PTL DEF Spec

\* RecordedGrantIsSpent holds in every state: used_at is written with the audit row of a
\* download, and later requests respect it.
THEOREM GrantsAreSpent == Spec => []RecordedGrantIsSpent
<1>1. SpentInv => RecordedGrantIsSpent
  BY DEF SpentInv
<1> QED BY <1>1, SpentInvHolds, PTL

\* GrantUsedMeansRead holds in every state: a grant is used up by nothing but a download
\* that left its audit row, whatever request died before it could answer.
THEOREM GrantsAreUsedToRead == Spec => []GrantUsedMeansRead
<1>1. SpentInv => GrantUsedMeansRead
  BY DEF SpentInv, GrantUsedMeansRead
<1> QED BY <1>1, SpentInvHolds, PTL

-----------------------------------------------------------------------------
(* The body and its date *)

\* The key and the body come together; the key goes when the row says purged, the body may
\* go before, but only once the date has passed.
BodyInv ==
    /\ job.key /\ ~blob => job.due
    /\ job.purged => ~job.key
    /\ purge # "idle" => job.due

LEMMA BodyStep == TypeOK /\ BodyInv /\ [Next]_vars => BodyInv'
<1> SUFFICES ASSUME TypeOK, BodyInv, [Next]_vars PROVE BodyInv'
  OBVIOUS
<1>0. job \in JobRow
  BY DEF TypeOK, RetentionTypeOK
<1>1. CASE RetentionStep
  BY <1>0, <1>1
     DEF BodyInv, JobRow, RetentionStep, RetentionDateComes, PurgeBody, PurgeFlush,
         PurgeCommit, WorkerCrash, InspectAgain, InspectFlush, InspectCommit
<1>2. CASE UNCHANGED <<job, blob, purge>>
  BY <1>2 DEF BodyInv
<1> QED BY <1>1, <1>2
        DEF Next, vars, retentionVars, RequestContent, ApproveRead, ApproveCommit,
            GrantExpires, Check, LoadBody, Answer, Record, ApiCrash

\* MissingBodyIsDue holds in every state: wherever the worker dies in a purge, the next one
\* finds the row, and a purged row opens nothing.
THEOREM BodiesAreAccountedFor == Spec => []MissingBodyIsDue
<1>1. Init => TypeOK /\ BodyInv
  <2>1. Init => ~job.purged /\ job.key = blob /\ purge = "idle"
    BY DEF Init, RetentionInit
  <2> QED BY <2>1, InitTyped DEF BodyInv
<1>2. TypeOK /\ BodyInv /\ [Next]_vars => (TypeOK /\ BodyInv)'
  BY TypeStep, BodyStep
<1>3. BodyInv => MissingBodyIsDue
  BY DEF BodyInv, MissingBodyIsDue, Promised, Readable
<1> QED BY <1>1, <1>2, <1>3, PTL DEF Spec

(***************************************************************************)
(* TextReturnsOnlyByRace holds of every behaviour: the purge takes the     *)
(* text along with the key, and no later inspection writes it again.       *)
(***************************************************************************)
THEOREM TextStaysAway == Spec => TextReturnsOnlyByRace
<1>1. TypeOK /\ [Next]_vars =>
        [/\ job'.purged /\ job'.text => (job.purged /\ job.text) \/ insp = "locked"
         /\ job.purged /\ ~job.text /\ insp = "idle" => ~job'.text /\ insp' = "idle"]_retentionVars
  <2> SUFFICES ASSUME TypeOK, [Next]_vars, retentionVars' # retentionVars
               PROVE  /\ job'.purged /\ job'.text => (job.purged /\ job.text) \/ insp = "locked"
                      /\ job.purged /\ ~job.text /\ insp = "idle" => ~job'.text /\ insp' = "idle"
    OBVIOUS
  <2>0. job \in JobRow
    BY DEF TypeOK, RetentionTypeOK
  <2>1. RetentionStep \/ ApiCrash
    BY DEF Next, vars, retentionVars, RequestContent, ApproveRead, ApproveCommit,
           GrantExpires, Check, LoadBody, Answer, Record
  <2>2. CASE RetentionDateComes
    BY <2>0, <2>2 DEF RetentionDateComes, JobRow
  <2>3. CASE PurgeCommit
    BY <2>0, <2>3 DEF PurgeCommit, JobRow
  <2>4. CASE InspectCommit
    BY <2>4 DEF InspectCommit
  <2>5. CASE PurgeBody \/ PurgeFlush \/ WorkerCrash \/ InspectAgain \/ InspectFlush
    BY <2>5 DEF PurgeBody, PurgeFlush, WorkerCrash, InspectAgain, InspectFlush
  <2>6. CASE ApiCrash
    BY <2>6 DEF ApiCrash
  <2> QED BY <2>1, <2>2, <2>3, <2>4, <2>5, <2>6 DEF RetentionStep
<1> QED BY <1>1, GateTyped, PTL DEF Spec, TextReturnsOnlyByRace
=============================================================================
