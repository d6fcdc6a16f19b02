-------------------------- MODULE PrinterQueuesProofs --------------------------
(***************************************************************************)
(* What the console's view of CUPS is worth, for any number of printers,   *)
(* requests and jobs: rows, the report and a delete tell the truth but for *)
(* the mishaps their properties name.                                      *)
(*                                                                         *)
(* Everything is local to a printer: a request touches one, and what its   *)
(* properties need is told of that printer's row, its two queues, its      *)
(* mishaps and the requests that are about it.                             *)
(***************************************************************************)
EXTENDS PrinterQueues, TLAPS

USE GoneAssumption, QueuesAssumption, EditsAssumption DEF console

On(t, q) == req[t].pc # "idle" /\ req[t].queue = q

\* A request as its operation and place determine it.
Shape(t) ==
    LET r == req[t] IN
    r.pc # "idle" =>
      /\ r.op \in {"create", "update", "delete", "adopt"}
      /\ r.seen.there <=> r.op \in {"update", "delete"}
      /\ r.new.there <=> r.op # "delete"
      /\ r.pc \in {"device", "unshare", "client", "finish"} =>
            r.op \in {"create", "update"} /\ r.new.uri \in Uris
      /\ r.pc = "knob" => r.op = "update" /\ r.new.uri = r.seen.uri
                          /\ r.new.cups = (IF r.seen.cups = "error" THEN "ok" ELSE r.seen.cups)
      /\ r.pc \in {"remove", "removeDevice"} => r.op = "delete"

TypeInv == TypeOK /\ \A t \in Requests : Shape(t)

-----------------------------------------------------------------------------
(* How a request goes on *)

\* Go changes a request's place and the state of the row it will write.
LEMMA GoFacts ==
    ASSUME NEW r \in Request, NEW pc, NEW cups
    PROVE  LET n == [r EXCEPT !.pc = pc, !.new.cups = cups] IN
           /\ n.pc = pc /\ n.op = r.op /\ n.queue = r.queue /\ n.seen = r.seen /\ n.held = r.held
           /\ n.new.there = r.new.there /\ n.new.uri = r.new.uri /\ n.new.cups = cups
BY DEF Request, Row

LEMMA GoTypes ==
    ASSUME NEW r \in Request, NEW cups \in State,
           NEW pc \in {"idle", "device", "unshare", "client", "finish", "knob", "remove",
                       "removeDevice", "flush", "commit"}
    PROVE  /\ [r EXCEPT !.pc = pc, !.new.cups = cups] \in Request
           /\ [r EXCEPT !.pc = pc] \in Request
BY DEF Request, Row

LEMMA IdleTyped == Idle \in Request /\ Idle.pc = "idle"
BY DEF Idle, Request, NoRow, Row, State


LEMMA RowsTyped ==
    /\ NoRow \in Row
    /\ \A uri \in Uris \cup {ClientUri, Gone}, cups \in State :
          [there |-> TRUE, uri |-> uri, cups |-> cups] \in Row
BY DEF NoRow, Row, State

LEMMA InitTyped == Init => TypeInv
<1> SUFFICES ASSUME Init PROVE TypeInv
  OBVIOUS
<1>1. row \in [Queues -> Row]
  BY RowsTyped DEF Init, State
<1>2. job \in [Jobs -> Job]
  BY IdleTyped DEF Init, Job, Request
<1>3. req \in [Requests -> Request] /\ \A t \in Requests : req[t].pc = "idle"
  BY IdleTyped DEF Init
<1>4. report \in Report /\ view \in [Viewers -> View]
  BY DEF Init, NoReport, Report, NoView, View
<1>5. TypeOK
  <2>1. client \in [Queues -> BOOLEAN] /\ device \in [Queues -> Uris \cup {Gone}]
    BY DEF Init
  <2>2. shared \subseteq {q \in Queues : device[q] # Gone} /\ edits \in 0 .. MaxEdits
    BY DEF Init
  <2>3. blame \in [Queues -> SUBSET Blame]
    BY DEF Init
  <2> QED BY <1>1, <1>2, <1>3, <1>4, <2>1, <2>2, <2>3 DEF TypeOK
<1> QED BY <1>3, <1>5 DEF TypeInv, Shape

-----------------------------------------------------------------------------
(* Types *)

LEMMA BeginTypes ==
    ASSUME TypeInv, NEW t \in Requests, NEW q \in Queues,
           NEW op \in {"create", "update", "delete", "adopt"},
           NEW pc \in {"device", "knob", "remove", "flush"}, NEW new \in Row,
           NEW held \in SUBSET Jobs, NEW note \in SUBSET Blame,
           Begin(t, op, q, pc, new, held, note),
           row[q].there <=> op \in {"update", "delete"},
           new.there <=> op # "delete",
           pc = "device" => op \in {"create", "update"} /\ new.uri \in Uris,
           pc = "knob" => op = "update" /\ new.uri = row[q].uri
                          /\ new.cups = (IF row[q].cups = "error" THEN "ok" ELSE row[q].cups),
           pc = "remove" => op = "delete"
    PROVE  TypeInv'
<1> DEFINE r == [pc |-> pc, op |-> op, queue |-> q, seen |-> row[q], new |-> new, held |-> held]
<1>0. /\ row \in [Queues -> Row] /\ req \in [Requests -> Request] /\ edits \in 0 .. MaxEdits
      /\ blame \in [Queues -> SUBSET Blame]
  BY DEF TypeInv, TypeOK
<1>1. /\ req' = [req EXCEPT ![t] = r] /\ edits' = edits + 1 /\ edits < MaxEdits
      /\ blame' = [blame EXCEPT ![q] = @ \cup note \cup IF Busy(q) THEN {"overlap"} ELSE {}]
      /\ UNCHANGED <<row, client, device, shared, job, report, view>>
  BY DEF Begin
<1>2. r \in Request
  BY <1>0 DEF Request
<1>3. /\ r.pc = pc /\ r.op = op /\ r.seen = row[q] /\ r.new = new
  OBVIOUS
<1> HIDE DEF r
<1>4. blame' \in [Queues -> SUBSET Blame]
  <2>1. (blame[q] \cup note \cup IF Busy(q) THEN {"overlap"} ELSE {}) \in SUBSET Blame
    BY <1>0 DEF Blame
  <2> QED BY <1>0, <1>1, <2>1
<1>5. req' \in [Requests -> Request] /\ edits' \in 0 .. MaxEdits
  BY <1>0, <1>1, <1>2
<1>6. TypeOK'
  BY <1>1, <1>4, <1>5 DEF TypeInv, TypeOK
<1>7. ASSUME NEW u \in Requests PROVE Shape(u)'
  <2>1. CASE u = t
    BY <1>0, <1>1, <1>3, <2>1 DEF Shape
  <2>2. CASE u # t
    BY <1>0, <1>1, <2>2 DEF Shape, TypeInv
  <2> QED BY <2>1, <2>2
<1> QED BY <1>6, <1>7 DEF TypeInv

\* A command moves its request on and may change a queue.
LEMMA GoShape ==
    ASSUME TypeInv, NEW t \in Requests, NEW pc, NEW cups,
           pc \in {"unshare", "client", "finish", "flush"},
           req' = [req EXCEPT ![t].pc = pc, ![t].new.cups = cups], cups \in State,
           req[t].pc # "idle",
           pc # "flush" => req[t].pc \in {"device", "unshare", "client"}
    PROVE  /\ req' \in [Requests -> Request]
           /\ \A u \in Requests : Shape(u)'
<1> DEFINE n == [req[t] EXCEPT !.pc = pc, !.new.cups = cups]
<1>0. req \in [Requests -> Request] /\ req[t] \in Request
  BY DEF TypeInv, TypeOK
<1>1. n \in Request
  BY <1>0, GoTypes
<1>2. /\ n.pc = pc /\ n.op = req[t].op /\ n.seen = req[t].seen
      /\ n.new.there = req[t].new.there /\ n.new.uri = req[t].new.uri
  BY <1>0, GoFacts
<1>3. req' = [req EXCEPT ![t] = n]
  BY <1>0
<1> HIDE DEF n
<1>4. ASSUME NEW u \in Requests PROVE Shape(u)'
  <2>1. CASE u = t
    BY <1>0, <1>2, <1>3, <2>1 DEF Shape, TypeInv
  <2>2. CASE u # t
    BY <1>0, <1>3, <2>2 DEF Shape, TypeInv
  <2> QED BY <2>1, <2>2
<1> QED BY <1>0, <1>1, <1>3, <1>4

LEMMA MoveShape ==
    ASSUME TypeInv, NEW t \in Requests, NEW pc, pc \in {"removeDevice", "flush", "commit"},
           req' = [req EXCEPT ![t].pc = pc], req[t].pc # "idle",
           pc = "removeDevice" => req[t].op = "delete"
    PROVE  /\ req' \in [Requests -> Request]
           /\ \A u \in Requests : Shape(u)'
<1> DEFINE n == [req[t] EXCEPT !.pc = pc]
<1>0. req \in [Requests -> Request] /\ req[t] \in Request
  BY DEF TypeInv, TypeOK
<1>1. n \in Request
  <2>1. "ok" \in State
    BY DEF State
  <2> QED BY <1>0, <2>1, GoTypes
<1>2. n.pc = pc /\ n.op = req[t].op /\ n.seen = req[t].seen /\ n.new = req[t].new
  BY <1>0 DEF Request
<1>3. req' = [req EXCEPT ![t] = n]
  BY <1>0
<1> HIDE DEF n
<1>4. ASSUME NEW u \in Requests PROVE Shape(u)'
  <2>1. CASE u = t
    BY <1>0, <1>2, <1>3, <2>1 DEF Shape, TypeInv
  <2>2. CASE u # t
    BY <1>0, <1>3, <2>2 DEF Shape, TypeInv
  <2> QED BY <2>1, <2>2
<1> QED BY <1>0, <1>1, <1>3, <1>4

LEMMA EndShape ==
    ASSUME TypeInv, NEW t \in Requests, req' = [req EXCEPT ![t] = Idle]
    PROVE  /\ req' \in [Requests -> Request]
           /\ \A u \in Requests : Shape(u)'
<1>0. req \in [Requests -> Request]
  BY DEF TypeInv, TypeOK
<1>1. ASSUME NEW u \in Requests PROVE Shape(u)'
  <2>1. CASE u = t
    BY <1>0, <2>1, IdleTyped DEF Shape
  <2>2. CASE u # t
    BY <1>0, <2>2 DEF Shape, TypeInv
  <2> QED BY <2>1, <2>2
<1> QED BY <1>0, <1>1, IdleTyped

LEMMA ClearedRow ==
    ASSUME NEW r \in Row
    PROVE  /\ Cleared(r) \in Row /\ Cleared(r).there = r.there /\ Cleared(r).uri = r.uri
           /\ Cleared(r).cups = IF r.cups = "error" THEN "ok" ELSE r.cups
           /\ \A uri \in Uris : /\ [Cleared(r) EXCEPT !.uri = uri] \in Row
                                /\ [Cleared(r) EXCEPT !.uri = uri].there = r.there
                                /\ [Cleared(r) EXCEPT !.uri = uri].uri = uri
BY DEF Cleared, Row, State

LEMMA TypeStep == TypeInv /\ [Next]_vars => TypeInv'
<1> SUFFICES ASSUME TypeInv, [Next]_vars PROVE TypeInv'
  OBVIOUS
<1>0. /\ row \in [Queues -> Row] /\ client \in [Queues -> BOOLEAN]
      /\ device \in [Queues -> Uris \cup {Gone}] /\ job \in [Jobs -> Job]
      /\ req \in [Requests -> Request] /\ report \in Report
      /\ view \in [Viewers -> View] /\ blame \in [Queues -> SUBSET Blame]
      /\ shared \subseteq {q \in Queues : device[q] # Gone}
  BY DEF TypeInv, TypeOK
<1>a. \A t \in Requests : req[t].queue \in Queues /\ req[t].new.cups \in State
                          /\ req[t].new \in Row /\ req[t].seen \in Row
  BY <1>0 DEF Request, Row
<1>b. \A q \in Queues, x \in Blame : [blame EXCEPT ![q] = @ \cup {x}] \in [Queues -> SUBSET Blame]
  BY <1>0
<1>c. "error" \in State /\ "warning" \in State /\ "ok" \in State
  BY DEF State
<1>d. \A t \in Requests : Warned(t) \in State
  BY <1>a, <1>c DEF Warned
<1>e. ASSUME UNCHANGED <<job, edits>>, row' \in [Queues -> Row],
             client' \in [Queues -> BOOLEAN], device' \in [Queues -> Uris \cup {Gone}],
             shared' \subseteq {q \in Queues : device'[q] # Gone},
             req' \in [Requests -> Request], \A u \in Requests : Shape(u)',
             report' \in Report, view' \in [Viewers -> View],
             blame' \in [Queues -> SUBSET Blame]
      PROVE  TypeInv'
  BY <1>e DEF TypeInv, TypeOK
<1>f. ASSUME UNCHANGED req PROVE req' \in [Requests -> Request] /\ \A u \in Requests : Shape(u)'
  BY <1>0, <1>f DEF TypeInv, Shape
<1>1. ASSUME job' \in [Jobs -> Job],
             UNCHANGED <<row, client, device, shared, req, console, edits, blame>>
      PROVE  TypeInv'
  BY <1>0, <1>f, <1>1 DEF TypeInv, TypeOK
<1>2. ASSUME NEW j \in Jobs, NEW q \in Queues, Arrive(j, q) PROVE TypeInv'
  <2>1. [job[j] EXCEPT !.state = "inspecting", !.queue = q, !.spooled = TRUE] \in Job
    BY <1>0 DEF Job
  <2>2. job' = [job EXCEPT ![j] = [@ EXCEPT !.state = "inspecting", !.queue = q, !.spooled = TRUE]]
    BY <1>0, <1>2 DEF Arrive
  <2> QED BY <1>0, <1>1, <1>2, <2>1, <2>2 DEF Arrive
<1>3. ASSUME NEW j \in Jobs, NEW s \in {"held", "settled"}, Verdict(j, s) PROVE TypeInv'
  <2>1. [job[j] EXCEPT !.state = s] \in Job
    BY <1>0 DEF Job
  <2>2. job' \in [Jobs -> Job]
    BY <1>0, <1>3, <2>1 DEF Verdict
  <2> QED BY <1>1, <1>3, <2>2 DEF Verdict
<1>4. ASSUME NEW j \in Jobs, Decide(j) PROVE TypeInv'
  <2>1. [job[j] EXCEPT !.state = "settled", !.spooled = FALSE] \in Job
    BY <1>0 DEF Job
  <2>2. job' = [job EXCEPT ![j] = [@ EXCEPT !.state = "settled", !.spooled = FALSE]]
    BY <1>0, <1>4 DEF Decide
  <2>3. job' \in [Jobs -> Job]
    BY <1>0, <2>1, <2>2
  <2> QED BY <1>1, <1>4, <2>3 DEF Decide
<1>5. ASSUME NEW t \in Requests, NEW q \in Queues, NEW uri \in Uris,
             Create(t, q, uri) \/ UpdateDevice(t, q, uri)
      PROVE  TypeInv'
  <2>1. CASE Create(t, q, uri)
    <3>1. [there |-> TRUE, uri |-> uri, cups |-> "ok"] \in Row
      BY <1>c, RowsTyped
    <3> QED BY <2>1, <3>1, BeginTypes DEF Create
  <2>2. CASE UpdateDevice(t, q, uri)
    <3>1. row[q] \in Row /\ row[q].there
      BY <1>0, <2>2 DEF UpdateDevice
    <3> DEFINE new == [Cleared(row[q]) EXCEPT !.uri = uri]
    <3>2. new \in Row /\ new.there /\ new.uri = uri
      BY <3>1, ClearedRow
    <3>3. Begin(t, "update", q, "device", new, {}, {})
      BY <2>2 DEF UpdateDevice
    <3> HIDE DEF new
    <3> QED BY <3>1, <3>2, <3>3, BeginTypes
  <2> QED BY <1>5, <2>1, <2>2
<1>6. ASSUME NEW t \in Requests, NEW q \in Queues, UpdateKnob(t, q) \/ UpdatePolicy(t, q)
      PROVE  TypeInv'
  <2>1. row[q] \in Row /\ row[q].there /\ ClearedNote(row[q]) \in SUBSET Blame
    BY <1>0, <1>6 DEF UpdateKnob, UpdatePolicy, ClearedNote, Blame
  <2> QED BY <1>6, <2>1, BeginTypes, ClearedRow DEF UpdateKnob, UpdatePolicy
<1>7. ASSUME NEW t \in Requests, NEW q \in Queues, Delete(t, q) PROVE TypeInv'
  <2>1. NoRow \in Row /\ ~NoRow.there
    BY RowsTyped DEF NoRow
  <2> QED BY <1>7, <2>1, BeginTypes DEF Delete
<1>8. ASSUME NEW t \in Requests, NEW q \in Queues, Adopt(t, q) PROVE TypeInv'
  <2>1. [there |-> TRUE, uri |-> ClientUri, cups |-> "ok"] \in Row
    BY <1>c, RowsTyped
  <2> QED BY <1>8, <2>1, BeginTypes DEF Adopt
<1>9. ASSUME NEW t \in Requests, MakeDevice(t) PROVE TypeInv'
  <2>1. req[t].new.uri \in Uris /\ req[t].queue \in Queues
    BY <1>9, <1>a DEF MakeDevice, At, TypeInv, Shape
  <2>2. /\ device' \in [Queues -> Uris \cup {Gone}]
        /\ shared' \subseteq {q \in Queues : device'[q] # Gone}
    BY <1>0, <1>9, <2>1 DEF MakeDevice, SetDevice, Target
  <2>3. req' \in [Requests -> Request] /\ \A u \in Requests : Shape(u)'
    BY <1>9, <1>a, <1>c, GoShape DEF MakeDevice, At, Go, Failed
  <2> QED BY <1>0, <1>e, <1>9, <2>2, <2>3 DEF MakeDevice
<1>10. ASSUME NEW t \in Requests, Unshare(t) PROVE TypeInv'
  <2>1. blame' \in [Queues -> SUBSET Blame]
    BY <1>0, <1>a, <1>b, <1>10 DEF Unshare, Blame
  <2>2. shared' \subseteq {q \in Queues : device'[q] # Gone}
    BY <1>0, <1>10 DEF Unshare
  <2>3. req' \in [Requests -> Request] /\ \A u \in Requests : Shape(u)'
    BY <1>10, <1>a, <1>c, <1>d, GoShape DEF Unshare, At, Go
  <2> QED BY <1>0, <1>e, <1>10, <2>1, <2>2, <2>3 DEF Unshare
<1>11. ASSUME NEW t \in Requests, MakeClient(t) PROVE TypeInv'
  <2>1. client' \in [Queues -> BOOLEAN]
    BY <1>0, <1>11 DEF MakeClient
  <2>2. req' \in [Requests -> Request] /\ \A u \in Requests : Shape(u)'
    BY <1>11, <1>a, <1>c, GoShape DEF MakeClient, At, Go, Failed
  <2> QED BY <1>0, <1>e, <1>11, <2>1, <2>2 DEF MakeClient
<1>12. ASSUME NEW t \in Requests, Finish(t) PROVE TypeInv'
  <2>1. req' \in [Requests -> Request] /\ \A u \in Requests : Shape(u)'
    BY <1>12, <1>a, <1>c, <1>d, GoShape DEF Finish, At, Go, Failed
  <2> QED BY <1>0, <1>e, <1>12, <2>1 DEF Finish
<1>13. ASSUME NEW t \in Requests, Turn(t) PROVE TypeInv'
  <2>1. req' \in [Requests -> Request] /\ \A u \in Requests : Shape(u)'
    BY <1>13, <1>a, <1>c, GoShape DEF Turn, At, Go, Failed
  <2>2. blame' \in [Queues -> SUBSET Blame]
    <3>1. ClearedNote(req[t].seen) \in SUBSET Blame
      BY DEF ClearedNote, Blame
    <3> QED BY <1>0, <1>13, <3>1 DEF Turn
  <2> QED BY <1>0, <1>e, <1>13, <2>1, <2>2 DEF Turn
<1>14. ASSUME NEW t \in Requests, NothingToRemove(t) PROVE TypeInv'
  <2>1. req' \in [Requests -> Request] /\ \A u \in Requests : Shape(u)'
    BY <1>14, MoveShape DEF NothingToRemove, At
  <2>2. blame' \in [Queues -> SUBSET Blame]
    BY <1>a, <1>b, <1>14 DEF NothingToRemove, Blame
  <2> QED BY <1>0, <1>e, <1>14, <2>1, <2>2 DEF NothingToRemove
<1>15. ASSUME NEW t \in Requests, RemoveClient(t) PROVE TypeInv'
  <2>1. req' \in [Requests -> Request] /\ \A u \in Requests : Shape(u)'
    <3>1. req[t].op = "delete" /\ req[t].pc # "idle"
      BY <1>15 DEF RemoveClient, At, TypeInv, Shape
    <3> QED BY <1>15, <3>1, MoveShape, EndShape DEF RemoveClient
  <2>2. blame' \in [Queues -> SUBSET Blame]
    BY <1>0, <1>a, <1>b, <1>15 DEF RemoveClient, Blame
  <2>3. client' \in [Queues -> BOOLEAN]
    BY <1>0, <1>15 DEF RemoveClient
  <2>4. job' \in [Jobs -> Job]
    <3>1. \A r \in Job, b \in BOOLEAN : [r EXCEPT !.spooled = FALSE, !.missed = b] \in Job
      BY DEF Job
    <3>2. \A j, held : (j \notin held) \in BOOLEAN
      OBVIOUS
    <3> QED BY <1>0, <1>15, <3>1, <3>2 DEF RemoveClient, Purged
  <2> QED BY <1>0, <1>15, <2>1, <2>2, <2>3, <2>4 DEF RemoveClient, TypeInv, TypeOK
<1>16. ASSUME NEW t \in Requests, RemoveRefused(t) PROVE TypeInv'
  BY <1>0, <1>e, <1>16, EndShape DEF RemoveRefused
<1>17. ASSUME NEW t \in Requests, RemoveDevice(t) PROVE TypeInv'
  <2>1. req' \in [Requests -> Request] /\ \A u \in Requests : Shape(u)'
    BY <1>17, MoveShape DEF RemoveDevice, At
  <2>2. blame' \in [Queues -> SUBSET Blame]
    BY <1>0, <1>a, <1>b, <1>17 DEF RemoveDevice, Blame
  <2>3. /\ device' \in [Queues -> Uris \cup {Gone}]
        /\ shared' \subseteq {q \in Queues : device'[q] # Gone}
    BY <1>0, <1>17 DEF RemoveDevice, AfterDevice
  <2> QED BY <1>0, <1>e, <1>17, <2>1, <2>2, <2>3 DEF RemoveDevice
<1>18. ASSUME NEW t \in Requests, Flush(t) PROVE TypeInv'
  <2>1. req' \in [Requests -> Request] /\ \A u \in Requests : Shape(u)'
    BY <1>18, MoveShape DEF Flush, At
  <2>2. report' \in Report
    BY <1>18 DEF Flush, Dropped, NoReport, Report
  <2>3. view' \in [Viewers -> View]
    <3>1. \A r \in View, b \in BOOLEAN : [r EXCEPT !.raced = b] \in View
      BY DEF View
    <3> QED BY <1>0, <1>18, <3>1 DEF Flush
  <2> QED BY <1>0, <1>e, <1>18, <2>1, <2>2, <2>3 DEF Flush
<1>19. ASSUME NEW t \in Requests, Commit(t) PROVE TypeInv'
  <2>1. req' \in [Requests -> Request] /\ \A u \in Requests : Shape(u)'
    BY <1>19, EndShape DEF Commit
  <2>2. Written(t) \in Row
    <3>1. \A a \in Row, b \in Row : a.uri \in Uris \cup {ClientUri, Gone} /\ a.cups \in State
      BY DEF Row
    <3>2. row[req[t].queue] \in Row
      BY <1>0, <1>a
    <3> QED BY <1>a, <3>1, <3>2, RowsTyped DEF Written
  <2> QED BY <1>0, <1>e, <1>19, <2>1, <2>2 DEF Commit
<1>20. ASSUME NEW t \in Requests, Dies(t) PROVE TypeInv'
  <2>1. blame' \in [Queues -> SUBSET Blame]
    BY <1>a, <1>b, <1>20 DEF Dies, Blame
  <2> QED BY <1>0, <1>e, <1>20, <2>1, EndShape DEF Dies
<1>21. ASSUME NEW v \in Viewers,
              ReconcileReads(v) \/ ReconcileLists(v) \/ ReconcileFails(v) \/ ReconcileStores(v)
       PROVE  TypeInv'
  <2>0. view[v] \in View /\ Rows \in SUBSET Queues /\ Live \in SUBSET Queues
    BY <1>0 DEF Rows, Live
  <2>1. NoView \in View /\ Blind \in Report
    BY DEF NoView, View, Blind, NoReport, Report
  <2>2. CASE ReconcileReads(v)
    <3>1. \A b \in BOOLEAN : [pc |-> "read", rows |-> Rows, live |-> {}, raced |-> b] \in View
      BY <2>0 DEF View
    <3>2. (\E t \in Requests : At(t, "commit")) \in BOOLEAN
      OBVIOUS
    <3>3. view' \in [Viewers -> View]
      BY <1>0, <2>2, <3>1, <3>2 DEF ReconcileReads
    <3> QED BY <1>0, <1>e, <1>f, <2>2, <3>3 DEF ReconcileReads
  <2>3. CASE ReconcileLists(v)
    <3>1. [view[v] EXCEPT !.pc = "listed", !.live = Live] \in View
      BY <2>0 DEF View
    <3>2. view' = [view EXCEPT ![v] = [view[v] EXCEPT !.pc = "listed", !.live = Live]]
      BY <1>0, <2>3 DEF ReconcileLists
    <3>3. view' \in [Viewers -> View]
      BY <1>0, <3>1, <3>2
    <3> QED BY <1>0, <1>e, <1>f, <2>3, <3>3 DEF ReconcileLists
  <2>4. CASE ReconcileFails(v)
    BY <1>0, <1>e, <1>f, <2>1, <2>4 DEF ReconcileFails
  <2>5. CASE ReconcileStores(v)
    <3>1. report' \in Report
      BY <2>0, <2>5 DEF ReconcileStores, View, Report
    <3> QED BY <1>0, <1>e, <1>f, <2>1, <2>5, <3>1 DEF ReconcileStores
  <2> QED BY <1>21, <2>2, <2>3, <2>4, <2>5
<1>22. CASE ReportExpires
  <2>1. report' \in Report
    BY <1>22 DEF ReportExpires, NoReport, Report
  <2> QED BY <1>0, <1>e, <1>f, <1>22, <2>1 DEF ReportExpires
<1>23. CASE UNCHANGED vars
  BY <1>0, <1>e, <1>f, <1>23 DEF vars
<1> QED BY <1>2, <1>3, <1>4, <1>5, <1>6, <1>7, <1>8, <1>9, <1>10, <1>11, <1>12, <1>13, <1>14,
           <1>15, <1>16, <1>17, <1>18, <1>19, <1>20, <1>21, <1>22, <1>23 DEF Next

\* TypeOK holds in every state.
THEOREM QueuesTyped == Spec => []TypeOK
<1>1. TypeInv => TypeOK
  BY DEF TypeInv
<1> QED BY <1>1, InitTyped, TypeStep, PTL DEF Spec

-----------------------------------------------------------------------------
(* Held jobs *)

\* A job under inspection is still in CUPS, like a held one, unless a delete missed it; the
\* jobs a delete counted as held are on other printers, and stay there.
JobsKept == \A j \in Jobs : job[j].state \in {"inspecting", "held"} =>
                              job[j].spooled \/ job[j].missed

CountedElsewhere ==
    \A t \in Requests : req[t].pc = "remove" =>
        \A j \in req[t].held : job[j].state # "new" /\ job[j].queue # req[t].queue

HeldInv == JobsKept /\ CountedElsewhere

\* No other action begins a delete, and none but these touches a job.
LEMMA CountedKept ==
    ASSUME TypeOK, CountedElsewhere,
           \A j \in Jobs : job[j].state # "new" =>
                               job'[j].state # "new" /\ job'[j].queue = job[j].queue,
           \A t \in Requests : \/ req'[t] = req[t]
                               \/ req'[t].pc # "remove"
                               \/ \A j \in req'[t].held : /\ job'[j].state # "new"
                                                          /\ job'[j].queue # req'[t].queue
    PROVE  CountedElsewhere'
BY DEF CountedElsewhere, TypeOK, Request

LEMMA HeldStep == TypeInv /\ HeldInv /\ [Next]_vars => HeldInv'
<1> SUFFICES ASSUME TypeInv, HeldInv, [Next]_vars PROVE HeldInv'
  OBVIOUS
<1>0. TypeOK /\ job \in [Jobs -> Job] /\ req \in [Requests -> Request]
  BY DEF TypeInv, TypeOK
<1>a. ASSUME job' = job,
             \A t \in Requests : req'[t] = req[t] \/ req'[t].pc # "remove"
      PROVE  HeldInv'
  BY <1>0, <1>a, CountedKept DEF HeldInv, JobsKept
<1>b. ASSUME NEW t \in Requests, NEW r, r.pc # "remove", req' = [req EXCEPT ![t] = r]
      PROVE  \A u \in Requests : req'[u] = req[u] \/ req'[u].pc # "remove"
  BY <1>0, <1>b
<1>c. ASSUME NEW t \in Requests, NEW pc, NEW cups, pc # "remove",
             req' = [req EXCEPT ![t].pc = pc, ![t].new.cups = cups]
      PROVE  \A u \in Requests : req'[u] = req[u] \/ req'[u].pc # "remove"
  <2>1. req' = [req EXCEPT ![t] = [req[t] EXCEPT !.pc = pc, !.new.cups = cups]]
    BY <1>0, <1>c
  <2>2. [req[t] EXCEPT !.pc = pc, !.new.cups = cups].pc = pc
    BY <1>0, GoFacts
  <2> QED BY <1>b, <1>c, <2>1, <2>2
<1>d. ASSUME NEW t \in Requests, NEW pc, pc # "remove", req' = [req EXCEPT ![t].pc = pc]
      PROVE  \A u \in Requests : req'[u] = req[u] \/ req'[u].pc # "remove"
  BY <1>0, <1>d DEF Request
<1>1. ASSUME NEW j \in Jobs, NEW q \in Queues, Arrive(j, q) PROVE HeldInv'
  <2>1. JobsKept'
    BY <1>0, <1>1 DEF Arrive, HeldInv, JobsKept, Job
  <2> QED BY <1>0, <1>1, <2>1, CountedKept DEF Arrive, HeldInv, Job
<1>2. ASSUME NEW j \in Jobs, NEW s \in {"held", "settled"}, Verdict(j, s) PROVE HeldInv'
  <2>1. JobsKept'
    BY <1>0, <1>2 DEF Verdict, HeldInv, JobsKept, Job
  <2> QED BY <1>0, <1>2, <2>1, CountedKept DEF Verdict, HeldInv, Job
<1>3. ASSUME NEW j \in Jobs, Decide(j) PROVE HeldInv'
  <2>1. JobsKept'
    BY <1>0, <1>3 DEF Decide, HeldInv, JobsKept, Job
  <2> QED BY <1>0, <1>3, <2>1, CountedKept DEF Decide, HeldInv, Job
<1>4. ASSUME NEW t \in Requests, NEW q \in Queues,
             \/ \E uri \in Uris : Create(t, q, uri) \/ UpdateDevice(t, q, uri)
             \/ UpdateKnob(t, q) \/ UpdatePolicy(t, q) \/ Adopt(t, q)
      PROVE  HeldInv'
  <2>1. PICK op, pc, new, held, note : pc # "remove" /\ Begin(t, op, q, pc, new, held, note)
    BY <1>4 DEF Create, UpdateDevice, UpdateKnob, UpdatePolicy, Adopt
  <2> DEFINE r == [pc |-> pc, op |-> op, queue |-> q, seen |-> row[q], new |-> new, held |-> held]
  <2>2. r.pc # "remove" /\ req' = [req EXCEPT ![t] = r] /\ job' = job
    BY <2>1 DEF Begin
  <2> HIDE DEF r
  <2> QED BY <2>2, <1>a, <1>b
<1>5. ASSUME NEW t \in Requests, NEW q \in Queues, Delete(t, q) PROVE HeldInv'
  <2> DEFINE r == [pc |-> "remove", op |-> "delete", queue |-> q, seen |-> row[q], new |-> NoRow,
                   held |-> {j \in Jobs : job[j].state = "held"}]
  <2>1. req' = [req EXCEPT ![t] = r] /\ job' = job
    BY <1>5 DEF Delete, Begin
  <2>2. \A j \in r.held : job[j].state # "new" /\ job[j].queue # r.queue
    BY <1>5 DEF Delete, HeldOn
  <2> HIDE DEF r
  <2>3. CountedElsewhere'
    BY <1>0, <2>1, <2>2, CountedKept DEF HeldInv
  <2> QED BY <2>1, <2>3 DEF HeldInv, JobsKept
<1>6. ASSUME NEW t \in Requests, MakeDevice(t) \/ Unshare(t) \/ MakeClient(t) \/ Finish(t) \/ Turn(t)
      PROVE  HeldInv'
  <2>1. job' = job
    BY <1>6 DEF MakeDevice, Unshare, MakeClient, Finish, Turn
  <2>2. PICK pc, cups : pc # "remove" /\ req' = [req EXCEPT ![t].pc = pc, ![t].new.cups = cups]
    <3>1. CASE MakeDevice(t)
      BY <3>1 DEF MakeDevice, Go, Failed
    <3>2. CASE Unshare(t)
      BY <3>2 DEF Unshare, Go
    <3>3. CASE MakeClient(t)
      BY <3>3 DEF MakeClient, Go, Failed
    <3>4. CASE Finish(t)
      BY <3>4 DEF Finish, Go, Failed
    <3>5. CASE Turn(t)
      BY <3>5 DEF Turn, Go, Failed
    <3> QED BY <1>6, <3>1, <3>2, <3>3, <3>4, <3>5
  <2> QED BY <2>1, <2>2, <1>a, <1>c
<1>7. ASSUME NEW t \in Requests, NothingToRemove(t) \/ RemoveDevice(t) \/ Flush(t)
      PROVE  HeldInv'
  BY <1>7, <1>a, <1>d DEF NothingToRemove, RemoveDevice, Flush
<1>8. ASSUME NEW t \in Requests, RemoveRefused(t) \/ Commit(t) \/ Dies(t) PROVE HeldInv'
  BY <1>8, <1>a, <1>b, IdleTyped DEF RemoveRefused, Commit, Dies
<1>9. ASSUME NEW t \in Requests, RemoveClient(t) PROVE HeldInv'
  <2> DEFINE q == req[t].queue
             held == req[t].held
  <2>1. ASSUME NEW j \in Jobs
        PROVE  /\ job'[j].state = job[j].state /\ job'[j].queue = job[j].queue
               /\ \/ job'[j] = job[j]
                  \/ job[j].queue = q /\ job'[j].missed = (j \notin held)
    BY <1>0, <1>9 DEF RemoveClient, Purged, Job
  <2>2. \A j \in held : job[j].queue # q
    BY <1>9 DEF RemoveClient, At, HeldInv, CountedElsewhere
  <2>3. JobsKept'
    BY <2>1, <2>2 DEF HeldInv, JobsKept
  <2>4. \A u \in Requests : req'[u] = req[u] \/ req'[u].pc # "remove"
    BY <1>9, <1>b, <1>d, IdleTyped DEF RemoveClient
  <2> QED BY <1>0, <2>1, <2>3, <2>4, CountedKept DEF HeldInv
<1>10. CASE ReportExpires \/ UNCHANGED vars
  BY <1>10, <1>a DEF ReportExpires, vars
<1>11. ASSUME NEW v \in Viewers,
              ReconcileReads(v) \/ ReconcileLists(v) \/ ReconcileFails(v) \/ ReconcileStores(v)
       PROVE  HeldInv'
  BY <1>11, <1>a DEF ReconcileReads, ReconcileLists, ReconcileFails, ReconcileStores
<1> QED BY <1>1, <1>2, <1>3, <1>4, <1>5, <1>6, <1>7, <1>8, <1>9, <1>10, <1>11 DEF Next

\* HeldJobsSurviveDelete holds in every state: the only held jobs a delete can take from
\* CUPS are those that were not yet held when it counted.
THEOREM HeldJobsKept == Spec => []HeldJobsSurviveDelete
<1>1. Init => HeldInv
  BY IdleTyped DEF Init, HeldInv, JobsKept, CountedElsewhere
<1>2. HeldInv => HeldJobsSurviveDelete
  BY DEF HeldInv, JobsKept, HeldJobsSurviveDelete
<1> QED BY <1>1, <1>2, InitTyped, TypeStep, HeldStep, PTL DEF Spec

-----------------------------------------------------------------------------
(* What is so of one printer *)

\* An "ok" row r of q: its jobs are inspected, and nobody is told of its device queue.
Fits(q, r)   == r.cups = "ok" => client[q] /\ r.uri \in {device[q], ClientUri}
Untold(q, r) == r.cups = "ok" => q \notin shared

\* No request is about q.
Rest(q) ==
    /\ ~row[q].there => device[q] = Gone \/ Mishaps(q, {"kept", "half"})
    /\ Fits(q, row[q]) \/ Mishaps(q, {"cleared", "refused"})
    /\ Untold(q, row[q]) \/ Mishaps(q, {"unwarned", "cleared"})
    /\ client[q] /\ ~row[q].there => q \notin shared \/ Mishaps(q, {"unwarned", "cleared"})

\* Request r is about q, alone.
ToWrite(r) == r.pc \in {"flush", "commit"} /\ r.op # "delete"

DeviceDuring(q, r) ==
    /\ r.op = "delete" /\ r.pc \in {"flush", "commit"} =>
          device[q] = Gone \/ Mishaps(q, {"kept", "half"})
    /\ r.pc \in {"unshare", "client", "finish"} => device[q] = r.new.uri

ClientDuring(q, r) ==
    /\ r.op = "delete" => r.new.cups # "ok" /\ (r.pc # "remove" => ~client[q])
    /\ r.pc = "finish" => client[q]

FitsDuring(q, r) ==
    /\ ToWrite(r) => Fits(q, r.new)
    /\ r.pc \in {"knob", "remove"} => Fits(q, row[q])

UntoldDuring(q, r) ==
    /\ ToWrite(r) \/ r.pc \in {"client", "finish"} => Untold(q, r.new)
    /\ r.pc \in {"knob", "remove"} => Untold(q, row[q])

During(q, r) ==
    /\ DeviceDuring(q, r) /\ ClientDuring(q, r)
    /\ FitsDuring(q, r) \/ Mishaps(q, {"cleared", "refused"})
    /\ UntoldDuring(q, r) \/ Mishaps(q, {"unwarned", "cleared"})

\* But for overlaps and deaths, a request has its printer for itself and knows its row.
Local(q) ==
    \/ Mishaps(q, {"overlap", "lost"})
    \/ /\ (\A t \in Requests : ~On(t, q)) => Rest(q)
       /\ \A t \in Requests : On(t, q) => /\ During(q, req[t]) /\ req[t].seen = row[q]
                                          /\ \A u \in Requests : On(u, q) => u = t

LocalInv == \A q \in Queues : Local(q)

\* Nothing of p's own changes.
SameAt(p) ==
    /\ row'[p] = row[p] /\ client'[p] = client[p] /\ device'[p] = device[p]
    /\ (p \in shared)' <=> p \in shared
    /\ blame'[p] = blame[p]

LEMMA Elsewhere ==
    ASSUME TypeInv, NEW p \in Queues, Local(p), SameAt(p),
           \A u \in Requests : /\ On(u, p)' <=> On(u, p)
                               /\ On(u, p) => req'[u] = req[u]
    PROVE  Local(p)'
<1>1. \A S : Mishaps(p, S)' <=> Mishaps(p, S)
  BY DEF SameAt, Mishaps
<1>2. /\ \A r : Fits(p, r)' <=> Fits(p, r)
      /\ \A r : Untold(p, r)' <=> Untold(p, r)
  BY DEF SameAt, Fits, Untold
<1>3. Rest(p)' <=> Rest(p)
  BY <1>1, <1>2 DEF SameAt, Rest
<1>4. \A r : During(p, r)' <=> During(p, r)
  BY <1>1, <1>2 DEF SameAt, During, DeviceDuring, ClientDuring, FitsDuring, UntoldDuring
<1> QED BY <1>1, <1>3, <1>4 DEF SameAt, Local

\* One request t turns into n: it begins, goes on or ends, and touches its printer only.
LEMMA OneMoves ==
    ASSUME TypeInv, LocalInv, NEW t \in Requests, NEW q \in Queues, NEW n,
           req' = [req EXCEPT ![t] = n],
           req[t].pc = "idle" \/ req[t].queue = q, n.pc = "idle" \/ n.queue = q,
           \A p \in Queues \ {q} : SameAt(p),
           \/ Mishaps(q, {"overlap", "lost"})'
           \/ /\ \A u \in Requests : On(u, q) => u = t
              /\ n.pc = "idle" => Rest(q)'
              /\ n.pc # "idle" => During(q, n)' /\ n.seen = row'[q]
    PROVE  LocalInv'
<1>0. req'[t] = n /\ \A u \in Requests \ {t} : req'[u] = req[u]
  BY DEF TypeInv, TypeOK
<1>1. ASSUME NEW p \in Queues, p # q PROVE Local(p)'
  <2>1. \A u \in Requests : (On(u, p)' <=> On(u, p)) /\ (On(u, p) => req'[u] = req[u])
    BY <1>0, <1>1 DEF On
  <2> QED BY <1>1, <2>1, Elsewhere DEF LocalInv
<1>2. Local(q)'
  <2>1. CASE Mishaps(q, {"overlap", "lost"})'
    BY <2>1 DEF Local
  <2>2. CASE ~ Mishaps(q, {"overlap", "lost"})'
    <3>1. \A u \in Requests : On(u, q)' => u = t
      BY <1>0, <2>2 DEF On
    <3>2. On(t, q)' <=> n.pc # "idle"
      BY <1>0 DEF On
    <3> QED BY <1>0, <2>2, <3>1, <3>2 DEF Local
  <2> QED BY <2>1, <2>2
<1> QED BY <1>1, <1>2 DEF LocalInv

\* Mishaps are never forgotten.
LEMMA Remembered ==
    ASSUME NEW q \in Queues, blame[q] \subseteq blame'[q]
    PROVE  \A S : Mishaps(q, S) => Mishaps(q, S)'
BY DEF Mishaps

\* A request on q goes on, or ends, in one of its own steps.
LEMMA Alone ==
    ASSUME TypeInv, LocalInv, NEW t \in Requests, req[t].pc # "idle",
           ~ Mishaps(req[t].queue, {"overlap", "lost"})
    PROVE  /\ During(req[t].queue, req[t]) /\ req[t].seen = row[req[t].queue]
           /\ \A u \in Requests : On(u, req[t].queue) => u = t
BY DEF TypeInv, TypeOK, Request, LocalInv, Local, On

LEMMA BeginLocal ==
    ASSUME TypeInv, LocalInv, NEW t \in Requests, NEW q \in Queues, NEW op, NEW pc, NEW new,
           NEW held, NEW note, pc # "idle", Begin(t, op, q, pc, new, held, note),
           pc \in {"device", "knob", "remove", "flush"},
           pc = "remove" <=> op = "delete", op = "delete" => new.cups # "ok",
           Rest(q) /\ pc = "flush" =>
              /\ Fits(q, new) \/ Mishaps(q, {"cleared", "refused"}) \/ "cleared" \in note
              /\ Untold(q, new) \/ Mishaps(q, {"unwarned", "cleared"}) \/ "cleared" \in note
    PROVE  LocalInv'
<1>n. PICK n : n = [pc |-> pc, op |-> op, queue |-> q, seen |-> row[q], new |-> new, held |-> held]
  OBVIOUS
<1>0. /\ req' = [req EXCEPT ![t] = n] /\ req[t].pc = "idle"
      /\ blame' = [blame EXCEPT ![q] = @ \cup note \cup IF Busy(q) THEN {"overlap"} ELSE {}]
      /\ UNCHANGED <<row, client, device, shared>> /\ blame \in [Queues -> SUBSET Blame]
  BY <1>n DEF Begin, TypeInv, TypeOK
<1>1. n.pc = pc /\ n.op = op /\ n.queue = q /\ n.seen = row[q] /\ n.new = new
  BY <1>n
<1>2. \A p \in Queues \ {q} : SameAt(p)
  BY <1>0 DEF SameAt
<1>3. ASSUME ~ Mishaps(q, {"overlap", "lost"})'
      PROVE  (\A u \in Requests : ~On(u, q)) /\ During(q, n)'
  <2>1. blame[q] \subseteq blame'[q] /\ note \subseteq blame'[q]
        /\ (Busy(q) => "overlap" \in blame'[q])
    BY <1>0
  <2>2. ~Busy(q) /\ ~ Mishaps(q, {"overlap", "lost"})
    BY <1>3, <2>1, Remembered DEF Mishaps
  <2>3. \A u \in Requests : ~On(u, q)
    BY <2>2 DEF Busy, On
  <2>4. Rest(q)
    BY <2>2, <2>3 DEF LocalInv, Local
  <2>5. "cleared" \in note => Mishaps(q, {"cleared", "refused"})' /\ Mishaps(q, {"unwarned", "cleared"})'
    BY <2>1 DEF Mishaps
  <2>6. (\A r : Fits(q, r)' <=> Fits(q, r)) /\ (\A r : Untold(q, r)' <=> Untold(q, r))
        /\ row'[q] = row[q]
    BY <1>0 DEF Fits, Untold
  <2>7. FitsDuring(q, n)' \/ Mishaps(q, {"cleared", "refused"})'
    BY <1>1, <2>1, <2>4, <2>5, <2>6, Remembered DEF FitsDuring, ToWrite, Rest
  <2>8. UntoldDuring(q, n)' \/ Mishaps(q, {"unwarned", "cleared"})'
    BY <1>1, <2>1, <2>4, <2>5, <2>6, Remembered DEF UntoldDuring, ToWrite, Rest
  <2>9. DeviceDuring(q, n)' /\ ClientDuring(q, n)'
    BY <1>1 DEF DeviceDuring, ClientDuring
  <2> QED BY <2>3, <2>7, <2>8, <2>9 DEF During
<1>4. row'[q] = row[q]
  BY <1>0
<1> QED BY <1>0, <1>1, <1>2, <1>3, <1>4, OneMoves

\* A request goes on: what is so during it stays so.
LEMMA GoLocal ==
    ASSUME TypeInv, LocalInv, NEW t \in Requests, NEW q \in Queues, NEW n,
           q = req[t].queue, req[t].pc # "idle",
           req' = [req EXCEPT ![t] = n], n.pc # "idle", n.queue = q, n.seen = req[t].seen,
           row' = row, blame[q] \subseteq blame'[q],
           \A p \in Queues \ {q} : SameAt(p),
           During(q, req[t]) /\ req[t].seen = row[q] => During(q, n)'
    PROVE  LocalInv'
<1>1. ASSUME ~ Mishaps(q, {"overlap", "lost"})'
      PROVE  /\ \A u \in Requests : On(u, q) => u = t
             /\ During(q, n)' /\ n.seen = row'[q]
  BY <1>1, Alone, Remembered
<1> QED BY <1>1, OneMoves

\* A request ends: q comes to rest, unless it died.
LEMMA EndLocal ==
    ASSUME TypeInv, LocalInv, NEW t \in Requests, NEW q \in Queues,
           q = req[t].queue, req[t].pc # "idle",
           req' = [req EXCEPT ![t] = Idle], blame[q] \subseteq blame'[q],
           \A p \in Queues \ {q} : SameAt(p),
           \/ Mishaps(q, {"overlap", "lost"})'
           \/ During(q, req[t]) /\ req[t].seen = row[q] => Rest(q)'
    PROVE  LocalInv'
<1>1. ASSUME ~ Mishaps(q, {"overlap", "lost"})'
      PROVE  (\A u \in Requests : On(u, q) => u = t) /\ Rest(q)'
  BY <1>1, Alone, Remembered
<1> QED BY <1>1, IdleTyped, OneMoves

\* A request's commands are about its own printer.
LEMMA CreateElsewhere ==
    ASSUME TypeInv, NEW t \in Requests,
           MakeDevice(t) \/ Unshare(t) \/ MakeClient(t) \/ Finish(t) \/ Turn(t)
    PROVE  \A p \in Queues \ {req[t].queue} : SameAt(p)
<1> DEFINE others == Queues \ {req[t].queue}
<1>0. /\ client \in [Queues -> BOOLEAN] /\ device \in [Queues -> Uris \cup {Gone}]
      /\ blame \in [Queues -> SUBSET Blame] /\ req[t].queue \in Queues /\ row' = row
  BY DEF TypeInv, TypeOK, Request, MakeDevice, Unshare, MakeClient, Finish, Turn
<1>1. \A p \in others : client'[p] = client[p] /\ device'[p] = device[p]
  BY <1>0 DEF MakeDevice, Unshare, MakeClient, Finish, Turn, SetDevice
<1>2. \A p \in others : (p \in shared)' <=> p \in shared
  BY <1>0 DEF MakeDevice, Unshare, MakeClient, Finish, Turn, SetDevice
<1>3. \A p \in others : blame'[p] = blame[p]
  BY <1>0 DEF MakeDevice, Unshare, MakeClient, Finish, Turn
<1> QED BY <1>0, <1>1, <1>2, <1>3 DEF SameAt

\* The commands of create_queue.
LEMMA CreateLocal ==
    ASSUME TypeInv, LocalInv, NEW t \in Requests,
           MakeDevice(t) \/ Unshare(t) \/ MakeClient(t) \/ Finish(t) \/ Turn(t)
    PROVE  LocalInv'
<1>q. PICK q \in Queues : q = req[t].queue
  BY DEF TypeInv, TypeOK, Request
<1>0. /\ req[t] \in Request /\ req \in [Requests -> Request]
      /\ req[t].pc # "idle" /\ row' = row
      /\ client \in [Queues -> BOOLEAN] /\ device \in [Queues -> Uris \cup {Gone}]
      /\ blame \in [Queues -> SUBSET Blame]
  BY <1>q DEF TypeInv, TypeOK, Request, MakeDevice, Unshare, MakeClient, Finish, Turn, At
<1>1. \A p \in Queues \ {q} : SameAt(p)
  BY <1>q, CreateElsewhere
<1>2. /\ blame[q] \subseteq blame'[q]
      /\ \A S : Mishaps(q, S) => Mishaps(q, S)'
  BY <1>0 DEF Mishaps, MakeDevice, Unshare, MakeClient, Finish, Turn
<1>3. ASSUME NEW pc, NEW cups, Go(t, pc, cups), pc # "idle",
             \A n : /\ n.pc = pc /\ n.op = req[t].op /\ n.new.uri = req[t].new.uri
                    /\ n.new.cups = cups
                    => (During(q, req[t]) /\ req[t].seen = row[q] => During(q, n)')
      PROVE  LocalInv'
  <2>1. PICK n : n = [req[t] EXCEPT !.pc = pc, !.new.cups = cups]
    OBVIOUS
  <2>2. /\ n.pc = pc /\ n.op = req[t].op /\ n.queue = q /\ n.seen = req[t].seen
        /\ n.new.uri = req[t].new.uri /\ n.new.cups = cups
    BY <1>q, <1>0, <2>1 DEF Request, Row
  <2>3. req' = [req EXCEPT ![t] = n]
    <3>1. req' = [req EXCEPT ![t] = [req[t] EXCEPT !.pc = pc, !.new.cups = cups]]
      BY <1>0, <1>3 DEF Go
    <3> QED BY <2>1, <3>1
  <2> QED BY <1>q, <1>0, <1>1, <1>2, <1>3, <2>2, <2>3, GoLocal
<1>4. CASE MakeDevice(t)
  <2>1. req[t].op \in {"create", "update"}
    BY <1>4 DEF MakeDevice, At, TypeInv, Shape
  <2>2. CASE Failed(t)
    BY <1>2, <1>3, <2>1, <2>2 DEF Failed, During, DeviceDuring, ClientDuring, FitsDuring,
       UntoldDuring, Fits, Untold, ToWrite
  <2>3. CASE device'[q] = req[t].new.uri /\ Go(t, "unshare", req[t].new.cups)
    BY <1>2, <1>3, <2>1, <2>3 DEF During, DeviceDuring, ClientDuring, FitsDuring,
       UntoldDuring, ToWrite
  <2> QED BY <1>q, <1>0, <1>4, <2>2, <2>3 DEF MakeDevice, SetDevice, Target
<1>5. CASE Unshare(t)
  <2>1. req[t].op \in {"create", "update"} /\ req[t].pc = "unshare" /\ UNCHANGED <<client, device>>
    BY <1>5 DEF Unshare, At, TypeInv, Shape
  <2>2. CASE q \notin shared' /\ Go(t, "client", req[t].new.cups)
    BY <1>2, <1>3, <2>1, <2>2 DEF During, DeviceDuring, ClientDuring, FitsDuring,
       UntoldDuring, ToWrite, Untold
  <2>3. CASE Go(t, "client", Warned(t)) /\ (req[t].op = "update" => "unwarned" \in blame'[q])
    <3>1. req[t].op = "update" => Mishaps(q, {"unwarned", "cleared"})'
      BY <2>3 DEF Mishaps
    <3>2. req[t].op # "update" => Warned(t) = "warning"
      BY <2>1 DEF Warned
    <3> QED BY <1>2, <1>3, <2>1, <2>3, <3>1, <3>2 DEF During, DeviceDuring, ClientDuring,
            FitsDuring, UntoldDuring, ToWrite, Untold
  <2> QED BY <1>q, <1>0, <1>5, <2>2, <2>3 DEF Unshare
<1>6. CASE MakeClient(t)
  <2>1. req[t].op \in {"create", "update"} /\ req[t].pc = "client" /\ UNCHANGED <<shared, device>>
    BY <1>6 DEF MakeClient, At, TypeInv, Shape
  <2>2. CASE Failed(t)
    BY <1>2, <1>3, <2>1, <2>2 DEF Failed, During, DeviceDuring, ClientDuring, FitsDuring,
       UntoldDuring, Fits, Untold, ToWrite
  <2>3. CASE client'[q] /\ Go(t, "finish", req[t].new.cups)
    BY <1>2, <1>3, <2>1, <2>3 DEF During, DeviceDuring, ClientDuring, FitsDuring,
       UntoldDuring, ToWrite, Untold
  <2> QED BY <1>q, <1>0, <1>6, <2>2, <2>3 DEF MakeClient
<1>7. CASE Finish(t)
  <2>1. req[t].op \in {"create", "update"} /\ req[t].pc = "finish"
        /\ UNCHANGED <<shared, device, client>>
    BY <1>7 DEF Finish, At, TypeInv, Shape
  <2>2. Warned(t) = "ok" => req[t].new.cups = "ok"
    BY DEF Warned
  <2>3. \E cups : Go(t, "flush", cups) /\ (cups = "ok" => req[t].new.cups = "ok")
    BY <1>7, <2>2 DEF Finish, Failed
  <2> QED BY <1>2, <1>3, <2>1, <2>3 DEF During, DeviceDuring, ClientDuring, FitsDuring,
          UntoldDuring, Fits, Untold, ToWrite
<1>8. CASE Turn(t)
  <2>1. /\ req[t].op = "update" /\ req[t].pc = "knob" /\ req[t].new.uri = req[t].seen.uri
        /\ req[t].new.cups = (IF req[t].seen.cups = "error" THEN "ok" ELSE req[t].seen.cups)
        /\ UNCHANGED <<shared, device, client>>
    BY <1>8 DEF Turn, At, TypeInv, Shape
  <2>2. CASE Failed(t)
    BY <1>2, <1>3, <2>1, <2>2 DEF Failed, During, DeviceDuring, ClientDuring, FitsDuring,
       UntoldDuring, Fits, Untold, ToWrite
  <2>3. CASE Go(t, "flush", req[t].new.cups)
             /\ (req[t].seen.cups = "error" => "cleared" \in blame'[q])
    <3>1. req[t].seen.cups = "error" => /\ Mishaps(q, {"cleared", "refused"})'
                                        /\ Mishaps(q, {"unwarned", "cleared"})'
      BY <2>3 DEF Mishaps
    <3>2. CASE req[t].seen.cups = "error"
      BY <1>2, <1>3, <2>1, <2>3, <3>1, <3>2 DEF During, DeviceDuring, ClientDuring
    <3>3. CASE req[t].seen.cups # "error"
      <4>1. req[t].new.cups = req[t].seen.cups /\ req[t].new.uri = req[t].seen.uri
        BY <2>1, <3>3
      <4> QED BY <1>2, <1>3, <2>1, <2>3, <4>1 DEF During, DeviceDuring, ClientDuring,
              FitsDuring, UntoldDuring, ToWrite, Fits, Untold
    <3> QED BY <3>2, <3>3
  <2> QED BY <1>q, <1>0, <1>8, <2>2, <2>3 DEF Turn, ClearedNote
<1> QED BY <1>4, <1>5, <1>6, <1>7, <1>8

\* A request that goes on without touching what it will write.
LEMMA MoveLocal ==
    ASSUME TypeInv, LocalInv, NEW t \in Requests, NEW q \in Queues, NEW pc,
           q = req[t].queue, req[t].pc # "idle", pc # "idle",
           req' = [req EXCEPT ![t].pc = pc],
           row' = row, blame[q] \subseteq blame'[q],
           \A p \in Queues \ {q} : SameAt(p),
           \A n : n.pc = pc /\ n.op = req[t].op /\ n.new = req[t].new
                  => (During(q, req[t]) => During(q, n)')
    PROVE  LocalInv'
<1>0. req[t] \in Request /\ req \in [Requests -> Request]
  BY DEF TypeInv, TypeOK
<1>1. PICK n : n = [req[t] EXCEPT !.pc = pc]
  OBVIOUS
<1>2. /\ n.pc = pc /\ n.op = req[t].op /\ n.queue = q /\ n.seen = req[t].seen
      /\ n.new = req[t].new
  BY <1>0, <1>1 DEF Request
<1>3. req' = [req EXCEPT ![t] = n]
  <2>1. req' = [req EXCEPT ![t] = [req[t] EXCEPT !.pc = pc]]
    BY <1>0
  <2> QED BY <1>1, <2>1
<1> QED BY <1>2, <1>3, GoLocal

LEMMA DeleteElsewhere ==
    ASSUME TypeInv, NEW t \in Requests,
           NothingToRemove(t) \/ RemoveClient(t) \/ RemoveRefused(t) \/ RemoveDevice(t) \/ Flush(t)
    PROVE  \A p \in Queues \ {req[t].queue} : SameAt(p)
<1> DEFINE others == Queues \ {req[t].queue}
<1>0. /\ client \in [Queues -> BOOLEAN] /\ device \in [Queues -> Uris \cup {Gone}]
      /\ blame \in [Queues -> SUBSET Blame] /\ req[t].queue \in Queues /\ row' = row
  BY DEF TypeInv, TypeOK, Request, NothingToRemove, RemoveClient, RemoveRefused, RemoveDevice, Flush
<1>1. \A p \in others : client'[p] = client[p] /\ device'[p] = device[p]
  BY <1>0 DEF NothingToRemove, RemoveClient, RemoveRefused, RemoveDevice, Flush
<1>2. \A p \in others : (p \in shared)' <=> p \in shared
  BY <1>0 DEF NothingToRemove, RemoveClient, RemoveRefused, RemoveDevice, Flush
<1>3. \A p \in others : blame'[p] = blame[p]
  BY <1>0 DEF NothingToRemove, RemoveClient, RemoveRefused, RemoveDevice, Flush
<1> QED BY <1>0, <1>1, <1>2, <1>3 DEF SameAt

\* The commands of delete_queue.
LEMMA DeleteLocal ==
    ASSUME TypeInv, LocalInv, NEW t \in Requests,
           NothingToRemove(t) \/ RemoveClient(t) \/ RemoveRefused(t) \/ RemoveDevice(t) \/ Flush(t)
    PROVE  LocalInv'
<1>q. PICK q \in Queues : q = req[t].queue
  BY DEF TypeInv, TypeOK, Request
<1>0. /\ req[t].pc # "idle" /\ row' = row /\ row[q] \in Row
      /\ client \in [Queues -> BOOLEAN] /\ device \in [Queues -> Uris \cup {Gone}]
      /\ blame \in [Queues -> SUBSET Blame]
  BY <1>q DEF TypeInv, TypeOK, NothingToRemove, RemoveClient, RemoveRefused, RemoveDevice, Flush, At
<1>1. \A p \in Queues \ {q} : SameAt(p)
  BY <1>q, DeleteElsewhere
<1>2. /\ blame[q] \subseteq blame'[q]
      /\ \A S : Mishaps(q, S) => Mishaps(q, S)'
  BY <1>q, <1>0 DEF Mishaps, NothingToRemove, RemoveClient, RemoveRefused, RemoveDevice, Flush
<1>3. ASSUME NEW pc, pc # "idle", req' = [req EXCEPT ![t].pc = pc],
             \A n : n.pc = pc /\ n.op = req[t].op /\ n.new = req[t].new
                    => (During(q, req[t]) => During(q, n)')
      PROVE  LocalInv'
  BY <1>q, <1>0, <1>1, <1>2, <1>3, MoveLocal
<1>4. CASE NothingToRemove(t)
  <2>1. /\ req[t].op = "delete" /\ ~client'[q] /\ req' = [req EXCEPT ![t].pc = "flush"]
        /\ UNCHANGED device /\ "half" \in blame'[q]
    BY <1>q, <1>0, <1>4 DEF NothingToRemove, At, TypeInv, Shape
  <2>2. Mishaps(q, {"kept", "half"})'
    BY <2>1 DEF Mishaps
  <2> QED BY <1>2, <1>3, <2>1, <2>2 DEF During, DeviceDuring, ClientDuring, FitsDuring,
          UntoldDuring, ToWrite
<1>5. CASE RemoveClient(t)
  <2>1. /\ req[t].op = "delete" /\ req[t].pc = "remove" /\ ~client'[q] /\ UNCHANGED <<device, shared>>
        /\ req[t].seen.there
    BY <1>q, <1>0, <1>5 DEF RemoveClient, At, TypeInv, Shape
  <2>2. CASE req' = [req EXCEPT ![t].pc = "removeDevice"]
    BY <1>2, <1>3, <2>1, <2>2 DEF During, DeviceDuring, ClientDuring, FitsDuring,
       UntoldDuring, ToWrite
  <2>3. CASE req' = [req EXCEPT ![t] = Idle] /\ "refused" \in blame'[q]
    <3>1. Mishaps(q, {"cleared", "refused"})'
      BY <2>3 DEF Mishaps
    <3>2. During(q, req[t]) /\ req[t].seen = row[q] => Rest(q)'
      BY <1>0, <1>2, <2>1, <3>1 DEF During, UntoldDuring, Rest, Untold
    <3> QED BY <1>q, <1>0, <1>1, <1>2, <2>3, <3>2, EndLocal
  <2> QED BY <1>q, <1>0, <1>5, <2>2, <2>3 DEF RemoveClient
<1>6. CASE RemoveRefused(t)
  <2>1. /\ req[t].pc = "remove" /\ UNCHANGED <<client, device, shared>>
        /\ req[t].seen.there /\ req' = [req EXCEPT ![t] = Idle]
    BY <1>6 DEF RemoveRefused, At, TypeInv, Shape
  <2>2. During(q, req[t]) /\ req[t].seen = row[q] => Rest(q)'
    BY <1>0, <1>2, <2>1 DEF During, FitsDuring, UntoldDuring, Rest, Untold, Fits
  <2> QED BY <1>q, <1>0, <1>1, <1>2, <2>1, <2>2, EndLocal
<1>7. CASE RemoveDevice(t)
  <2>1. /\ req[t].op = "delete" /\ req[t].pc = "removeDevice"
        /\ req' = [req EXCEPT ![t].pc = "flush"] /\ UNCHANGED client
    BY <1>7 DEF RemoveDevice, At, TypeInv, Shape
  <2>2. device'[q] = Gone \/ "kept" \in blame'[q]
    BY <1>q, <1>0, <1>7 DEF RemoveDevice, AfterDevice
  <2>3. device'[q] = Gone \/ Mishaps(q, {"kept", "half"})'
    BY <2>2 DEF Mishaps
  <2> QED BY <1>2, <1>3, <2>1, <2>3 DEF During, DeviceDuring, ClientDuring, FitsDuring,
          UntoldDuring, ToWrite
<1>8. CASE Flush(t)
  <2>1. /\ req[t].pc = "flush" /\ req' = [req EXCEPT ![t].pc = "commit"]
        /\ UNCHANGED <<client, device, shared>>
    BY <1>8 DEF Flush, At
  <2> QED BY <1>2, <1>3, <2>1 DEF During, DeviceDuring, ClientDuring, FitsDuring,
          UntoldDuring, ToWrite, Fits, Untold
<1> QED BY <1>4, <1>5, <1>6, <1>7, <1>8

\* Commits and deaths.
LEMMA EndsLocal ==
    ASSUME TypeInv, LocalInv, NEW t \in Requests, Commit(t) \/ Dies(t)
    PROVE  LocalInv'
<1>q. PICK q \in Queues : q = req[t].queue
  BY DEF TypeInv, TypeOK, Request
<1>0. /\ req[t].pc # "idle" /\ req' = [req EXCEPT ![t] = Idle]
      /\ UNCHANGED <<client, device, shared>>
      /\ row \in [Queues -> Row] /\ blame \in [Queues -> SUBSET Blame]
  BY DEF TypeInv, TypeOK, Commit, Dies, At
<1>1. \A p \in Queues \ {q} : SameAt(p)
  BY <1>q, <1>0 DEF SameAt, Commit, Dies
<1>2. blame[q] \subseteq blame'[q] /\ \A S : Mishaps(q, S) => Mishaps(q, S)'
  BY <1>q, <1>0 DEF Mishaps, Commit, Dies
<1>3. CASE Dies(t)
  <2>1. "lost" \in blame'[q]
    BY <1>q, <1>0, <1>3 DEF Dies
  <2>2. Mishaps(q, {"overlap", "lost"})'
    BY <2>1 DEF Mishaps
  <2> QED BY <1>q, <1>0, <1>1, <1>2, <2>2, EndLocal
<1>4. CASE Commit(t)
  <2> SUFFICES ASSUME During(q, req[t]), req[t].seen = row[q] PROVE Rest(q)'
    BY <1>q, <1>0, <1>1, <1>2, EndLocal
  <2>1. req[t].pc = "commit" /\ req[t].new \in Row /\ row[q] \in Row /\ row'[q] = Written(t)
        /\ req[t].op \in {"create", "update", "delete", "adopt"}
        /\ (req[t].new.there <=> req[t].op # "delete")
    BY <1>q, <1>0, <1>4 DEF Commit, At, TypeInv, TypeOK, Request, Shape
  <2>2. row'[q].there = req[t].new.there /\ row'[q].uri = req[t].new.uri
        /\ row'[q].cups = req[t].new.cups
    <3>1. CASE req[t].op # "update"
      BY <2>1, <3>1 DEF Written
    <3>2. CASE req[t].op = "update"
      <4>1. row'[q] = [there |-> TRUE,
                       uri   |-> IF req[t].new.uri # row[q].uri THEN req[t].new.uri ELSE row[q].uri,
                       cups  |-> IF req[t].new.cups # row[q].cups THEN req[t].new.cups
                                                                 ELSE row[q].cups]
        BY <1>q, <2>1, <3>2 DEF Written
      <4>2. row'[q].there = TRUE /\ req[t].new.there = TRUE
        BY <2>1, <3>2, <4>1 DEF Row
      <4>3. row'[q].uri = req[t].new.uri /\ row'[q].cups = req[t].new.cups
        BY <4>1
      <4> QED BY <4>2, <4>3
    <3> QED BY <3>1, <3>2
  <2>3. CASE req[t].op # "delete"
    BY <1>0, <1>2, <2>1, <2>2, <2>3 DEF During, FitsDuring, UntoldDuring, ToWrite, Rest, Fits, Untold
  <2>4. CASE req[t].op = "delete"
    BY <1>0, <1>2, <2>1, <2>2, <2>4 DEF During, DeviceDuring, ClientDuring, Rest, Fits, Untold
  <2> QED BY <2>3, <2>4
<1> QED BY <1>3, <1>4

LEMMA LocalInit == Init => LocalInv
<1> SUFFICES ASSUME Init, NEW q \in Queues PROVE Rest(q) /\ \A t \in Requests : ~On(t, q)
  BY DEF LocalInv, Local
<1>1. row[q] \in {NoRow, [there |-> TRUE, uri |-> Gone, cups |-> "external"]}
  BY DEF Init
<1>2. row[q].cups = "external" /\ device[q] = Gone /\ shared = {}
  BY <1>1 DEF Init, NoRow
<1> QED BY <1>2, IdleTyped DEF Init, Rest, Fits, Untold, On

LEMMA LocalStep == TypeInv /\ LocalInv /\ [Next]_vars => LocalInv'
<1> SUFFICES ASSUME TypeInv, LocalInv, [Next]_vars PROVE LocalInv'
  OBVIOUS
<1>0. row \in [Queues -> Row]
  BY DEF TypeInv, TypeOK
<1>1. ASSUME UNCHANGED <<row, client, device, shared, req, blame>> PROVE LocalInv'
  <2>1. ASSUME NEW q \in Queues
        PROVE  SameAt(q) /\ \A u \in Requests : /\ On(u, q)' <=> On(u, q)
                                                /\ On(u, q) => req'[u] = req[u]
    BY <1>1 DEF SameAt, On
  <2> QED BY <2>1, Elsewhere DEF LocalInv
<1>2. ASSUME NEW t \in Requests, NEW q \in Queues, NEW uri \in Uris,
             Create(t, q, uri) \/ UpdateDevice(t, q, uri)
      PROVE  LocalInv'
  <2>1. ASSUME NEW op \in {"create", "update"}, NEW new, Begin(t, op, q, "device", new, {}, {})
        PROVE  LocalInv'
    BY <2>1, BeginLocal
  <2> QED BY <1>2, <2>1 DEF Create, UpdateDevice
<1>3. ASSUME NEW t \in Requests, NEW q \in Queues, UpdateKnob(t, q) PROVE LocalInv'
  <2>1. ASSUME NEW new, Begin(t, "update", q, "knob", new, {}, {}) PROVE LocalInv'
    BY <2>1, BeginLocal
  <2> QED BY <1>3, <2>1 DEF UpdateKnob
<1>4. ASSUME NEW t \in Requests, NEW q \in Queues, UpdatePolicy(t, q) PROVE LocalInv'
  <2>1. PICK new, note : new = Cleared(row[q]) /\ note = ClearedNote(row[q])
    OBVIOUS
  <2>2. /\ row[q].cups = "error" => "cleared" \in note
        /\ row[q].cups # "error" => new.cups = row[q].cups /\ new.uri = row[q].uri
    BY <1>0, <2>1, ClearedRow DEF ClearedNote
  <2>3. Rest(q) => /\ Fits(q, new) \/ Mishaps(q, {"cleared", "refused"}) \/ "cleared" \in note
                   /\ Untold(q, new) \/ Mishaps(q, {"unwarned", "cleared"}) \/ "cleared" \in note
    BY <2>2 DEF Rest, Fits, Untold
  <2>4. Begin(t, "update", q, "flush", new, {}, note)
    BY <1>4, <2>1 DEF UpdatePolicy
  <2> QED BY <2>3, <2>4, BeginLocal
<1>5. ASSUME NEW t \in Requests, NEW q \in Queues, Delete(t, q) PROVE LocalInv'
  <2>1. NoRow.cups # "ok"
    BY DEF NoRow
  <2>2. ASSUME NEW held, Begin(t, "delete", q, "remove", NoRow, held, {}) PROVE LocalInv'
    BY <2>1, <2>2, BeginLocal
  <2> QED BY <1>5, <2>2 DEF Delete
<1>6. ASSUME NEW t \in Requests, NEW q \in Queues, Adopt(t, q) PROVE LocalInv'
  <2>1. PICK new : new = [there |-> TRUE, uri |-> ClientUri, cups |-> "ok"]
    OBVIOUS
  <2>2. /\ client[q] /\ ~row[q].there /\ new.uri = ClientUri
        /\ Begin(t, "adopt", q, "flush", new, {}, {})
    BY <1>6, <2>1 DEF Adopt
  <2>3. Rest(q) => Fits(q, new) /\ (Untold(q, new) \/ Mishaps(q, {"unwarned", "cleared"}))
    BY <2>2 DEF Rest, Fits, Untold
  <2> QED BY <2>2, <2>3, BeginLocal
<1>7. ASSUME \/ ReportExpires \/ UNCHANGED vars
             \/ \E v \in Viewers : \/ ReconcileReads(v) \/ ReconcileLists(v)
                                  \/ ReconcileFails(v) \/ ReconcileStores(v)
      PROVE  LocalInv'
  BY <1>1, <1>7 DEF ReportExpires, ReconcileReads, ReconcileLists, ReconcileFails,
     ReconcileStores, vars
<1>8. ASSUME NEW j \in Jobs,
             \/ \E q \in Queues : Arrive(j, q)
             \/ \E state \in {"held", "settled"} : Verdict(j, state)
             \/ Decide(j)
      PROVE  LocalInv'
  BY <1>1, <1>8 DEF Arrive, Verdict, Decide
<1> QED BY <1>2, <1>3, <1>4, <1>5, <1>6, <1>7, <1>8, CreateLocal, DeleteLocal, EndsLocal DEF Next

LEMMA LocalAlways == Spec => [](TypeInv /\ LocalInv)
<1> QED BY InitTyped, TypeStep, LocalInit, LocalStep, PTL DEF Spec

LEMMA AtRest == ASSUME TypeInv, LocalInv, NEW q \in Queues, ~Busy(q)
                PROVE  Rest(q) \/ Mishaps(q, {"overlap", "lost"})
BY DEF LocalInv, Local, Busy, On

LEMMA MoreMishaps == \A q, S, T : S \subseteq T /\ Mishaps(q, S) => Mishaps(q, T)
BY DEF Mishaps

\* OkMeansInspected holds in every state: the console's "ok" is true of CUPS.
THEOREM OkIsInspected == Spec => []OkMeansInspected
<1>1. TypeInv /\ LocalInv => OkMeansInspected
  <2> SUFFICES ASSUME TypeInv, LocalInv, NEW q \in Queues, row[q].cups = "ok", ~Busy(q)
               PROVE  \/ client[q] /\ row[q].uri \in {device[q], ClientUri}
                      \/ Mishaps(q, {"cleared", "refused", "overlap", "lost"})
    BY DEF OkMeansInspected
  <2> QED BY AtRest, MoreMishaps DEF Rest, Fits
<1> QED BY <1>1, LocalAlways, PTL

\* OkMeansUnshared holds in every state: nobody is told of the way past the inspection.
THEOREM OkIsUnshared == Spec => []OkMeansUnshared
<1>1. TypeInv /\ LocalInv => OkMeansUnshared
  <2> SUFFICES ASSUME TypeInv, LocalInv, NEW q \in Queues, row[q].cups = "ok", ~Busy(q), q \in shared
               PROVE  Mishaps(q, {"unwarned", "cleared", "overlap", "lost"})
    BY DEF OkMeansUnshared
  <2> QED BY AtRest, MoreMishaps DEF Rest, Untold
<1> QED BY <1>1, LocalAlways, PTL

\* NoStrandedDevice holds in every state: a deleted printer cannot be printed to.
THEOREM DevicesNotStranded == Spec => []NoStrandedDevice
<1>1. TypeInv /\ LocalInv => NoStrandedDevice
  <2> SUFFICES ASSUME TypeInv, LocalInv, NEW q \in Queues, ~row[q].there, ~Busy(q), device[q] # Gone
               PROVE  Mishaps(q, {"kept", "half", "overlap", "lost"})
    BY DEF NoStrandedDevice
  <2> QED BY AtRest, MoreMishaps DEF Rest
<1> QED BY <1>1, LocalAlways, PTL

-----------------------------------------------------------------------------
(* The report *)

\* Request t is still to drop what says otherwise of q, or has left a mishap instead.
Drops == {"finish", "removeDevice", "flush"}

Excused(q) ==
    \/ Mishaps(q, {"refused", "lost"})
    \/ \E t \in Requests : req[t].queue = q /\ req[t].pc \in Drops

NoneCommitting == \A t \in Requests : req[t].pc # "commit"

\* What the cached report says of q is so.
Told(q) ==
    \/ /\ q \in report.missing <=> row[q].there /\ ~client[q]
       /\ q \in report.stray   <=> client[q] /\ ~row[q].there
    \/ Excused(q)

\* What the report that page v is making has gathered of q is so.
Gathered(v, q) ==
    /\ q \in view[v].rows <=> row[q].there
    /\ view[v].pc = "listed" => (q \in view[v].live <=> client[q]) \/ Excused(q)

CachedInv == report.kind = "full" /\ ~report.raced => NoneCommitting /\ \A q \in Queues : Told(q)
ViewInv(v) ==
    view[v].pc # "idle" /\ ~view[v].raced => NoneCommitting /\ \A q \in Queues : Gathered(v, q)

ReportInv == CachedInv /\ \A v \in Viewers : ViewInv(v)

\* A request keeps reports true if it does not change what they tell, is still to drop them,
\* or leaves a mishap.
LEMMA ReportKept ==
    ASSUME TypeInv, ReportInv, UNCHANGED <<row, console>>, NEW t \in Requests, NEW q \in Queues,
           NEW n, req' = [req EXCEPT ![t] = n], n.pc # "commit",
           req[t].pc = "idle" \/ req[t].queue = q,
           n.pc = "idle" \/ n.queue = q,
           \A p \in Queues \ {q} : SameAt(p),
           \/ n.pc \in Drops
           \/ Mishaps(q, {"refused", "lost"})'
           \/ req[t].pc \notin Drops /\ client'[q] = client[q] /\ blame[q] \subseteq blame'[q]
    PROVE  ReportInv'
<1>0. req'[t] = n /\ \A u \in Requests \ {t} : req'[u] = req[u]
  BY DEF TypeInv, TypeOK
<1>1. NoneCommitting => NoneCommitting'
  BY <1>0 DEF NoneCommitting
<1>2. ASSUME NEW p \in Queues
      PROVE  Excused(p)' \/ (client'[p] = client[p] /\ (Excused(p) => Excused(p)'))
  <2>1. CASE p # q
    <3>1. client'[p] = client[p]
          /\ (Mishaps(p, {"refused", "lost"}) => Mishaps(p, {"refused", "lost"})')
      BY <2>1 DEF SameAt, Mishaps
    <3>2. ASSUME NEW u \in Requests, req[u].queue = p, req[u].pc \in Drops
          PROVE  req'[u] = req[u]
      BY <1>0, <2>1, <3>2 DEF Drops
    <3> QED BY <3>1, <3>2 DEF Excused
  <2>2. CASE p = q /\ n.pc \in Drops
    BY <1>0, <2>2 DEF Excused, Drops
  <2>3. CASE p = q /\ Mishaps(q, {"refused", "lost"})'
    BY <2>3 DEF Excused
  <2>4. CASE p = q /\ req[t].pc \notin Drops /\ client'[q] = client[q] /\ blame[q] \subseteq blame'[q]
    BY <1>0, <2>4, Remembered DEF Excused
  <2> QED BY <2>1, <2>2, <2>3, <2>4
<1>3. CachedInv'
  BY <1>1, <1>2 DEF ReportInv, CachedInv, Told
<1>4. ASSUME NEW v \in Viewers PROVE ViewInv(v)'
  BY <1>1, <1>2 DEF ReportInv, ViewInv, Gathered
<1> QED BY <1>3, <1>4 DEF ReportInv

\* A report is true when it is stored: its rows and its queues were, and still are.
LEMMA MadeTrue ==
    ASSUME TypeInv, ReportInv, NEW v \in Viewers,
           ReconcileReads(v) \/ ReconcileLists(v) \/ ReconcileFails(v) \/ ReconcileStores(v)
    PROVE  ReportInv'
<1>0. view \in [Viewers -> View] /\ view[v] \in View
  BY DEF TypeInv, TypeOK
<1>1. UNCHANGED <<row, client, req, blame>>
  BY DEF ReconcileReads, ReconcileLists, ReconcileFails, ReconcileStores
<1>2. /\ NoneCommitting' <=> NoneCommitting
      /\ \A q \in Queues : Excused(q)' <=> Excused(q)
  BY <1>1 DEF NoneCommitting, Excused, Mishaps
<1>3. ASSUME NEW u \in Viewers, view'[u] = view[u] PROVE ViewInv(u)'
  BY <1>1, <1>2, <1>3 DEF ReportInv, ViewInv, Gathered
<1>4. ASSUME report' = report PROVE CachedInv'
  BY <1>1, <1>2, <1>4 DEF ReportInv, CachedInv, Told
<1>5. \A u \in Viewers \ {v} : view'[u] = view[u]
  BY <1>0 DEF ReconcileReads, ReconcileLists, ReconcileFails, ReconcileStores
<1>6. SUFFICES CachedInv' /\ ViewInv(v)'
  BY <1>3, <1>5 DEF ReportInv
<1>7. CASE ReconcileReads(v)
  <2>1. /\ view'[v].pc = "read" /\ view'[v].rows = Rows
        /\ view'[v].raced = (\E t \in Requests : At(t, "commit")) /\ report' = report
    BY <1>0, <1>7 DEF ReconcileReads
  <2>2. ~view'[v].raced => NoneCommitting
    BY <2>1 DEF NoneCommitting, At
  <2>3. \A q \in Queues : Gathered(v, q)'
    BY <1>1, <2>1 DEF Gathered, Rows
  <2> QED BY <1>2, <1>4, <2>1, <2>2, <2>3 DEF ViewInv
<1>8. CASE ReconcileLists(v)
  <2>1. /\ view[v].pc = "read" /\ view'[v].pc = "listed" /\ view'[v].rows = view[v].rows
        /\ view'[v].live = Live /\ view'[v].raced = view[v].raced /\ report' = report
    BY <1>0, <1>8 DEF ReconcileLists, View
  <2>2. ASSUME NEW q \in Queues, Gathered(v, q) PROVE Gathered(v, q)'
    BY <1>1, <2>1, <2>2 DEF Gathered, Live
  <2> QED BY <1>2, <1>4, <2>1, <2>2 DEF ReportInv, ViewInv
<1>9. CASE ReconcileFails(v)
  <2>1. view'[v].pc = "idle" /\ (report' = report \/ report'.kind = "blind")
    BY <1>0, <1>9 DEF ReconcileFails, NoView, Blind, NoReport
  <2> QED BY <1>4, <2>1 DEF ViewInv, CachedInv
<1>10. CASE ReconcileStores(v)
  <2>1. /\ view[v].pc = "listed" /\ view'[v].pc = "idle" /\ report'.raced = view[v].raced
        /\ report'.missing = view[v].rows \ view[v].live
        /\ report'.stray = view[v].live \ view[v].rows
    BY <1>0, <1>10 DEF ReconcileStores, NoView
  <2>2. ASSUME NEW q \in Queues, Gathered(v, q) PROVE Told(q)'
    BY <1>1, <1>2, <2>1, <2>2 DEF Gathered, Told
  <2> QED BY <1>2, <2>1, <2>2 DEF ReportInv, ViewInv, CachedInv
<1> QED BY <1>7, <1>8, <1>9, <1>10

LEMMA ReportStep == TypeInv /\ ReportInv /\ [Next]_vars => ReportInv'
<1> SUFFICES ASSUME TypeInv, ReportInv, [Next]_vars PROVE ReportInv'
  OBVIOUS
<1>0. /\ req \in [Requests -> Request] /\ blame \in [Queues -> SUBSET Blame]
      /\ row \in [Queues -> Row] /\ client \in [Queues -> BOOLEAN]
      /\ view \in [Viewers -> View]
  BY DEF TypeInv, TypeOK
<1>1. ASSUME UNCHANGED <<row, client, req, view, blame>>, report' = report \/ report' = NoReport
      PROVE  ReportInv'
  <2>1. NoReport.kind # "full"
    BY DEF NoReport
  <2>2. CachedInv'
    BY <1>1, <2>1 DEF ReportInv, CachedInv, NoneCommitting, Told, Excused, Mishaps
  <2>3. \A v \in Viewers : ViewInv(v)'
    BY <1>1 DEF ReportInv, ViewInv, NoneCommitting, Gathered, Excused, Mishaps
  <2> QED BY <2>2, <2>3 DEF ReportInv
<1>2. ASSUME NEW t \in Requests, Flush(t) PROVE ReportInv'
  <2>1. report'.kind # "full"
    BY <1>2 DEF Flush, Dropped, NoReport
  <2>2. ASSUME NEW v \in Viewers PROVE view'[v].pc # "idle" => view'[v].raced
    <3>1. view'[v].pc = view[v].pc /\ view'[v].raced = (view[v].pc # "idle")
      BY <1>0, <1>2 DEF Flush, View
    <3> QED BY <3>1
  <2> QED BY <2>1, <2>2 DEF ReportInv, CachedInv, ViewInv
<1>3. CASE ReportExpires
  BY <1>1, <1>3 DEF ReportExpires
<1>4. ASSUME NEW t \in Requests, NEW q \in Queues, NEW op, NEW pc, NEW new, NEW held, NEW note,
             Begin(t, op, q, pc, new, held, note), pc # "commit"
      PROVE  ReportInv'
  <2>1. PICK n : n = [pc |-> pc, op |-> op, queue |-> q, seen |-> row[q], new |-> new, held |-> held]
    OBVIOUS
  <2>2. n.pc = pc /\ n.queue = q
    BY <2>1
  <2>3. /\ req' = [req EXCEPT ![t] = n] /\ req[t].pc = "idle"
        /\ UNCHANGED <<row, client, device, shared, console>> /\ blame[q] \subseteq blame'[q]
        /\ \A p \in Queues \ {q} : blame'[p] = blame[p]
    BY <1>0, <1>4, <2>1 DEF Begin
  <2>4. \A p \in Queues \ {q} : SameAt(p)
    BY <2>3 DEF SameAt
  <2> QED BY <1>4, <2>2, <2>3, <2>4, ReportKept DEF Drops
<1>5. ASSUME NEW t \in Requests, NEW q \in Queues,
             \/ \E uri \in Uris : Create(t, q, uri) \/ UpdateDevice(t, q, uri)
             \/ UpdateKnob(t, q) \/ UpdatePolicy(t, q) \/ Delete(t, q) \/ Adopt(t, q)
      PROVE  ReportInv'
  BY <1>4, <1>5 DEF Create, UpdateDevice, UpdateKnob, UpdatePolicy, Delete, Adopt
<1>6. ASSUME NEW t \in Requests,
             \/ MakeDevice(t) \/ Unshare(t) \/ MakeClient(t) \/ Finish(t) \/ Turn(t)
             \/ NothingToRemove(t) \/ RemoveClient(t) \/ RemoveRefused(t) \/ RemoveDevice(t)
             \/ Dies(t)
      PROVE  ReportInv'
  <2>q. PICK q \in Queues : q = req[t].queue
    BY <1>0 DEF Request
  <2>0. req[t] \in Request /\ UNCHANGED <<row, console>>
    BY <1>0, <1>6 DEF MakeDevice, Unshare, MakeClient, Finish, Turn, NothingToRemove,
       RemoveClient, RemoveRefused, RemoveDevice, Dies
  <2>1. \A p \in Queues \ {q} : SameAt(p)
    <3>1. CASE \/ MakeDevice(t) \/ Unshare(t) \/ MakeClient(t) \/ Finish(t) \/ Turn(t)
      BY <2>q, <3>1, CreateElsewhere
    <3>2. CASE \/ NothingToRemove(t) \/ RemoveClient(t) \/ RemoveRefused(t) \/ RemoveDevice(t)
      BY <2>q, <3>2, DeleteElsewhere
    <3>3. CASE Dies(t)
      BY <1>0, <2>q, <3>3 DEF SameAt, Dies
    <3> QED BY <1>6, <3>1, <3>2, <3>3
  <2>2. ASSUME NEW n, req' = [req EXCEPT ![t] = n], n.pc # "commit", n.pc = "idle" \/ n.queue = q,
               \/ n.pc \in Drops
               \/ Mishaps(q, {"refused", "lost"})'
               \/ req[t].pc \notin Drops /\ client'[q] = client[q] /\ blame[q] \subseteq blame'[q]
        PROVE  ReportInv'
    BY <2>q, <2>0, <2>1, <2>2, ReportKept
  <2>3. ASSUME NEW pc, NEW cups, Go(t, pc, cups), pc # "commit",
               \/ pc \in Drops
               \/ req[t].pc \notin Drops /\ client'[q] = client[q] /\ blame[q] \subseteq blame'[q]
        PROVE  ReportInv'
    <3>1. PICK n : n = [req[t] EXCEPT !.pc = pc, !.new.cups = cups]
      OBVIOUS
    <3>2. n.pc = pc /\ n.queue = q
      BY <2>q, <2>0, <3>1 DEF Request, Row
    <3>3. req' = [req EXCEPT ![t] = [req[t] EXCEPT !.pc = pc, !.new.cups = cups]]
      BY <1>0, <2>3 DEF Go
    <3> QED BY <2>2, <2>3, <3>1, <3>2, <3>3
  <2>4. ASSUME NEW pc, req' = [req EXCEPT ![t].pc = pc], pc \in Drops PROVE ReportInv'
    <3>1. PICK n : n = [req[t] EXCEPT !.pc = pc]
      OBVIOUS
    <3>2. n.pc = pc /\ n.queue = q
      BY <2>q, <2>0, <3>1 DEF Request
    <3>3. req' = [req EXCEPT ![t] = [req[t] EXCEPT !.pc = pc]]
      BY <1>0, <2>4
    <3> QED BY <2>2, <2>4, <3>1, <3>2, <3>3 DEF Drops
  <2>5. ASSUME req' = [req EXCEPT ![t] = Idle],
               \/ "refused" \in blame'[q] \/ "lost" \in blame'[q]
               \/ req[t].pc \notin Drops /\ client'[q] = client[q] /\ blame[q] \subseteq blame'[q]
        PROVE  ReportInv'
    BY <2>2, <2>5, IdleTyped DEF Mishaps
  <2>6. CASE MakeDevice(t)
    BY <2>3, <2>6 DEF MakeDevice, At, Failed, Drops
  <2>7. CASE Unshare(t)
    <3>1. blame[q] \subseteq blame'[q]
      BY <1>0, <2>q, <2>7 DEF Unshare
    <3> QED BY <2>3, <2>7, <3>1 DEF Unshare, At, Drops
  <2>8. CASE MakeClient(t) \/ Finish(t) \/ Turn(t)
    BY <2>3, <2>8 DEF MakeClient, Finish, Turn, Failed, Drops
  <2>9. CASE NothingToRemove(t) \/ RemoveDevice(t)
    BY <2>4, <2>9 DEF NothingToRemove, RemoveDevice, Drops
  <2>10. CASE RemoveClient(t)
    <3>1. CASE req' = [req EXCEPT ![t].pc = "removeDevice"]
      BY <2>4, <3>1 DEF Drops
    <3>2. CASE req' = [req EXCEPT ![t] = Idle] /\ blame' = [blame EXCEPT ![q] = @ \cup {"refused"}]
      BY <1>0, <2>5, <3>2
    <3> QED BY <2>q, <2>10, <3>1, <3>2 DEF RemoveClient
  <2>11. CASE RemoveRefused(t)
    BY <2>5, <2>11 DEF RemoveRefused, At, Drops
  <2>12. CASE Dies(t)
    <3>1. "lost" \in blame'[q]
      BY <1>0, <2>q, <2>12 DEF Dies
    <3> QED BY <2>5, <2>12, <3>1 DEF Dies
  <2> QED BY <1>6, <2>6, <2>7, <2>8, <2>9, <2>10, <2>11, <2>12
<1>7. ASSUME NEW t \in Requests, Commit(t) PROVE ReportInv'
  <2>1. req[t].pc = "commit" /\ UNCHANGED console
    BY <1>7 DEF Commit, At
  <2> QED BY <2>1 DEF ReportInv, CachedInv, ViewInv, NoneCommitting
<1>8. ASSUME NEW j \in Jobs,
             \/ \E q \in Queues : Arrive(j, q)
             \/ \E state \in {"held", "settled"} : Verdict(j, state)
             \/ Decide(j)
      PROVE  ReportInv'
  BY <1>1, <1>8 DEF Arrive, Verdict, Decide
<1>9. CASE UNCHANGED vars
  BY <1>1, <1>9 DEF vars
<1> QED BY <1>2, <1>3, <1>5, <1>6, <1>7, <1>8, <1>9, MadeTrue DEF Next

\* ReportIsTrue holds in every state: while nobody is changing a printer, a report that no
\* request raced says what is so of it, whatever was edited between the report's steps.
THEOREM ReportsAreTrue == Spec => []ReportIsTrue
<1>1. Init => ReportInv
  BY DEF Init, NoReport, NoView, ReportInv, CachedInv, ViewInv
<1>2. TypeInv /\ ReportInv => ReportIsTrue
  <2> SUFFICES ASSUME TypeInv, ReportInv, report.kind = "full", ~report.raced,
                      NEW q \in Queues, ~Busy(q)
               PROVE  \/ (q \in report.missing) = (q \in Rows \ Live)
                         /\ (q \in report.stray) = (q \in Live \ Rows)
                      \/ Mishaps(q, {"refused", "lost"})
    BY DEF ReportIsTrue
  <2>1. \A t \in Requests : req[t].queue = q => req[t].pc = "idle"
    BY DEF Busy
  <2>2. Told(q)
    BY DEF ReportInv, CachedInv
  <2> QED BY <2>1, <2>2 DEF Told, Excused, Drops, Rows, Live
<1> QED BY <1>1, <1>2, InitTyped, TypeStep, ReportStep, PTL DEF Spec

=============================================================================
