---------------------------- MODULE RegistryProofs ----------------------------
(***************************************************************************)
(* What the two processes make of the rule and validator tables, for any   *)
(* number of rules, validators and edits.  The copies of the rules rest on *)
(* the stamps: who has which, and what a cache remembers of the table it   *)
(* was filled from.  The validators rest on the table as the API's only    *)
(* edit leaves it.                                                         *)
(***************************************************************************)
EXTENDS Registry, FiniteSetTheorems, WellFoundedInduction, TLAPS

USE ItemsAssumption, ShippedAssumption, NoneAssumption, ClockAssumption

-----------------------------------------------------------------------------
(* Probes *)

\* A set of bounded numbers has a greatest.
LEMMA Greatest ==
    ASSUME NEW N \in Nat, NEW S \in SUBSET (0 .. N), S # {}
    PROVE  Max(S) \in S /\ \A y \in S : Max(S) >= y
<1> DEFINE distances == {N - x : x \in S}
           below == OpToRel(<, Nat)
<1>1. IsWellFoundedOn(below, Nat)
  BY NatLessThanWellFounded
<1>2. \A a \in Nat, b \in Nat : a < b => <<a, b>> \in below
  BY DEF OpToRel
<1> HIDE DEF below
<1>3. distances \subseteq Nat /\ distances # {}
  <2>1. \A x \in S : N - x \in Nat
    OBVIOUS
  <2> QED BY <2>1
<1>4. PICK d \in distances : \A e \in distances : ~(<<e, d>> \in below)
  <2> HIDE DEF distances
  <2> QED BY <1>1, <1>3, WFMin
<1>5. PICK x \in S : d = N - x
  BY <1>4
<1>6. ASSUME NEW y \in S PROVE x >= y
  <2>1. N - y \in Nat /\ N - x \in Nat /\ N - y \in distances /\ x \in Nat /\ y \in Nat
    OBVIOUS
  <2>2. ~(N - y < N - x)
    BY <1>2, <1>4, <1>5, <2>1
  <2> QED BY <2>1, <2>2
<1> QED BY <1>6 DEF Max

LEMMA ExistingFinite ==
    ASSUME NEW table
    PROVE  /\ IsFiniteSet(Existing(table))
           /\ Cardinality(Existing(table)) \in 0 .. Cardinality(Rules)
BY FS_Subset, FS_CardinalityType DEF Existing

LEMMA NewestFacts ==
    ASSUME NEW table, \A r \in Rules : table[r].at \in 0 .. MaxClock
    PROVE  /\ Newest(table) \in 0 .. MaxClock
           /\ \A r \in Existing(table) : table[r].at <= Newest(table)
           /\ Newest(table) # 0 => \E r \in Existing(table) : table[r].at = Newest(table)
<1> DEFINE stamps == {table[r].at : r \in Existing(table)} \cup {0}
<1>1. stamps \in SUBSET (0 .. MaxClock) /\ stamps # {}
  BY DEF Existing
<1>2. \A r \in Existing(table) : table[r].at \in stamps
  OBVIOUS
<1>3. \A s \in stamps : s # 0 => \E r \in Existing(table) : table[r].at = s
  OBVIOUS
<1>4. Newest(table) = Max(stamps)
  BY DEF Newest
<1> HIDE DEF stamps
<1>5. Max(stamps) \in stamps /\ \A y \in stamps : Max(stamps) >= y
  BY <1>1, Greatest
<1> QED BY <1>1, <1>2, <1>3, <1>4, <1>5

LEMMA ProbeTyped ==
    ASSUME NEW table, \A r \in Rules : table[r].at \in 0 .. MaxClock
    PROVE  Probed(table) \in Version /\ Probed(table).latest = Newest(table)
BY ExistingFinite, NewestFacts DEF Probed, Version

-----------------------------------------------------------------------------
(* Types *)

LEMMA RowsTyped ==
    /\ Absent \in Row
    /\ \A r \in Row, on \in {"absent", "off", "on"} : [r EXCEPT !.on = on] \in Row
    /\ \A r \in Row, c \in Validators \cup {None} : [r EXCEPT !.check = c] \in Row
    /\ \A r \in Row, at \in 0 .. MaxClock : [r EXCEPT !.at = at] \in Row
    /\ \A r \in Row, b \in BOOLEAN : [r EXCEPT !.proved = b] \in Row
BY DEF Absent, Row

LEMMA RestingTyped == /\ Nothing \in Cache /\ Resting \in Reader /\ Idle \in Edit
                      /\ ~Nothing.filled /\ Resting.pc = "idle" /\ Idle.pc = "idle"
<1>1. Zero \in Version
  BY FS_CardinalityType DEF Zero, Version
<1>2. Idle.target \in Items
  BY DEF Idle
<1> QED BY <1>1, <1>2, RowsTyped DEF Nothing, Cache, Resting, Reader, Idle, Edit

LEMMA InitTyped == Init => TypeOK
<1> SUFFICES ASSUME Init PROVE TypeOK
  OBVIOUS
<1>1. row \in [Items -> Row]
  <2>1. 0 \in 0 .. MaxClock /\ TRUE \in BOOLEAN
    OBVIOUS
  <2>2. \A r \in [on : {"absent", "off", "on"}, check : Validators \cup {None}, at : {0},
                  proved : {TRUE}] : r \in Row
    BY <2>1, Zenon DEF Row
  <2>3. row \in [Items -> [on : {"absent", "off", "on"}, check : Validators \cup {None},
                          at : {0}, proved : {TRUE}]]
    BY DEF Init
  <2> QED BY <2>2, <2>3, Zenon
<1>2. edit \in [Editors -> Edit] /\ cache \in [Procs -> Cache] /\ reader \in [Procs -> Reader]
  BY RestingTyped DEF Init
<1>3. registry \in [Procs -> SUBSET Validators]
  <2>1. registry = [p \in Procs |-> Enabled(row)]
    BY DEF Init
  <2> QED BY <2>1 DEF Enabled
<1>4. clock \in 0 .. MaxClock /\ since \subseteq Validators /\ unclean \in BOOLEAN
  <2>1. clock = 0 /\ since = {} /\ unclean = FALSE
    BY DEF Init
  <2>2. since \subseteq Validators /\ unclean \in BOOLEAN
    BY <2>1, Zenon
  <2> QED BY <2>1, <2>2
<1> QED BY <1>1, <1>2, <1>3, <1>4 DEF TypeOK

LEMMA InForceTyped ==
    ASSUME row \in [Items -> Row]
    PROVE  InForce(row) \in [Rules -> Row]
BY RowsTyped DEF InForce, Items

\* What a flush writes, and where.
LEMMA FlushTyped ==
    ASSUME TypeOK, NEW e \in Editors, NEW i \in Items, NEW new \in Row, Flush(e, i, new)
    PROVE  edit' \in [Editors -> Edit] /\ clock' \in 0 .. MaxClock /\ unclean' \in BOOLEAN
<1>1. [pc |-> "flushed", target |-> i, new |-> new] \in Edit
  BY DEF Edit
<1>2. edit' \in [Editors -> Edit]
  BY <1>1 DEF TypeOK, Flush
<1>3. clock' \in 0 .. MaxClock
  BY DEF TypeOK, Flush
<1>4. unclean' \in BOOLEAN
  BY DEF TypeOK, Flush
<1> QED BY <1>2, <1>3, <1>4

\* Every edit flushes some row, stamped unless it is to be deleted.
Flushes(new) == new \in Row /\ (new = Absent \/ (new.on # "absent" /\ new.at = clock + 1))

RuleFlushed(e, r, new) ==
    /\ FlushRule(e, r, new) /\ Flushes(new)
    /\ new.on = "on" /\ new.proved => Resolves(new.check)

ValidatorFlushed(e, v, new) ==
    /\ FlushValidator(e, v, new) /\ Flushes(new)
    /\ new.on = "absent" => ~InUse(v)

Edits(e) ==
    \/ \E r \in Rules, on \in {"on", "off"} :
          \/ \E c \in Validators \cup {None} : CreateRule(e, r, on, c) \/ UpdateRule(e, r, on, c)
          \/ SetEnabled(e, r, on)
    \/ \E r \in Rules : DeleteRule(e, r)
    \/ \E v \in Validators : CreateValidator(e, v) \/ DeleteValidator(e, v)
    \/ \E v \in Validators, on \in {"on", "off"} : UpdateValidator(e, v, on)

LEMMA StampedRow ==
    ASSUME TypeOK, clock < MaxClock, NEW r \in Row, r.on # "absent"
    PROVE  /\ Flushes(Stamped(r)) /\ Stamped(r).on = r.on
           /\ Stamped(r).check = r.check /\ Stamped(r).proved = r.proved
BY DEF TypeOK, Stamped, Flushes, Row

LEMMA EditSummary ==
    ASSUME TypeOK, NEW e \in Editors, Edits(e)
    PROVE  \/ \E r \in Rules, new \in Row : RuleFlushed(e, r, new)
           \/ \E v \in Validators, new \in Row : ValidatorFlushed(e, v, new)
<1>0. row \in [Items -> Row] /\ Absent \in Row /\ Absent.on = "absent" /\ Absent.proved
  BY RowsTyped DEF TypeOK, Absent
<1>1. \A r \in Row, on \in {"off", "on"} : /\ [r EXCEPT !.on = on] \in Row
                                           /\ [r EXCEPT !.on = on].on = on
  BY DEF Row
<1>2. clock < MaxClock
  BY DEF Edits, CreateRule, UpdateRule, SetEnabled, DeleteRule, CreateValidator, UpdateValidator,
     DeleteValidator, FlushRule, FlushValidator, Flush
<1>3. ASSUME NEW r \in Rules, NEW on \in {"on", "off"}, NEW c \in Validators \cup {None},
             CreateRule(e, r, on, c)
      PROVE  \E new \in Row : RuleFlushed(e, r, new)
  <2>1. PICK new : new = [Absent EXCEPT !.on = on, !.check = c]
    OBVIOUS
  <2>2. new \in Row /\ new.on = on /\ new.check = c
    BY <1>0, <2>1 DEF Row
  <2>3. FlushRule(e, r, Stamped(new)) /\ Resolves(c)
    BY <1>3, <2>1 DEF CreateRule
  <2>4. RuleFlushed(e, r, Stamped(new))
    BY <1>2, <2>2, <2>3, StampedRow DEF RuleFlushed
  <2> QED BY <2>4 DEF RuleFlushed, Flushes
<1>4. ASSUME NEW r \in Rules, NEW on \in {"on", "off"}, NEW c \in Validators \cup {None},
             UpdateRule(e, r, on, c)
      PROVE  \E new \in Row : RuleFlushed(e, r, new)
  <2>1. PICK new : new = [row[r] EXCEPT !.on = on, !.check = c, !.proved = TRUE]
    OBVIOUS
  <2>2. new \in Row /\ new.on = on /\ new.check = c
    BY <1>0, <2>1 DEF Row, Items
  <2>3. FlushRule(e, r, Stamped(new)) /\ Resolves(c)
    BY <1>4, <2>1 DEF UpdateRule
  <2>4. RuleFlushed(e, r, Stamped(new))
    BY <1>2, <2>2, <2>3, StampedRow DEF RuleFlushed
  <2> QED BY <2>4 DEF RuleFlushed, Flushes
<1>5. ASSUME NEW r \in Rules, NEW on \in {"on", "off"}, SetEnabled(e, r, on)
      PROVE  \E new \in Row : RuleFlushed(e, r, new)
  <2>1. PICK new : new = [row[r] EXCEPT !.on = on, !.proved = FALSE]
    OBVIOUS
  <2>2. new \in Row /\ new.on = on /\ ~new.proved
    BY <1>0, <2>1 DEF Row, Items
  <2>3. FlushRule(e, r, Stamped(new))
    BY <1>5, <2>1 DEF SetEnabled
  <2>4. RuleFlushed(e, r, Stamped(new))
    BY <1>2, <2>2, <2>3, StampedRow DEF RuleFlushed
  <2> QED BY <2>4 DEF RuleFlushed, Flushes
<1>6. ASSUME NEW r \in Rules, DeleteRule(e, r)
      PROVE  \E new \in Row : RuleFlushed(e, r, new)
  BY <1>0, <1>6 DEF DeleteRule, RuleFlushed, Flushes
<1>7. ASSUME NEW v \in Validators, CreateValidator(e, v)
      PROVE  \E new \in Row : ValidatorFlushed(e, v, new)
  BY <1>0, <1>1, <1>2, <1>7, StampedRow DEF CreateValidator, ValidatorFlushed, Flushes
<1>8. ASSUME NEW v \in Validators, DeleteValidator(e, v)
      PROVE  \E new \in Row : ValidatorFlushed(e, v, new)
  BY <1>0, <1>8 DEF DeleteValidator, ValidatorFlushed, Flushes
<1>9. ASSUME NEW v \in Validators, NEW on \in {"on", "off"}, UpdateValidator(e, v, on)
      PROVE  \E new \in Row : ValidatorFlushed(e, v, new)
  <2>1. PICK new : new = [row[v] EXCEPT !.on = on]
    OBVIOUS
  <2>2. new \in Row /\ new.on = on
    <3>1. row[v] \in Row
      BY <1>0 DEF Items
    <3> QED BY <1>1, <2>1, <3>1
  <2>3. FlushValidator(e, v, Stamped(new))
    BY <1>9, <2>1 DEF UpdateValidator
  <2>4. ValidatorFlushed(e, v, Stamped(new))
    BY <1>2, <2>2, <2>3, StampedRow DEF ValidatorFlushed
  <2> QED BY <2>4 DEF ValidatorFlushed, Flushes
<1> QED BY <1>3, <1>4, <1>5, <1>6, <1>7, <1>8, <1>9 DEF Edits

LEMMA NextIs ==
    Next <=> \/ \E p \in Procs : Probe(p) \/ ReadRows(p)
             \/ Reload \/ ApiRestart \/ WorkerRestart
             \/ \E e \in Editors : Edits(e) \/ Commit(e) \/ CommitFails(e)
BY DEF Next, Edits

\* A restart of the API gives the missing shipped rules back.
LEMMA SeededFacts ==
    ASSUME TypeOK, Missing = {} \/ clock < MaxClock
    PROVE  /\ Seeded \in [Items -> Row]
           /\ \A i \in Items \ Missing : Seeded[i] = row[i]
           /\ \A i \in Missing : /\ Seeded[i].on = "on" /\ Seeded[i].check = None
                                 /\ Seeded[i].at = clock + 1
<1>1. Missing \subseteq Rules
  BY DEF Missing
<1>2. row \in [Items -> Row]
  BY DEF TypeOK
<1>3. ASSUME NEW new, new = [Absent EXCEPT !.on = "on", !.at = clock + 1], clock < MaxClock
      PROVE  new \in Row /\ new.on = "on" /\ new.check = None /\ new.at = clock + 1
  <2>1. PICK r : r = [Absent EXCEPT !.on = "on"]
    OBVIOUS
  <2>2. Absent \in Row /\ r \in Row
    BY <2>1, RowsTyped
  <2>6. Absent.check = None /\ clock + 1 \in 0 .. MaxClock
    BY <1>3 DEF Absent, TypeOK
  <2>3. new = [r EXCEPT !.at = clock + 1]
    BY <1>3, <2>1
  <2>4. r.on = "on" /\ r.check = None
    BY <2>1, <2>2, <2>6 DEF Row
  <2>5. new \in Row
    BY <2>2, <2>3, <2>6, RowsTyped
  <2> QED BY <2>2, <2>3, <2>4, <2>5 DEF Row
<1>4. /\ \A i \in Items \ Missing : Seeded[i] = row[i]
      /\ \A i \in Missing : Seeded[i] = [Absent EXCEPT !.on = "on", !.at = clock + 1]
  BY <1>1 DEF Seeded, Items
<1>5. Seeded = [i \in Items |-> Seeded[i]]
  BY DEF Seeded
<1>6. \A i \in Items : Seeded[i] \in Row
  BY <1>2, <1>3, <1>4
<1> QED BY <1>3, <1>4, <1>5, <1>6

LEMMA TypeStep == TypeOK /\ [Next]_vars => TypeOK'
<1> SUFFICES ASSUME TypeOK, [Next]_vars PROVE TypeOK'
  OBVIOUS
<1>0. /\ row \in [Items -> Row] /\ edit \in [Editors -> Edit] /\ clock \in 0 .. MaxClock
      /\ cache \in [Procs -> Cache] /\ reader \in [Procs -> Reader]
      /\ registry \in [Procs -> SUBSET Validators] /\ since \subseteq Validators
      /\ unclean \in BOOLEAN
  BY DEF TypeOK
<1>1. \A r \in Rules : row[r].at \in 0 .. MaxClock
  BY <1>0 DEF Items, Row
<1>2. \A b \in BOOLEAN : [pc |-> "probed", version |-> Probed(row), torn |-> b] \in Reader
  BY <1>1, ProbeTyped DEF Reader
<1>3. "api" \in Procs /\ "worker" \in Procs
  BY DEF Procs
<1>4. \A table : Enabled(table) \in SUBSET Validators
  BY DEF Enabled
<1>5. ASSUME NEW p \in Procs, Probe(p) PROVE TypeOK'
  <2>1. reader' \in [Procs -> Reader]
    BY <1>0, <1>2, <1>5 DEF Probe
  <2> QED BY <1>5, <2>1 DEF Probe, TypeOK
<1>6. ASSUME NEW p \in Procs, ReadRows(p) PROVE TypeOK'
  <2>1. [filled |-> TRUE, version |-> reader[p].version, rules |-> InForce(row),
         torn |-> reader[p].torn, late |-> FALSE] \in Cache
    BY <1>0, InForceTyped DEF Cache, Reader
  <2>2. cache' \in [Procs -> Cache] /\ reader' \in [Procs -> Reader]
    BY <1>0, <1>6, <2>1, RestingTyped DEF ReadRows
  <2> QED BY <1>6, <2>2 DEF ReadRows, TypeOK
<1>7. CASE Reload
  <2>1. cache' \in [Procs -> Cache] /\ reader' \in [Procs -> Reader]
    BY <1>0, <1>2, <1>3, <1>7, RestingTyped DEF Reload
  <2> QED BY <1>7, <2>1 DEF Reload, TypeOK
<1>8. ASSUME NEW e \in Editors, NEW i \in Items, NEW new \in Row, Flush(e, i, new),
             cache' \in [Procs -> Cache], registry' \in [Procs -> SUBSET Validators]
      PROVE  TypeOK'
  <2>1. UNCHANGED <<row, reader, since>>
    BY <1>8 DEF Flush
  <2> QED BY <1>8, <2>1, FlushTyped DEF TypeOK
<1>9. ASSUME NEW e \in Editors, Edits(e) PROVE TypeOK'
  <2>1. ASSUME NEW r \in Rules, NEW new \in Row, RuleFlushed(e, r, new) PROVE TypeOK'
    BY <1>0, <1>3, <1>8, <2>1, RestingTyped DEF RuleFlushed, FlushRule, Items
  <2>2. ASSUME NEW v \in Validators, NEW new \in Row, ValidatorFlushed(e, v, new) PROVE TypeOK'
    <3>1. registry' \in [Procs -> SUBSET Validators] /\ UNCHANGED cache
      BY <1>0, <1>3, <1>4, <2>2 DEF ValidatorFlushed, FlushValidator
    <3> QED BY <1>0, <1>8, <2>2, <3>1 DEF ValidatorFlushed, FlushValidator, Items
  <2> QED BY <1>9, <2>1, <2>2, EditSummary
<1>10. ASSUME NEW e \in Editors, Commit(e) PROVE TypeOK'
  <2>1. edit[e].target \in Items /\ edit[e].new \in Row
    BY <1>0 DEF Edit
  <2>2. row' \in [Items -> Row] /\ edit' \in [Editors -> Edit]
    BY <1>0, <1>10, <2>1, RestingTyped DEF Commit
  <2>3. CASE edit[e].target \in Rules
    <3>1. /\ \A r \in Reader, b \in BOOLEAN : [r EXCEPT !.torn = b] \in Reader
          /\ \A c \in Cache, b \in BOOLEAN : [c EXCEPT !.late = b] \in Cache
      BY DEF Reader, Cache
    <3>2. NoteCommit(edit[e].new.at) /\ UNCHANGED <<since, clock, registry, unclean>>
      BY <1>10, <2>3 DEF Commit
    <3>3. reader' \in [Procs -> Reader]
      <4> DEFINE torn(p) == reader[p].pc = "probed"
      <4>1. \A p \in Procs : torn(p) \in BOOLEAN
        OBVIOUS
      <4>2. reader' = [p \in Procs |-> [reader[p] EXCEPT !.torn = torn(p)]]
        BY <3>2 DEF NoteCommit
      <4> HIDE DEF torn
      <4> QED BY <1>0, <3>1, <4>1, <4>2
    <3>4. cache' \in [Procs -> Cache]
      <4> DEFINE late(p) == cache[p].late \/ (cache[p].filled /\ 0 < edit[e].new.at
                                              /\ edit[e].new.at < Newest(row))
      <4>1. \A p \in Procs : late(p) \in BOOLEAN
        BY <1>0 DEF Cache
      <4>2. cache' = [p \in Procs |-> [cache[p] EXCEPT !.late = late(p)]]
        BY <3>2 DEF NoteCommit
      <4> HIDE DEF late
      <4> QED BY <1>0, <3>1, <4>1, <4>2
    <3> QED BY <1>0, <2>2, <3>2, <3>3, <3>4 DEF TypeOK
  <2>4. CASE edit[e].target \notin Rules
    <3>1. edit[e].target \in Validators
      BY <2>1, <2>4 DEF Items
    <3>2. since' \subseteq Validators /\ UNCHANGED <<reader, cache, clock, registry, unclean>>
      BY <1>0, <1>10, <2>4, <3>1 DEF Commit
    <3> QED BY <1>0, <2>2, <3>2 DEF TypeOK
  <2> QED BY <2>3, <2>4
<1>11. ASSUME NEW e \in Editors, CommitFails(e) PROVE TypeOK'
  <2>1. edit' \in [Editors -> Edit]
    BY <1>0, <1>11, RestingTyped DEF CommitFails
  <2> QED BY <1>11, <2>1 DEF CommitFails, TypeOK
<1>12. CASE ApiRestart
  <2>1. row' \in [Items -> Row] /\ clock' \in 0 .. MaxClock
    BY <1>0, <1>12, SeededFacts DEF ApiRestart
  <2>2. edit' \in [Editors -> Edit] /\ cache' \in [Procs -> Cache]
    BY <1>0, <1>3, <1>12, RestingTyped DEF ApiRestart
  <2>3. registry' \in [Procs -> SUBSET Validators]
    BY <1>0, <1>3, <1>4, <1>12 DEF ApiRestart, Startup
  <2>4. reader' \in [Procs -> Reader]
    <3>1. PICK torn \in BOOLEAN :
             torn = (reader["worker"].torn \/ (reader["worker"].pc = "probed" /\ Missing # {}))
      OBVIOUS
    <3>2. [reader["worker"] EXCEPT !.torn = torn] \in Reader
      BY <1>0, <1>3 DEF Reader
    <3>3. reader' = [api |-> Resting, worker |-> [reader["worker"] EXCEPT !.torn = torn]]
      BY <1>12, <3>1 DEF ApiRestart
    <3> QED BY <3>2, <3>3, RestingTyped DEF Procs
  <2> QED BY <1>12, <2>1, <2>2, <2>3, <2>4 DEF ApiRestart, TypeOK
<1>13. CASE WorkerRestart
  <2>1. /\ cache' \in [Procs -> Cache] /\ reader' \in [Procs -> Reader]
        /\ registry' \in [Procs -> SUBSET Validators] /\ since' = {}
    BY <1>0, <1>3, <1>4, <1>13, RestingTyped DEF WorkerRestart, Startup
  <2> QED BY <1>13, <2>1 DEF WorkerRestart, TypeOK
<1>14. CASE UNCHANGED vars
  BY <1>14 DEF vars, TypeOK
<1> QED BY <1>5, <1>6, <1>7, <1>9, <1>10, <1>11, <1>12, <1>13, <1>14, NextIs

\* TypeOK holds in every state.
THEOREM RegistryTyped == Spec => []TypeOK
<1> QED BY InitTyped, TypeStep, PTL DEF Spec

-----------------------------------------------------------------------------
(* Validators *)

Pending(e) == edit[e].pc = "flushed"

\* A rule in force that was validated and names a custom validator.
Checked(r) == r.on = "on" /\ r.check # None /\ r.proved

\* The worker knows the validators enabled when it started; only later edits differ.
WorkerFollows == \A v \in Validators \ since : v \in registry["worker"] <=> row[v].on = "on"

OneEdit == \A d, e \in Editors : Pending(d) /\ Pending(e) => d = e

\* The API knows the validators enabled once the edit in progress has committed.
ApiFollows ==
    /\ \A v \in Validators : (\A e \in Editors : Pending(e) => edit[e].target # v) =>
          (v \in registry["api"] <=> row[v].on = "on")
    /\ \A e \in Editors : Pending(e) /\ edit[e].target \in Validators =>
          (edit[e].target \in registry["api"] <=> edit[e].new.on = "on")

\* No validator in use is deleted, and no rule is written with one that is not enabled.
UseIsSafe ==
    /\ \A r \in Rules : Checked(row[r]) =>
          /\ row[row[r].check].on # "absent"
          /\ \A e \in Editors : Pending(e) /\ edit[e].target = row[r].check =>
                edit[e].new.on # "absent"
    /\ \A e \in Editors : Pending(e) /\ edit[e].target \in Rules /\ Checked(edit[e].new) =>
          row[edit[e].new.check].on = "on"

ResolveInv == WorkerFollows /\ (unclean \/ (OneEdit /\ ApiFollows /\ UseIsSafe))

LEMMA ResolveInit == Init => ResolveInv
<1> SUFFICES ASSUME Init PROVE ResolveInv
  OBVIOUS
<1>1. /\ \A e \in Editors : ~Pending(e)
      /\ registry = [p \in Procs |-> Enabled(row)]
      /\ \A r \in Rules : row[r].on = "on" => row[r].check \in {None} \cup Enabled(row)
  BY RestingTyped DEF Init, Pending
<1>2. registry["api"] = Enabled(row) /\ registry["worker"] = Enabled(row)
  BY <1>1 DEF Procs
<1> QED BY <1>1, <1>2 DEF ResolveInv, WorkerFollows, OneEdit, ApiFollows, UseIsSafe, Enabled,
        Checked

LEMMA ResolveStep == TypeOK /\ ResolveInv /\ [Next]_vars => ResolveInv'
<1> SUFFICES ASSUME TypeOK, ResolveInv, [Next]_vars PROVE ResolveInv'
  OBVIOUS
<1>0. /\ row \in [Items -> Row] /\ edit \in [Editors -> Edit]
      /\ registry \in [Procs -> SUBSET Validators] /\ "api" \in Procs /\ "worker" \in Procs
  BY DEF TypeOK, Procs
<1>a. /\ \A r \in Rules : r \in Items /\ row[r] \in Row /\ r \notin Validators
      /\ \A v \in Validators : v \in Items /\ v \notin Rules /\ v # None
      /\ \A r \in Row : r.check \in Validators \cup {None}
  BY <1>0 DEF Items, Row
<1>1. ASSUME UNCHANGED <<row, edit, registry, since, unclean>> PROVE ResolveInv'
  BY <1>1 DEF ResolveInv, WorkerFollows, OneEdit, ApiFollows, UseIsSafe, Pending
<1>2. ASSUME NEW e \in Editors, NEW i \in Items, NEW new \in Row, Flush(e, i, new),
             ~unclean'
      PROVE  /\ OneEdit' /\ ~unclean /\ \A d \in Editors : ~Pending(d)
             /\ \A d \in Editors : Pending(d)' => d = e
             /\ edit'[e].target = i /\ edit'[e].new = new /\ row' = row
  <2>1. \A d \in Editors : edit[d].pc = "idle" /\ ~unclean
    BY <1>2 DEF Flush
  <2>2. edit' = [edit EXCEPT ![e] = [pc |-> "flushed", target |-> i, new |-> new]] /\ row' = row
    BY <1>2 DEF Flush
  <2> QED BY <1>0, <2>1, <2>2 DEF OneEdit, Pending
<1>3. ASSUME NEW e \in Editors, NEW r \in Rules, NEW new \in Row, RuleFlushed(e, r, new)
      PROVE  ResolveInv'
  <2>1. WorkerFollows'
    BY <1>3 DEF RuleFlushed, FlushRule, Flush, ResolveInv, WorkerFollows
  <2> SUFFICES ASSUME ~unclean' PROVE OneEdit' /\ ApiFollows' /\ UseIsSafe'
    BY <2>1 DEF ResolveInv
  <2>2. /\ OneEdit' /\ ~unclean /\ \A d \in Editors : ~Pending(d)
        /\ \A d \in Editors : Pending(d)' => d = e
        /\ edit'[e].target = r /\ edit'[e].new = new /\ row' = row
    BY <1>2, <1>3, <1>a DEF RuleFlushed, FlushRule
  <2>3. registry' = registry
    BY <1>3 DEF RuleFlushed, FlushRule
  <2>4. ApiFollows'
    BY <1>a, <2>2, <2>3 DEF ResolveInv, ApiFollows
  <2>5. Checked(new) => row[new.check].on = "on"
    BY <1>0, <1>3, <2>2 DEF RuleFlushed, Checked, Resolves, ResolveInv, ApiFollows
  <2>6. UseIsSafe'
    BY <1>a, <2>2, <2>5 DEF ResolveInv, UseIsSafe, Checked
  <2> QED BY <2>2, <2>4, <2>6
<1>4. ASSUME NEW e \in Editors, NEW v \in Validators, NEW new \in Row, ValidatorFlushed(e, v, new)
      PROVE  ResolveInv'
  <2>1. registry' = [registry EXCEPT !["api"] = Enabled([row EXCEPT ![v] = new])]
    BY <1>4 DEF ValidatorFlushed, FlushValidator
  <2>2. /\ registry'["worker"] = registry["worker"]
        /\ \A u \in Validators : u \in registry'["api"] <=> [row EXCEPT ![v] = new][u].on = "on"
    BY <1>0, <2>1 DEF Enabled
  <2>3. WorkerFollows'
    BY <1>4, <2>2 DEF ValidatorFlushed, FlushValidator, Flush, ResolveInv, WorkerFollows
  <2> SUFFICES ASSUME ~unclean' PROVE OneEdit' /\ ApiFollows' /\ UseIsSafe'
    BY <2>3 DEF ResolveInv
  <2>4. /\ OneEdit' /\ ~unclean /\ \A d \in Editors : ~Pending(d)
        /\ \A d \in Editors : Pending(d)' => d = e
        /\ edit'[e].target = v /\ edit'[e].new = new /\ row' = row /\ Pending(e)'
    <3>1. Flush(e, v, new)
      BY <1>4 DEF ValidatorFlushed, FlushValidator
    <3>2. Pending(e)'
      BY <1>0, <3>1 DEF Flush, Pending
    <3> QED BY <1>2, <1>a, <3>1, <3>2
  <2>5. ApiFollows'
    BY <1>0, <1>a, <2>2, <2>4 DEF ApiFollows
  <2>6. new.on = "absent" => \A r \in Rules : ~(row[r].on = "on" /\ row[r].check = v)
    BY <1>4 DEF ValidatorFlushed, InUse
  <2>7. UseIsSafe'
    BY <1>a, <2>4, <2>6 DEF ResolveInv, UseIsSafe, Checked
  <2> QED BY <2>4, <2>5, <2>7
<1>5. ASSUME NEW e \in Editors, Commit(e) PROVE ResolveInv'
  <2> DEFINE i == edit[e].target
             new == edit[e].new
  <2>1. i \in Items /\ new \in Row /\ Pending(e)
    BY <1>0, <1>5 DEF Edit, Commit, Pending
  <2>2. /\ row'[i] = new /\ \A k \in Items \ {i} : row'[k] = row[k]
        /\ ~Pending(e)' /\ \A d \in Editors \ {e} : edit'[d] = edit[d]
        /\ UNCHANGED <<registry, unclean>>
    BY <1>0, <1>5, <2>1, RestingTyped DEF Commit, Pending
  <2>3. since' = IF i \in Rules THEN since ELSE since \cup {i}
    BY <1>5 DEF Commit
  <2> HIDE DEF i, new
  <2>4. WorkerFollows'
    BY <1>a, <2>2, <2>3 DEF ResolveInv, WorkerFollows
  <2> SUFFICES ASSUME ~unclean PROVE OneEdit' /\ ApiFollows' /\ UseIsSafe'
    BY <2>2, <2>4 DEF ResolveInv
  <2>5. \A d \in Editors : ~Pending(d)'
    BY <2>1, <2>2 DEF ResolveInv, OneEdit, Pending
  <2>6. /\ \A v \in Validators \ {i} : v \in registry["api"] <=> row[v].on = "on"
        /\ i \in Validators => (i \in registry["api"] <=> new.on = "on")
        /\ \A r \in Rules : Checked(row[r]) => /\ row[row[r].check].on # "absent"
                                               /\ row[r].check = i => new.on # "absent"
        /\ i \in Rules /\ Checked(new) => row[new.check].on = "on"
    BY <2>1 DEF ResolveInv, OneEdit, ApiFollows, UseIsSafe, i, new
  <2>7. ApiFollows'
    BY <1>a, <2>2, <2>5, <2>6 DEF ApiFollows
  <2>8. ASSUME NEW r \in Rules, Checked(row'[r])
        PROVE  row'[row'[r].check].on # "absent"
    <3>1. CASE r = i
      <4>1. new.check \in Validators /\ row[new.check].on = "on"
        BY <1>a, <2>1, <2>2, <2>6, <2>8, <3>1 DEF Checked
      <4> QED BY <1>a, <2>2, <3>1, <4>1
    <3>2. CASE r # i
      <4>1. row'[r] = row[r] /\ row[r].check \in Validators
        BY <1>a, <2>2, <2>8, <3>2 DEF Checked
      <4> QED BY <1>a, <2>2, <2>6, <2>8, <4>1
    <3> QED BY <3>1, <3>2
  <2>9. UseIsSafe'
    BY <2>5, <2>8 DEF UseIsSafe, Checked
  <2> QED BY <2>5, <2>7, <2>9 DEF OneEdit
<1>6. ASSUME NEW e \in Editors, CommitFails(e) PROVE ResolveInv'
  BY <1>6 DEF CommitFails, ResolveInv, WorkerFollows
<1>7. CASE ApiRestart
  <2>1. \A v \in Validators : row'[v] = row[v]
    BY <1>7, <1>a, SeededFacts DEF ApiRestart, Missing
  <2>2. \A r \in Rules : row'[r] = row[r] \/ row'[r].check = None
    BY <1>7, <1>a, SeededFacts DEF ApiRestart
  <2>3. /\ \A e \in Editors : ~Pending(e)'
        /\ UNCHANGED <<since, unclean>>
    BY <1>7, RestingTyped DEF ApiRestart, Pending
  <2>4. registry'["worker"] = registry["worker"] /\ registry'["api"] = Enabled(row)
    BY <1>0, <1>7 DEF ApiRestart, Startup
  <2>5. WorkerFollows'
    BY <2>1, <2>3, <2>4 DEF ResolveInv, WorkerFollows
  <2>6. unclean \/ (OneEdit' /\ ApiFollows')
    BY <2>1, <2>3, <2>4 DEF OneEdit, ApiFollows, Enabled
  <2>7. unclean \/ UseIsSafe'
    BY <1>a, <2>1, <2>2, <2>3 DEF ResolveInv, UseIsSafe, Checked
  <2> QED BY <2>3, <2>5, <2>6, <2>7 DEF ResolveInv
<1>8. CASE WorkerRestart
  <2>1. registry'["worker"] = Enabled(row) /\ registry'["api"] = registry["api"]
    BY <1>0, <1>8 DEF WorkerRestart, Startup
  <2>2. UNCHANGED <<row, edit, unclean>>
    BY <1>8 DEF WorkerRestart
  <2> QED BY <2>1, <2>2 DEF ResolveInv, WorkerFollows, OneEdit, ApiFollows, UseIsSafe, Pending,
          Enabled
<1>9. ASSUME \/ \E p \in Procs : Probe(p) \/ ReadRows(p)
             \/ Reload \/ UNCHANGED vars
      PROVE  ResolveInv'
  BY <1>1, <1>9 DEF Probe, ReadRows, Reload, vars
<1> QED BY <1>3, <1>4, <1>5, <1>6, <1>7, <1>8, <1>9, EditSummary, NextIs

\* RulesResolve holds in every state: a rule in force that a process cannot resolve has one of
\* the causes the property names.
THEOREM RulesAreResolved == Spec => []RulesResolve
<1>1. TypeOK /\ ResolveInv => RulesResolve
  <2> SUFFICES ASSUME TypeOK, ResolveInv, NEW p \in Procs, NEW r \in Rules,
                      row[r].on = "on", row[r].check # None, row[r].check \notin registry[p],
                      row[r].proved, ~unclean, ~(p = "worker" /\ row[r].check \in since)
               PROVE  Disabled(row[r].check)
    BY DEF RulesResolve
  <2>1. row[r].check \in Validators /\ row[row[r].check].on \in {"absent", "off", "on"}
    BY DEF TypeOK, Row, Items
  <2>2. row[row[r].check].on # "absent"
    BY DEF ResolveInv, UseIsSafe, Checked
  <2>3. CASE p = "worker"
    BY <2>1, <2>2, <2>3 DEF ResolveInv, WorkerFollows, Disabled
  <2>4. CASE p = "api" /\ \A e \in Editors : Pending(e) => edit[e].target # row[r].check
    BY <2>1, <2>2, <2>4 DEF ResolveInv, ApiFollows, Disabled
  <2>5. CASE p = "api" /\ \E e \in Editors : Pending(e) /\ edit[e].target = row[r].check
    <3>1. PICK e \in Editors : Pending(e) /\ edit[e].target = row[r].check
      BY <2>5
    <3>2. edit[e].new.on # "absent" /\ edit[e].new.on # "on"
      BY <2>1, <2>5, <3>1 DEF ResolveInv, ApiFollows, UseIsSafe, Checked
    <3>3. edit[e].new.on \in {"absent", "off", "on"}
      BY DEF TypeOK, Edit, Row
    <3> QED BY <3>1, <3>2, <3>3 DEF Pending, Disabled
  <2> QED BY <2>3, <2>4, <2>5 DEF Procs
<1> QED BY <1>1, InitTyped, TypeStep, ResolveInit, ResolveStep, PTL DEF Spec

-----------------------------------------------------------------------------
(* Rules *)

\* The stamp of an edit in progress is in no row, no other edit, and no copy of a probe.
Fresh(l) == l <= clock /\ \A e \in Editors : Pending(e) /\ edit[e].new.at # 0 =>
                                                edit[e].new.at # l

StampInv ==
    /\ \A i \in Items : Fresh(row[i].at)
    /\ \A e \in Editors : Pending(e) =>
          /\ edit[e].new.at <= clock
          /\ edit[e].new.on = "absent" <=> edit[e].new.at = 0
          /\ \A d \in Editors : Pending(d) /\ edit[e].new.at # 0
                                /\ edit[d].new.at = edit[e].new.at => d = e
    /\ \A p \in Procs : Fresh(reader[p].version.latest) /\ Fresh(cache[p].version.latest)

LEMMA StampInit == Init => StampInv
<1> SUFFICES ASSUME Init PROVE StampInv
  OBVIOUS
<1>1. \A e \in Editors : ~Pending(e)
  BY RestingTyped DEF Init, Pending
<1>2. \A p \in Procs : reader[p].version.latest = 0 /\ cache[p].version.latest = 0
  BY DEF Init, Resting, Nothing, Zero
<1>3. \A i \in Items : row[i].at = 0
  <2>1. row \in [Items -> [on : {"absent", "off", "on"}, check : Validators \cup {None},
                           at : {0}, proved : {TRUE}]]
    BY DEF Init
  <2>2. \A i \in Items : row[i].at \in {0}
    BY <2>1, Zenon
  <2> QED BY <2>2
<1>4. clock = 0
  BY DEF Init
<1> QED BY <1>1, <1>2, <1>3, <1>4 DEF StampInv, Fresh

LEMMA StampStep == TypeOK /\ StampInv /\ [Next]_vars => StampInv'
<1> SUFFICES ASSUME TypeOK, StampInv, [Next]_vars PROVE StampInv'
  OBVIOUS
<1>0. /\ row \in [Items -> Row] /\ edit \in [Editors -> Edit] /\ clock \in Nat
      /\ reader \in [Procs -> Reader] /\ cache \in [Procs -> Cache]
      /\ "api" \in Procs /\ "worker" \in Procs
  BY DEF TypeOK, Procs
<1>a. Zero.latest = 0 /\ Nothing.version = Zero /\ Resting.version = Zero /\ Fresh(0)
  BY <1>0 DEF Zero, Nothing, Resting, Fresh
<1>b. Fresh(Probed(row).latest)
  <2>1. \A r \in Rules : row[r].at \in 0 .. MaxClock /\ r \in Items
    BY DEF TypeOK, Row, Items
  <2>2. Probed(row).latest = 0 \/ \E r \in Rules : row[r].at = Probed(row).latest
    BY <2>1, NewestFacts, ProbeTyped DEF Existing
  <2> QED BY <1>a, <2>1, <2>2 DEF StampInv
<1>1. ASSUME UNCHANGED <<row, edit, clock>>,
             \A p \in Procs : /\ Fresh(reader'[p].version.latest)
                              /\ Fresh(cache'[p].version.latest)
      PROVE  StampInv'
  BY <1>1 DEF StampInv, Fresh, Pending
<1>2. ASSUME NEW p \in Procs, Probe(p) PROVE StampInv'
  BY <1>0, <1>b, <1>1, <1>2 DEF Probe, StampInv
<1>3. ASSUME NEW p \in Procs, ReadRows(p) PROVE StampInv'
  BY <1>0, <1>a, <1>1, <1>3 DEF ReadRows, StampInv
<1>4. CASE Reload
  BY <1>0, <1>a, <1>b, <1>1, <1>4 DEF Reload, StampInv
<1>5. CASE WorkerRestart
  BY <1>0, <1>a, <1>1, <1>5 DEF WorkerRestart, StampInv
<1>6. ASSUME NEW e \in Editors, NEW i \in Items, NEW new, Flush(e, i, new), Flushes(new),
             \A p \in Procs : cache'[p] = cache[p] \/ cache'[p] = Nothing
      PROVE  StampInv'
  <2>1. /\ \A d \in Editors : Pending(d)' => d = e \/ (Pending(d) /\ edit'[d] = edit[d])
        /\ edit'[e].new = new /\ clock' = clock + 1 /\ UNCHANGED <<row, reader>>
    BY <1>0, <1>6 DEF Flush, Pending
  <2>2. new.at \in {0, clock + 1} /\ (new.on = "absent" <=> new.at = 0)
    BY <1>0, <1>6 DEF Flushes, Absent
  <2>3. \A l \in Nat : Fresh(l) => Fresh(l)'
    BY <1>0, <2>1, <2>2 DEF Fresh
  <2>4. \A d \in Editors : Pending(d) => edit[d].new.at \in Nat
    BY <1>0 DEF Edit, Row
  <2>5. \A d \in Editors : Pending(d)' =>
          /\ edit'[d].new.at <= clock'
          /\ edit'[d].new.on = "absent" <=> edit'[d].new.at = 0
    BY <1>0, <2>1, <2>2, <2>4 DEF StampInv
  <2>6. \A c, d \in Editors : Pending(c)' /\ Pending(d)' /\ edit'[d].new.at # 0
                              /\ edit'[c].new.at = edit'[d].new.at => c = d
    BY <1>0, <2>1, <2>2, <2>4 DEF StampInv
  <2>7. \A k \in Items : Fresh(row[k].at)'
    <3>1. \A k \in Items : row[k].at \in Nat
      BY <1>0 DEF Row
    <3> QED BY <2>1, <2>3, <3>1 DEF StampInv
  <2>8. \A p \in Procs : Fresh(reader[p].version.latest)' /\ Fresh(cache[p].version.latest)'
    <3>1. \A p \in Procs : reader[p].version.latest \in Nat /\ cache[p].version.latest \in Nat
      BY <1>0 DEF Reader, Cache, Version
    <3> QED BY <1>6, <1>a, <2>1, <2>3, <3>1 DEF StampInv
  <2> QED BY <2>5, <2>6, <2>7, <2>8 DEF StampInv
<1>7. ASSUME NEW e \in Editors, Edits(e) PROVE StampInv'
  <2>1. ASSUME NEW r \in Rules, NEW new \in Row, RuleFlushed(e, r, new) PROVE StampInv'
    BY <1>0, <1>6, <2>1 DEF RuleFlushed, FlushRule, Items
  <2>2. ASSUME NEW v \in Validators, NEW new \in Row, ValidatorFlushed(e, v, new)
        PROVE  StampInv'
    BY <1>0, <1>6, <2>2 DEF ValidatorFlushed, FlushValidator, Items
  <2> QED BY <1>7, <2>1, <2>2, EditSummary
<1>8. ASSUME NEW e \in Editors, Pending(e), edit' = [edit EXCEPT ![e] = Idle], clock' = clock,
             row' = row \/ row' = [row EXCEPT ![edit[e].target] = edit[e].new],
             \A p \in Procs : /\ reader'[p].version = reader[p].version
                              /\ cache'[p].version = cache[p].version
      PROVE  StampInv'
  <2>1. \A d \in Editors : Pending(d)' => d # e /\ Pending(d) /\ edit'[d] = edit[d]
    BY <1>0, <1>8, RestingTyped DEF Pending
  <2>2. \A l : Fresh(l) => Fresh(l)'
    BY <1>8, <2>1 DEF Fresh
  <2>n. PICK new : new = edit[e].new
    OBVIOUS
  <2>3. Fresh(new.at)'
    BY <1>8, <2>n, <2>1 DEF Fresh, StampInv
  <2>4. \A k \in Items : row'[k] = row[k] \/ row'[k] = new
    BY <1>0, <1>8, <2>n
  <2> QED BY <1>8, <2>1, <2>2, <2>3, <2>4 DEF StampInv
<1>9. ASSUME NEW e \in Editors, Commit(e) PROVE StampInv'
  <2>1. \A p \in Procs : /\ reader'[p].version = reader[p].version
                         /\ cache'[p].version = cache[p].version
    <3>1. CASE edit[e].target \in Rules
      BY <1>0, <1>9, <3>1 DEF Commit, NoteCommit, Reader, Cache
    <3>2. CASE edit[e].target \notin Rules
      BY <1>9, <3>2 DEF Commit
    <3> QED BY <3>1, <3>2
  <2> QED BY <1>8, <1>9, <2>1 DEF Commit, Pending
<1>10. ASSUME NEW e \in Editors, CommitFails(e) PROVE StampInv'
  BY <1>8, <1>10 DEF CommitFails, Pending
<1>11. CASE ApiRestart
  <2>1. /\ \A e \in Editors : ~Pending(e)'
        /\ clock' = IF Missing = {} THEN clock ELSE clock + 1
    BY <1>11, RestingTyped DEF ApiRestart, Pending
  <2>2. \A l \in Nat : l <= clock => Fresh(l)'
    BY <1>0, <2>1 DEF Fresh
  <2>3. \A i \in Items : Fresh(row[i].at)'
    <3>1. \A i \in Items : row[i].at \in Nat /\ row[i].at <= clock
      BY <1>0 DEF Row, StampInv, Fresh
    <3>n. PICK now : now = clock + 1
      OBVIOUS
    <3>2. \A i \in Items : row'[i] = row[i] \/ (row'[i].at = now /\ Missing # {})
      BY <1>11, <3>n, SeededFacts DEF ApiRestart
    <3>3. Missing # {} => Fresh(now)'
      BY <1>0, <2>1, <3>n DEF Fresh
    <3> QED BY <2>2, <3>1, <3>2, <3>3
  <2>4. \A p \in Procs : /\ reader'[p].version.latest \in {0, reader[p].version.latest}
                         /\ cache'[p].version.latest \in {0, cache[p].version.latest}
    <3>1. reader'["api"] = Resting /\ reader'["worker"].version = reader["worker"].version
      BY <1>0, <1>11 DEF ApiRestart, Reader
    <3>2. \A p \in Procs : cache'[p] = cache[p] \/ cache'[p] = Nothing
      BY <1>0, <1>11 DEF ApiRestart
    <3> QED BY <1>a, <3>1, <3>2 DEF Procs
  <2>5. \A p \in Procs : /\ reader[p].version.latest \in Nat /\ cache[p].version.latest \in Nat
                         /\ reader[p].version.latest <= clock /\ cache[p].version.latest <= clock
    BY <1>0 DEF Reader, Cache, Version, StampInv, Fresh
  <2> QED BY <1>0, <2>1, <2>2, <2>3, <2>4, <2>5 DEF StampInv
<1>12. CASE UNCHANGED vars
  BY <1>1, <1>12 DEF vars, StampInv
<1> QED BY <1>2, <1>3, <1>4, <1>5, <1>7, <1>9, <1>10, <1>11, <1>12, NextIs

\* Probes and rows in force depend on the rules alone.
LEMMA ProbeIsOfRules ==
    ASSUME NEW a, NEW b, \A r \in Rules : a[r] = b[r]
    PROVE  Probed(a) = Probed(b) /\ InForce(a) = InForce(b)
<1>1. Existing(a) = Existing(b)
  BY DEF Existing
<1>2. {a[r].at : r \in Existing(a)} = {b[r].at : r \in Existing(b)}
  BY <1>1 DEF Existing
<1> QED BY <1>1, <1>2 DEF Probed, Newest, InForce

\* Of the rows a cache was filled from, those stamped by then are the ones still there; or the
\* newest stamp it saw is gone for good.
Kept(old, l)   == \A r \in Rules : row[r].on # "absent" /\ row[r].at <= l => row[r] = old[r]
Overwritten(l) == l # 0 /\ \A r \in Rules : row[r].on # "absent" => row[r].at # l

CacheSound(c) ==
    c.filled /\ ~c.torn /\ ~c.late =>
        \E old \in [Rules -> Row] :
           /\ c.version = Probed(old) /\ c.rules = InForce(old)
           /\ Kept(old, c.version.latest) \/ Overwritten(c.version.latest)

ReadersSound == \A p \in Procs : reader[p].pc = "probed" /\ ~reader[p].torn =>
                                    reader[p].version = Probed(row)

CacheInv == ReadersSound /\ \A p \in Procs : CacheSound(cache[p])

\* A new row, stamped after every one that is there, changes neither.
LEMMA KeptOrGone ==
    ASSUME TypeOK, NEW old, NEW l \in Nat, NEW new \in Row, NEW i \in Rules,
           row' = [row EXCEPT ![i] = new], new.on = "absent" <=> new.at = 0,
           new.at = 0 \/ (new.at # l /\ new.at >= Newest(row)),
           Kept(old, l) \/ Overwritten(l)
    PROVE  Kept(old, l)' \/ Overwritten(l)'
<1>0. /\ \A r \in Rules : row[r].at \in 0 .. MaxClock /\ row[r].at \in Nat
      /\ row'[i] = new /\ (\A r \in Rules \ {i} : row'[r] = row[r]) /\ new.at \in Nat
  BY DEF TypeOK, Row, Items
<1>1. /\ Newest(row) \in Nat
      /\ \A r \in Rules : row[r].on # "absent" => row[r].at <= Newest(row)
  BY <1>0, NewestFacts DEF Existing
<1>2. CASE new.at = 0 \/ Overwritten(l) \/ new.at > l
  BY <1>0, <1>2 DEF Kept, Overwritten
<1>3. CASE 0 < new.at /\ new.at < l
  BY <1>0, <1>1, <1>3 DEF Overwritten
<1> QED BY <1>0, <1>2, <1>3

LEMMA CacheInit == Init => CacheInv
BY RestingTyped DEF Init, CacheInv, ReadersSound, CacheSound

LEMMA CacheStep == TypeOK /\ StampInv /\ CacheInv /\ [Next]_vars => CacheInv'
<1> SUFFICES ASSUME TypeOK, StampInv, CacheInv, [Next]_vars PROVE CacheInv'
  OBVIOUS
<1>0. /\ row \in [Items -> Row] /\ edit \in [Editors -> Edit] /\ clock \in Nat
      /\ reader \in [Procs -> Reader] /\ cache \in [Procs -> Cache]
      /\ "api" \in Procs /\ "worker" \in Procs
  BY DEF TypeOK, Procs
<1>1. \A r \in Rules : r \in Items /\ row[r] \in Row /\ row[r].at \in Nat
  BY <1>0 DEF Items, Row
<1>n. ~Nothing.filled /\ Resting.pc # "probed"
  BY RestingTyped
<1>2. ASSUME UNCHANGED row,
             \A p \in Procs : reader'[p] = reader[p] \/ reader'[p].pc # "probed"
                              \/ reader'[p].version = Probed(row),
             \A p \in Procs : cache'[p] = cache[p] \/ ~cache'[p].filled
                              \/ CacheSound(cache'[p])
      PROVE  CacheInv'
  <2>1. \A c : CacheSound(c) => CacheSound(c)'
    BY <1>2 DEF CacheSound, Kept, Overwritten
  <2>2. \A p \in Procs : CacheSound(cache[p])'
    <3> SUFFICES ASSUME NEW p \in Procs PROVE CacheSound(cache[p])'
      OBVIOUS
    <3>1. PICK c : c = cache'[p]
      OBVIOUS
    <3>2. CacheSound(c) \/ ~c.filled
      BY <1>2, <3>1 DEF CacheInv
    <3>3. CacheSound(c)'
      BY <2>1, <3>2 DEF CacheSound
    <3> QED BY <3>1, <3>3
  <2>3. ReadersSound'
    BY <1>2 DEF CacheInv, ReadersSound
  <2> QED BY <2>2, <2>3 DEF CacheInv
<1>3. ASSUME NEW p \in Procs, Probe(p) PROVE CacheInv'
  <2>1. reader'[p].version = Probed(row) /\ \A s \in Procs \ {p} : reader'[s] = reader[s]
    BY <1>0, <1>3 DEF Probe
  <2> QED BY <1>2, <1>3, <2>1 DEF Probe
<1>4. ASSUME NEW p \in Procs, ReadRows(p) PROVE CacheInv'
  <2>1. PICK c : c = [filled |-> TRUE, version |-> reader[p].version, rules |-> InForce(row),
                      torn |-> reader[p].torn, late |-> FALSE]
    OBVIOUS
  <2>2. cache' = [cache EXCEPT ![p] = c] /\ reader' = [reader EXCEPT ![p] = Resting] /\ row' = row
        /\ reader[p].pc = "probed"
    BY <1>4, <2>1 DEF ReadRows
  <2>3. CacheSound(c)
    <3> SUFFICES ASSUME ~c.torn PROVE CacheSound(c)
      BY DEF CacheSound
    <3>1. c.version = Probed(row) /\ c.rules = InForce(row)
      BY <2>1, <2>2 DEF CacheInv, ReadersSound
    <3>2. PICK old \in [Rules -> Row] : \A r \in Rules : old[r] = row[r]
      <4>1. [r \in Rules |-> row[r]] \in [Rules -> Row]
        BY <1>1
      <4> QED BY <4>1
    <3>3. Probed(old) = Probed(row) /\ InForce(old) = InForce(row)
      BY <3>2, ProbeIsOfRules
    <3> QED BY <3>1, <3>2, <3>3 DEF CacheSound, Kept
  <2> QED BY <1>0, <1>2, <1>n, <2>2, <2>3
<1>5. CASE Reload
  <2>1. /\ reader'["api"].version = Probed(row) /\ \A s \in Procs \ {"api"} : reader'[s] = reader[s]
        /\ cache'["api"] = Nothing /\ \A s \in Procs \ {"api"} : cache'[s] = cache[s]
    BY <1>0, <1>5 DEF Reload
  <2> QED BY <1>2, <1>5, <1>n, <2>1 DEF Reload
<1>6. ASSUME NEW e \in Editors, Edits(e) PROVE CacheInv'
  <2>1. UNCHANGED <<row, reader>> /\ \A p \in Procs : cache'[p] = cache[p] \/ cache'[p] = Nothing
    BY <1>0, <1>6, EditSummary DEF RuleFlushed, FlushRule, ValidatorFlushed, FlushValidator, Flush
  <2> QED BY <1>2, <1>n, <2>1
<1>7. ASSUME NEW e \in Editors, Commit(e) PROVE CacheInv'
  <2>n. PICK i \in Items, new \in Row : i = edit[e].target /\ new = edit[e].new
    BY <1>0 DEF Edit
  <2>0. row' = [row EXCEPT ![i] = new] /\ Pending(e)
    BY <1>7, <2>n DEF Commit, Pending
  <2>1. CASE i \notin Rules
    <3>1. (\A r \in Rules : row'[r] = row[r]) /\ UNCHANGED <<reader, cache>>
      BY <1>0, <1>1, <1>7, <2>n, <2>0, <2>1 DEF Commit
    <3>2. Probed(row') = Probed(row)
      BY <3>1, ProbeIsOfRules
    <3>3. ReadersSound'
      BY <3>1, <3>2 DEF CacheInv, ReadersSound
    <3>4. \A p \in Procs : CacheSound(cache[p])'
      BY <3>1 DEF CacheInv, CacheSound, Kept, Overwritten
    <3> QED BY <3>3, <3>4 DEF CacheInv
  <2>2. CASE i \in Rules
    <3>1. NoteCommit(new.at)
      BY <1>7, <2>n, <2>2 DEF Commit
    <3>2. ReadersSound'
      BY <1>0, <3>1 DEF NoteCommit, ReadersSound, Reader
    <3>3. ASSUME NEW p \in Procs PROVE CacheSound(cache[p])'
      <4>1. /\ cache'[p].filled = cache[p].filled /\ cache'[p].version = cache[p].version
            /\ cache'[p].rules = cache[p].rules /\ cache'[p].torn = cache[p].torn
            /\ cache'[p].late = (cache[p].late \/ (cache[p].filled /\ 0 < new.at
                                                  /\ new.at < Newest(row)))
        BY <1>0, <3>1 DEF NoteCommit, Cache
      <4> SUFFICES ASSUME cache[p].filled, ~cache[p].torn, ~cache'[p].late
                   PROVE  \E old \in [Rules -> Row] :
                             /\ cache[p].version = Probed(old) /\ cache[p].rules = InForce(old)
                             /\ \/ Kept(old, cache[p].version.latest)'
                                \/ Overwritten(cache[p].version.latest)'
        BY <4>1 DEF CacheSound
      <4>2. PICK old \in [Rules -> Row] :
               /\ cache[p].version = Probed(old) /\ cache[p].rules = InForce(old)
               /\ Kept(old, cache[p].version.latest) \/ Overwritten(cache[p].version.latest)
        BY <4>1 DEF CacheInv, CacheSound
      <4>3. PICK l \in Nat : l = cache[p].version.latest
        BY <1>0 DEF Cache, Version
      <4>4. new.on = "absent" <=> new.at = 0
        BY <2>n, <2>0 DEF StampInv
      <4>5. new.at = 0 \/ (new.at # l /\ new.at >= Newest(row))
        <5>1. new.at \in Nat /\ Newest(row) \in Nat
          BY <1>0, NewestFacts DEF Row, Items
        <5>2. new.at = 0 \/ new.at # l
          BY <2>n, <2>0, <4>3 DEF StampInv, Fresh
        <5>3. ~(0 < new.at /\ new.at < Newest(row))
          BY <4>1, Zenon
        <5> QED BY <5>1, <5>2, <5>3
      <4>6. Kept(old, l)' \/ Overwritten(l)'
        BY <2>0, <2>2, <4>2, <4>3, <4>4, <4>5, KeptOrGone
      <4>7. l = cache'[p].version.latest
        BY <4>1, <4>3
      <4> QED BY <4>2, <4>6, <4>7
    <3> QED BY <3>2, <3>3 DEF CacheInv
  <2> QED BY <2>1, <2>2
<1>8. ASSUME NEW e \in Editors, CommitFails(e) PROVE CacheInv'
  BY <1>2, <1>8 DEF CommitFails
<1>9. CASE ApiRestart
  <2>1. \A r \in Rules : row'[r] = row[r] \/ (Missing # {} /\ row'[r].at = clock + 1)
    BY <1>1, <1>9, SeededFacts DEF ApiRestart
  <2>2. reader'["api"].pc # "probed" /\ cache'["api"] = Nothing /\ cache'["worker"] = cache["worker"]
    BY <1>0, <1>9, <1>n DEF ApiRestart
  <2>3. ReadersSound'
    <3> SUFFICES ASSUME reader'["worker"].pc = "probed", ~reader'["worker"].torn
                 PROVE  reader'["worker"].version = Probed(row')
      BY <2>2 DEF ReadersSound, Procs
    <3>1. /\ reader["worker"].pc = "probed" /\ ~reader["worker"].torn /\ Missing = {}
          /\ reader'["worker"].version = reader["worker"].version
      BY <1>0, <1>9 DEF ApiRestart, Reader
    <3>2. Probed(row') = Probed(row)
      BY <2>1, <3>1, ProbeIsOfRules
    <3> QED BY <1>0, <3>1, <3>2 DEF CacheInv, ReadersSound
  <2>4. PICK c \in Cache : c = cache["worker"]
    BY <1>0
  <2>5. c.version.latest \in Nat /\ c.version.latest <= clock
    BY <1>0, <2>4 DEF Cache, Version, StampInv, Fresh
  <2>6. \A old : Kept(old, c.version.latest) => Kept(old, c.version.latest)'
    BY <1>0, <2>1, <2>5 DEF Kept
  <2>7. Overwritten(c.version.latest) => Overwritten(c.version.latest)'
    BY <1>0, <2>1, <2>5 DEF Overwritten
  <2>8. CacheSound(c) => CacheSound(c)'
    BY <2>6, <2>7 DEF CacheSound
  <2>9. \A p \in Procs : CacheSound(cache[p])'
    BY <1>0, <1>n, <2>2, <2>4, <2>8 DEF CacheInv, CacheSound, Procs
  <2> QED BY <2>3, <2>9 DEF CacheInv
<1>10. CASE WorkerRestart
  <2>1. /\ reader'["worker"] = Resting /\ \A s \in Procs \ {"worker"} : reader'[s] = reader[s]
        /\ cache'["worker"] = Nothing /\ \A s \in Procs \ {"worker"} : cache'[s] = cache[s]
    BY <1>0, <1>10 DEF WorkerRestart
  <2> QED BY <1>2, <1>10, <1>n, <2>1 DEF WorkerRestart
<1>11. CASE UNCHANGED vars
  BY <1>2, <1>11 DEF vars
<1> QED BY <1>3, <1>4, <1>5, <1>6, <1>7, <1>8, <1>9, <1>10, <1>11, NextIs

\* StaleRulesOnlyByRace holds in every state: unless a race it names happened, a probe that
\* agrees with a cache proves it right.
THEOREM StaleOnlyByRace == Spec => []StaleRulesOnlyByRace
<1>1. TypeOK /\ CacheInv => StaleRulesOnlyByRace
  <2> SUFFICES ASSUME TypeOK, CacheInv, NEW p \in Procs, cache[p].filled,
                      cache[p].version = Probed(row), ~cache[p].torn, ~cache[p].late
               PROVE  cache[p].rules = InForce(row)
    BY DEF StaleRulesOnlyByRace
  <2>0. \A r \in Rules : row[r].at \in 0 .. MaxClock
    BY DEF TypeOK, Row, Items
  <2>1. PICK old \in [Rules -> Row] :
           /\ Probed(row) = Probed(old) /\ cache[p].rules = InForce(old)
           /\ Kept(old, Newest(row)) \/ Overwritten(Newest(row))
    BY <2>0, ProbeTyped DEF CacheInv, CacheSound
  <2>2. Kept(old, Newest(row))
    BY <2>0, <2>1, NewestFacts DEF Overwritten, Existing
  <2>3. \A r \in Existing(row) : row[r] = old[r]
    BY <2>0, <2>2, NewestFacts DEF Kept, Existing
  <2>4. Existing(row) = Existing(old)
    <3>1. Existing(row) \subseteq Existing(old)
      BY <2>3 DEF Existing
    <3>2. Cardinality(Existing(row)) = Cardinality(Existing(old))
      BY <2>1 DEF Probed
    <3> QED BY <3>1, <3>2, ExistingFinite, FS_Subset
  <2>5. InForce(row) = InForce(old)
    <3>1. \A r \in Rules : InForce(row)[r] = InForce(old)[r]
      BY <2>3, <2>4 DEF InForce, Existing
    <3> QED BY <3>1 DEF InForce
  <2> QED BY <2>1, <2>5
<1> QED BY <1>1, InitTyped, TypeStep, StampInit, StampStep, CacheInit, CacheStep, PTL DEF Spec

=============================================================================
