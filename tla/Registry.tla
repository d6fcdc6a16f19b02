------------------------------- MODULE Registry -------------------------------
(***************************************************************************)
(* The rule table, the validator table, and the copies of them two         *)
(* processes keep: each has a cache of the rules in force, keyed on a      *)
(* (count, newest updated_at) probe, and a registry of compiled            *)
(* validators, filled when the process starts.                             *)
(*                                                                         *)
(* An edit is a request of the API with a READ COMMITTED session: it reads *)
(* and checks, flushes (the row is stamped and locked, the API's copy is   *)
(* dropped or rebuilt from what this session sees) and commits last.       *)
(* Nothing an edit does is visible before its commit but what it does to   *)
(* the API's copies, so its steps up to the flush are one step here; one   *)
(* that meets another's lock is taken to read the row after the wait.      *)
(* Loading the rules is two statements, and each sees its own snapshot.    *)
(*                                                                         *)
(* A rule is reduced to whether it is enabled and which custom validator   *)
(* it names, a validator to whether it is enabled; updated_at stands for   *)
(* the rest of a row, because no two flushes have the same clock reading.  *)
(***************************************************************************)
EXTENDS Naturals, FiniteSets, FiniteSetsExt

CONSTANTS Rules,       \* ids of rules
          Validators,  \* ids of custom validators
          Shipped,     \* the rules of the YAML packs
          Editors,     \* requests the API can have in progress at once
          None,        \* no validator, or one of the protected algorithms
          MaxClock     \* bound: flushes altogether

Items == Rules \cup Validators
Procs == {"api", "worker"}

ASSUME ItemsAssumption   == IsFiniteSet(Rules) /\ Rules \cap Validators = {} /\ Items # {}
ASSUME ShippedAssumption == Shipped \subseteq Rules
ASSUME NoneAssumption    == None \notin Items
ASSUME ClockAssumption   == MaxClock \in Nat

\* `proved`: the row went through `validate` when it was last written (history).
Row == [on : {"absent", "off", "on"}, check : Validators \cup {None}, at : 0 .. MaxClock,
        proved : BOOLEAN]

Absent == [on |-> "absent", check |-> None, at |-> 0, proved |-> TRUE]

Edit == [pc : {"idle", "flushed"}, target : Items, new : Row]

Version == [count : 0 .. Cardinality(Rules), latest : 0 .. MaxClock]

\* `torn`: a commit fell between its probe and its rows; `late`: since it was built, an edit
\* committed that had been stamped before one already committed.  History, like `torn` below.
Cache  == [filled : BOOLEAN, version : Version, rules : [Rules -> Row], torn : BOOLEAN,
           late : BOOLEAN]
Reader == [pc : {"idle", "probed"}, version : Version, torn : BOOLEAN]

VARIABLES row,      \* row[i]: the committed row of rule or validator i
          edit,     \* edit[e]: the edit request e is making
          clock,    \* the clock: one tick for every flush
          cache,    \* cache[p]: inspector/store.py's _cached in process p
          reader,   \* reader[p]: the inspection of p that is loading the rules
          registry, \* registry[p]: validators.py's _custom in process p
          since,    \* validators committed since the worker started (history)
          unclean   \* an edit overlapped another, or failed to commit (history)

vars == <<row, edit, clock, cache, reader, registry, since, unclean>>

Zero     == [count |-> 0, latest |-> 0]
Nothing  == [filled |-> FALSE, version |-> Zero, rules |-> [r \in Rules |-> Absent],
             torn |-> FALSE, late |-> FALSE]
Resting  == [pc |-> "idle", version |-> Zero, torn |-> FALSE]
Idle     == [pc |-> "idle", target |-> CHOOSE i \in Items : TRUE, new |-> Absent]

Existing(table) == {r \in Rules : table[r].on # "absent"}
Newest(table)   == Max({table[r].at : r \in Existing(table)} \cup {0})

\* Mutant of Probed: the newest stamp alone, so a deletion goes unseen.
ProbedByStamp(table) == [count |-> 0, latest |-> Newest(table)]

\* RuleVersion.probe
Probed(table) == [count |-> Cardinality(Existing(table)), latest |-> Newest(table)]

\* The rows load_ruleset selects.
InForce(table) == [r \in Rules |-> IF table[r].on = "on" THEN table[r] ELSE Absent]

\* Mutant of Enabled: the rows of the protected algorithms are compiled too.
EnabledAll(table) == {None} \cup {v \in Validators : table[v].on = "on"}

\* The rows refresh_registry compiles.
Enabled(table) == {v \in Validators : table[v].on = "on"}

\* Some rules and validators are there, every shipped rule among them.  A disabled rule may
\* name a validator that is gone: DeleteValidator asks about enabled rules only.
Init ==
    /\ row \in [Items -> [on : {"absent", "off", "on"}, check : Validators \cup {None},
                          at : {0}, proved : {TRUE}]]
    /\ \A r \in Shipped : row[r].on # "absent"
    /\ \A i \in Items : row[i].on = "absent" \/ i \in Validators => row[i].check = None
    /\ \A r \in Rules : row[r].on = "on" => row[r].check \in {None} \cup Enabled(row)
    /\ edit = [e \in Editors |-> Idle]
    /\ clock = 0
    /\ cache = [p \in Procs |-> Nothing]
    /\ reader = [p \in Procs |-> Resting]
    /\ registry = [p \in Procs |-> Enabled(row)]
    /\ since = {}
    /\ unclean = FALSE

-----------------------------------------------------------------------------
(* Loading the rules: load_ruleset *)

\* A probe that agrees with the cache answers from it and changes nothing.
Probe(p) ==
    /\ reader[p].pc = "idle"
    /\ ~(cache[p].filled /\ cache[p].version = Probed(row))
    /\ reader' = [reader EXCEPT ![p] = [pc |-> "probed", version |-> Probed(row),
                                        torn |-> FALSE]]
    /\ UNCHANGED <<row, edit, clock, cache, registry, since, unclean>>

ReadRows(p) ==
    /\ reader[p].pc = "probed"
    /\ cache' = [cache EXCEPT ![p] = [filled |-> TRUE, version |-> reader[p].version,
                                      rules |-> InForce(row), torn |-> reader[p].torn,
                                      late |-> FALSE]]
    /\ reader' = [reader EXCEPT ![p] = Resting]
    /\ UNCHANGED <<row, edit, clock, registry, since, unclean>>

\* The console's reload: drop the API's cache, then load.
Reload ==
    /\ reader["api"].pc = "idle" /\ cache["api"].filled
    /\ cache' = [cache EXCEPT !["api"] = Nothing]
    /\ reader' = [reader EXCEPT !["api"] = [pc |-> "probed", version |-> Probed(row),
                                            torn |-> FALSE]]
    /\ UNCHANGED <<row, edit, clock, registry, since, unclean>>

-----------------------------------------------------------------------------
(* Edits, up to the flush.  One that is refused changes nothing, and one *)
(* that would change nothing is left out.                                 *)

Locked(i) == \E d \in Editors : edit[d].pc = "flushed" /\ edit[d].target = i

\* Request e flushes row i as `new`; the edits of one row wait for each other.
Flush(e, i, new) ==
    /\ edit[e].pc = "idle" /\ ~Locked(i) /\ clock < MaxClock
    /\ edit' = [edit EXCEPT ![e] = [pc |-> "flushed", target |-> i, new |-> new]]
    /\ clock' = clock + 1
    /\ unclean' = (unclean \/ \E d \in Editors : edit[d].pc # "idle")
    /\ UNCHANGED <<row, reader, since>>

Stamped(new) == [new EXCEPT !.at = clock + 1]

\* A rule edit drops the API's cache.
FlushRule(e, r, new) ==
    /\ Flush(e, r, new)
    /\ cache' = [cache EXCEPT !["api"] = Nothing]
    /\ UNCHANGED registry

\* A validator edit rebuilds the API's registry from the rows its own session sees.
FlushValidator(e, v, new) ==
    /\ Flush(e, v, new)
    /\ registry' = [registry EXCEPT !["api"] = Enabled([row EXCEPT ![v] = new])]
    /\ UNCHANGED cache

\* store.validate resolves the validator in the API's own registry.
Resolves(c) == c = None \/ c \in registry["api"]

CreateRule(e, r, on, c) ==
    /\ row[r].on = "absent" /\ Resolves(c)
    /\ FlushRule(e, r, Stamped([Absent EXCEPT !.on = on, !.check = c]))

UpdateRule(e, r, on, c) ==
    /\ row[r].on # "absent" /\ Resolves(c)
    /\ FlushRule(e, r, Stamped([row[r] EXCEPT !.on = on, !.check = c, !.proved = TRUE]))

\* set_enabled does not validate.
SetEnabled(e, r, on) ==
    /\ row[r].on \notin {"absent", on}
    /\ FlushRule(e, r, Stamped([row[r] EXCEPT !.on = on, !.proved = FALSE]))

DeleteRule(e, r) == row[r].on # "absent" /\ FlushRule(e, r, Absent)

CreateValidator(e, v) ==
    /\ row[v].on = "absent"
    /\ FlushValidator(e, v, Stamped([Absent EXCEPT !.on = "on"]))

UpdateValidator(e, v, on) ==
    /\ row[v].on # "absent"
    /\ FlushValidator(e, v, Stamped([row[v] EXCEPT !.on = on]))

\* Mutant of InUse: the guard is missing.
InUseNever(v) == FALSE

InUse(v) == \E r \in Rules : row[r].on = "on" /\ row[r].check = v

DeleteValidator(e, v) ==
    /\ row[v].on # "absent" /\ ~InUse(v)
    /\ FlushValidator(e, v, Absent)

-----------------------------------------------------------------------------
(* The end of an edit *)

\* History only: what a commit that stamped `at` in the rule table does to loads under way
\* and to caches.
NoteCommit(at) ==
    /\ reader' = [p \in Procs |-> [reader[p] EXCEPT !.torn = reader[p].pc = "probed"]]
    /\ cache'  = [p \in Procs |-> [cache[p] EXCEPT
                      !.late = @ \/ (cache[p].filled /\ 0 < at /\ at < Newest(row))]]

Commit(e) ==
    LET i == edit[e].target IN
    /\ edit[e].pc = "flushed"
    /\ row' = [row EXCEPT ![i] = edit[e].new]
    /\ edit' = [edit EXCEPT ![e] = Idle]
    /\ IF i \in Rules THEN NoteCommit(edit[e].new.at) /\ UNCHANGED since
                      ELSE since' = since \cup {i} /\ UNCHANGED <<reader, cache>>
    /\ UNCHANGED <<clock, registry, unclean>>

\* The connection is lost: session_scope rolls back, and nothing undoes the refresh.
CommitFails(e) ==
    /\ edit[e].pc = "flushed"
    /\ edit' = [edit EXCEPT ![e] = Idle]
    /\ unclean' = TRUE
    /\ UNCHANGED <<row, clock, cache, reader, registry, since>>

-----------------------------------------------------------------------------
(* Restarts *)

Missing == {r \in Shipped : row[r].on = "absent"}

\* seed_from_yaml brings a shipped rule back that an operator deleted.
Seeded == [i \in Items |-> IF i \in Missing THEN [Absent EXCEPT !.on = "on", !.at = clock + 1]
                                            ELSE row[i]]

Startup(p) == [registry EXCEPT ![p] = Enabled(row)]

\* Edits in progress are lost with the API, and were never committed.
ApiRestart ==
    /\ Missing = {} \/ clock < MaxClock
    /\ row' = Seeded
    /\ clock' = IF Missing = {} THEN clock ELSE clock + 1
    /\ edit' = [e \in Editors |-> Idle]
    /\ cache' = [cache EXCEPT !["api"] = Nothing]
    /\ reader' = [api |-> Resting,
                  worker |-> [reader["worker"] EXCEPT
                                !.torn = @ \/ (reader["worker"].pc = "probed" /\ Missing # {})]]
    /\ registry' = Startup("api")
    /\ UNCHANGED <<since, unclean>>

WorkerRestart ==
    /\ cache' = [cache EXCEPT !["worker"] = Nothing]
    /\ reader' = [reader EXCEPT !["worker"] = Resting]
    /\ registry' = Startup("worker")
    /\ since' = {}
    /\ UNCHANGED <<row, edit, clock, unclean>>

Next ==
    \/ \E p \in Procs : Probe(p) \/ ReadRows(p)
    \/ Reload \/ ApiRestart \/ WorkerRestart
    \/ \E e \in Editors, r \in Rules, on \in {"on", "off"} :
          \/ \E c \in Validators \cup {None} : CreateRule(e, r, on, c) \/ UpdateRule(e, r, on, c)
          \/ SetEnabled(e, r, on)
    \/ \E e \in Editors, r \in Rules : DeleteRule(e, r)
    \/ \E e \in Editors, v \in Validators :
          CreateValidator(e, v) \/ DeleteValidator(e, v)
    \/ \E e \in Editors, v \in Validators, on \in {"on", "off"} : UpdateValidator(e, v, on)
    \/ \E e \in Editors : Commit(e) \/ CommitFails(e)

Spec == Init /\ [][Next]_vars

-----------------------------------------------------------------------------
(* Properties *)

TypeOK ==
    /\ row \in [Items -> Row]
    /\ edit \in [Editors -> Edit]
    /\ clock \in 0 .. MaxClock
    /\ cache \in [Procs -> Cache]
    /\ reader \in [Procs -> Reader]
    /\ registry \in [Procs -> SUBSET Validators]
    /\ since \subseteq Validators
    /\ unclean \in BOOLEAN

\* store.py's "an in-process cache would let one of them keep evaluating deleted rules":
\* a cache that its probe takes for current holds the rules in force, unless it was loaded
\* while an edit committed, or edits have committed in another order than they were stamped.
StaleRulesOnlyByRace ==
    \A p \in Procs : cache[p].filled /\ cache[p].version = Probed(row) =>
        cache[p].rules = InForce(row) \/ cache[p].torn \/ cache[p].late

Disabled(v) ==
    \/ row[v].on = "off"
    \/ \E e \in Editors : edit[e].pc = "flushed" /\ edit[e].target = v /\ edit[e].new.on = "off"

\* store.validate's "an unknown validator name must be a save-time rejection, not a runtime
\* surprise on the print path": a rule in force that process p cannot resolve, so that every
\* inspection there fails, was enabled without validation, or names a validator disabled
\* under it, or (in the worker) one edited since the worker started; or edits overlapped, or
\* one failed to commit.
RulesResolve ==
    \A p \in Procs, r \in Rules :
        LET c == row[r].check IN
        row[r].on = "on" /\ c # None /\ c \notin registry[p] =>
            \/ ~row[r].proved \/ Disabled(c) \/ unclean
            \/ p = "worker" /\ c \in since
=============================================================================
