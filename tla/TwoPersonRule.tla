---------------------------- MODULE TwoPersonRule ----------------------------
(***************************************************************************)
(* What the content gate promises, without the requests, threads and       *)
(* transactions that keep the promise: a grant is asked for by one person, *)
(* approved by another, and only then opens the document, for the former.  *)
(***************************************************************************)
CONSTANTS People, Grants, Nobody

VARIABLES holder,    \* holder[g]: who asked for grant g
          approver,  \* approver[g]: who last approved it
          opened     \* <<g, p>>: p has been handed content under grant g

gateVars == <<holder, approver, opened>>

Init ==
    /\ holder = [g \in Grants |-> Nobody]
    /\ approver = [g \in Grants |-> Nobody]
    /\ opened = {}

Ask(g, p) ==
    /\ holder[g] = Nobody
    /\ holder' = [holder EXCEPT ![g] = p]
    /\ UNCHANGED <<approver, opened>>

\* Two approvers may both decide; the later one is remembered.
Approve(g, p) ==
    /\ holder[g] # Nobody /\ holder[g] # p
    /\ approver' = [approver EXCEPT ![g] = p]
    /\ UNCHANGED <<holder, opened>>

Open(g, p) ==
    /\ holder[g] = p /\ approver[g] # Nobody
    /\ opened' = opened \cup {<<g, p>>}
    /\ UNCHANGED <<holder, approver>>

Next ==
    \/ \E g \in Grants, p \in People : Ask(g, p) \/ Approve(g, p) \/ Open(g, p)

Spec == Init /\ [][Next]_gateVars
=============================================================================
