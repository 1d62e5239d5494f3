------------------------------ MODULE PoolSpec ------------------------------
(***************************************************************************)
(* What a pool promises to the requests that select a target: a request is *)
(* given, in one step, a target that was offered at some moment since it   *)
(* asked, and is refused only while none is offered; the load of a target  *)
(* is the number of counted requests it is serving, a plain number.        *)
(***************************************************************************)
EXTENDS Integers

CONSTANTS Targets, Requests, Nothing

VARIABLES
    offered, \* targets that are offered
    load,    \* counted requests each target is serving
    state,   \* where each request is
    counted, \* it counts while it is served
    choices, \* what was offered since it asked
    server   \* the target serving it

vars == <<offered, load, state, counted, choices, server>>

Init ==
    /\ offered = Targets
    /\ load = [i \in Targets |-> 0]
    /\ state = [r \in Requests |-> "idle"]
    /\ counted = [r \in Requests |-> FALSE]
    /\ choices = [r \in Requests |-> {}]
    /\ server = [r \in Requests |-> Nothing]

Ask(r) ==
    /\ state[r] = "idle"
    /\ state' = [state EXCEPT ![r] = "asking"]
    /\ \E b \in BOOLEAN : counted' = [counted EXCEPT ![r] = b]
    /\ choices' = [choices EXCEPT ![r] = offered]
    /\ UNCHANGED <<offered, load, server>>

Give(r, i) ==
    /\ state[r] = "asking" /\ i \in choices[r]
    /\ state' = [state EXCEPT ![r] = "served"]
    /\ server' = [server EXCEPT ![r] = i]
    /\ load' = IF counted[r] THEN [load EXCEPT ![i] = @ + 1] ELSE load
    /\ UNCHANGED <<offered, counted, choices>>

Refuse(r) ==
    /\ state[r] = "asking" /\ offered = {}
    /\ state' = [state EXCEPT ![r] = "refused"]
    /\ UNCHANGED <<offered, load, counted, choices, server>>

\* The selection breaks down; only counted requests meet that.
Break(r) ==
    /\ state[r] = "asking" /\ counted[r]
    /\ state' = [state EXCEPT ![r] = "broken"]
    /\ UNCHANGED <<offered, load, counted, choices, server>>

Leave(r) ==
    /\ state[r] \in {"served", "refused", "broken"}
    /\ state' = [state EXCEPT ![r] = "idle"]
    /\ counted' = [counted EXCEPT ![r] = FALSE]
    /\ choices' = [choices EXCEPT ![r] = {}]
    /\ server' = [server EXCEPT ![r] = Nothing]
    /\ load' = IF state[r] = "served" /\ counted[r]
               THEN [load EXCEPT ![server[r]] = @ - 1] ELSE load
    /\ UNCHANGED offered

\* A health check takes one target out or puts one back.
Offer(i) ==
    /\ offered' \in {offered \union {i}, offered \ {i}}
    /\ choices' = [r \in Requests |->
                     IF state[r] = "asking" THEN choices[r] \union offered' ELSE choices[r]]
    /\ UNCHANGED <<load, state, counted, server>>

Next ==
    \/ \E r \in Requests : Ask(r) \/ Refuse(r) \/ Break(r) \/ Leave(r)
    \/ \E r \in Requests, i \in Targets : Give(r, i)
    \/ \E i \in Targets : Offer(i)

Spec == Init /\ [][Next]_vars
=============================================================================
