---------------------------- MODULE ConfigStore -----------------------------
(***************************************************************************)
(* What the admin service promises: a store of namespace configs on which  *)
(* operations take effect one at a time and at once, or not at all, and    *)
(* which never holds a config that does not load.  If the disk refuses a   *)
(* rollback the store is faulty: it keeps its content, and the operation   *)
(* or the start that heals it may bring any content that loads.            *)
(***************************************************************************)
EXTENDS ConfigData

VARIABLES
    store, \* the configuration the proxy applies
    faulty \* the disk refused a rollback, and nothing was applied since

Init == store \in [Namespaces -> {Absent, EmptyConfig}] /\ faulty = FALSE

Commit(op) ==
    /\ ~faulty
    /\ Permitted(op, store[op.ns]) /\ Loads(Result(op, store[op.ns]))
    /\ store' = [store EXCEPT ![op.ns] = Result(op, @)]
    /\ UNCHANGED faulty

DiskRefuses == faulty' = TRUE /\ UNCHANGED store

Heal ==
    /\ faulty /\ faulty' = FALSE
    /\ store' \in [Namespaces -> {content \in Config \union {Absent} : Loads(content)}]

Next == (\E op \in Ops : Commit(op)) \/ DiskRefuses \/ Heal

Spec == Init /\ [][Next]_<<store, faulty>>
=============================================================================
