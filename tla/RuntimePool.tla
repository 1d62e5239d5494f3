---------------------------- MODULE RuntimePool ----------------------------
(***************************************************************************)
(* AppRuntime with a look at the pool of one generation, any one of them.  *)
(* To the requests that resolved it, it is a pool of PoolSpec from the     *)
(* start of the process to its end, whatever is built, swapped, cancelled  *)
(* or stopped meanwhile.  Pool shows the same of one pool in full.         *)
(***************************************************************************)
EXTENDS AppRuntime

CONSTANT Observed \* the generation whose pool is looked at

ASSUME ObservedAssumption == Observed \in Gens

VARIABLE offeredTo \* history: that pool listed its target since r resolved it

RuntimeInit ==
    /\ Init
    /\ offeredTo = [r \in Requests |-> FALSE]

RuntimeNext ==
    /\ Next
    /\ offeredTo' = [r \in Requests |->
                       /\ gen'[r] = Observed
                       /\ offeredTo[r] \/ (pc'[r] = "resolved" /\ healthy'[Observed])]

RuntimeSpec == RuntimeInit /\ [][RuntimeNext]_<<vars, offeredTo>>

\* Where a request is for a pool it resolved; for the others it is idle.
StateOf(p) ==
    CASE p = "idle" -> "idle" [] p = "resolved" -> "asking"
      [] p = "serving" -> "served" [] p = "rejected" -> "refused"

On(r) == gen[r] = Observed

Abstract == INSTANCE PoolSpec WITH
    Targets <- {Observed}, Nothing <- None,
    offered <- IF healthy[Observed] THEN {Observed} ELSE {},
    load <- [i \in {Observed} |-> active[i]],
    state <- [r \in Requests |-> IF On(r) THEN StateOf(pc[r]) ELSE "idle"],
    counted <- [r \in Requests |-> On(r)],
    choices <- [r \in Requests |-> IF offeredTo[r] THEN {Observed} ELSE {}],
    server <- [r \in Requests |-> IF On(r) /\ pc[r] = "serving" THEN Observed ELSE None]

\* A request selects, counts and releases on the pool it resolved and on no other,
\* however many reloads replace that pool meanwhile; and neither a reload nor the
\* cancelled checker nor a shutdown does anything to a pool but take its target out.
ImplementsPool == Abstract!Spec
=============================================================================
