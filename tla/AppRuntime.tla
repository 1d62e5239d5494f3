----------------------------- MODULE AppRuntime -----------------------------
(***************************************************************************)
(* The life of the process: internal/app/{app,reload,server}.go, the       *)
(* snapshot holder internal/runtime/state.go, and how requests and health  *)
(* checkers live across generations of the snapshot.                       *)
(*                                                                         *)
(* Every successful buildSnapshot makes a new generation: a new registry,  *)
(* whose pools start with all targets healthy and counters at zero, and,   *)
(* once started, a checker goroutine of its own.  The pool of a generation *)
(* is abstracted to one health-checked pool with one target (Pool models a *)
(* pool in full); reloads come from the admin service, which serialises    *)
(* them with its own mutex adminMu around write, reload and rollback.      *)
(***************************************************************************)
EXTENDS Integers, FiniteSets

CONSTANTS
    Requests,       \* proxied requests that may be alive together
    Reloaders,      \* admin calls that may be alive together
    Nobody,         \* holder of a free service.mu
    MaxGen,         \* bound: snapshots built after the first one
    BackendMayFail  \* the backend may go down and come back

Gens == 0 .. MaxGen

ASSUME MaxGenAssumption == MaxGen \in Nat
ASSUME BackendAssumption == BackendMayFail \in BOOLEAN
ASSUME RequestsAssumption == IsFiniteSet(Requests)

ASSUME NobodyAssumption == Nobody \notin Reloaders

None == -1

VARIABLES
    snapshot,     \* generation held by runtime.State
    built,        \* generations built so far, less one
    adminMu,      \* the admin call that holds service.mu, or Nobody
    reloadPc,     \* where admin call c is
    mine,         \* the generation c has built
    runPc,        \* where Run is
    signalled,    \* ctx of Run is done: SIGINT or SIGTERM came
    runCtx,       \* a.runCtx # nil
    healthCancel, \* generation whose context a.healthCancel cancels, or None
    checkerOf,    \* generation of a.healthChecker
    cancelledGens,\* generations whose health context was cancelled
    checkerPc,    \* the goroutine of runPoolCheck of a generation
    healthy,      \* the pool of a generation lists its target as healthy
    active,       \* the least-connection counter of that target
    up,           \* the backend answers probes
    wentDown,     \* history: the backend has been down
    pc,           \* where request r is
    gen           \* the generation whose snapshot r read

adminVars   == <<adminMu, reloadPc, mine, built>>
checkerVars == <<checkerPc, healthy>>
lifeVars    == <<runPc, signalled, runCtx, healthCancel, checkerOf, cancelledGens>>
requestVars == <<pc, gen, active>>
envVars     == <<up, wentDown>>
vars == <<snapshot, adminVars, lifeVars, checkerVars, envVars, requestVars>>

\* Mutant of Done: a new health context is a child of the cancelled one.
DoneByAnyCancel(g) == signalled \/ cancelledGens # {}

\* A health context is done when it was cancelled or its parent, Run's, is.
Done(g) == signalled \/ g \in cancelledGens

\* A goroutine of Checker.Start that has not returned.
Running(g) == checkerPc[g] \in {"probe", "setHealthy", "setUnhealthy", "wait"}

\* One that still follows the backend.
Live(g) == Running(g) /\ ~Done(g)

\* main: New builds generation 0 and its checker; Run has not been called.
Init ==
    /\ snapshot = 0 /\ built = 0
    /\ adminMu = Nobody
    /\ reloadPc = [c \in Reloaders |-> "idle"]
    /\ mine = [c \in Reloaders |-> None]
    /\ runPc = "new" /\ signalled = FALSE
    /\ runCtx = FALSE /\ healthCancel = None /\ checkerOf = 0
    /\ cancelledGens = {}
    /\ checkerPc = [g \in Gens |-> "none"]
    /\ healthy = [g \in Gens |-> TRUE]
    /\ active = [g \in Gens |-> 0]
    /\ up = TRUE /\ wentDown = FALSE
    /\ pc = [r \in Requests |-> "idle"]
    /\ gen = [r \in Requests |-> None]

(***************************************************************************)
(* Run and shutdown                                                        *)
(***************************************************************************)

\* startHealthChecker under a.mu, then the two servers listen.
StartHealthChecker ==
    /\ runPc = "new" /\ healthCancel = None
    /\ runPc' = "running"
    /\ runCtx' = TRUE
    /\ healthCancel' = checkerOf
    /\ checkerPc' = [checkerPc EXCEPT ![checkerOf] = "probe"]
    /\ UNCHANGED <<snapshot, adminVars, signalled, checkerOf, cancelledGens, healthy,
                   envVars, requestVars>>

\* signal.NotifyContext cancels Run's context, and every health context with it;
\* it may come while Run already drains because a server failed.
Signal ==
    /\ runPc # "stopped" /\ ~signalled
    /\ signalled' = TRUE
    /\ UNCHANGED <<snapshot, adminVars, runPc, runCtx, healthCancel, checkerOf,
                   cancelledGens, checkerVars, envVars, requestVars>>

\* Run wakes up, by its context or because a server failed, and shuts down.
BeginShutdown(serverFailed) ==
    /\ runPc = "running" /\ (signalled \/ serverFailed)
    /\ runPc' = "draining"
    /\ UNCHANGED <<snapshot, adminVars, signalled, runCtx, healthCancel, checkerOf,
                   cancelledGens, checkerVars, envVars, requestVars>>

\* Mutant of StopHealthChecker: a.runCtx is kept.
StopKeepsRunCtx ==
    /\ runPc = "draining"
    /\ runPc' = "stopped"
    /\ cancelledGens' = cancelledGens \union ({healthCancel} \ {None})
    /\ healthCancel' = None
    /\ UNCHANGED <<snapshot, adminVars, signalled, runCtx, checkerOf, checkerVars,
                   envVars, requestVars>>

\* Both servers are down, or five seconds have passed with calls in flight:
\* the deferred stopHealthChecker runs under a.mu.
StopHealthChecker ==
    /\ runPc = "draining"
    /\ runPc' = "stopped"
    /\ cancelledGens' = cancelledGens \union ({healthCancel} \ {None})
    /\ healthCancel' = None
    /\ runCtx' = FALSE
    /\ UNCHANGED <<snapshot, adminVars, signalled, checkerOf, checkerVars, envVars,
                   requestVars>>

(***************************************************************************)
(* An admin call: service.mu is held from BeginCall to EndCall             *)
(***************************************************************************)

\* Mutant of BeginCall: service.mu is not asked for.
BeginCallUnlocked(c) ==
    /\ runPc \in {"running", "draining"} /\ reloadPc[c] = "idle"
    /\ adminMu' = c
    /\ reloadPc' = [reloadPc EXCEPT ![c] = "build"]
    /\ UNCHANGED <<snapshot, mine, built, lifeVars, checkerVars, envVars, requestVars>>

BeginCall(c) ==
    /\ runPc \in {"running", "draining"}
    /\ reloadPc[c] = "idle" /\ adminMu = Nobody
    /\ adminMu' = c
    /\ reloadPc' = [reloadPc EXCEPT ![c] = "build"]
    /\ UNCHANGED <<snapshot, mine, built, lifeVars, checkerVars, envVars, requestVars>>

\* Reload: validation, the listen addresses or buildSnapshot fail.
BuildFails(c) ==
    /\ reloadPc[c] = "build"
    /\ reloadPc' = [reloadPc EXCEPT ![c] = "end"]
    /\ UNCHANGED <<snapshot, adminMu, mine, built, lifeVars, checkerVars, envVars,
                   requestVars>>

\* Reload: buildSnapshot returns a new generation.
BuildSnapshot(c) ==
    /\ reloadPc[c] = "build" /\ built < MaxGen
    /\ built' = built + 1
    /\ mine' = [mine EXCEPT ![c] = built + 1]
    /\ reloadPc' = [reloadPc EXCEPT ![c] = "swap"]
    /\ UNCHANGED <<snapshot, adminMu, lifeVars, checkerVars, envVars, requestVars>>

\* Mutant of Swap: the snapshot is forgotten.
SwapForgets(c) ==
    /\ reloadPc[c] = "swap"
    /\ snapshot' = mine[c]
    /\ mine' = [mine EXCEPT ![c] = None]
    /\ reloadPc' = [reloadPc EXCEPT ![c] = "swapChecker"]
    /\ UNCHANGED <<adminMu, built, lifeVars, checkerVars, envVars, requestVars>>

\* a.state.Swap(snapshot): requests see the new generation from here on ...
Swap(c) ==
    /\ reloadPc[c] = "swap"
    /\ snapshot' = mine[c]
    /\ reloadPc' = [reloadPc EXCEPT ![c] = "swapChecker"]
    /\ UNCHANGED <<adminMu, mine, built, lifeVars, checkerVars, envVars, requestVars>>

\* Mutant of SwapHealthChecker: the old checker is not cancelled.
SwapWithoutCancel(c) ==
    /\ reloadPc[c] = "swapChecker"
    /\ checkerOf' = mine[c]
    /\ IF runCtx
       THEN /\ healthCancel' = mine[c]
            /\ checkerPc' = [checkerPc EXCEPT ![mine[c]] = "probe"]
       ELSE UNCHANGED <<healthCancel, checkerPc>>
    /\ reloadPc' = [reloadPc EXCEPT ![c] = "end"]
    /\ UNCHANGED <<snapshot, adminMu, mine, built, runPc, signalled, runCtx,
                   cancelledGens, healthy, envVars, requestVars>>

\* ... a.swapHealthChecker(snapshot.Upstreams), under a.mu: the old context is
\* cancelled, the new checker is started if Run is still there.
SwapHealthChecker(c) ==
    /\ reloadPc[c] = "swapChecker"
    /\ cancelledGens' = cancelledGens \union ({healthCancel} \ {None})
    /\ checkerOf' = mine[c]
    /\ IF runCtx
       THEN /\ healthCancel' = mine[c]
            /\ checkerPc' = [checkerPc EXCEPT ![mine[c]] = "probe"]
       ELSE /\ healthCancel' = None
            /\ UNCHANGED checkerPc
    /\ reloadPc' = [reloadPc EXCEPT ![c] = "end"]
    /\ UNCHANGED <<snapshot, adminMu, mine, built, runPc, signalled, runCtx, healthy,
                   envVars, requestVars>>

EndCall(c) ==
    /\ reloadPc[c] = "end"
    /\ adminMu' = Nobody
    /\ mine' = [mine EXCEPT ![c] = None]
    /\ reloadPc' = [reloadPc EXCEPT ![c] = "idle"]
    /\ UNCHANGED <<snapshot, built, lifeVars, checkerVars, envVars, requestVars>>

(***************************************************************************)
(* Checkers and the backend                                                *)
(***************************************************************************)

\* client.Do returns for generation g: a probe on a done context fails by itself.
\* checkerPc holds what is about to be set.
CheckTarget(g) ==
    /\ checkerPc[g] = "probe"
    /\ checkerPc' = [checkerPc EXCEPT ![g] = IF up /\ ~Done(g) THEN "setHealthy"
                                                             ELSE "setUnhealthy"]
    /\ UNCHANGED <<snapshot, adminVars, lifeVars, healthy, envVars, requestVars>>

\* SetTargetHealthy or SetTargetUnhealthy, whatever became of the context or of the
\* backend since the answer.
SetTargetState(g) ==
    /\ checkerPc[g] \in {"setHealthy", "setUnhealthy"}
    /\ healthy' = [healthy EXCEPT ![g] = (checkerPc[g] = "setHealthy")]
    /\ checkerPc' = [checkerPc EXCEPT ![g] = "wait"]
    /\ UNCHANGED <<snapshot, adminVars, lifeVars, envVars, requestVars>>

\* select: the ticker fired (which may win although the context is done) ...
Tick(g) ==
    /\ checkerPc[g] = "wait"
    /\ checkerPc' = [checkerPc EXCEPT ![g] = "probe"]
    /\ UNCHANGED <<snapshot, adminVars, lifeVars, healthy, envVars, requestVars>>

\* Mutant of StopChecker: the goroutine watches Run's context.
StopCheckerWithRun(g) ==
    /\ checkerPc[g] = "wait" /\ signalled
    /\ checkerPc' = [checkerPc EXCEPT ![g] = "done"]
    /\ UNCHANGED <<snapshot, adminVars, lifeVars, healthy, envVars, requestVars>>

\* ... or the context is done.
StopChecker(g) ==
    /\ checkerPc[g] = "wait" /\ Done(g)
    /\ checkerPc' = [checkerPc EXCEPT ![g] = "done"]
    /\ UNCHANGED <<snapshot, adminVars, lifeVars, healthy, envVars, requestVars>>

BackendChanges ==
    /\ BackendMayFail
    /\ up' = ~up
    /\ wentDown' = (wentDown \/ up)
    /\ UNCHANGED <<snapshot, adminVars, lifeVars, checkerVars, requestVars>>

(***************************************************************************)
(* A proxied request on a least-connection route                           *)
(***************************************************************************)

\* resolveRequest: one read of the snapshot gives the route and the pool.
\* Connections accepted before the shutdown are still served while it drains.
Resolve(r) ==
    /\ runPc \in {"running", "draining"} /\ pc[r] = "idle"
    /\ gen' = [gen EXCEPT ![r] = snapshot]
    /\ pc' = [pc EXCEPT ![r] = "resolved"]
    /\ UNCHANGED <<snapshot, adminVars, lifeVars, checkerVars, envVars, active>>

\* Mutant of SelectTarget: the health is asked of the pool of the current snapshot.
SelectOnCurrent(r) ==
    /\ pc[r] = "resolved"
    /\ IF healthy[snapshot]
       THEN /\ pc' = [pc EXCEPT ![r] = "serving"]
            /\ active' = [active EXCEPT ![gen[r]] = @ + 1]
       ELSE /\ pc' = [pc EXCEPT ![r] = "rejected"]
            /\ UNCHANGED active
    /\ UNCHANGED <<snapshot, adminVars, lifeVars, checkerVars, envVars, gen>>

\* selectTarget on the pool of the generation r resolved, however old by now.
SelectTarget(r) ==
    /\ pc[r] = "resolved"
    /\ IF healthy[gen[r]]
       THEN /\ pc' = [pc EXCEPT ![r] = "serving"]
            /\ active' = [active EXCEPT ![gen[r]] = @ + 1]
       ELSE /\ pc' = [pc EXCEPT ![r] = "rejected"]
            /\ UNCHANGED active
    /\ UNCHANGED <<snapshot, adminVars, lifeVars, checkerVars, envVars, gen>>

\* Mutant of Finish: release() counts down in the pool of the current snapshot.
FinishOnCurrent(r) ==
    /\ pc[r] \in {"serving", "rejected"}
    /\ active' = IF pc[r] = "serving" THEN [active EXCEPT ![snapshot] = @ - 1] ELSE active
    /\ pc' = [pc EXCEPT ![r] = "idle"]
    /\ gen' = [gen EXCEPT ![r] = None]
    /\ UNCHANGED <<snapshot, adminVars, lifeVars, checkerVars, envVars>>

\* The response is over: release() counts down where it counted up.
Finish(r) ==
    /\ pc[r] \in {"serving", "rejected"}
    /\ active' = IF pc[r] = "serving" THEN [active EXCEPT ![gen[r]] = @ - 1] ELSE active
    /\ pc' = [pc EXCEPT ![r] = "idle"]
    /\ gen' = [gen EXCEPT ![r] = None]
    /\ UNCHANGED <<snapshot, adminVars, lifeVars, checkerVars, envVars>>

AdminCall(c) ==
    \/ BeginCall(c) \/ BuildFails(c) \/ BuildSnapshot(c)
    \/ Swap(c) \/ SwapHealthChecker(c) \/ EndCall(c)

Checker(g) == CheckTarget(g) \/ SetTargetState(g) \/ Tick(g)

Request(r) == Resolve(r) \/ SelectTarget(r) \/ Finish(r)

Next ==
    \/ StartHealthChecker \/ Signal \/ StopHealthChecker
    \/ \E serverFailed \in BOOLEAN : BeginShutdown(serverFailed)
    \/ \E c \in Reloaders : AdminCall(c)
    \/ \E g \in Gens : Checker(g) \/ StopChecker(g)
    \/ BackendChanges
    \/ \E r \in Requests : Request(r)

Spec == Init /\ [][Next]_vars

\* Goroutines that can run do; a select does not pick the ticker for ever.
Fairness ==
    /\ \A c \in Reloaders :
         WF_vars(BuildFails(c) \/ BuildSnapshot(c) \/ Swap(c) \/ SwapHealthChecker(c)
                   \/ EndCall(c))
    /\ \A g \in Gens : WF_vars(Checker(g)) /\ SF_vars(StopChecker(g))

FairSpec == Spec /\ Fairness

(***************************************************************************)
(* Properties                                                              *)
(***************************************************************************)

\* Every variable holds a value the program can give it.
TypeOK ==
    /\ snapshot \in Gens /\ built \in Gens
    /\ adminMu \in Reloaders \union {Nobody}
    /\ reloadPc \in [Reloaders -> {"idle", "build", "swap", "swapChecker", "end"}]
    /\ mine \in [Reloaders -> Gens \union {None}]
    /\ runPc \in {"new", "running", "draining", "stopped"}
    /\ signalled \in BOOLEAN /\ runCtx \in BOOLEAN
    /\ healthCancel \in Gens \union {None} /\ checkerOf \in Gens
    /\ cancelledGens \in SUBSET Gens
    /\ checkerPc \in [Gens -> {"none", "probe", "setHealthy", "setUnhealthy", "wait", "done"}]
    /\ healthy \in [Gens -> BOOLEAN]
    /\ active \in [Gens -> Int]
    /\ up \in BOOLEAN /\ wentDown \in BOOLEAN
    /\ pc \in [Requests -> {"idle", "resolved", "serving", "rejected"}]
    /\ gen \in [Requests -> Gens \union {None}]

\* Reloads, the start and the stop race for one checker: never are two
\* generations probed by goroutines that nobody has cancelled.
OneLiveChecker == \A g, h \in Gens : Live(g) /\ Live(h) => g = h

\* Between admin calls the checker that is alive is the one of the snapshot
\* that requests use, and it is alive as long as Run is.
CheckerFollowsSnapshot ==
    (adminMu = Nobody /\ runPc = "running" /\ ~signalled) => Live(snapshot)

\* No reload overtakes another: between admin calls the snapshot in use is the
\* last one that was built, never an older one that was swapped in late.
SnapshotIsNewest == adminMu = Nobody => snapshot = built

\* A reload is one change, although it makes two, under two locks: whenever no call
\* is being made, what requests use is the last configuration built, and what is
\* probed is what requests use (Reload).
ReloadIsOneChange == SnapshotIsNewest /\ CheckerFollowsSnapshot

\* After stopHealthChecker no checker follows the backends any more, even if
\* a reload was still on its way when the shutdown gave up waiting for it.
NoCheckerOutlivesRun == runPc = "stopped" => \A g \in Gens : ~Live(g)

\* A cancelled context makes its probes fail, but not on the snapshot in use:
\* Reload publishes the new snapshot before it cancels the old checker, so that
\* outside a shutdown only a backend that failed makes new requests fail.
CurrentPoolNotPoisoned ==
    ~healthy[snapshot] => wentDown \/ signalled \/ runPc = "stopped"

\* Reloads swap pools under requests that have not ended: the counter of every
\* generation still counts exactly the requests being served on that generation,
\* so an old pool drains to zero and a new one starts at zero and never goes
\* below (upstream/compile.go starts new counters with every registry).
CountsPerGeneration ==
    \A g \in Gens :
        active[g] = Cardinality({q \in Requests : pc[q] = "serving" /\ gen[q] = g})

\* A superseded checker goroutine ends: reloads do not pile goroutines up.
SupersededCheckerStops ==
    \A g \in Gens : Running(g) /\ Done(g) ~> ~Running(g)

\* However many reloads replace the pool: while the process runs, a backend that
\* stays up ends up in the pool of the snapshot in use and stays there.
CurrentPoolRecovers ==
    <>[](up /\ runPc = "running" /\ ~signalled) => <>[]healthy[snapshot]
=============================================================================
