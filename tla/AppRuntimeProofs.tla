-------------------------- MODULE AppRuntimeProofs --------------------------
(***************************************************************************)
(* Proofs about AppRuntime, for any number of requests, of admin calls and *)
(* of generations.                                                         *)
(***************************************************************************)
EXTENDS RuntimePool, FiniteSetTheorems, TLAPS

\* A generation whose checker has not been started.
Fresh(g) == checkerPc[g] = "none" /\ healthy[g] /\ g \notin cancelledGens

\* service.mu: only its holder is inside an admin call.
LockInv ==
    \A c \in Reloaders : reloadPc[c] # "idle" <=> adminMu = c

\* What was built, what is in use and whose checker the App holds.
GenInv ==
    /\ checkerOf <= built
    /\ \A g \in Gens : g > built => Fresh(g)
    /\ \A c \in Reloaders :
         reloadPc[c] \in {"swap", "swapChecker"} =>
            mine[c] = built /\ Fresh(built) /\ checkerOf < built
    /\ (\A c \in Reloaders : reloadPc[c] # "swap") => snapshot = built
    /\ \A c \in Reloaders : reloadPc[c] = "swap" => snapshot = checkerOf
    /\ (\A c \in Reloaders : reloadPc[c] # "swapChecker") => checkerOf = snapshot

\* The context the App can cancel is the one of the checker it started last.
CheckerInv ==
    /\ runCtx <=> runPc \in {"running", "draining"}
    /\ healthCancel = IF runCtx THEN checkerOf ELSE None
    /\ \A g \in Gens : Running(g) /\ g \notin cancelledGens => healthCancel = g
    /\ runCtx => checkerOf \notin cancelledGens /\ (Running(checkerOf) \/ signalled)
    /\ runPc = "new" => /\ adminMu = Nobody
                        /\ \A g \in Gens : Fresh(g)

\* Why a pool may have lost its target, or is about to.
PoisonInv ==
    /\ ~up => wentDown
    /\ \A g \in Gens : ~healthy[g] \/ checkerPc[g] = "setUnhealthy" => wentDown \/ signalled \/ g \in cancelledGens
    /\ snapshot \in cancelledGens => runPc = "stopped"

IInv == TypeOK /\ LockInv /\ GenInv /\ CheckerInv /\ PoisonInv

LEMMA InitIInv == Init => IInv
<1> SUFFICES ASSUME Init PROVE IInv
  OBVIOUS
<1>1. TypeOK
  <2>1. 0 \in Gens
    BY MaxGenAssumption DEF Gens
  <2>2. cancelledGens \in SUBSET Gens /\ snapshot \in Gens /\ built \in Gens /\ checkerOf \in Gens
    BY <2>1 DEF Init
  <2>3. /\ active \in [Gens -> Int] /\ healthy \in [Gens -> BOOLEAN]
        /\ checkerPc \in [Gens -> {"none", "probe", "setHealthy", "setUnhealthy", "wait", "done"}]
    BY DEF Init
  <2>4. /\ mine \in [Reloaders -> Gens \union {None}] /\ gen \in [Requests -> Gens \union {None}]
        /\ healthCancel \in Gens \union {None}
    BY DEF Init
  <2> QED BY <2>2, <2>3, <2>4 DEF Init, TypeOK
<1>2. LockInv /\ CheckerInv /\ PoisonInv
  BY NobodyAssumption DEF Init, LockInv, CheckerInv, PoisonInv, Fresh, Running, Gens, None
<1>3. GenInv
  BY DEF Init, GenInv, Fresh
<1> QED BY <1>1, <1>2, <1>3 DEF IInv

\* Only the holder of service.mu is past BeginCall.
LEMMA OneCall ==
    ASSUME LockInv, TypeOK, NEW c \in Reloaders, reloadPc[c] # "idle"
    PROVE  \A d \in Reloaders \ {c} : reloadPc[d] = "idle"
BY DEF LockInv

\* A request keeps the types of what it writes.
LEMMA RequestType ==
    ASSUME TypeOK, NEW r \in Requests, Request(r)
    PROVE  /\ active' \in [Gens -> Int] /\ gen' \in [Requests -> Gens \union {None}]
           /\ pc' \in [Requests -> {"idle", "resolved", "serving", "rejected"}]
<1>1. \A g \in Gens : active[g] + 1 \in Int /\ active[g] - 1 \in Int
  BY DEF TypeOK
<1>2. CASE Resolve(r)
  BY <1>2 DEF Resolve, TypeOK
<1>3. CASE SelectTarget(r)
  BY <1>1, <1>3 DEF SelectTarget, TypeOK
<1>4. CASE Finish(r)
  BY <1>1, <1>4 DEF Finish, TypeOK
<1> QED BY <1>2, <1>3, <1>4 DEF Request

LEMMA NextIInv == ASSUME IInv, [Next]_vars PROVE IInv'
<1> USE NobodyAssumption DEF Fresh, Running, Done, Gens, None, adminVars, lifeVars,
        checkerVars, requestVars, envVars
<1> USE DEF IInv, TypeOK, LockInv, GenInv, CheckerInv, PoisonInv
<1>1. CASE StartHealthChecker
  BY <1>1 DEF StartHealthChecker
<1>2. CASE Signal
  BY <1>2 DEF Signal
<1>3. ASSUME NEW serverFailed \in BOOLEAN, BeginShutdown(serverFailed) PROVE IInv'
  BY <1>3 DEF BeginShutdown
<1>4. CASE StopHealthChecker
  <2>1. /\ cancelledGens' = cancelledGens \union {checkerOf} /\ checkerOf \in Gens
        /\ healthCancel' = None /\ ~runCtx' /\ runPc' = "stopped"
        /\ UNCHANGED <<snapshot, adminVars, signalled, checkerOf, checkerVars, envVars>>
    BY <1>4 DEF StopHealthChecker
  <2>2. (TypeOK /\ LockInv)'
    BY <1>4 DEF StopHealthChecker
  <2>3. GenInv'
    BY <2>1
  <2>4. CheckerInv' /\ PoisonInv'
    BY <2>1, <1>4 DEF StopHealthChecker
  <2> QED BY <2>2, <2>3, <2>4
<1>5. ASSUME NEW c \in Reloaders, AdminCall(c) PROVE IInv'
  <2>1. CASE BeginCall(c)
    BY <2>1 DEF BeginCall
  <2>2. CASE BuildFails(c)
    BY <2>2 DEF BuildFails
  <2>3. CASE BuildSnapshot(c)
    <3>1. \A d \in Reloaders : reloadPc[d] \notin {"swap", "swapChecker"}
      BY <2>3, OneCall DEF BuildSnapshot
    <3>2. snapshot = built /\ checkerOf = built
      BY <3>1
    <3>3. (TypeOK /\ LockInv)' /\ built' = built + 1 /\ mine'[c] = built + 1 /\ built' \in Gens
      BY <2>3, MaxGenAssumption DEF BuildSnapshot
    <3>4. GenInv'
      BY <2>3, <3>1, <3>2, <3>3 DEF BuildSnapshot
    <3>5. CheckerInv' /\ PoisonInv'
      BY <2>3 DEF BuildSnapshot
    <3> QED BY <3>3, <3>4, <3>5
  <2>4. CASE Swap(c)
    BY <2>4 DEF Swap
  <2>5. CASE SwapHealthChecker(c)
    <3>1. /\ \A d \in Reloaders \ {c} : reloadPc[d] = "idle"
          /\ mine[c] = built /\ Fresh(built) /\ checkerOf < built /\ snapshot = built
          /\ built \in Gens /\ reloadPc' = [reloadPc EXCEPT ![c] = "end"]
      BY <2>5, OneCall DEF SwapHealthChecker
    <3>2. (TypeOK /\ LockInv)'
      BY <2>5, <3>1 DEF SwapHealthChecker
    <3>3. /\ cancelledGens' = IF runCtx THEN cancelledGens \union {checkerOf} ELSE cancelledGens
          /\ checkerOf' = built /\ UNCHANGED <<snapshot, built, mine, healthy, signalled, runPc, runCtx>>
          /\ healthCancel' = IF runCtx THEN built ELSE None
          /\ checkerPc' = IF runCtx THEN [checkerPc EXCEPT ![built] = "probe"] ELSE checkerPc
      BY <2>5, <3>1 DEF SwapHealthChecker
    <3>4. GenInv'
      BY <3>1, <3>2, <3>3
    <3>5. CheckerInv'
      BY <2>5, <3>1, <3>3 DEF SwapHealthChecker
    <3>6. PoisonInv'
      BY <2>5, <3>1, <3>3 DEF SwapHealthChecker
    <3> QED BY <3>2, <3>4, <3>5, <3>6
  <2>6. CASE EndCall(c)
    BY <2>6 DEF EndCall
  <2> QED BY <1>5, <2>1, <2>2, <2>3, <2>4, <2>5, <2>6 DEF AdminCall
<1>6. ASSUME NEW g \in Gens, Checker(g) \/ StopChecker(g) PROVE IInv'
  <2>1. Running(g) /\ g <= built
    BY <1>6 DEF Checker, CheckTarget, SetTargetState, Tick, StopChecker
  <2>2. CASE CheckTarget(g)
    BY <2>1, <2>2 DEF CheckTarget
  <2>5. CASE SetTargetState(g)
    BY <2>1, <2>5 DEF SetTargetState
  <2>3. CASE Tick(g)
    BY <2>1, <2>3 DEF Tick
  <2>4. CASE StopChecker(g)
    BY <2>1, <2>4 DEF StopChecker
  <2> QED BY <1>6, <2>2, <2>3, <2>4, <2>5 DEF Checker
<1>7. CASE BackendChanges
  BY <1>7 DEF BackendChanges
<1>8. ASSUME NEW r \in Requests, Request(r) PROVE IInv'
  <2>1. /\ active' \in [Gens -> Int] /\ gen' \in [Requests -> Gens \union {None}]
        /\ pc' \in [Requests -> {"idle", "resolved", "serving", "rejected"}]
    BY <1>8, RequestType
  <2>2. UNCHANGED <<snapshot, adminVars, lifeVars, checkerVars, envVars>>
    BY <1>8 DEF Request, Resolve, SelectTarget, Finish
  <2> QED BY <2>1, <2>2
<1>9. CASE UNCHANGED vars
  BY <1>9 DEF vars
<1> QED BY <1>1, <1>2, <1>3, <1>4, <1>5, <1>6, <1>7, <1>8, <1>9 DEF Next

LEMMA IInvAlways == Spec => []IInv
BY InitIInv, NextIInv, PTL DEF Spec

\* Every variable always holds a value the program can give it.
THEOREM TypeCorrect == Spec => []TypeOK
<1>1. IInv => TypeOK
  BY DEF IInv
<1> QED BY <1>1, IInvAlways, PTL

\* However reloads, the start and the stop interleave, at most one generation
\* has a checker that nobody has cancelled (startHealthChecker, swapHealthChecker).
THEOREM AtMostOneChecker == Spec => []OneLiveChecker
<1>1. IInv => OneLiveChecker
  BY DEF IInv, CheckerInv, OneLiveChecker, Live, Done
<1> QED BY <1>1, IInvAlways, PTL

\* Between admin calls the live checker is the one of the snapshot in use.
THEOREM CheckerIsCurrent == Spec => []CheckerFollowsSnapshot
<1>1. IInv => CheckerFollowsSnapshot
  <2> SUFFICES ASSUME IInv, adminMu = Nobody, runPc = "running", ~signalled
               PROVE  Live(snapshot)
    BY DEF CheckerFollowsSnapshot
  <2>1. checkerOf = snapshot
    BY NobodyAssumption DEF IInv, LockInv, GenInv
  <2> QED BY <2>1 DEF IInv, CheckerInv, Live, Done
<1> QED BY <1>1, IInvAlways, PTL

\* Between admin calls the snapshot in use is the last one built.
THEOREM NoReloadOvertakes == Spec => []SnapshotIsNewest
<1>1. IInv => SnapshotIsNewest
  BY NobodyAssumption DEF IInv, LockInv, GenInv, SnapshotIsNewest
<1> QED BY <1>1, IInvAlways, PTL

\* Between admin calls snapshot and checker are those of the same, last reload.
THEOREM ReloadsAreWhole == Spec => []ReloadIsOneChange
<1>1. SnapshotIsNewest /\ CheckerFollowsSnapshot => ReloadIsOneChange
  BY DEF ReloadIsOneChange
<1> QED BY <1>1, CheckerIsCurrent, NoReloadOvertakes, PTL

\* No checker follows the backends after stopHealthChecker.
THEOREM CheckersEndWithRun == Spec => []NoCheckerOutlivesRun
<1>1. IInv => NoCheckerOutlivesRun
  BY DEF IInv, TypeOK, CheckerInv, NoCheckerOutlivesRun, Live, Done, None, Gens
<1> QED BY <1>1, IInvAlways, PTL

\* A reload never makes the snapshot in use lose a healthy target: Swap comes
\* before the cancellation (Reload).
THEOREM ReloadDoesNotPoison == Spec => []CurrentPoolNotPoisoned
<1>1. IInv => CurrentPoolNotPoisoned
  BY DEF IInv, TypeOK, PoisonInv, CurrentPoolNotPoisoned
<1> QED BY <1>1, IInvAlways, PTL

\* The requests that are being served on a generation.
Serving(g) == {q \in Requests : pc[q] = "serving" /\ gen[q] = g}

\* A request that is on its way carries the generation it resolved.
RequestInv == \A r \in Requests : pc[r] # "idle" => gen[r] \in Gens

CInv == TypeOK /\ RequestInv /\ CountsPerGeneration

LEMMA ServingIsFinite ==
    ASSUME NEW g \in Gens PROVE IsFiniteSet(Serving(g)) /\ Cardinality(Serving(g)) \in Nat
<1>1. Serving(g) \subseteq Requests
  BY DEF Serving
<1> QED BY <1>1, RequestsAssumption, FS_Subset, FS_CardinalityType

\* A request that is admitted joins the set of its generation, one that finishes
\* leaves it; the sets of the other generations stay as they are.
LEMMA SelectCounts ==
    ASSUME CInv, NEW r \in Requests, SelectTarget(r) PROVE CInv'
<1> USE DEF CInv, RequestInv
<1>1. pc[r] = "resolved" /\ gen[r] \in Gens /\ gen' = gen
  BY DEF SelectTarget
<1>2. \A g \in Gens : active[g] = Cardinality(Serving(g))
  BY DEF CountsPerGeneration, Serving
<1>3. TypeOK' /\ RequestInv'
  BY <1>1, RequestType DEF SelectTarget, Request, TypeOK, adminVars, lifeVars, checkerVars,
        envVars
<1>4. ASSUME NEW g \in Gens PROVE active'[g] = Cardinality(Serving(g)')
  <2>1. CASE healthy[gen[r]] /\ g = gen[r]
    <3>1. Serving(g)' = Serving(g) \union {r} /\ r \notin Serving(g)
      BY <1>1, <2>1 DEF Serving, SelectTarget, TypeOK
    <3>2. active'[g] = active[g] + 1
      BY <1>1, <2>1 DEF SelectTarget, TypeOK
    <3>3. Cardinality(Serving(g) \union {r}) = Cardinality(Serving(g)) + 1
      BY <3>1, ServingIsFinite, FS_AddElement
    <3> QED BY <1>2, <3>1, <3>2, <3>3
  <2>2. CASE ~(healthy[gen[r]] /\ g = gen[r])
    <3>1. Serving(g)' = Serving(g)
      BY <1>1, <2>2 DEF Serving, SelectTarget, TypeOK
    <3>2. active'[g] = active[g]
      BY <1>1, <2>2 DEF SelectTarget, TypeOK
    <3> QED BY <1>2, <3>1, <3>2
  <2> QED BY <2>1, <2>2
<1> QED BY <1>3, <1>4 DEF CountsPerGeneration, Serving

LEMMA FinishCounts ==
    ASSUME CInv, NEW r \in Requests, Finish(r) PROVE CInv'
<1> USE DEF CInv, RequestInv
<1>1. gen[r] \in Gens
  BY DEF Finish
<1>2. \A g \in Gens : active[g] = Cardinality(Serving(g))
  BY DEF CountsPerGeneration, Serving
<1>3. TypeOK' /\ RequestInv'
  BY RequestType DEF Finish, Request, TypeOK, adminVars, lifeVars, checkerVars, envVars
<1>4. ASSUME NEW g \in Gens PROVE active'[g] = Cardinality(Serving(g)')
  <2>1. CASE pc[r] = "serving" /\ g = gen[r]
    <3>1. Serving(g)' = Serving(g) \ {r} /\ r \in Serving(g)
      BY <1>1, <2>1 DEF Serving, Finish, TypeOK
    <3>2. active'[g] = active[g] - 1
      BY <1>1, <2>1 DEF Finish, TypeOK
    <3>3. Cardinality(Serving(g) \ {r}) = Cardinality(Serving(g)) - 1
      BY <3>1, ServingIsFinite, FS_RemoveElement
    <3> QED BY <1>2, <3>1, <3>2, <3>3
  <2>2. CASE ~(pc[r] = "serving" /\ g = gen[r])
    <3>1. Serving(g)' = Serving(g)
      BY <1>1, <2>2 DEF Serving, Finish, TypeOK, None, Gens
    <3>2. active'[g] = active[g]
      BY <1>1, <2>2 DEF Finish, TypeOK
    <3> QED BY <1>2, <3>1, <3>2
  <2> QED BY <2>1, <2>2
<1> QED BY <1>3, <1>4 DEF CountsPerGeneration, Serving

\* However many reloads replace the pool, each generation counts the requests that
\* are served on it: release() goes back to the pool acquire() came from.
THEOREM CountersSurviveReload == Spec => []CountsPerGeneration
<1>1. Init => CInv
  <2> SUFFICES ASSUME Init PROVE CInv
    OBVIOUS
  <2>1. TypeOK
    BY InitIInv DEF IInv
  <2>2. RequestInv
    BY DEF Init, RequestInv
  <2>3. ASSUME NEW g \in Gens
        PROVE  active[g] = Cardinality({q \in Requests : pc[q] = "serving" /\ gen[q] = g})
    <3>1. {q \in Requests : pc[q] = "serving" /\ gen[q] = g} = {}
      BY DEF Init
    <3> QED BY <3>1, FS_EmptySet DEF Init
  <2> QED BY <2>1, <2>2, <2>3 DEF CInv, CountsPerGeneration
<1>2. ASSUME CInv, TypeOK', [Next]_vars PROVE CInv'
  <2>1. CASE UNCHANGED requestVars
    BY <1>2, <2>1 DEF CInv, RequestInv, CountsPerGeneration, requestVars
  <2>2. ASSUME NEW r \in Requests, Request(r) PROVE CInv'
    <3>1. CASE Resolve(r)
      <4>1. \A g \in Gens : Serving(g)' = Serving(g)
        BY <1>2, <3>1 DEF Resolve, Serving, CInv, TypeOK
      <4>2. RequestInv'
        BY <1>2, <3>1 DEF Resolve, CInv, TypeOK, RequestInv
      <4> QED BY <1>2, <3>1, <4>1, <4>2 DEF CInv, CountsPerGeneration, Serving, Resolve
    <3> QED BY <1>2, <2>2, <3>1, SelectCounts, FinishCounts DEF Request
  <2>3. UNCHANGED requestVars \/ \E r \in Requests : Request(r)
    BY <1>2 DEF Next, vars, StartHealthChecker, Signal, StopHealthChecker, BeginShutdown,
          AdminCall, BeginCall, BuildFails, BuildSnapshot, Swap, SwapHealthChecker, EndCall,
          Checker, CheckTarget, SetTargetState, Tick, StopChecker, BackendChanges
  <2> QED BY <2>1, <2>2, <2>3
<1>3. CInv => CountsPerGeneration
  BY DEF CInv
<1> QED BY <1>1, <1>2, <1>3, TypeCorrect, PTL DEF Spec

(***************************************************************************)
(* The pool of a generation implements PoolSpec                            *)
(***************************************************************************)

\* Who has resolved the pool that is looked at, and what it was offered since.
OfferInv ==
    /\ offeredTo \in [Requests -> BOOLEAN]
    /\ \A r \in Requests :
         /\ pc[r] = "idle" <=> gen[r] = None
         /\ offeredTo[r] => On(r)
         /\ pc[r] = "resolved" /\ On(r) /\ healthy[Observed] => offeredTo[r]

LEMMA ObservedType == Observed \in Gens /\ None \notin Gens /\ Observed # None
BY ObservedAssumption DEF Gens, None

\* What the refinement mapping shows of a request.
LEMMA Shown ==
    /\ StateOf("idle") = "idle" /\ StateOf("resolved") = "asking"
    /\ StateOf("serving") = "served" /\ StateOf("rejected") = "refused"
BY DEF StateOf

LEMMA InitShown == RuntimeInit => OfferInv /\ Abstract!Init
<1> SUFFICES ASSUME RuntimeInit PROVE OfferInv /\ Abstract!Init
  OBVIOUS
<1>1. \A r \in Requests : ~On(r) /\ ~offeredTo[r] /\ pc[r] = "idle" /\ gen[r] = None
  BY ObservedType DEF RuntimeInit, Init, On
<1>2. healthy[Observed] /\ active[Observed] = 0
  BY ObservedType DEF RuntimeInit, Init
<1>3. OfferInv
  BY <1>1 DEF OfferInv, RuntimeInit
<1>4. Abstract!Init
  BY <1>1, <1>2 DEF Abstract!Init, On
<1> QED BY <1>3, <1>4

\* The steps of the pool that is looked at are those of its checker and of the
\* requests on it.
LEMMA OtherSteps ==
    ASSUME [Next]_vars
    PROVE  \/ \E r \in Requests : Request(r)
           \/ \E g \in Gens : SetTargetState(g)
           \/ UNCHANGED <<healthy, pc, gen, active>>
BY DEF Next, vars, requestVars, checkerVars, StartHealthChecker, Signal, StopHealthChecker,
   BeginShutdown, AdminCall, BeginCall, BuildFails, BuildSnapshot, Swap, SwapHealthChecker,
   EndCall, Checker, CheckTarget, Tick, StopChecker, BackendChanges

LEMMA NextOffer ==
    ASSUME TypeOK, TypeOK', OfferInv, [RuntimeNext]_<<vars, offeredTo>>
    PROVE  OfferInv'
<1> USE DEF OfferInv, On
<1>1. CASE UNCHANGED <<vars, offeredTo>>
  BY <1>1 DEF vars, requestVars, checkerVars
<1>2. CASE RuntimeNext
  <2>1. offeredTo' \in [Requests -> BOOLEAN]
    BY <1>2 DEF RuntimeNext
  <2>2. \A r \in Requests :
          offeredTo'[r] = (/\ gen'[r] = Observed
                           /\ offeredTo[r] \/ (pc'[r] = "resolved" /\ healthy'[Observed]))
    BY <1>2 DEF RuntimeNext
  <2>3. \A r \in Requests : pc'[r] = "idle" <=> gen'[r] = None
    <3>1. ASSUME NEW r \in Requests, Request(r)
          PROVE  \A q \in Requests : pc'[q] = "idle" <=> gen'[q] = None
      BY <3>1, ObservedType DEF Request, Resolve, SelectTarget, Finish, TypeOK
    <3>2. (\E r \in Requests : Request(r)) \/ UNCHANGED <<pc, gen>>
      BY <1>2, OtherSteps DEF RuntimeNext, SetTargetState, requestVars
    <3> QED BY <3>1, <3>2
  <2> QED BY <2>1, <2>2, <2>3
<1> QED BY <1>1, <1>2

\* Nothing changes for a request that stays where it is while the list does.
LEMMA OfferStays ==
    ASSUME OfferInv, RuntimeNext, healthy'[Observed] = healthy[Observed],
           NEW q \in Requests, pc'[q] = pc[q], gen'[q] = gen[q]
    PROVE  offeredTo'[q] = offeredTo[q]
BY DEF OfferInv, RuntimeNext, On

\* A step that neither the pool nor a request on it takes part in is a stutter.
LEMMA Unseen ==
    ASSUME healthy'[Observed] = healthy[Observed], active'[Observed] = active[Observed],
           \A q \in Requests : /\ offeredTo'[q] = offeredTo[q]
                               /\ On(q)' <=> On(q)
                               /\ On(q) => pc'[q] = pc[q]
    PROVE  UNCHANGED Abstract!vars
BY DEF Abstract!vars, On

\* A function that another one differs from in one place at most.
LEMMA OnePlace ==
    ASSUME NEW S, NEW r \in S, NEW f, NEW h,
           f = [q \in S |-> f[q]], h = [q \in S |-> h[q]],
           \A q \in S \ {r} : h[q] = f[q]
    PROVE  h = [f EXCEPT ![r] = h[r]] /\ (h[r] = f[r] => h = f)
OBVIOUS

\* A request on the pool asks it, is given its target or refused, and leaves it; a
\* request on another pool does nothing to it.
LEMMA RequestShown ==
    ASSUME TypeOK, OfferInv, RuntimeNext, NEW r \in Requests, Request(r)
    PROVE  Abstract!Next \/ UNCHANGED Abstract!vars
<1> USE ObservedType DEF On
<1> DEFINE st == [q \in Requests |-> IF On(q) THEN StateOf(pc[q]) ELSE "idle"]
           ct == [q \in Requests |-> On(q)]
           ch == [q \in Requests |-> IF offeredTo[q] THEN {Observed} ELSE {}]
           sv == [q \in Requests |-> IF On(q) /\ pc[q] = "serving" THEN Observed ELSE None]
           ld == [i \in {Observed} |-> active[i]]
           of == IF healthy[Observed] THEN {Observed} ELSE {}
<1>0. /\ healthy \in [Gens -> BOOLEAN] /\ active \in [Gens -> Int]
      /\ pc \in [Requests -> {"idle", "resolved", "serving", "rejected"}]
      /\ gen \in [Requests -> Gens \union {None}] /\ offeredTo \in [Requests -> BOOLEAN]
  BY DEF TypeOK, OfferInv
<1> USE <1>0
<1>1. healthy' = healthy /\ of' = of
  BY DEF Request, Resolve, SelectTarget, Finish, checkerVars
<1>2. \A q \in Requests \ {r} : /\ pc'[q] = pc[q] /\ gen'[q] = gen[q]
                                /\ offeredTo'[q] = offeredTo[q] /\ (On(q)' <=> On(q))
  <2>1. \A q \in Requests \ {r} : pc'[q] = pc[q] /\ gen'[q] = gen[q]
    BY DEF Request, Resolve, SelectTarget, Finish
  <2> QED BY <1>1, <2>1, OfferStays DEF On
<1>3. \A q \in Requests \ {r} :
        st'[q] = st[q] /\ ct'[q] = ct[q] /\ ch'[q] = ch[q] /\ sv'[q] = sv[q]
  BY <1>2 DEF On
<1>4. /\ st[r] = (IF On(r) THEN StateOf(pc[r]) ELSE "idle")
      /\ st'[r] = (IF On(r)' THEN StateOf(pc'[r]) ELSE "idle")
      /\ ct[r] = On(r) /\ ct'[r] = On(r)'
      /\ ch[r] = (IF offeredTo[r] THEN {Observed} ELSE {})
      /\ ch'[r] = (IF offeredTo'[r] THEN {Observed} ELSE {})
      /\ sv[r] = (IF On(r) /\ pc[r] = "serving" THEN Observed ELSE None)
      /\ sv'[r] = (IF On(r)' /\ pc'[r] = "serving" THEN Observed ELSE None)
  OBVIOUS
<1>5. /\ st' = [st EXCEPT ![r] = st'[r]] /\ (st'[r] = st[r] => st' = st)
      /\ ct' = [ct EXCEPT ![r] = ct'[r]] /\ (ct'[r] = ct[r] => ct' = ct)
      /\ ch' = [ch EXCEPT ![r] = ch'[r]] /\ (ch'[r] = ch[r] => ch' = ch)
      /\ sv' = [sv EXCEPT ![r] = sv'[r]] /\ (sv'[r] = sv[r] => sv' = sv)
  <2>1. /\ st = [q \in Requests |-> st[q]] /\ st' = [q \in Requests |-> st'[q]]
        /\ ct = [q \in Requests |-> ct[q]] /\ ct' = [q \in Requests |-> ct'[q]]
        /\ ch = [q \in Requests |-> ch[q]] /\ ch' = [q \in Requests |-> ch'[q]]
        /\ sv = [q \in Requests |-> sv[q]] /\ sv' = [q \in Requests |-> sv'[q]]
    OBVIOUS
  <2> HIDE DEF st, ct, ch, sv
  <2> QED BY <1>3, <2>1, OnePlace
<1> HIDE DEF st, ct, ch, sv
<1>6. CASE Resolve(r)
  <2>1. /\ ~On(r) /\ ~offeredTo[r] /\ pc'[r] = "resolved" /\ gen'[r] = snapshot
        /\ active' = active
    BY <1>6 DEF Resolve, OfferInv, On
  <2>2. CASE snapshot = Observed
    <3>1. offeredTo'[r] = healthy[Observed] /\ On(r)'
      BY <1>1, <2>1, <2>2 DEF RuntimeNext, On
    <3>2. st[r] = "idle" /\ st' = [st EXCEPT ![r] = "asking"]
      BY <1>4, <1>5, <2>1, <3>1, Shown
    <3>3. ct' = [ct EXCEPT ![r] = TRUE]
      BY <1>4, <1>5, <3>1
    <3>4. ch' = [ch EXCEPT ![r] = of] /\ sv' = sv /\ ld' = ld
      BY <1>4, <1>5, <2>1, <3>1
    <3>5. Abstract!Ask(r)
      BY <1>1, <3>2, <3>3, <3>4 DEF Abstract!Ask, st, ct, ch, sv
    <3> QED BY <3>5 DEF Abstract!Next
  <2>3. CASE snapshot # Observed
    <3>1. offeredTo'[r] = FALSE /\ ~On(r)'
      BY <2>1, <2>3 DEF RuntimeNext, On
    <3> QED BY <1>1, <1>2, <2>1, <3>1, Unseen DEF OfferInv
  <2> QED BY <2>2, <2>3
<1>7. CASE SelectTarget(r) /\ On(r)
  <2>1. /\ pc[r] = "resolved" /\ gen'[r] = gen[r] /\ offeredTo'[r] = offeredTo[r] /\ On(r)'
        /\ healthy[Observed] => offeredTo[r]
    BY <1>1, <1>7 DEF SelectTarget, OfferInv, On, RuntimeNext
  <2>2. st[r] = "asking" /\ ct[r] /\ ct'[r] = ct[r] /\ ch'[r] = ch[r]
    BY <1>4, <1>7, <2>1, Shown
  <2>3. ct' = ct /\ ch' = ch
    BY <1>5, <2>2
  <2>4. CASE healthy[Observed]
    <3>1. pc'[r] = "serving" /\ active' = [active EXCEPT ![Observed] = @ + 1]
      BY <1>7, <2>4 DEF SelectTarget, On
    <3>2. st' = [st EXCEPT ![r] = "served"] /\ sv' = [sv EXCEPT ![r] = Observed]
      BY <1>4, <1>5, <2>1, <3>1, Shown
    <3>3. ld' = [ld EXCEPT ![Observed] = @ + 1] /\ Observed \in ch[r]
      BY <1>4, <2>1, <2>4, <3>1
    <3>4. Abstract!Give(r, Observed)
      BY <1>1, <2>2, <2>3, <3>2, <3>3 DEF Abstract!Give, st, ct, ch, sv
    <3> QED BY <3>4 DEF Abstract!Next
  <2>5. CASE ~healthy[Observed]
    <3>1. pc'[r] = "rejected" /\ active' = active
      BY <1>7, <2>5 DEF SelectTarget, On
    <3>2. st' = [st EXCEPT ![r] = "refused"] /\ sv' = sv /\ ld' = ld /\ of = {}
      BY <1>4, <1>5, <2>1, <2>5, <3>1, Shown
    <3>3. Abstract!Refuse(r)
      BY <1>1, <2>2, <2>3, <3>2 DEF Abstract!Refuse, st, ct, ch, sv
    <3> QED BY <3>3 DEF Abstract!Next
  <2> QED BY <2>4, <2>5
<1>8. CASE Finish(r) /\ On(r)
  <2>1. /\ pc[r] \in {"serving", "rejected"} /\ pc'[r] = "idle" /\ gen'[r] = None
        /\ active' = IF pc[r] = "serving" THEN [active EXCEPT ![Observed] = @ - 1] ELSE active
    BY <1>8 DEF Finish, On
  <2>2. ~On(r)' /\ offeredTo'[r] = FALSE
    BY <2>1 DEF On, RuntimeNext
  <2>3. st[r] \in {"served", "refused"} /\ st' = [st EXCEPT ![r] = "idle"]
        /\ (st[r] = "served" <=> pc[r] = "serving")
    BY <1>4, <1>5, <1>8, <2>1, <2>2, Shown
  <2>4. ct' = [ct EXCEPT ![r] = FALSE] /\ ct[r]
    BY <1>4, <1>5, <1>8, <2>2
  <2>5. ch' = [ch EXCEPT ![r] = {}] /\ sv' = [sv EXCEPT ![r] = None]
    BY <1>4, <1>5, <2>2
  <2>6. ld' = IF st[r] = "served" /\ ct[r] THEN [ld EXCEPT ![sv[r]] = @ - 1] ELSE ld
    <3>1. pc[r] = "serving" => sv[r] = Observed
      BY <1>8, <1>4
    <3> QED BY <2>1, <2>3, <2>4, <3>1
  <2>7. Abstract!Leave(r)
    BY <1>1, <2>3, <2>4, <2>5, <2>6 DEF Abstract!Leave, st, ct, ch, sv
  <2> QED BY <2>7 DEF Abstract!Next
<1>9. CASE (SelectTarget(r) \/ Finish(r)) /\ ~On(r)
  <2>1. gen[r] \in Gens \ {Observed} /\ ~offeredTo[r]
    BY <1>9 DEF SelectTarget, Finish, OfferInv, On
  <2>2. active'[Observed] = active[Observed] /\ gen'[r] # Observed
    BY <1>9, <2>1 DEF SelectTarget, Finish
  <2>3. ~On(r)' /\ offeredTo'[r] = FALSE
    BY <2>2 DEF On, RuntimeNext
  <2> QED BY <1>1, <1>2, <1>9, <2>1, <2>2, <2>3, Unseen DEF OfferInv
<1> QED BY <1>6, <1>7, <1>8, <1>9 DEF Request

\* The checker of the pool changes what is offered, every other step nothing.
LEMMA NextShown ==
    ASSUME TypeOK, OfferInv, [RuntimeNext]_<<vars, offeredTo>>
    PROVE  Abstract!Next \/ UNCHANGED Abstract!vars
<1> USE ObservedType DEF TypeOK, On
<1>1. CASE UNCHANGED <<vars, offeredTo>>
  BY <1>1, Unseen DEF vars, requestVars, checkerVars, On
<1>2. ASSUME RuntimeNext, UNCHANGED <<pc, gen, active>>, healthy'[Observed] = healthy[Observed]
      PROVE  UNCHANGED Abstract!vars
  BY <1>2, OfferStays, Unseen DEF On
<1>3. ASSUME RuntimeNext, SetTargetState(Observed) PROVE Abstract!Next
  <2>1. UNCHANGED <<pc, gen, active>>
    BY <1>3 DEF SetTargetState, requestVars
  <2> DEFINE st == [q \in Requests |-> IF On(q) THEN StateOf(pc[q]) ELSE "idle"]
             ch == [q \in Requests |-> IF offeredTo[q] THEN {Observed} ELSE {}]
             of == IF healthy[Observed] THEN {Observed} ELSE {}
  <2>2. ASSUME NEW q \in Requests
        PROVE  ch'[q] = IF st[q] = "asking" THEN ch[q] \union of' ELSE ch[q]
    <3>1. offeredTo'[q] = (On(q) /\ (offeredTo[q] \/ (pc[q] = "resolved" /\ healthy'[Observed])))
      BY <1>3, <2>1 DEF RuntimeNext, On
    <3>2. st[q] = "asking" <=> On(q) /\ pc[q] = "resolved"
      BY Shown
    <3>3. offeredTo[q] => On(q)
      BY DEF OfferInv
    <3> QED BY <3>1, <3>2, <3>3
  <2>3. of' \in {of \union {Observed}, of \ {Observed}}
    OBVIOUS
  <2>4. ch' = [q \in Requests |-> IF st[q] = "asking" THEN ch[q] \union of' ELSE ch[q]]
    BY <2>2
  <2>5. Abstract!Offer(Observed)
    BY <2>1, <2>3, <2>4 DEF Abstract!Offer, On
  <2> QED BY <2>5 DEF Abstract!Next
<1>4. ASSUME NEW g \in Gens \ {Observed}, RuntimeNext, SetTargetState(g)
      PROVE  UNCHANGED Abstract!vars
  BY <1>2, <1>4 DEF SetTargetState, requestVars
<1> QED BY <1>1, <1>2, <1>3, <1>4, RequestShown, OtherSteps DEF RuntimeNext

\* Whichever generation is looked at: from its first request to its last, long after
\* it was replaced, its pool keeps the promise of PoolSpec.
THEOREM PoolOfAGeneration == RuntimeSpec => ImplementsPool
<1>1. RuntimeSpec => Spec
  <2>1. RuntimeInit => Init
    BY DEF RuntimeInit
  <2>2. [RuntimeNext]_<<vars, offeredTo>> => [Next]_vars
    BY DEF RuntimeNext
  <2> QED BY <2>1, <2>2, PTL DEF RuntimeSpec, Spec
<1>2. TypeOK /\ TypeOK' /\ OfferInv /\ [RuntimeNext]_<<vars, offeredTo>> => OfferInv'
  BY NextOffer
<1>3. TypeOK /\ OfferInv /\ [RuntimeNext]_<<vars, offeredTo>> => [Abstract!Next]_(Abstract!vars)
  BY NextShown
<1>4. RuntimeInit => OfferInv /\ Abstract!Init
  BY InitShown
<1> QED BY <1>1, <1>2, <1>3, <1>4, TypeCorrect, PTL
        DEF RuntimeSpec, ImplementsPool, Abstract!Spec
=============================================================================
