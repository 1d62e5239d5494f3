------------------------------- MODULE Pool -------------------------------
(***************************************************************************)
(* One upstream pool: internal/upstream/{upstream,balancer,health}.go, the *)
(* checker goroutine of registry.go and the target selection of            *)
(* internal/proxy/reverse_proxy.go.                                        *)
(*                                                                         *)
(* Any number of request goroutines select a target while one checker      *)
(* goroutine rewrites the health of the targets.  The requests share three *)
(* things: the atomic.Value `healthy` (here healthyCache), the counters    *)
(* `active` and the ticket `next`.  Every atomic operation of the code is  *)
(* one step here, so all interleavings of the selection loop, of the       *)
(* counters and of the checker are explored.                               *)
(*                                                                         *)
(* A []int of healthy indexes is always ascending and free of duplicates   *)
(* (collectHealthyIndexes), so it is modelled by the set of its elements.  *)
(***************************************************************************)
EXTENDS Integers, FiniteSets

CONSTANTS
    N,             \* len(p.Targets)
    Requests,      \* request goroutines that may be alive together
    Algorithms,    \* algorithms of the routes that share the pool
    HashSums,      \* values hasher.Sum64() takes on the requests' keys
    Modulus,       \* uint64 wraps at Modulus (2^64 in the code)
    HealthChecked, \* p.HealthCheck # nil
    Flaky,         \* targets whose backend may fail and recover
    MaxMoves       \* bound: the history `moved` counts up to it

Index == 0 .. N - 1

\* validateUpstreamEntries refuses an empty list of upstreams.
ASSUME NAssumption == N \in Nat \ {0}

\* The algorithms a route may name (proxyconfig.RouteAlgorithm).
ASSUME AlgorithmsAssumption ==
    Algorithms \subseteq {"round_robin", "sticky_cookie", "5_tuple_hash", "least_connection"}

\* A uint64 counts every request that can be in flight.
ASSUME RequestsAssumption ==
    /\ IsFiniteSet(Requests)
    /\ Modulus \in Nat
    /\ Cardinality(Requests) < Modulus

ASSUME HashAssumption == HashSums \subseteq Nat

ASSUME CheckerAssumption == HealthChecked \in BOOLEAN /\ Flaky \subseteq Index

ASSUME MovesAssumption == MaxMoves \in Nat \ {0}

NoTarget == -1

VARIABLES
    targetHealthy, \* p.targetState[i].Healthy, guarded by mu
    healthyCache,  \* p.healthy, the atomic.Value the selection reads
    mu,            \* "checker" while setTargetState holds p.mu
    active,        \* p.active[i]
    next,          \* p.next
    pc,            \* where request r is in ServeHTTP
    alg,           \* the algorithm of the route r matched, "none" outside ServeHTTP
    list,          \* the healthyIndexes r loaded
    lowest,        \* local `lowest` of lowestActiveIndexes
    todo,          \* the part of list its loop has not read
    cands,         \* local `indexes` of lowestActiveIndexes
    target,        \* the index r selected
    checkerPc,     \* where the goroutine of runPoolCheck is
    probe,         \* the i of the CheckTargets loop
    answered,      \* the outcome of that probe, TRUE while there is none
    cancelled,     \* ctx.Done() is closed
    up,            \* backend i answers a probe as HealthCheck expects, in time
    seenHealthy,   \* history: targets on the list at some time since r arrived
    moved          \* history: how often each counter moved since r's first read

poolVars    == <<targetHealthy, healthyCache, mu>>
requestVars == <<pc, alg, list, lowest, todo, cands, target>>
checkerVars == <<checkerPc, probe, answered>>
vars == <<poolVars, active, next, requestVars, checkerVars, cancelled, up,
          seenHealthy, moved>>

Selecting == {"sticky", "load", "ticket", "hash", "first", "scan", "acquire"}
Outcomes  == {"serving", "rejected", "panicked"}

(***************************************************************************)
(* Helpers                                                                 *)
(***************************************************************************)

\* Mutant of Dec: release adds 1 instead of ^uint64(0).
DecAddsOne(x) == IF x = Modulus - 1 THEN 0 ELSE x + 1

\* atomic.AddUint64(&x, 1) and atomic.AddUint64(&x, ^uint64(0))
Inc(x) == IF x = Modulus - 1 THEN 0 ELSE x + 1
Dec(x) == IF x = 0 THEN Modulus - 1 ELSE x - 1

\* i of S is the element at position k of the ascending list S
IsAt(i, S, k) == Cardinality({j \in S : j < i}) = k

\* i of S is the first element of the ascending list S
IsFirst(i, S) == \A j \in S : i <= j

collectHealthyIndexes(states) == {i \in Index : states[i]}

Unmoved == [i \in Index |-> 0]

\* Counter i moves, under every request that is in its selection loop.
Move(i) ==
    moved' = [q \in Requests |->
                IF pc'[q] \in {"scan", "acquire", "panicked"}
                THEN [moved[q] EXCEPT ![i] = IF @ < MaxMoves THEN @ + 1 ELSE @]
                ELSE Unmoved]

Init ==
    /\ targetHealthy = [i \in Index |-> TRUE]
    /\ healthyCache = Index
    /\ mu = "free"
    /\ active = [i \in Index |-> 0]
    /\ next = 0
    /\ pc = [r \in Requests |-> "idle"]
    /\ alg = [r \in Requests |-> "none"]
    /\ list = [r \in Requests |-> {}]
    /\ lowest = [r \in Requests |-> 0]
    /\ todo = [r \in Requests |-> {}]
    /\ cands = [r \in Requests |-> {}]
    /\ target = [r \in Requests |-> NoTarget]
    /\ checkerPc = IF HealthChecked THEN "probe" ELSE "done"
    /\ probe = 0
    /\ answered = TRUE
    /\ cancelled = FALSE
    /\ up = [i \in Index |-> TRUE]
    /\ seenHealthy = [r \in Requests |-> {}]
    /\ moved = [r \in Requests |-> Unmoved]

(***************************************************************************)
(* A request                                                               *)
(***************************************************************************)

\* A sticky request asks for its target's state if its cookie names one of the pool;
\* without a cookie, or with one that names none, it is at NextTarget without a lock.
FirstSteps(a) == IF a = "sticky_cookie" THEN {"sticky", "load"} ELSE {"load"}

\* ServeHTTP of r has resolved route and pool, selectTarget branches.
Arrive(r) ==
    /\ pc[r] = "idle"
    /\ \E a \in Algorithms :
        /\ alg' = [alg EXCEPT ![r] = a]
        /\ \E p \in FirstSteps(a) : pc' = [pc EXCEPT ![r] = p]
    /\ seenHealthy' = [seenHealthy EXCEPT ![r] = healthyCache]
    /\ UNCHANGED <<poolVars, active, next, list, lowest, todo, cands, target,
                   checkerVars, cancelled, up, moved>>

\* Mutants of StickyHit: the health of the target is not asked; the -1 that
\* findTargetIndex returns is not tested.
StickyHitUnasked(r) ==
    /\ pc[r] = "sticky" /\ mu = "free"
    /\ \E i \in Index : target' = [target EXCEPT ![r] = i]
    /\ pc' = [pc EXCEPT ![r] = "serving"]
    /\ UNCHANGED <<poolVars, active, next, alg, list, lowest, todo, cands,
                   checkerVars, cancelled, up, seenHealthy, moved>>
StickyHitUntested(r) ==
    /\ pc[r] = "sticky" /\ mu = "free"
    /\ \E i \in collectHealthyIndexes(targetHealthy) \union {NoTarget} :
          target' = [target EXCEPT ![r] = i]
    /\ pc' = [pc EXCEPT ![r] = "serving"]
    /\ UNCHANGED <<poolVars, active, next, alg, list, lowest, todo, cands,
                   checkerVars, cancelled, up, seenHealthy, moved>>

\* The cookie names target i and findHealthyTarget, under mu, finds it healthy.
StickyHit(r) ==
    /\ pc[r] = "sticky" /\ mu = "free"
    /\ \E i \in collectHealthyIndexes(targetHealthy) : target' = [target EXCEPT ![r] = i]
    /\ pc' = [pc EXCEPT ![r] = "serving"]
    /\ UNCHANGED <<poolVars, active, next, alg, list, lowest, todo, cands,
                   checkerVars, cancelled, up, seenHealthy, moved>>

\* ... or finds it unhealthy: NextTarget.
StickyMiss(r) ==
    /\ pc[r] = "sticky" /\ mu = "free"
    /\ collectHealthyIndexes(targetHealthy) # Index
    /\ pc' = [pc EXCEPT ![r] = "load"]
    /\ UNCHANGED <<poolVars, active, next, alg, list, lowest, todo, cands, target,
                   checkerVars, cancelled, up, seenHealthy, moved>>

\* Mutant of LoadHealthy: the states are read, without mu, in the place of the list.
LoadHealthyUnlocked(r) ==
    /\ pc[r] = "load"
    /\ list' = [list EXCEPT ![r] = collectHealthyIndexes(targetHealthy)]
    /\ pc' = [pc EXCEPT ![r] =
                IF list'[r] = {} THEN "rejected"
                ELSE IF alg[r] = "least_connection" THEN "first"
                ELSE IF alg[r] = "5_tuple_hash" THEN "hash"
                ELSE "ticket"]
    /\ UNCHANGED <<poolVars, active, next, alg, lowest, todo, cands, target,
                   checkerVars, cancelled, up, seenHealthy, moved>>

\* Mutant of LoadHealthy: that the list may be empty is not tested.
LoadHealthyUntested(r) ==
    /\ pc[r] = "load"
    /\ list' = [list EXCEPT ![r] = healthyCache]
    /\ pc' = [pc EXCEPT ![r] = IF alg[r] = "least_connection" THEN "first"
                               ELSE IF alg[r] = "5_tuple_hash" THEN "hash" ELSE "ticket"]
    /\ UNCHANGED <<poolVars, active, next, alg, lowest, todo, cands, target,
                   checkerVars, cancelled, up, seenHealthy, moved>>

\* healthyIndexes := p.healthyTargetIndexes(), and the test for an empty list.
LoadHealthy(r) ==
    /\ pc[r] = "load"
    /\ list' = [list EXCEPT ![r] = healthyCache]
    /\ pc' = [pc EXCEPT ![r] =
                IF healthyCache = {} THEN "rejected"
                ELSE IF alg[r] = "least_connection" THEN "first"
                ELSE IF alg[r] = "5_tuple_hash" THEN "hash"
                ELSE "ticket"]
    /\ UNCHANGED <<poolVars, active, next, alg, lowest, todo, cands, target,
                   checkerVars, cancelled, up, seenHealthy, moved>>

\* r leaves the selection with target i and forgets the locals of the loop.
Choose(r, i) ==
    /\ target' = [target EXCEPT ![r] = i]
    /\ list' = [list EXCEPT ![r] = {}]

\* Mutant of TakeTicket: the ticket is read but not added to.
TakeTicketReadsOnly(r) ==
    /\ pc[r] = "ticket"
    /\ \E i \in list[r] :
        /\ IsAt(i, list[r], next % Cardinality(list[r]))
        /\ Choose(r, i)
    /\ pc' = [pc EXCEPT ![r] = "serving"]
    /\ UNCHANGED <<poolVars, active, next, alg, lowest, todo, cands, checkerVars,
                   cancelled, up, seenHealthy, moved>>

\* NextTarget: the ticket is drawn and indexes the list in one atomic add.
TakeTicket(r) ==
    /\ pc[r] = "ticket"
    /\ next' = Inc(next)
    /\ \E i \in list[r] :
        /\ IsAt(i, list[r], next % Cardinality(list[r]))
        /\ Choose(r, i)
    /\ pc' = [pc EXCEPT ![r] = "serving"]
    /\ UNCHANGED <<poolVars, active, alg, lowest, todo, cands, checkerVars,
                   cancelled, up, seenHealthy, moved>>

\* HashTarget: the sum of the key modulo the length of the list.
HashTarget(r) ==
    /\ pc[r] = "hash"
    /\ \E sum \in HashSums, i \in list[r] :
        /\ IsAt(i, list[r], sum % Cardinality(list[r]))
        /\ Choose(r, i)
    /\ pc' = [pc EXCEPT ![r] = "serving"]
    /\ UNCHANGED <<poolVars, active, next, alg, lowest, todo, cands, checkerVars,
                   cancelled, up, seenHealthy, moved>>

\* Mutant of ReadFirst: it reads the counter of the last target.
ReadLast(r) ==
    /\ pc[r] = "first"
    /\ \E i \in list[r] :
        /\ \A j \in list[r] : j <= i
        /\ lowest' = [lowest EXCEPT ![r] = active[i]]
    /\ todo' = [todo EXCEPT ![r] = list[r]]
    /\ pc' = [pc EXCEPT ![r] = "scan"]
    /\ moved' = [moved EXCEPT ![r] = Unmoved]
    /\ UNCHANGED <<poolVars, active, next, alg, list, cands, target, checkerVars,
                   cancelled, up, seenHealthy>>

\* lowest := p.ActiveConnections(healthyIndexes[0])
ReadFirst(r) ==
    /\ pc[r] = "first"
    /\ \E i \in list[r] :
        /\ IsFirst(i, list[r])
        /\ lowest' = [lowest EXCEPT ![r] = active[i]]
    /\ todo' = [todo EXCEPT ![r] = list[r]]
    /\ pc' = [pc EXCEPT ![r] = "scan"]
    /\ moved' = [moved EXCEPT ![r] = Unmoved]
    /\ UNCHANGED <<poolVars, active, next, alg, list, cands, target, checkerVars,
                   cancelled, up, seenHealthy>>

\* One turn of the loop, which reads the counter of the first target again.
Scan(r) ==
    /\ pc[r] = "scan"
    /\ \E i \in todo[r] :
        /\ IsFirst(i, todo[r])
        /\ todo' = [todo EXCEPT ![r] = @ \ {i}]
        /\ \/ /\ active[i] < lowest[r]
              /\ lowest' = [lowest EXCEPT ![r] = active[i]]
              /\ cands' = [cands EXCEPT ![r] = {i}]
           \/ /\ active[i] = lowest[r]
              /\ cands' = [cands EXCEPT ![r] = @ \union {i}]
              /\ UNCHANGED lowest
           \/ /\ active[i] > lowest[r]
              /\ UNCHANGED <<lowest, cands>>
    /\ UNCHANGED <<poolVars, active, next, pc, alg, list, target, checkerVars,
                   cancelled, up, seenHealthy, moved>>

\* Mutant of PickCandidate: the ticket indexes all healthy targets.
PickHealthy(r) ==
    /\ pc[r] = "scan" /\ todo[r] = {} /\ cands[r] # {}
    /\ next' = Inc(next)
    /\ \E i \in list[r] :
        /\ IsAt(i, list[r], next % Cardinality(list[r]))
        /\ target' = [target EXCEPT ![r] = i]
    /\ pc' = [pc EXCEPT ![r] = "acquire"]
    /\ UNCHANGED <<poolVars, active, alg, list, lowest, todo, cands, checkerVars,
                   cancelled, up, seenHealthy, moved>>

\* nextHealthyIndex(candidates): the ticket indexes the candidates ...
PickCandidate(r) ==
    /\ pc[r] = "scan" /\ todo[r] = {} /\ cands[r] # {}
    /\ next' = Inc(next)
    /\ \E i \in cands[r] :
        /\ IsAt(i, cands[r], next % Cardinality(cands[r]))
        /\ target' = [target EXCEPT ![r] = i]
    /\ pc' = [pc EXCEPT ![r] = "acquire"]
    /\ UNCHANGED <<poolVars, active, alg, list, lowest, todo, cands, checkerVars,
                   cancelled, up, seenHealthy, moved>>

\* Mutant of DivideByZero: the selection starts again when there are none.
DivideByZeroRetries(r) ==
    /\ pc[r] = "scan" /\ todo[r] = {} /\ cands[r] = {}
    /\ pc' = [pc EXCEPT ![r] = "load"]
    /\ UNCHANGED <<poolVars, active, next, alg, list, lowest, todo, cands, target,
                   checkerVars, cancelled, up, seenHealthy, moved>>

\* ... and index % uint64(len(indexes)) panics when there are none.
DivideByZero(r) ==
    /\ pc[r] = "scan" /\ todo[r] = {} /\ cands[r] = {}
    /\ next' = Inc(next)
    /\ pc' = [pc EXCEPT ![r] = "panicked"]
    /\ UNCHANGED <<poolVars, active, alg, list, lowest, todo, cands, target,
                   checkerVars, cancelled, up, seenHealthy, moved>>

\* LeastConnectionTarget counts the request on the target it selected.
Acquire(r) ==
    /\ pc[r] = "acquire"
    /\ active' = [active EXCEPT ![target[r]] = Inc(@)]
    /\ pc' = [pc EXCEPT ![r] = "serving"]
    /\ Move(target[r])
    /\ list' = [list EXCEPT ![r] = {}]
    /\ cands' = [cands EXCEPT ![r] = {}]
    /\ lowest' = [lowest EXCEPT ![r] = 0]
    /\ UNCHANGED <<poolVars, next, alg, todo, target, checkerVars, cancelled, up,
                   seenHealthy>>

\* r returns from ServeHTTP: nothing it knew survives.
Forget(r) ==
    /\ pc' = [pc EXCEPT ![r] = "idle"]
    /\ alg' = [alg EXCEPT ![r] = "none"]
    /\ target' = [target EXCEPT ![r] = NoTarget]
    /\ seenHealthy' = [seenHealthy EXCEPT ![r] = {}]

\* The deferred release() of a request that was not counted: noopRelease.
Finish(r) ==
    /\ pc[r] = "serving" /\ alg[r] # "least_connection"
    /\ Forget(r)
    /\ UNCHANGED <<poolVars, active, next, list, lowest, todo, cands, checkerVars,
                   cancelled, up, moved>>

\* The deferred release() of a counted request, which runs its body once.
Release(r) ==
    /\ pc[r] = "serving" /\ alg[r] = "least_connection"
    /\ active' = [active EXCEPT ![target[r]] = Dec(@)]
    /\ Forget(r)
    /\ Move(target[r])
    /\ UNCHANGED <<poolVars, next, list, lowest, todo, cands, checkerVars,
                   cancelled, up>>

\* 502 was written, or net/http recovered the panic and closed the connection.
Leave(r) ==
    /\ pc[r] \in {"rejected", "panicked"}
    /\ Forget(r)
    /\ list' = [list EXCEPT ![r] = {}]
    /\ lowest' = [lowest EXCEPT ![r] = 0]
    /\ moved' = [moved EXCEPT ![r] = Unmoved]
    /\ UNCHANGED <<poolVars, active, next, todo, cands, checkerVars, cancelled, up>>

(***************************************************************************)
(* The checker goroutine and its surroundings                              *)
(***************************************************************************)

\* Mutants of Probe: the request does not carry the context; the status of the
\* answer is not compared; only healthy targets are probed; a backend that is
\* down is waited for without a timeout.
Probing(answer) ==
    /\ checkerPc = "probe"
    /\ answered' = answer
    /\ checkerPc' = "set"
    /\ UNCHANGED <<poolVars, active, next, requestVars, probe, cancelled, up,
                   seenHealthy, moved>>
ProbeWithoutContext == Probing(up[probe])
ProbeWithoutStatus == Probing(~cancelled)
ProbeHealthyOnly == Probing(up[probe] /\ targetHealthy[probe] /\ ~cancelled)
ProbeWithoutTimeout == up[probe] /\ Probing(~cancelled)

\* CheckTarget asks backend `probe`.  client.Do fails at once on a context
\* that is done, however healthy the backend.
Probe ==
    /\ checkerPc = "probe"
    /\ answered' = (up[probe] /\ ~cancelled)
    /\ checkerPc' = "set"
    /\ UNCHANGED <<poolVars, active, next, requestVars, probe, cancelled, up,
                   seenHealthy, moved>>

\* Mutant of SetTargetState: mu is released before the list is rebuilt.
SetTargetStateUnlocks ==
    /\ checkerPc = "set" /\ mu = "free"
    /\ targetHealthy' = [targetHealthy EXCEPT ![probe] = answered]
    /\ checkerPc' = "store"
    /\ UNCHANGED <<mu, healthyCache, active, next, requestVars, probe, answered,
                   cancelled, up, seenHealthy, moved>>

\* SetTargetHealthy or SetTargetUnhealthy takes mu and writes the state ...
SetTargetState ==
    /\ checkerPc = "set" /\ mu = "free"
    /\ mu' = "checker"
    /\ targetHealthy' = [targetHealthy EXCEPT ![probe] = answered]
    /\ checkerPc' = "store"
    /\ UNCHANGED <<healthyCache, active, next, requestVars, probe, answered,
                   cancelled, up, seenHealthy, moved>>

\* The requests that are selecting may find the new list.
SeeList ==
    seenHealthy' = [r \in Requests |->
                      IF pc[r] \in Selecting THEN seenHealthy[r] \union healthyCache'
                      ELSE seenHealthy[r]]

\* Mutant of StoreHealthyIndexes: mu is not released after the last target.
StoreKeepsLock ==
    /\ checkerPc = "store"
    /\ healthyCache' = collectHealthyIndexes(targetHealthy)
    /\ IF probe = N - 1
       THEN probe' = 0 /\ checkerPc' = "wait" /\ mu' = mu
       ELSE probe' = probe + 1 /\ checkerPc' = "probe" /\ mu' = "free"
    /\ answered' = TRUE
    /\ SeeList
    /\ UNCHANGED <<targetHealthy, active, next, requestVars, cancelled, up, moved>>

\* ... rebuilds the list the selection reads, releases mu and goes on to the
\* next target; after the last one the goroutine waits in its select.
StoreHealthyIndexes ==
    /\ checkerPc = "store"
    /\ healthyCache' = collectHealthyIndexes(targetHealthy)
    /\ mu' = "free"
    /\ IF probe = N - 1
       THEN probe' = 0 /\ checkerPc' = "wait"
       ELSE probe' = probe + 1 /\ checkerPc' = "probe"
    /\ answered' = TRUE
    /\ SeeList
    /\ UNCHANGED <<targetHealthy, active, next, requestVars, cancelled, up, moved>>

\* case <-ticker.C, which select may choose although ctx is done.
Tick ==
    /\ checkerPc = "wait"
    /\ checkerPc' = "probe"
    /\ UNCHANGED <<poolVars, active, next, requestVars, probe, answered, cancelled,
                   up, seenHealthy, moved>>

\* case <-ctx.Done()
StopChecker ==
    /\ checkerPc = "wait" /\ cancelled
    /\ checkerPc' = "done"
    /\ UNCHANGED <<poolVars, active, next, requestVars, probe, answered, cancelled,
                   up, seenHealthy, moved>>

\* A reload or the shutdown cancels the context of the checker.
Cancel ==
    /\ ~cancelled /\ checkerPc # "done"
    /\ cancelled' = TRUE
    /\ UNCHANGED <<poolVars, active, next, requestVars, checkerVars, up,
                   seenHealthy, moved>>

\* The backend of a flaky target fails or recovers.
BackendChanges(i) ==
    /\ checkerPc # "done"
    /\ up' = [up EXCEPT ![i] = ~@]
    /\ UNCHANGED <<poolVars, active, next, requestVars, checkerVars, cancelled,
                   seenHealthy, moved>>

Sticky(r) == StickyHit(r) \/ StickyMiss(r)

\* The steps of selectTarget that take no lock.
Select(r) ==
    \/ LoadHealthy(r) \/ TakeTicket(r) \/ HashTarget(r)
    \/ ReadFirst(r) \/ Scan(r) \/ PickCandidate(r) \/ DivideByZero(r) \/ Acquire(r)

Request(r) ==
    Arrive(r) \/ Sticky(r) \/ Select(r) \/ Finish(r) \/ Release(r) \/ Leave(r)

Check == Probe \/ SetTargetState \/ StoreHealthyIndexes \/ Tick

Next ==
    \/ \E r \in Requests : Request(r)
    \/ Check \/ StopChecker \/ Cancel
    \/ \E i \in Flaky : BackendChanges(i)

Spec == Init /\ [][Next]_vars

(***************************************************************************)
(* Fairness: a goroutine that can run is eventually run.  A reader waiting *)
(* for a sync.RWMutex gets it although writers keep coming, and select     *)
(* picks at random among ready cases, so that both deserve strong fairness.*)
(* Clients, backends, the reload that cancels and the end of a proxied     *)
(* response owe nothing.                                                   *)
(***************************************************************************)
Fairness ==
    /\ \A r \in Requests : WF_vars(Select(r)) /\ SF_vars(Sticky(r))
    /\ WF_vars(Check)
    /\ SF_vars(StopChecker)

FairSpec == Spec /\ Fairness

(***************************************************************************)
(* Properties                                                              *)
(***************************************************************************)

\* Every variable holds a value the program can give it.
TypeOK ==
    /\ targetHealthy \in [Index -> BOOLEAN]
    /\ healthyCache \in SUBSET Index
    /\ mu \in {"free", "checker"}
    /\ active \in [Index -> 0 .. Modulus - 1]
    /\ next \in 0 .. Modulus - 1
    /\ pc \in [Requests -> {"idle"} \union Selecting \union Outcomes]
    /\ alg \in [Requests -> Algorithms \union {"none"}]
    /\ list \in [Requests -> SUBSET Index]
    /\ lowest \in [Requests -> 0 .. Modulus - 1]
    /\ todo \in [Requests -> SUBSET Index]
    /\ cands \in [Requests -> SUBSET Index]
    /\ target \in [Requests -> Index \union {NoTarget}]
    /\ checkerPc \in {"probe", "set", "store", "wait", "done"}
    /\ probe \in Index
    /\ answered \in BOOLEAN
    /\ cancelled \in BOOLEAN
    /\ up \in [Index -> BOOLEAN]
    /\ seenHealthy \in [Requests -> SUBSET Index]
    /\ moved \in [Requests -> [Index -> 0 .. MaxMoves]]
    /\ \A r \in Requests : pc[r] \in {"acquire", "serving"} => target[r] # NoTarget

\* The requests LeastConnectionTarget counted on target i, not yet released.
InFlight(i) ==
    {r \in Requests : pc[r] = "serving" /\ alg[r] = "least_connection" /\ target[r] = i}

\* active[i] is the number of least-connection requests being served by target
\* i: no interleaving of Acquire and the deferred release loses, repeats or
\* misplaces a count, and the counter never goes below zero (releaseFunc).
ActiveMatchesInFlight == \A i \in Index : active[i] = Cardinality(InFlight(i))

\* A request is only sent to a target that was listed as healthy at some moment
\* since the request arrived, although it may act on a list that the checker
\* has replaced since, or on the states (healthyTargetIndexes, findHealthyTarget).
ServedTargetWasHealthy ==
    \A r \in Requests :
        pc[r] \in {"acquire", "serving"} => target[r] \in seenHealthy[r]

\* Least connection under concurrency: a request never settles on a target that is
\* busier than another by more than the moves of their two counters while it was
\* selecting (lowestActiveIndexes reads the counters one by one, without a lock).
LeastLoadedButForMoves ==
    \A r \in Requests : pc[r] = "acquire" =>
        LET i == target[r]
        IN  \A j \in list[r] : (moved[r][i] < MaxMoves /\ moved[r][j] < MaxMoves) =>
                active[i] <= active[j] + moved[r][i] + moved[r][j]

\* The selection runs out of candidates only if the counter of the first
\* healthy target moved between the two reads lowestActiveIndexes makes of it.
PanicNeedsFirstTargetToMove ==
    \A r \in Requests :
        pc[r] = "panicked" =>
            \E i \in list[r] : IsFirst(i, list[r]) /\ moved[r][i] > 0

\* The list the selection reads without a lock agrees with the target states
\* whenever the checker is not inside setTargetState.
CacheMatchesStates ==
    mu = "free" => healthyCache = collectHealthyIndexes(targetHealthy)

\* The checker has an answer in hand that readmits a target.
HoldsYes == checkerPc \in {"set", "store"} /\ answered

\* Once its context is cancelled the checker can only take targets out, but for
\* the one answer it already holds: a pool that a reload superseded degrades.
CancelledNeverReadmits ==
    [][(cancelled /\ ~HoldsYes) => (~HoldsYes' /\ healthyCache' \subseteq healthyCache)]_vars

\* The steps that request r is from the end of its selection, at most.
StepsFrom(p, unread) ==
    CASE p = "sticky" -> N + 5
      [] p = "load" -> N + 4
      [] p = "first" -> N + 3
      [] p = "scan" -> unread + 2
      [] p \in {"ticket", "hash", "acquire"} -> 1
      [] OTHER -> 0
StepsLeft(r) == StepsFrom(pc[r], Cardinality(todo[r]))

\* However the others interleave, a selection takes no step back: no race of the
\* counters, of the tickets or of the checker makes selectTarget start again, so
\* that it is over after N + 5 steps of its own.
SelectionIsBounded ==
    [][\A r \in Requests : Sticky(r) \/ Select(r) => StepsLeft(r)' < StepsLeft(r)]_vars

\* The index that a ticket or a sum gives in list S is that of an element.
Hits(ticket, S) == \E i \in S : IsAt(i, S, ticket % Cardinality(S))

\* No index is out of range and, but for DivideByZero, nothing is divided by zero:
\* whatever was rewritten since the request loaded its list, its next step can be
\* taken (nextHealthyIndex, HashTarget, lowestActiveIndexes, LeastConnectionTarget).
SelectionCanGoOn ==
    \A r \in Requests :
        /\ pc[r] = "ticket" => Hits(next, list[r])
        /\ pc[r] = "hash" => \A sum \in HashSums : Hits(sum, list[r])
        /\ pc[r] = "first" => \E i \in list[r] : IsFirst(i, list[r])
        /\ pc[r] = "scan" => IF todo[r] # {} THEN \E i \in todo[r] : IsFirst(i, todo[r])
                             ELSE cands[r] # {} => Hits(next, cands[r])
        /\ pc[r] = "acquire" => target[r] \in Index

\* Every request that arrives gets a target or a failure: neither the checker,
\* which takes the lock again and again, nor the other requests block it.
SelectionTerminates ==
    \A r \in Requests : pc[r] \in Selecting ~> pc[r] \in Outcomes

\* A backend that stays down leaves the list of healthy targets for good,
\* as long as the checker is not cancelled.
DownEventuallyExcluded ==
    \A i \in Index :
        <>[](HealthChecked /\ ~up[i] /\ ~cancelled) => <>[](i \notin healthyCache)

\* A backend that stays up returns to it.
UpEventuallyReadmitted ==
    \A i \in Index :
        <>[](HealthChecked /\ up[i] /\ ~cancelled) => <>[](i \in healthyCache)

\* A cancelled checker goroutine ends, whatever round it is in.
CancelledCheckerStops == cancelled ~> checkerPc = "done"

\* "If there is a healthy target, it is selected": a request that found healthy
\* targets does not fail (docs/architecture/routing-algorithm-playbook.ko.md).
HealthyTargetIsSelected ==
    \A r \in Requests : list[r] # {} => pc[r] # "panicked"

\* To its requests the pool is that of PoolSpec, on which a selection and a change
\* of the list are one step each: a request is refused only at a moment when no
\* target is listed, and the counters, for all their wrapping, are plain numbers.
StateOf(p) ==
    IF p \in Selecting THEN "asking"
    ELSE CASE p = "idle" -> "idle" [] p = "serving" -> "served"
           [] p = "rejected" -> "refused" [] p = "panicked" -> "broken"
Abstract == INSTANCE PoolSpec WITH
    Targets <- Index, Nothing <- NoTarget, offered <- healthyCache, load <- active,
    state <- [r \in Requests |-> StateOf(pc[r])],
    counted <- [r \in Requests |-> alg[r] = "least_connection"],
    choices <- seenHealthy,
    server <- [r \in Requests |-> IF pc[r] = "serving" THEN target[r] ELSE NoTarget]
ImplementsPool == Abstract!Spec
============================================================================
