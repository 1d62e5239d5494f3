----------------------------- MODULE PoolProofs -----------------------------
(***************************************************************************)
(* Proofs about Pool, for any number of targets and of requests, any       *)
(* algorithms and any word size that can count the requests.               *)
(***************************************************************************)
EXTENDS Pool, OrderFacts

(***************************************************************************)
(* Types                                                                   *)
(***************************************************************************)

\* Counters stay within a word.
LEMMA WordType ==
    ASSUME NEW x \in 0 .. Modulus - 1
    PROVE  Inc(x) \in 0 .. Modulus - 1 /\ Dec(x) \in 0 .. Modulus - 1
BY RequestsAssumption DEF Inc, Dec

\* Zero is a word and the first index, NoTarget is not an index.
LEMMA Zeros == 0 \in 0 .. Modulus - 1 /\ 0 \in Index /\ NoTarget \notin Index
<1>1. Cardinality(Requests) \in Nat
  BY RequestsAssumption, FS_CardinalityType
<1> QED BY <1>1, RequestsAssumption, NAssumption DEF Index, NoTarget

\* The list of healthy indexes is a list of indexes.
LEMMA CollectType == ASSUME NEW states PROVE collectHealthyIndexes(states) \in SUBSET Index
BY DEF collectHealthyIndexes

\* No move at all is a history of moves, and so is one that a move extends.
LEMMA MovesType ==
    /\ Unmoved \in [Index -> 0 .. MaxMoves]
    /\ \A f \in [Index -> 0 .. MaxMoves], i \in Index :
          [f EXCEPT ![i] = IF @ < MaxMoves THEN @ + 1 ELSE @] \in [Index -> 0 .. MaxMoves]
BY MovesAssumption DEF Unmoved

LEMMA MoveType ==
    ASSUME TypeOK, NEW i \in Index, Move(i)
    PROVE  moved' \in [Requests -> [Index -> 0 .. MaxMoves]]
BY MovesType DEF TypeOK, Move

LEMMA InitType == Init => TypeOK
<1> SUFFICES ASSUME Init PROVE TypeOK
  OBVIOUS
<1> QED BY Zeros, CheckerAssumption, MovesType DEF Init, TypeOK, Selecting, Outcomes

\* A step of a request preserves the types.
LEMMA RequestType == ASSUME TypeOK, NEW r \in Requests, Request(r) PROVE TypeOK'
<1> USE DEF TypeOK, poolVars, checkerVars, Selecting, Outcomes
<1>1. CASE Arrive(r)
  BY <1>1 DEF Arrive, FirstSteps
<1>2. CASE Sticky(r)
  <2>1. CASE StickyHit(r)
    <3>1. PICK i \in Index : target' = [target EXCEPT ![r] = i]
      BY <2>1, CollectType DEF StickyHit
    <3> QED BY <2>1, <3>1, Zeros DEF StickyHit
  <2>2. CASE StickyMiss(r)
    BY <2>2 DEF StickyMiss
  <2> QED BY <1>2, <2>1, <2>2 DEF Sticky
<1>3. CASE LoadHealthy(r)
  BY <1>3 DEF LoadHealthy
<1>4. CASE TakeTicket(r)
  BY <1>4, WordType, Zeros DEF TakeTicket, Choose
<1>5. CASE HashTarget(r)
  BY <1>5, Zeros DEF HashTarget, Choose
<1>6. CASE ReadFirst(r)
  BY <1>6, MovesType DEF ReadFirst
<1>7. CASE Scan(r)
  <2>1. PICK i \in todo[r] : todo' = [todo EXCEPT ![r] = @ \ {i}]
    BY <1>7 DEF Scan
  <2>2. todo' \in [Requests -> SUBSET Index] /\ i \in Index
    BY <2>1
  <2>3. lowest' \in [Requests -> 0 .. Modulus - 1]
    BY <1>7 DEF Scan
  <2>4. cands' \in [Requests -> SUBSET Index]
    BY <1>7 DEF Scan
  <2> QED BY <1>7, <2>2, <2>3, <2>4 DEF Scan
<1>8. CASE PickCandidate(r)
  BY <1>8, WordType, Zeros DEF PickCandidate
<1>9. CASE DivideByZero(r)
  BY <1>9, WordType DEF DivideByZero
<1>10. CASE Acquire(r)
  BY <1>10, WordType, Zeros, MoveType DEF Acquire
<1>11. CASE Finish(r)
  BY <1>11 DEF Finish, Forget
<1>12. CASE Release(r)
  BY <1>12, WordType, MoveType DEF Release, Forget
<1>13. CASE Leave(r)
  BY <1>13, Zeros, MovesType DEF Leave, Forget
<1> QED BY <1>1, <1>2, <1>3, <1>4, <1>5, <1>6, <1>7, <1>8, <1>9, <1>10, <1>11,
           <1>12, <1>13 DEF Request, Select

\* So does a step of the checker, of the one that cancels it, of a backend.
LEMMA CheckerType ==
    ASSUME TypeOK, Check \/ StopChecker \/ Cancel \/ \E i \in Flaky : BackendChanges(i)
    PROVE  TypeOK'
<1> USE DEF TypeOK, poolVars, requestVars, checkerVars
<1>1. CASE Probe
  BY <1>1, CheckerAssumption DEF Probe
<1>2. CASE SetTargetState
  BY <1>2 DEF SetTargetState
<1>3. CASE StoreHealthyIndexes
  <2>1. healthyCache' \in SUBSET Index
    BY <1>3, CollectType DEF StoreHealthyIndexes
  <2>2. seenHealthy' \in [Requests -> SUBSET Index]
    BY <1>3, <2>1 DEF StoreHealthyIndexes, SeeList
  <2>3. probe' \in Index
    BY <1>3, NAssumption DEF StoreHealthyIndexes, Index
  <2> QED BY <1>3, <2>1, <2>2, <2>3 DEF StoreHealthyIndexes
<1>4. CASE Tick \/ StopChecker \/ Cancel
  BY <1>4 DEF Tick, StopChecker, Cancel
<1>5. CASE \E i \in Flaky : BackendChanges(i)
  BY <1>5, CheckerAssumption DEF BackendChanges
<1> QED BY <1>1, <1>2, <1>3, <1>4, <1>5 DEF Check

LEMMA NextType == ASSUME TypeOK, [Next]_vars PROVE TypeOK'
<1>1. CASE UNCHANGED vars
  BY <1>1 DEF TypeOK, vars, poolVars, requestVars, checkerVars
<1> QED BY <1>1, RequestType, CheckerType DEF Next

\* Every variable always holds a value the program can give it.
THEOREM TypeCorrect == Spec => []TypeOK
<1> QED BY InitType, NextType, PTL DEF Spec

(***************************************************************************)
(* Conservation: the counters are exact                                    *)
(***************************************************************************)

\* Only least-connection requests run the selection loop; the others never do.
AlgorithmOfPc ==
    \A r \in Requests :
        /\ pc[r] \in {"sticky", "ticket", "hash"} => alg[r] # "least_connection"
        /\ pc[r] \in {"first", "scan", "acquire", "panicked"} => alg[r] = "least_connection"

CountInv == TypeOK /\ AlgorithmOfPc /\ ActiveMatchesInFlight

LEMMA InFlightFinite ==
    ASSUME NEW i
    PROVE  /\ IsFiniteSet(InFlight(i))
           /\ Cardinality(InFlight(i)) \in Nat
           /\ Cardinality(InFlight(i)) <= Cardinality(Requests)
BY RequestsAssumption, FS_Subset, FS_CardinalityType DEF InFlight

LEMMA InitCount == Init => CountInv
<1> SUFFICES ASSUME Init PROVE CountInv
  OBVIOUS
<1>1. \A i \in Index : InFlight(i) = {}
  BY DEF Init, InFlight
<1>2. ActiveMatchesInFlight
  BY <1>1, FS_EmptySet DEF Init, ActiveMatchesInFlight
<1> QED BY <1>2, InitType DEF CountInv, AlgorithmOfPc, Init

\* Which algorithm is at which step.
LEMMA NextAlgorithm ==
    ASSUME TypeOK, AlgorithmOfPc, [Next]_vars PROVE AlgorithmOfPc'
<1> USE DEF TypeOK, AlgorithmOfPc, vars, requestVars
<1>1. ASSUME NEW r \in Requests, Request(r) PROVE AlgorithmOfPc'
  <2>1. CASE Arrive(r)
    BY <2>1 DEF Arrive, FirstSteps
  <2>2. CASE Sticky(r)
    BY <2>2 DEF Sticky, StickyHit, StickyMiss
  <2>3. CASE LoadHealthy(r)
    BY <2>3 DEF LoadHealthy
  <2>4. CASE TakeTicket(r) \/ HashTarget(r)
    BY <2>4 DEF TakeTicket, HashTarget
  <2>5. CASE ReadFirst(r) \/ Scan(r) \/ PickCandidate(r) \/ DivideByZero(r) \/ Acquire(r)
    BY <2>5 DEF ReadFirst, Scan, PickCandidate, DivideByZero, Acquire
  <2>6. CASE Finish(r) \/ Release(r) \/ Leave(r)
    BY <2>6 DEF Finish, Release, Leave, Forget
  <2> QED BY <1>1, <2>1, <2>2, <2>3, <2>4, <2>5, <2>6 DEF Request, Select
<1>2. CASE UNCHANGED vars
  BY <1>2
<1>3. CASE Check \/ StopChecker \/ Cancel \/ \E i \in Flaky : BackendChanges(i)
  BY <1>3 DEF Check, Probe, SetTargetState, StoreHealthyIndexes, Tick, StopChecker,
              Cancel, BackendChanges
<1> QED BY <1>1, <1>2, <1>3 DEF Next

\* A step that leaves the counters and the set of counted requests alone.
LEMMA SameCount ==
    ASSUME ActiveMatchesInFlight, UNCHANGED active,
           \A i \in Index : InFlight(i)' = InFlight(i)
    PROVE  ActiveMatchesInFlight'
BY DEF ActiveMatchesInFlight

\* Acquire adds one to the counter of the target it selected, without wrapping ...
LEMMA AcquireAdds ==
    ASSUME CountInv, NEW r \in Requests, Acquire(r)
    PROVE  LET t == target[r]
           IN  /\ t \in Index /\ r \notin InFlight(t)
               /\ Cardinality(InFlight(t) \union {r}) = Cardinality(InFlight(t)) + 1
               /\ active' = [active EXCEPT ![t] = active[t] + 1]
<1> DEFINE t == target[r]
<1>1. t \in Index /\ r \notin InFlight(t)
  BY Zeros DEF Acquire, InFlight, CountInv, TypeOK
<1>2. Cardinality(InFlight(t) \union {r}) = Cardinality(InFlight(t)) + 1
  BY <1>1, InFlightFinite, FS_AddElement
<1>3. Inc(active[t]) = active[t] + 1
  <2>1. InFlight(t) \union {r} \subseteq Requests
    BY DEF InFlight
  <2>2. Cardinality(InFlight(t) \union {r}) <= Cardinality(Requests)
    BY <2>1, RequestsAssumption, FS_Subset
  <2>3. Cardinality(Requests) \in Nat
    BY RequestsAssumption, FS_CardinalityType
  <2>4. active[t] = Cardinality(InFlight(t))
    BY <1>1 DEF CountInv, ActiveMatchesInFlight
  <2> QED BY <1>2, <2>2, <2>3, <2>4, InFlightFinite, RequestsAssumption DEF Inc
<1>4. active' = [active EXCEPT ![t] = active[t] + 1]
  BY <1>3 DEF Acquire
<1> QED BY <1>1, <1>2, <1>4

\* ... and its request to those in flight there.
LEMMA AcquireCount ==
    ASSUME CountInv, NEW r \in Requests, Acquire(r) PROVE ActiveMatchesInFlight'
<1> DEFINE t == target[r]
<1>1. /\ t \in Index /\ r \notin InFlight(t)
      /\ Cardinality(InFlight(t) \union {r}) = Cardinality(InFlight(t)) + 1
      /\ active' = [active EXCEPT ![t] = active[t] + 1]
  BY AcquireAdds
<1>2. \A i \in Index : InFlight(i)' = IF i = t THEN InFlight(i) \union {r} ELSE InFlight(i)
  BY <1>1 DEF Acquire, InFlight, CountInv, TypeOK, AlgorithmOfPc
<1> QED BY <1>1, <1>2 DEF ActiveMatchesInFlight, CountInv, TypeOK

\* The deferred release takes one off, without wrapping ...
LEMMA ReleaseTakes ==
    ASSUME CountInv, NEW r \in Requests, Release(r)
    PROVE  LET t == target[r]
           IN  /\ t \in Index /\ r \in InFlight(t)
               /\ Cardinality(InFlight(t) \ {r}) = Cardinality(InFlight(t)) - 1
               /\ active' = [active EXCEPT ![t] = active[t] - 1]
<1> DEFINE t == target[r]
<1>1. t \in Index /\ r \in InFlight(t)
  BY Zeros DEF Release, InFlight, CountInv, TypeOK
<1>2. Cardinality(InFlight(t) \ {r}) = Cardinality(InFlight(t)) - 1
  <2> DEFINE S == InFlight(t)
  <2>1. IsFiniteSet(S) /\ r \in S
    BY <1>1, InFlightFinite
  <2> HIDE DEF S
  <2>2. Cardinality(S \ {r}) = Cardinality(S) - 1
    BY <2>1, FS_RemoveElement
  <2> QED BY <2>2 DEF S
<1>3. Dec(active[t]) = active[t] - 1
  <2>1. Cardinality(InFlight(t)) # 0
    BY <1>1, InFlightFinite, FS_EmptySet
  <2> QED BY <1>1, <2>1 DEF Dec, CountInv, ActiveMatchesInFlight
<1>4. active' = [active EXCEPT ![t] = active[t] - 1]
  BY <1>3 DEF Release
<1> QED BY <1>1, <1>2, <1>4

\* ... and its request out again.
LEMMA ReleaseCount ==
    ASSUME CountInv, NEW r \in Requests, Release(r) PROVE ActiveMatchesInFlight'
<1> DEFINE t == target[r]
<1>1. /\ t \in Index /\ r \in InFlight(t)
      /\ Cardinality(InFlight(t) \ {r}) = Cardinality(InFlight(t)) - 1
      /\ active' = [active EXCEPT ![t] = active[t] - 1]
  BY ReleaseTakes
<1>2. \A i \in Index : InFlight(i)' = IF i = t THEN InFlight(i) \ {r} ELSE InFlight(i)
  BY <1>1 DEF Release, Forget, InFlight, CountInv, TypeOK
<1> QED BY <1>1, <1>2 DEF ActiveMatchesInFlight, CountInv, TypeOK

LEMMA NextCount == ASSUME CountInv, [Next]_vars PROVE CountInv'
<1> SUFFICES ActiveMatchesInFlight'
  BY NextType, NextAlgorithm DEF CountInv
<1>1. ASSUME NEW r \in Requests, Request(r) PROVE ActiveMatchesInFlight'
  <2> USE DEF CountInv, TypeOK, AlgorithmOfPc, InFlight
  <2>1. CASE Arrive(r)
    BY <2>1, SameCount DEF Arrive, FirstSteps
  <2>2. CASE Sticky(r)
    BY <2>2, SameCount DEF Sticky, StickyHit, StickyMiss
  <2>3. CASE LoadHealthy(r)
    BY <2>3, SameCount DEF LoadHealthy
  <2>4. CASE TakeTicket(r)
    BY <2>4, SameCount DEF TakeTicket, Choose
  <2>5. CASE HashTarget(r)
    BY <2>5, SameCount DEF HashTarget, Choose
  <2>6. CASE ReadFirst(r) \/ Scan(r) \/ DivideByZero(r)
    BY <2>6, SameCount DEF ReadFirst, Scan, DivideByZero
  <2>7. CASE PickCandidate(r)
    BY <2>7, SameCount DEF PickCandidate
  <2>8. CASE Acquire(r)
    BY <2>8, AcquireCount
  <2>9. CASE Finish(r) \/ Leave(r)
    BY <2>9, SameCount DEF Finish, Leave, Forget
  <2>10. CASE Release(r)
    BY <2>10, ReleaseCount
  <2> QED BY <1>1, <2>1, <2>2, <2>3, <2>4, <2>5, <2>6, <2>7, <2>8, <2>9, <2>10
          DEF Request, Select
<1>2. ASSUME UNCHANGED <<active, requestVars>> PROVE ActiveMatchesInFlight'
  <2>1. \A i \in Index : InFlight(i)' = InFlight(i)
    BY <1>2 DEF InFlight, requestVars
  <2> QED BY <1>2, <2>1, SameCount DEF CountInv
<1>3. CASE UNCHANGED vars
  BY <1>2, <1>3 DEF vars
<1>4. CASE Check \/ StopChecker \/ Cancel \/ \E i \in Flaky : BackendChanges(i)
  BY <1>2, <1>4 DEF Check, Probe, SetTargetState, StoreHealthyIndexes, Tick,
     StopChecker, Cancel, BackendChanges
<1> QED BY <1>1, <1>3, <1>4 DEF Next

\* active[i] is the number of least-connection requests target i is serving,
\* for any number of requests and any interleaving of LeastConnectionTarget and
\* the deferred release.
THEOREM CountersAreExact == Spec => []ActiveMatchesInFlight
<1>1. Spec => []CountInv
  BY InitCount, NextCount, PTL DEF Spec
<1> QED BY <1>1, PTL DEF CountInv

(***************************************************************************)
(* Health: the cache, the states and what a request may act on             *)
(***************************************************************************)

\* setTargetState writes the state, then the cache, under one hold of mu.
CacheInv ==
    /\ mu = "checker" <=> checkerPc = "store"
    /\ CacheMatchesStates
    /\ mu = "checker" =>
         /\ targetHealthy[probe] = answered
         /\ \A i \in Index \ {probe} : targetHealthy[i] <=> i \in healthyCache

\* A selecting request has seen every target that is listed now, and all it
\* carries along was listed when it loaded it.
SeenInv ==
    \A r \in Requests :
        /\ pc[r] \in Selecting => healthyCache \subseteq seenHealthy[r]
        /\ pc[r] \in {"ticket", "hash", "first", "scan", "acquire"} =>
             list[r] \subseteq seenHealthy[r]
        /\ cands[r] \subseteq list[r] /\ todo[r] \subseteq list[r]
        /\ pc[r] \notin {"scan", "acquire"} => cands[r] = {}
        /\ pc[r] # "scan" => todo[r] = {}

HealthIInv == TypeOK /\ CacheInv /\ SeenInv /\ ServedTargetWasHealthy

LEMMA InitHealth == Init => HealthIInv
BY InitType DEF Init, HealthIInv, CacheInv, SeenInv, ServedTargetWasHealthy,
   CacheMatchesStates, collectHealthyIndexes, Selecting

LEMMA NextCache == ASSUME TypeOK, CacheInv, [Next]_vars PROVE CacheInv'
<1> USE DEF CacheInv, CacheMatchesStates
<1>1. CASE UNCHANGED <<poolVars, checkerPc, probe, answered>>
  BY <1>1 DEF poolVars
<1>2. ASSUME NEW r \in Requests, Request(r)
      PROVE  UNCHANGED <<poolVars, checkerPc, probe, answered>>
  BY <1>2 DEF Request, Sticky, Select, Arrive, StickyHit, StickyMiss, LoadHealthy,
     TakeTicket, HashTarget, ReadFirst, Scan, PickCandidate, DivideByZero, Acquire,
     Finish, Release, Leave, checkerVars
<1>3. CASE Probe
  BY <1>3 DEF Probe, poolVars
<1>4. CASE SetTargetState
  BY <1>4 DEF SetTargetState, collectHealthyIndexes, TypeOK
<1>5. CASE StoreHealthyIndexes
  BY <1>5 DEF StoreHealthyIndexes
<1>6. CASE Tick \/ StopChecker \/ Cancel \/ \E i \in Flaky : BackendChanges(i)
  BY <1>6 DEF Tick, StopChecker, Cancel, BackendChanges, poolVars, checkerVars
<1>7. CASE UNCHANGED vars
  BY <1>1, <1>7 DEF vars, checkerVars
<1> QED BY <1>1, <1>2, <1>3, <1>4, <1>5, <1>6, <1>7 DEF Next, Check

\* The steps of a request and what they leave alone.
LEMMA RequestSeen ==
    ASSUME HealthIInv, NEW r \in Requests, Request(r)
    PROVE  SeenInv' /\ ServedTargetWasHealthy'
<1>1. UNCHANGED poolVars
  BY DEF Request, Sticky, Select, Arrive, StickyHit, StickyMiss,
     LoadHealthy, TakeTicket, HashTarget, ReadFirst, Scan, PickCandidate, DivideByZero,
     Acquire, Finish, Release, Leave
<1> USE <1>1 DEF HealthIInv, TypeOK, SeenInv, ServedTargetWasHealthy, Selecting, poolVars
<1>2. CASE Arrive(r)
  BY <1>2 DEF Arrive, FirstSteps
<1>3. CASE Sticky(r)
  BY <1>3 DEF Sticky, StickyHit, StickyMiss, CacheInv, CacheMatchesStates
<1>4. CASE LoadHealthy(r)
  BY <1>4 DEF LoadHealthy
<1>5. CASE TakeTicket(r)
  BY <1>5 DEF TakeTicket, Choose
<1>6. CASE HashTarget(r)
  BY <1>6 DEF HashTarget, Choose
<1>7. CASE ReadFirst(r)
  BY <1>7 DEF ReadFirst
<1>8. CASE Scan(r)
  BY <1>8 DEF Scan
<1>9. CASE PickCandidate(r)
  BY <1>9 DEF PickCandidate
<1>10. CASE DivideByZero(r)
  BY <1>10 DEF DivideByZero
<1>11. CASE Acquire(r)
  BY <1>11 DEF Acquire
<1>12. CASE Finish(r) \/ Release(r)
  <2>1. Forget(r) /\ UNCHANGED <<list, lowest, todo, cands>>
    BY <1>12 DEF Finish, Release
  <2>2. pc'[r] = "idle" /\ pc[r] = "serving" /\ seenHealthy'[r] = {}
    BY <1>12, <2>1 DEF Forget, Finish, Release
  <2>3. \A q \in Requests : q # r => pc'[q] = pc[q] /\ target'[q] = target[q]
                                     /\ seenHealthy'[q] = seenHealthy[q]
    BY <2>1 DEF Forget
  <2> QED BY <2>1, <2>2, <2>3
<1>13. CASE Leave(r)
  BY <1>13 DEF Leave, Forget
<1> QED BY <1>2, <1>3, <1>4, <1>5, <1>6, <1>7, <1>8, <1>9, <1>10, <1>11, <1>12, <1>13
        DEF Request, Select

\* The checker only adds to what a request may be given.
LEMMA CheckerSeen ==
    ASSUME HealthIInv, Check \/ StopChecker \/ Cancel \/ \E i \in Flaky : BackendChanges(i)
    PROVE  SeenInv' /\ ServedTargetWasHealthy'
<1> USE DEF HealthIInv, TypeOK, SeenInv, ServedTargetWasHealthy, requestVars
<1>1. CASE SetTargetState
  BY <1>1 DEF SetTargetState
<1>2. CASE StoreHealthyIndexes
  BY <1>2 DEF StoreHealthyIndexes, SeeList, Selecting
<1>3. CASE Probe \/ Tick \/ StopChecker \/ Cancel \/ \E i \in Flaky : BackendChanges(i)
  BY <1>3 DEF Probe, Tick, StopChecker, Cancel, BackendChanges, poolVars
<1> QED BY <1>1, <1>2, <1>3 DEF Check

LEMMA NextHealth == ASSUME HealthIInv, [Next]_vars PROVE HealthIInv'
<1>1. SeenInv' /\ ServedTargetWasHealthy'
  <2>1. ASSUME UNCHANGED vars PROVE SeenInv' /\ ServedTargetWasHealthy'
    BY <2>1 DEF HealthIInv, SeenInv, ServedTargetWasHealthy, vars, poolVars,
       requestVars
  <2> QED BY <2>1, RequestSeen, CheckerSeen DEF Next
<1> QED BY <1>1, NextType, NextCache DEF HealthIInv

LEMMA HealthAlways == Spec => []HealthIInv
BY InitHealth, NextHealth, PTL DEF Spec

\* A request is only sent to a target listed as healthy since the request arrived,
\* whichever algorithm it uses and however old the list it holds.
THEOREM NeverServedByUnhealthy == Spec => []ServedTargetWasHealthy
<1>1. HealthIInv => ServedTargetWasHealthy
  BY DEF HealthIInv
<1> QED BY <1>1, HealthAlways, PTL

\* The cached list agrees with the states whenever mu is free.
THEOREM CacheIsCoherent == Spec => []CacheMatchesStates
<1>1. HealthIInv => CacheMatchesStates
  BY DEF HealthIInv, CacheInv
<1> QED BY <1>1, HealthAlways, PTL

\* After its context is cancelled the checker readmits no target, save by the
\* one answer it already holds (CheckTarget, SetTargetUnhealthy).
THEOREM CancelledOnlyExcludes == Spec => CancelledNeverReadmits
<1> DEFINE A == (cancelled /\ ~HoldsYes)
                   => (~HoldsYes' /\ healthyCache' \subseteq healthyCache)
<1>1. ASSUME HealthIInv, [Next]_vars PROVE A
  <2>1. CASE StoreHealthyIndexes
    BY <1>1, <2>1 DEF HealthIInv, TypeOK, CacheInv, StoreHealthyIndexes, HoldsYes,
       collectHealthyIndexes
  <2>2. CASE UNCHANGED <<healthyCache, checkerVars>>
    BY <2>2 DEF HoldsYes, checkerVars
  <2>3. CASE \E r \in Requests : Request(r)
    BY <2>2, <2>3 DEF Request, Sticky, Select, Arrive, StickyHit, StickyMiss, LoadHealthy,
       TakeTicket, HashTarget, ReadFirst, Scan, PickCandidate, DivideByZero, Acquire,
       Finish, Release, Leave, poolVars
  <2>4. CASE Probe
    BY <2>4 DEF Probe, poolVars, HoldsYes
  <2>5. CASE SetTargetState
    BY <2>5 DEF SetTargetState, HoldsYes
  <2>6. CASE Tick \/ StopChecker
    BY <2>6 DEF Tick, StopChecker, poolVars, HoldsYes
  <2> QED BY <1>1, <2>1, <2>2, <2>3, <2>4, <2>5, <2>6
          DEF Next, Check, Cancel, BackendChanges, vars, poolVars
<1> QED BY <1>1, HealthAlways, PTL DEF Spec, CancelledNeverReadmits

(***************************************************************************)
(* Least connection: what the selection loop knows in spite of the others  *)
(***************************************************************************)

InLoop(r) == pc[r] \in {"scan", "acquire", "panicked"}

\* Of each target the loop knows the counter but for the moves of it since the loop
\* began: a candidate has at most `lowest` and its moves, a target that was read at
\* least `lowest` less its moves.  The first target is a candidate when it is read
\* again, unless it moved.
LoopInv ==
    \A r \in Requests : InLoop(r) =>
        /\ \E f \in list[r] : IsFirst(f, list[r])
        /\ cands[r] \intersect todo[r] = {}
        /\ \A i \in cands[r] :
             moved[r][i] < MaxMoves => active[i] <= lowest[r] + moved[r][i]
        /\ \A j \in list[r] \ todo[r] :
             moved[r][j] < MaxMoves => lowest[r] <= active[j] + moved[r][j]
        /\ \A f \in list[r] : moved[r][f] = 0 /\ IsFirst(f, list[r]) =>
             IF f \in todo[r] THEN active[f] = lowest[r] ELSE cands[r] # {}
        /\ pc[r] = "acquire" => target[r] \in cands[r]

LoopIInv == CountInv /\ HealthIInv /\ LoopInv

LEMMA InitLoop == Init => LoopIInv
BY InitCount, InitHealth DEF LoopIInv, LoopInv, InLoop, Init

\* Entering the loop, one turn of it, and its two ways out.
LEMMA LoopSteps ==
    ASSUME LoopIInv, NEW r \in Requests,
           ReadFirst(r) \/ Scan(r) \/ PickCandidate(r) \/ DivideByZero(r)
    PROVE  LoopInv'
<1> USE DEF LoopIInv, HealthIInv, LoopInv, InLoop, TypeOK, SeenInv
<1>1. CASE ReadFirst(r)
  <2>1. PICK i \in list[r] : IsFirst(i, list[r]) /\ lowest' = [lowest EXCEPT ![r] = active[i]]
    BY <1>1 DEF ReadFirst
  <2>2. /\ list' = list /\ active' = active /\ target' = target /\ cands' = cands
        /\ pc' = [pc EXCEPT ![r] = "scan"] /\ todo' = [todo EXCEPT ![r] = list[r]]
        /\ moved' = [moved EXCEPT ![r] = Unmoved] /\ cands[r] = {}
    BY <1>1 DEF ReadFirst
  <2>3. \A f \in list[r] : IsFirst(f, list[r]) => f = i
    BY <2>1 DEF IsFirst, Index
  <2>4. lowest'[r] = active[i]
    BY <2>1
  <2>5. ASSUME NEW q \in Requests \ {r}, InLoop(q)'
        PROVE  InLoop(q) /\ lowest'[q] = lowest[q] /\ moved'[q] = moved[q]
               /\ todo'[q] = todo[q] /\ pc'[q] = pc[q]
    BY <2>1, <2>2, <2>5
  <2> QED BY <2>1, <2>2, <2>3, <2>4, <2>5
<1>2. CASE Scan(r)
  <2>1. PICK i \in todo[r] :
          /\ IsFirst(i, todo[r])
          /\ todo' = [todo EXCEPT ![r] = @ \ {i}]
          /\ \/ /\ active[i] < lowest[r]
                /\ lowest' = [lowest EXCEPT ![r] = active[i]]
                /\ cands' = [cands EXCEPT ![r] = {i}]
             \/ /\ active[i] = lowest[r]
                /\ cands' = [cands EXCEPT ![r] = @ \union {i}]
                /\ UNCHANGED lowest
             \/ /\ active[i] > lowest[r]
                /\ UNCHANGED <<lowest, cands>>
    BY <1>2 DEF Scan
  <2>2. pc[r] = "scan" /\ UNCHANGED <<pc, list, active, moved, target>>
    BY <1>2 DEF Scan
  <2>3. i \in Index /\ active[i] \in Int /\ lowest[r] \in Int
        /\ \A j \in Index : active[j] \in Int
    BY RequestsAssumption
  <2>4. \A f \in list[r] : IsFirst(f, list[r]) /\ f \in todo[r] => f = i
    BY <2>1, <2>3 DEF IsFirst, Index
  <2>5. cands'[r] \intersect todo'[r] = {}
    BY <2>1, <2>2
  <2>6. \A j \in cands'[r] : moved[r][j] < MaxMoves => active[j] <= lowest'[r] + moved[r][j]
    BY <2>1, <2>2
  <2>7. \A j \in list[r] \ todo'[r] :
          moved[r][j] < MaxMoves => lowest'[r] <= active[j] + moved[r][j]
    BY <2>1, <2>2, <2>3
  <2>8. \A f \in list[r] :
          moved[r][f] = 0 /\ IsFirst(f, list[r]) => IF f \in todo'[r] THEN active[f] = lowest'[r] ELSE cands'[r] # {}
    <3> SUFFICES ASSUME NEW f \in list[r], moved[r][f] = 0, IsFirst(f, list[r])
                 PROVE  f \notin todo'[r] /\ cands'[r] # {}
      OBVIOUS
    <3>1. f \notin todo'[r]
      BY <2>1, <2>4
    <3>2. CASE f \in todo[r]
      <4>1. active[f] = lowest[r]
        BY <3>2, <2>2
      <4>2. i \in cands'[r]
        BY <2>1, <2>3, <2>4, <3>2, <4>1
      <4> QED BY <3>1, <4>2
    <3>3. CASE f \notin todo[r]
      <4>1. cands[r] # {}
        BY <3>3, <2>2
      <4>2. cands'[r] = {i} \/ cands[r] \subseteq cands'[r]
        BY <2>1
      <4> QED BY <3>1, <4>1, <4>2
    <3> QED BY <3>2, <3>3
  <2>9. \A q \in Requests \ {r} :
          cands'[q] = cands[q] /\ todo'[q] = todo[q] /\ lowest'[q] = lowest[q]
    BY <2>1
  <2>10. \E f \in list[r] : IsFirst(f, list[r])
    BY <2>2
  <2> QED BY <2>2, <2>5, <2>6, <2>7, <2>8, <2>9, <2>10
<1>3. CASE PickCandidate(r)
  BY <1>3 DEF PickCandidate
<1>4. CASE DivideByZero(r)
  BY <1>4 DEF DivideByZero
<1> QED BY <1>1, <1>2, <1>3, <1>4

\* A counter that moves by one is a move for every request in the loop, which leaves
\* the locals of the loop alone.
LEMMA CounterMoves ==
    ASSUME LoopIInv, NEW t \in Index, NEW d \in {1, -1}, Move(t),
           active' = [active EXCEPT ![t] = active[t] + d],
           NEW q \in Requests, InLoop(q), InLoop(q)',
           pc'[q] = "acquire" => pc[q] = "acquire",
           list'[q] = list[q], todo'[q] = todo[q], cands'[q] = cands[q],
           lowest'[q] = lowest[q], target'[q] = target[q]
    PROVE  /\ \E f \in list[q] : IsFirst(f, list[q])
           /\ cands[q] \intersect todo[q] = {}
           /\ \A i \in cands[q] :
                moved'[q][i] < MaxMoves => active'[i] <= lowest[q] + moved'[q][i]
           /\ \A j \in list[q] \ todo[q] :
                moved'[q][j] < MaxMoves => lowest[q] <= active'[j] + moved'[q][j]
           /\ \A f \in list[q] : moved'[q][f] = 0 /\ IsFirst(f, list[q]) =>
                IF f \in todo[q] THEN active'[f] = lowest[q] ELSE cands[q] # {}
           /\ pc'[q] = "acquire" => target[q] \in cands[q]
<1> USE DEF LoopIInv, HealthIInv, LoopInv
<1>1. /\ active \in [Index -> Nat] /\ lowest[q] \in Nat
      /\ moved[q] \in [Index -> 0 .. MaxMoves] /\ moved \in [Requests -> [Index -> 0 .. MaxMoves]]
      /\ list[q] \in SUBSET Index /\ cands[q] \in SUBSET Index /\ MaxMoves \in Nat \ {0}
  BY RequestsAssumption, MovesAssumption DEF TypeOK
<1>2. moved'[q] = [moved[q] EXCEPT ![t] = IF moved[q][t] < MaxMoves THEN moved[q][t] + 1 ELSE moved[q][t]]
  BY DEF Move, InLoop
<1>3. \A i \in Index : i # t => moved'[q][i] = moved[q][i] /\ active'[i] = active[i]
  BY <1>1, <1>2
<1>4. /\ active'[t] = active[t] + d /\ moved'[q][t] # 0
      /\ moved'[q][t] < MaxMoves => moved[q][t] < MaxMoves /\ moved'[q][t] = moved[q][t] + 1
  BY <1>1, <1>2
<1>5. ASSUME NEW i \in cands[q], moved'[q][i] < MaxMoves
      PROVE  active'[i] <= lowest[q] + moved'[q][i]
  <2>1. moved[q][i] < MaxMoves => active[i] <= lowest[q] + moved[q][i]
    OBVIOUS
  <2> QED BY <1>1, <1>3, <1>4, <1>5, <2>1
<1>6. ASSUME NEW j \in list[q] \ todo[q], moved'[q][j] < MaxMoves
      PROVE  lowest[q] <= active'[j] + moved'[q][j]
  <2>1. moved[q][j] < MaxMoves => lowest[q] <= active[j] + moved[q][j]
    OBVIOUS
  <2> QED BY <1>1, <1>3, <1>4, <1>6, <2>1
<1>7. ASSUME NEW f \in list[q], moved'[q][f] = 0, IsFirst(f, list[q])
      PROVE  IF f \in todo[q] THEN active'[f] = lowest[q] ELSE cands[q] # {}
  <2>1. f # t /\ f \in Index
    BY <1>1, <1>4, <1>7
  <2> QED BY <1>3, <1>7, <2>1
<1> QED BY <1>5, <1>6, <1>7

\* Acquire and the deferred release leave every loop with what it knows.
LEMMA LoopsMove ==
    ASSUME LoopIInv, NEW r \in Requests, Acquire(r) \/ Release(r)
    PROVE  LoopInv'
<1>1. PICK t \in Index, d \in {1, -1} : Move(t) /\ active' = [active EXCEPT ![t] = active[t] + d]
  <2>1. CASE Acquire(r)
    <3>1. Move(target[r])
      BY <2>1 DEF Acquire
    <3> QED BY <2>1, <3>1, AcquireAdds DEF LoopIInv
  <2>2. CASE Release(r)
    <3>1. Move(target[r])
      BY <2>2 DEF Release
    <3>2. target[r] \in Index /\ active' = [active EXCEPT ![target[r]] = active[target[r]] - 1]
      BY <2>2, ReleaseTakes DEF LoopIInv
    <3>3. target[r] \in Index /\ active' = [active EXCEPT ![target[r]] = active[target[r]] + (-1)]
      <4>1. active[target[r]] - 1 = active[target[r]] + (-1)
        BY <3>2, RequestsAssumption DEF LoopIInv, HealthIInv, TypeOK
      <4> QED BY <3>2, <4>1
    <3> QED BY <3>1, <3>3
  <2> QED BY <2>1, <2>2
<1>2. ASSUME NEW q \in Requests, InLoop(q)'
      PROVE  /\ InLoop(q) /\ pc'[q] = pc[q]
             /\ list'[q] = list[q] /\ todo'[q] = todo[q] /\ cands'[q] = cands[q]
             /\ lowest'[q] = lowest[q] /\ target'[q] = target[q]
  BY <1>2 DEF LoopIInv, HealthIInv, TypeOK, InLoop, Acquire, Release, Forget
<1> QED BY <1>1, <1>2, CounterMoves DEF LoopInv

LEMMA NextLoop == ASSUME LoopIInv, [Next]_vars PROVE LoopIInv'
<1> SUFFICES LoopInv'
  BY NextCount, NextHealth DEF LoopIInv
<1>1. ASSUME NEW r \in Requests, Request(r) PROVE LoopInv'
  <2> USE DEF LoopIInv, HealthIInv, LoopInv, InLoop, TypeOK
  <2>1. CASE ReadFirst(r) \/ Scan(r) \/ PickCandidate(r) \/ DivideByZero(r)
    BY <2>1, LoopSteps
  <2>2. CASE Acquire(r) \/ Release(r)
    BY <2>2, LoopsMove
  <2>3. CASE Arrive(r) \/ Sticky(r)
    BY <2>3 DEF Arrive, FirstSteps, Sticky, StickyHit, StickyMiss
  <2>4. CASE LoadHealthy(r)
    BY <2>4 DEF LoadHealthy
  <2>5. CASE TakeTicket(r)
    BY <2>5 DEF TakeTicket, Choose
  <2>6. CASE HashTarget(r)
    BY <2>6 DEF HashTarget, Choose
  <2>7. CASE Finish(r) \/ Leave(r)
    BY <2>7 DEF Finish, Leave, Forget
  <2> QED BY <1>1, <2>1, <2>2, <2>3, <2>4, <2>5, <2>6, <2>7 DEF Request, Select
<1>2. ASSUME UNCHANGED <<active, requestVars, moved>> PROVE LoopInv'
  BY <1>2 DEF LoopIInv, LoopInv, InLoop, requestVars
<1>3. CASE UNCHANGED vars
  BY <1>2, <1>3 DEF vars
<1>4. CASE Check \/ StopChecker \/ Cancel \/ \E i \in Flaky : BackendChanges(i)
  BY <1>2, <1>4 DEF Check, Probe, SetTargetState, StoreHealthyIndexes, Tick,
     StopChecker, Cancel, BackendChanges
<1> QED BY <1>1, <1>3, <1>4 DEF Next

LEMMA LoopAlways == Spec => []LoopIInv
BY InitLoop, NextLoop, PTL DEF Spec

\* However the counters move while they are read one by one, the target selected is
\* busier than another by no more than the moves of these two.
THEOREM LeastConnectionIsLeast == Spec => []LeastLoadedButForMoves
<1>1. LoopIInv => LeastLoadedButForMoves
  <2> SUFFICES ASSUME LoopIInv, NEW r \in Requests, pc[r] = "acquire", NEW j \in list[r],
                      moved[r][target[r]] < MaxMoves, moved[r][j] < MaxMoves
               PROVE  active[target[r]] <= active[j] + moved[r][target[r]] + moved[r][j]
    BY DEF LeastLoadedButForMoves
  <2>1. /\ active \in [Index -> Nat] /\ lowest[r] \in Nat /\ moved[r] \in [Index -> Nat]
        /\ list[r] \in SUBSET Index /\ cands[r] \in SUBSET list[r] /\ todo[r] = {}
    BY RequestsAssumption, MovesAssumption DEF LoopIInv, HealthIInv, TypeOK, SeenInv
  <2>2. /\ target[r] \in cands[r]
        /\ active[target[r]] <= lowest[r] + moved[r][target[r]]
        /\ lowest[r] <= active[j] + moved[r][j]
    BY <2>1 DEF LoopIInv, LoopInv, InLoop
  <2> QED BY <2>1, <2>2
<1> QED BY <1>1, LoopAlways, PTL

\* lowestActiveIndexes returns an empty list, on which nextHealthyIndex divides
\* by zero, only if the counter of the first healthy target moved meanwhile.
THEOREM PanicOnlyByRace == Spec => []PanicNeedsFirstTargetToMove
<1>1. LoopIInv => PanicNeedsFirstTargetToMove
  <2> SUFFICES ASSUME LoopIInv, NEW r \in Requests, pc[r] = "panicked"
               PROVE  \E i \in list[r] : IsFirst(i, list[r]) /\ moved[r][i] > 0
    BY DEF PanicNeedsFirstTargetToMove
  <2>1. todo[r] = {} /\ cands[r] = {} /\ list[r] \in SUBSET Index
        /\ moved[r] \in [Index -> 0 .. MaxMoves]
    BY DEF LoopIInv, HealthIInv, SeenInv, TypeOK
  <2>2. PICK f \in list[r] : IsFirst(f, list[r])
    BY DEF LoopIInv, LoopInv, InLoop
  <2>3. moved[r][f] # 0
    BY <2>1, <2>2 DEF LoopIInv, LoopInv, InLoop
  <2>4. moved[r][f] \in 0 .. MaxMoves
    BY <2>1
  <2> QED BY <2>2, <2>3, <2>4, MovesAssumption
<1> QED BY <1>1, LoopAlways, PTL

(***************************************************************************)
(* A selection is never stuck and never goes back                          *)
(***************************************************************************)

IndexOrder(S) == {p \in S \X S : p[1] < p[2]}

\* The position that a number modulo the length gives is that of an element.
LEMMA PositionTaken ==
    ASSUME NEW S \in SUBSET Index, S # {}, NEW ticket \in Nat
    PROVE  Hits(ticket, S)
<1>1. IsFiniteSet(S) /\ Cardinality(S) \in Nat \ {0}
  <2>1. IsFiniteSet(Index)
    BY NAssumption, FS_Interval DEF Index
  <2>2. IsFiniteSet(S)
    BY <2>1, FS_Subset
  <2> QED BY <2>2, FS_CardinalityType, FS_EmptySet
<1>2. StrictTotalOrder(IndexOrder(S), S)
  BY DEF StrictTotalOrder, IndexOrder, Index
<1> DEFINE k == ticket % Cardinality(S)
<1>3. k \in 0 .. Cardinality(S) - 1
  BY <1>1, NextRemainder
<1>4. k + 1 \in 1 .. Cardinality(S) /\ k \in Int
  BY <1>1, <1>3
<1> HIDE DEF k
<1>5. PICK i \in S : 1 + Cardinality(Before(IndexOrder(S), S, i)) = k + 1
  BY <1>1, <1>2, <1>4, Ranking
<1>6. Before(IndexOrder(S), S, i) = {j \in S : j < i}
  BY DEF Before, IndexOrder
<1>7. IsFiniteSet({j \in S : j < i}) /\ Cardinality({j \in S : j < i}) \in Nat
  BY <1>1, FS_Subset, FS_CardinalityType
<1>8. Cardinality({j \in S : j < i}) = k
  BY <1>4, <1>5, <1>6, <1>7
<1> QED BY <1>8 DEF Hits, IsAt, k

\* A list that is not empty has a first element.
LEMMA FirstTaken ==
    ASSUME NEW S \in SUBSET Index, S # {} PROVE \E i \in S : IsFirst(i, S)
<1>1. S \subseteq Nat
  BY DEF Index
<1> QED BY <1>1, LeastNumber DEF IsFirst

\* A request that goes on from its load has found a target.
ListInv ==
    \A r \in Requests :
        pc[r] \in {"ticket", "hash", "first", "scan", "acquire"} => list[r] # {}

LEMMA NextList == ASSUME TypeOK, ListInv, [Next]_vars PROVE ListInv'
<1> USE DEF TypeOK, ListInv
<1>1. CASE UNCHANGED vars
  BY <1>1 DEF vars, requestVars
<1>2. CASE Check \/ StopChecker \/ Cancel \/ \E i \in Flaky : BackendChanges(i)
  BY <1>2 DEF Check, Probe, SetTargetState, StoreHealthyIndexes, Tick, StopChecker,
              Cancel, BackendChanges, requestVars
<1>3. ASSUME NEW r \in Requests, Request(r) PROVE ListInv'
  <2>1. CASE LoadHealthy(r)
    BY <2>1 DEF LoadHealthy
  <2>2. CASE \/ Arrive(r) \/ Sticky(r) \/ TakeTicket(r) \/ HashTarget(r)
             \/ Acquire(r) \/ Finish(r) \/ Release(r) \/ Leave(r)
    BY <2>2 DEF Arrive, FirstSteps, Sticky, StickyHit, StickyMiss, TakeTicket, HashTarget, Choose,
       Acquire, Finish, Release, Leave, Forget
  <2>3. CASE ReadFirst(r) \/ Scan(r) \/ PickCandidate(r) \/ DivideByZero(r)
    BY <2>3 DEF ReadFirst, Scan, PickCandidate, DivideByZero
  <2> QED BY <1>3, <2>1, <2>2, <2>3 DEF Request, Select
<1> QED BY <1>1, <1>2, <1>3 DEF Next

\* The index into the list of healthy targets, and into the list of candidates, is
\* in range, however the checker and the other requests interfere, so that the
\* selection has no other panic than that of the empty list of candidates.
THEOREM SelectionNeverStuck == Spec => []SelectionCanGoOn
<1>1. Spec => [](TypeOK /\ ListInv)
  <2>1. Init => TypeOK /\ ListInv
    BY InitType DEF Init, ListInv
  <2> QED BY <2>1, NextType, NextList, PTL DEF Spec
<1>2. TypeOK /\ ListInv => SelectionCanGoOn
  <2> SUFFICES ASSUME TypeOK, ListInv, NEW r \in Requests
               PROVE  /\ pc[r] = "ticket" => Hits(next, list[r])
                      /\ pc[r] = "hash" => \A sum \in HashSums : Hits(sum, list[r])
                      /\ pc[r] = "first" => \E i \in list[r] : IsFirst(i, list[r])
                      /\ pc[r] = "scan" =>
                           IF todo[r] # {} THEN \E i \in todo[r] : IsFirst(i, todo[r])
                           ELSE cands[r] # {} => Hits(next, cands[r])
                      /\ pc[r] = "acquire" => target[r] \in Index
    BY DEF SelectionCanGoOn
  <2>1. /\ list[r] \in SUBSET Index /\ todo[r] \in SUBSET Index /\ cands[r] \in SUBSET Index
        /\ next \in Nat
    BY RequestsAssumption DEF TypeOK
  <2>2. pc[r] \in {"ticket", "hash", "first"} => list[r] # {}
    BY DEF ListInv
  <2>3. pc[r] = "acquire" => target[r] \in Index
    BY DEF TypeOK
  <2> QED BY <2>1, <2>2, <2>3, PositionTaken, FirstTaken, HashAssumption
<1> QED BY <1>1, <1>2, PTL

\* What remains to be read is finite, and no more than there are targets.
LEMMA TodoBound ==
    ASSUME NEW S \in SUBSET Index
    PROVE  /\ IsFiniteSet(S) /\ Cardinality(S) \in 0 .. N
           /\ \A i \in S : Cardinality(S \ {i}) = Cardinality(S) - 1
<1>1. IsFiniteSet(Index) /\ Cardinality(Index) = N
  BY NAssumption, FS_Interval DEF Index
<1>2. IsFiniteSet(S) /\ Cardinality(S) <= N
  BY <1>1, FS_Subset
<1>3. Cardinality(S) \in Nat
  BY <1>2, FS_CardinalityType
<1> QED BY <1>2, <1>3, NAssumption, FS_RemoveElement

LEMMA StepsOf ==
    ASSUME NEW n
    PROVE  /\ StepsFrom("sticky", n) = N + 5 /\ StepsFrom("load", n) = N + 4
           /\ StepsFrom("first", n) = N + 3 /\ StepsFrom("scan", n) = n + 2
           /\ \A p \in {"ticket", "hash", "acquire"} : StepsFrom(p, n) = 1
           /\ \A p \in Outcomes : StepsFrom(p, n) = 0
BY DEF StepsFrom, Outcomes

\* Each step of a selection brings it nearer to its end, which is N + 5 of its own
\* steps away at most: no interleaving makes selectTarget loop.
THEOREM SelectionTakesFewSteps == Spec => SelectionIsBounded
<1>1. ASSUME TypeOK, NEW r \in Requests, Sticky(r) \/ Select(r)
      PROVE  StepsLeft(r)' < StepsLeft(r)
  <2> DEFINE unread == Cardinality(todo[r])
  <2>1. /\ pc \in [Requests -> {"idle"} \union Selecting \union Outcomes]
        /\ todo[r] \in SUBSET Index /\ list[r] \in SUBSET Index
        /\ todo \in [Requests -> SUBSET Index] /\ N \in Nat
    <3>1. TypeOK /\ r \in Requests
      BY <1>1
    <3> QED BY <3>1, NAssumption DEF TypeOK
  <2>2. unread \in 0 .. N
    BY <2>1, TodoBound
  <2>3. /\ StepsLeft(r) = StepsFrom(pc[r], unread)
        /\ StepsLeft(r)' = StepsFrom(pc'[r], unread')
    BY DEF StepsLeft
  <2>4. CASE Sticky(r)
    <3>1. pc[r] = "sticky" /\ pc'[r] \in {"serving", "load"}
      BY <2>1, <2>4 DEF Sticky, StickyHit, StickyMiss
    <3> QED BY <2>1, <2>3, <3>1, StepsOf DEF Outcomes
  <2>5. CASE LoadHealthy(r)
    <3>1. pc[r] = "load" /\ pc'[r] \in {"rejected", "first", "hash", "ticket"}
      BY <2>1, <2>5 DEF LoadHealthy
    <3> QED BY <2>1, <2>3, <3>1, StepsOf DEF Outcomes
  <2>6. CASE TakeTicket(r) \/ HashTarget(r) \/ Acquire(r)
    <3>1. pc[r] \in {"ticket", "hash", "acquire"} /\ pc'[r] = "serving"
      BY <2>1, <2>6 DEF TakeTicket, HashTarget, Acquire
    <3> QED BY <2>3, <3>1, StepsOf DEF Outcomes
  <2>7. CASE ReadFirst(r)
    <3>1. pc[r] = "first" /\ pc'[r] = "scan" /\ todo'[r] = list[r]
      BY <2>1, <2>7 DEF ReadFirst
    <3>2. unread' \in 0 .. N
      BY <2>1, <3>1, TodoBound
    <3> QED BY <2>1, <2>3, <3>1, <3>2, StepsOf
  <2>8. CASE Scan(r)
    <3>1. pc[r] = "scan" /\ pc'[r] = "scan"
      BY <2>8 DEF Scan
    <3>2. PICK i \in todo[r] : todo'[r] = todo[r] \ {i}
      BY <2>1, <2>8 DEF Scan
    <3>3. unread' = unread - 1
      BY <2>1, <3>2, TodoBound
    <3> QED BY <2>2, <2>3, <3>1, <3>3, StepsOf
  <2>9. CASE PickCandidate(r) \/ DivideByZero(r)
    <3>1. pc[r] = "scan" /\ pc'[r] \in {"acquire", "panicked"}
      BY <2>1, <2>9 DEF PickCandidate, DivideByZero
    <3> QED BY <2>2, <2>3, <3>1, StepsOf DEF Outcomes
  <2> QED BY <1>1, <2>4, <2>5, <2>6, <2>7, <2>8, <2>9 DEF Select
<1>2. TypeOK => [\A r \in Requests : Sticky(r) \/ Select(r) => StepsLeft(r)' < StepsLeft(r)]_vars
  BY <1>1
<1> QED BY <1>2, TypeCorrect, PTL DEF SelectionIsBounded

(***************************************************************************)
(* The pool implements PoolSpec                                            *)
(***************************************************************************)

\* What the refinement mapping shows of a request.
LEMMA Shown ==
    /\ \A p \in Selecting : StateOf(p) = "asking"
    /\ StateOf("idle") = "idle" /\ StateOf("serving") = "served"
    /\ StateOf("rejected") = "refused" /\ StateOf("panicked") = "broken"
BY DEF StateOf, Selecting

LEMMA InitShown == Init => Abstract!Init
<1> SUFFICES ASSUME Init PROVE Abstract!Init
  OBVIOUS
<1>1. \A r \in Requests : StateOf(pc[r]) = "idle" /\ pc[r] # "serving"
                          /\ ~(alg[r] = "least_connection")
  BY Shown DEF Init
<1> QED BY <1>1 DEF Init, Abstract!Init

\* A step of a selection that gives no target yet, and every step that changes
\* neither list, counters nor request, is a stutter.
LEMMA Unseen ==
    ASSUME TypeOK, UNCHANGED <<healthyCache, active, alg, seenHealthy>>,
           \A r \in Requests :
               \/ pc'[r] = pc[r] /\ target'[r] = target[r]
               \/ pc[r] \in Selecting /\ pc'[r] \in Selecting,
           TypeOK'
    PROVE  UNCHANGED Abstract!vars
<1>1. \A r \in Requests : /\ StateOf(pc'[r]) = StateOf(pc[r])
                          /\ pc'[r] = "serving" <=> pc[r] = "serving"
                          /\ pc[r] = "serving" => target'[r] = target[r]
  BY Shown DEF Selecting
<1> QED BY <1>1 DEF Abstract!vars

\* A request that leaves the selection with a target it has seen is given it.
LEMMA GiveShown ==
    ASSUME CountInv, HealthIInv, TypeOK', NEW r \in Requests, NEW i \in Index,
           pc[r] \in Selecting, pc' = [pc EXCEPT ![r] = "serving"],
           UNCHANGED <<healthyCache, alg, seenHealthy>>,
           \A q \in Requests \ {r} : target'[q] = target[q],
           target'[r] = i, i \in seenHealthy[r],
           active' = IF alg[r] = "least_connection" THEN [active EXCEPT ![i] = @ + 1] ELSE active
    PROVE  Abstract!Give(r, i)
<1> USE DEF CountInv, TypeOK
<1> DEFINE st == [q \in Requests |-> StateOf(pc[q])]
           sv == [q \in Requests |-> IF pc[q] = "serving" THEN target[q] ELSE NoTarget]
<1>1. st[r] = "asking" /\ st' = [st EXCEPT ![r] = "served"]
  BY Shown
<1>2. sv' = [sv EXCEPT ![r] = i]
  OBVIOUS
<1> QED BY <1>1, <1>2 DEF Abstract!Give

\* Every step of a request is a step of PoolSpec or a stutter.
LEMMA RequestShown ==
    ASSUME CountInv, HealthIInv, TypeOK', NEW r \in Requests, Request(r)
    PROVE  Abstract!Next \/ UNCHANGED Abstract!vars
<1> USE DEF CountInv, TypeOK
<1> DEFINE st == [q \in Requests |-> StateOf(pc[q])]
           ct == [q \in Requests |-> alg[q] = "least_connection"]
           sv == [q \in Requests |-> IF pc[q] = "serving" THEN target[q] ELSE NoTarget]
<1>1. CASE Arrive(r)
  <2>1. st[r] = "idle" /\ st' = [st EXCEPT ![r] = "asking"]
    <3>1. PICK p \in {"sticky", "load"} : pc' = [pc EXCEPT ![r] = p]
      BY <1>1 DEF Arrive, FirstSteps
    <3>2. StateOf(p) = "asking" /\ StateOf(pc[r]) = "idle"
      BY <1>1, <3>1, Shown DEF Arrive, Selecting
    <3> QED BY <3>1, <3>2
  <2>2. PICK b \in BOOLEAN : ct' = [ct EXCEPT ![r] = b]
    <3>1. ct' = [ct EXCEPT ![r] = (alg'[r] = "least_connection")]
      BY <1>1 DEF Arrive
    <3> QED BY <3>1
  <2>3. sv' = sv
    BY <1>1 DEF Arrive, FirstSteps
  <2>4. Abstract!Ask(r)
    BY <1>1, <2>1, <2>2, <2>3 DEF Arrive, Abstract!Ask, poolVars
  <2> QED BY <2>4 DEF Abstract!Next
<1>2. CASE StickyHit(r) \/ TakeTicket(r) \/ HashTarget(r)
  <2>1. pc[r] \in Selecting /\ alg[r] # "least_connection"
    BY <1>2 DEF StickyHit, TakeTicket, HashTarget, Selecting, AlgorithmOfPc
  <2>2. PICK i \in Index : target'[r] = i /\ i \in seenHealthy[r]
    BY <1>2 DEF StickyHit, TakeTicket, HashTarget, Choose, HealthIInv, SeenInv, CacheInv,
       CacheMatchesStates, Selecting
  <2>3. /\ pc' = [pc EXCEPT ![r] = "serving"] /\ UNCHANGED <<healthyCache, alg, seenHealthy, active>>
        /\ \A q \in Requests \ {r} : target'[q] = target[q]
    BY <1>2 DEF StickyHit, TakeTicket, HashTarget, Choose, poolVars
  <2> QED BY <2>1, <2>2, <2>3, GiveShown DEF Abstract!Next
<1>3. CASE Acquire(r)
  <2>1. pc[r] \in Selecting /\ alg[r] = "least_connection" /\ target[r] \in seenHealthy[r]
    BY <1>3 DEF Acquire, Selecting, AlgorithmOfPc, HealthIInv, ServedTargetWasHealthy
  <2>2. target[r] \in Index /\ active' = [active EXCEPT ![target[r]] = active[target[r]] + 1]
    BY <1>3, AcquireAdds
  <2>3. pc' = [pc EXCEPT ![r] = "serving"] /\ UNCHANGED <<healthyCache, alg, seenHealthy, target>>
    BY <1>3 DEF Acquire, poolVars
  <2> QED BY <2>1, <2>2, <2>3, GiveShown DEF Abstract!Next
<1>4. CASE LoadHealthy(r) /\ healthyCache = {}
  <2>1. st[r] = "asking" /\ st' = [st EXCEPT ![r] = "refused"]
    BY <1>4, Shown DEF LoadHealthy, Selecting
  <2>2. sv' = sv
    BY <1>4 DEF LoadHealthy
  <2>3. Abstract!Refuse(r)
    BY <1>4, <2>1, <2>2 DEF LoadHealthy, Abstract!Refuse, poolVars
  <2> QED BY <2>3 DEF Abstract!Next
<1>5. CASE DivideByZero(r)
  <2>1. st[r] = "asking" /\ st' = [st EXCEPT ![r] = "broken"] /\ ct[r]
    BY <1>5, Shown DEF DivideByZero, Selecting, AlgorithmOfPc
  <2>2. sv' = sv
    BY <1>5 DEF DivideByZero
  <2>3. Abstract!Break(r)
    BY <1>5, <2>1, <2>2 DEF DivideByZero, Abstract!Break, poolVars
  <2> QED BY <2>3 DEF Abstract!Next
<1>6. CASE Finish(r) \/ Release(r) \/ Leave(r)
  <2>0. Forget(r) /\ pc[r] \in {"serving", "rejected", "panicked"}
    BY <1>6 DEF Finish, Release, Leave
  <2>1. st[r] \in {"served", "refused", "broken"} /\ st' = [st EXCEPT ![r] = "idle"]
    BY <2>0, Shown DEF Forget
  <2>2. ct' = [ct EXCEPT ![r] = FALSE] /\ sv' = [sv EXCEPT ![r] = NoTarget]
    BY <2>0 DEF Forget
  <2>3. active' = IF st[r] = "served" /\ ct[r]
                  THEN [active EXCEPT ![sv[r]] = active[sv[r]] - 1] ELSE active
    <3>1. CASE Finish(r) \/ Leave(r)
      BY <3>1, Shown DEF Finish, Leave
    <3>2. CASE Release(r)
      <4>1. active' = [active EXCEPT ![target[r]] = active[target[r]] - 1]
        BY <3>2, ReleaseTakes
      <4> QED BY <3>2, <4>1, Shown DEF Release
    <3> QED BY <1>6, <3>1, <3>2
  <2>4. seenHealthy' = [seenHealthy EXCEPT ![r] = {}] /\ UNCHANGED healthyCache
    BY <1>6 DEF Finish, Release, Leave, Forget, poolVars
  <2>5. Abstract!Leave(r)
    BY <2>1, <2>2, <2>3, <2>4 DEF Abstract!Leave
  <2> QED BY <2>5 DEF Abstract!Next
<1>7. CASE \/ StickyMiss(r) \/ ReadFirst(r) \/ Scan(r) \/ PickCandidate(r)
           \/ LoadHealthy(r) /\ healthyCache # {}
  <2>1. UNCHANGED <<healthyCache, active, alg, seenHealthy>>
    BY <1>7 DEF StickyMiss, ReadFirst, Scan, PickCandidate, LoadHealthy, poolVars
  <2>2. /\ pc[r] \in Selecting /\ pc'[r] \in Selecting
        /\ \A q \in Requests \ {r} : pc'[q] = pc[q] /\ target'[q] = target[q]
    BY <1>7 DEF StickyMiss, ReadFirst, Scan, PickCandidate, LoadHealthy, Selecting
  <2> QED BY <2>1, <2>2, Unseen
<1> QED BY <1>1, <1>2, <1>3, <1>4, <1>5, <1>6, <1>7 DEF Request, Sticky, Select

LEMMA NextShown ==
    ASSUME CountInv, HealthIInv, TypeOK', [Next]_vars
    PROVE  Abstract!Next \/ UNCHANGED Abstract!vars
<1> USE DEF CountInv, TypeOK
<1>1. CASE StoreHealthyIndexes
  <2>1. healthyCache' \in {healthyCache \union {probe}, healthyCache \ {probe}}
    BY <1>1 DEF StoreHealthyIndexes, HealthIInv, CacheInv, collectHealthyIndexes
  <2>2. \A q \in Requests : StateOf(pc[q]) = "asking" <=> pc[q] \in Selecting
    BY Shown DEF Outcomes
  <2>3. seenHealthy' = [q \in Requests |-> IF StateOf(pc[q]) = "asking"
                          THEN seenHealthy[q] \union healthyCache' ELSE seenHealthy[q]]
    BY <1>1, <2>2 DEF StoreHealthyIndexes, SeeList
  <2>4. UNCHANGED <<active, pc, alg, target>>
    BY <1>1 DEF StoreHealthyIndexes, requestVars
  <2>5. Abstract!Offer(probe)
    BY <2>1, <2>3, <2>4 DEF Abstract!Offer
  <2> QED BY <2>5 DEF Abstract!Next
<1>2. CASE \/ Probe \/ SetTargetState \/ Tick \/ StopChecker \/ Cancel \/ UNCHANGED vars
           \/ \E i \in Flaky : BackendChanges(i)
  <2>1. UNCHANGED <<healthyCache, active, alg, seenHealthy, pc, target>>
    BY <1>2 DEF Probe, SetTargetState, Tick, StopChecker, Cancel, BackendChanges, vars,
       poolVars, requestVars
  <2> QED BY <2>1, Unseen
<1> QED BY <1>1, <1>2, RequestShown DEF Next, Check

\* Whatever the interleaving, requests see a pool on which every selection and
\* every change of the list is one step, and whose counters never wrap.
THEOREM PoolImplementation == Spec => ImplementsPool
<1>1. CountInv /\ HealthIInv /\ TypeOK' /\ [Next]_vars => [Abstract!Next]_(Abstract!vars)
  BY NextShown
<1>2. Spec => []CountInv
  BY InitCount, NextCount, PTL DEF Spec
<1>3. CountInv => TypeOK
  BY DEF CountInv
<1> QED BY <1>1, <1>2, <1>3, InitShown, HealthAlways, PTL DEF Spec, ImplementsPool, Abstract!Spec
=============================================================================
