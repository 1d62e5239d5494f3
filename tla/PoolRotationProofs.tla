-------------------------- MODULE PoolRotationProofs --------------------------
(***************************************************************************)
(* Proofs about PoolRotation: how far round robin may be from even, for    *)
(* any number of targets and of requests and any word size.                *)
(***************************************************************************)
EXTENDS PoolRotation, PoolProofs

(***************************************************************************)
(* The list and the counts                                                 *)
(***************************************************************************)

\* All targets listed: the target at position k of the list is target k.
LEMMA FullList ==
    ASSUME NEW i \in Index, NEW k \in Int, IsAt(i, Index, k)
    PROVE  i = k
<1>1. {j \in Index : j < i} = 0 .. i - 1
  BY NAssumption DEF Index
<1>2. i \in Nat
  BY NAssumption DEF Index
<1>3. Cardinality(0 .. i - 1) = i
  BY <1>2, FS_Interval
<1> QED BY <1>1, <1>3 DEF IsAt

LEMMA FullLength == Cardinality(Index) = N
BY NAssumption, FS_Interval DEF Index

\* Level subtracts the least count.
LEMMA LevelSubtracts ==
    ASSUME NEW counts \in [Index -> Nat]
    PROVE  \E least \in Nat :
             /\ \A i \in Index : least <= counts[i]
             /\ \E j \in Index : counts[j] = least
             /\ Level(counts) = [i \in Index |-> counts[i] - least]
<1> DEFINE S == {counts[i] : i \in Index}
           L == CHOOSE m \in S : \A i \in Index : m <= counts[i]
<1>1. \E m \in S : \A i \in Index : m <= counts[i]
  <2>1. S \subseteq Nat /\ S # {}
    BY Zeros
  <2>2. PICK m \in S : \A n \in S : m <= n
    BY <2>1, LeastNumber
  <2> QED BY <2>2
<1>2. L \in S /\ \A i \in Index : L <= counts[i]
  BY <1>1
<1>3. PICK j \in Index : L = counts[j]
  BY <1>2
<1>4. L \in Nat
  BY <1>3
<1>5. Level(counts) = [i \in Index |-> counts[i] - L]
  BY DEF Level
<1> QED BY <1>2, <1>3, <1>4, <1>5

(***************************************************************************)
(* The invariant                                                           *)
(***************************************************************************)

\* The targets stay listed.
AllListed == healthyCache = Index

\* The target that the next ticket draws.
Turn == next % N

\* Since the counts p began with target s, each ticket drew the next target in turn:
\* the targets from s up to the turn t, round the list, are one ahead of the others.
InRow(s, t, i) == IF s <= t THEN s <= i /\ i < t ELSE s <= i \/ i < t
OneRow(p, t) == \E s \in Index : \A i \in Index : p[i] = IF InRow(s, t, i) THEN 1 ELSE 0

\* After the wrap a new row began with target 0, on top of what was drawn before.
TwoRows(p, t) ==
    \E before \in [Index -> 0 .. 1], m \in Nat : \A i \in Index :
        p[i] = (before[i] + (IF i < t THEN 1 ELSE 0)) - m

Counts(p, w, t) ==
    /\ p \in [Index -> Nat]
    /\ \E j \in Index : p[j] = 0
    /\ w \in BOOLEAN
    /\ IF w THEN TwoRows(p, t) ELSE OneRow(p, t)

FullLists == \A r \in Requests : pc[r] = "ticket" => list[r] = Index

RotationIInv == TypeOK /\ FullLists /\ Counts(picks, wrapped, Turn)

\* It bounds the skew.
LEMMA InvIsFair == RotationIInv => RotationIsFair
<1> SUFFICES ASSUME RotationIInv, NEW i \in Index
             PROVE  picks[i] <= IF wrapped THEN 2 ELSE 1
  BY DEF RotationIsFair
<1>1. CASE wrapped
  <2> PICK before \in [Index -> 0 .. 1], m \in Nat : \A k \in Index :
             picks[k] = (before[k] + (IF k < Turn THEN 1 ELSE 0)) - m
    BY <1>1 DEF RotationIInv, Counts, TwoRows
  <2> QED BY <1>1
<1>2. CASE ~wrapped
  BY <1>2 DEF RotationIInv, Counts, OneRow
<1> QED BY <1>1, <1>2

(***************************************************************************)
(* What a ticket does to the counts                                        *)
(***************************************************************************)

\* Counts that begin at zero are a row that has just begun.
LEMMA CountsBegin ==
    ASSUME NEW t \in Index PROVE Counts([i \in Index |-> 0], FALSE, t)
<1>1. \A i \in Index : ~InRow(t, t, i)
  BY NAssumption DEF InRow, Index
<1>2. OneRow([i \in Index |-> 0], t)
  BY <1>1 DEF OneRow
<1> QED BY <1>2, Zeros DEF Counts

\* Counts without a new draw are as they were.
LEMMA CountsStay ==
    ASSUME NEW p, NEW w, NEW t, Counts(p, w, t) PROVE Level(p) = p
<1>1. p \in [Index -> Nat] /\ \E j \in Index : p[j] = 0
  BY DEF Counts
<1>2. PICK least \in Nat : /\ \A i \in Index : least <= p[i]
                           /\ \E j \in Index : p[j] = least
                           /\ Level(p) = [i \in Index |-> p[i] - least]
  BY <1>1, LevelSubtracts
<1>3. least = 0
  BY <1>1, <1>2
<1> QED BY <1>1, <1>2, <1>3

Draw(p, t) == [i \in Index |-> IF i = t THEN p[i] + 1 ELSE p[i]]
After(t) == IF t = N - 1 THEN 0 ELSE t + 1

\* The next draw of a row, which a full round brings back to zero.
LEMMA RowGoesOn ==
    ASSUME NEW p, NEW t \in Index, Counts(p, FALSE, t)
    PROVE  Counts(Level(Draw(p, t)), FALSE, After(t))
<1>1. p \in [Index -> Nat] /\ Draw(p, t) \in [Index -> Nat]
  BY DEF Counts, Draw
<1>2. PICK s \in Index : \A i \in Index : p[i] = IF InRow(s, t, i) THEN 1 ELSE 0
  BY DEF Counts, OneRow
<1>3. PICK least \in Nat :
         /\ \A i \in Index : least <= Draw(p, t)[i]
         /\ \E j \in Index : Draw(p, t)[j] = least
         /\ Level(Draw(p, t)) = [i \in Index |-> Draw(p, t)[i] - least]
  BY <1>1, LevelSubtracts
<1>4. N \in Nat \ {0} /\ After(t) \in Index
  BY NAssumption DEF After, Index
<1>5. ~InRow(s, t, t)
  BY <1>4 DEF InRow, Index
<1>6. \A i \in Index : Draw(p, t)[i] = IF i = t \/ InRow(s, t, i) THEN 1 ELSE 0
  BY <1>1, <1>2, <1>5 DEF Draw
<1>7. CASE After(t) = s
  <2>1. \A i \in Index : i = t \/ InRow(s, t, i)
    BY <1>4, <1>7 DEF InRow, After, Index
  <2>2. least = 1
    BY <1>3, <1>6, <2>1
  <2>3. Level(Draw(p, t)) = [i \in Index |-> 0]
    BY <1>3, <1>6, <2>1, <2>2
  <2> QED BY <1>4, <2>3, CountsBegin
<1>8. CASE After(t) # s
  <2>1. \A i \in Index : InRow(s, After(t), i) <=> i = t \/ InRow(s, t, i)
    BY <1>4, <1>8 DEF InRow, After, Index
  <2>2. ~InRow(s, After(t), After(t))
    BY <1>4 DEF InRow, Index
  <2>3. least = 0
    BY <1>3, <1>4, <1>6, <2>1, <2>2
  <2>4. Level(Draw(p, t)) = [i \in Index |-> IF InRow(s, After(t), i) THEN 1 ELSE 0]
    BY <1>3, <1>6, <2>1, <2>3
  <2>5. OneRow(Level(Draw(p, t)), After(t))
    BY <2>4 DEF OneRow
  <2> QED BY <1>4, <2>2, <2>4, <2>5 DEF Counts
<1> QED BY <1>7, <1>8

\* The next draw of the row on top of another.
LEMMA RowsGoOn ==
    ASSUME NEW p, NEW t \in Index, Counts(p, TRUE, t)
    PROVE  Counts(Level(Draw(p, t)), TRUE, After(t))
<1>1. p \in [Index -> Nat] /\ Draw(p, t) \in [Index -> Nat]
  BY DEF Counts, Draw
<1>2. PICK before \in [Index -> 0 .. 1], m \in Nat : \A i \in Index :
         p[i] = (before[i] + (IF i < t THEN 1 ELSE 0)) - m
  BY DEF Counts, TwoRows
<1>3. PICK least \in Nat :
         /\ \A i \in Index : least <= Draw(p, t)[i]
         /\ \E j \in Index : Draw(p, t)[j] = least
         /\ Level(Draw(p, t)) = [i \in Index |-> Draw(p, t)[i] - least]
  BY <1>1, LevelSubtracts
<1> DEFINE q == Level(Draw(p, t))
           round == IF t = N - 1 THEN 1 ELSE 0
           n == (m + least) - round
<1>4. q \in [Index -> Nat] /\ \E j \in Index : q[j] = 0
  BY <1>1, <1>3
<1>5. N \in Nat \ {0} /\ t \in 0 .. N - 1
  BY NAssumption DEF Index
<1>6. \A i \in Index :
         q[i] = (before[i] + (IF i < After(t) THEN 1 ELSE 0)) - n
  <2> TAKE i \in Index
  <2>1. q[i] = (before[i] + (IF i <= t THEN 1 ELSE 0)) - (m + least)
    <3>1. q[i] = (IF i = t THEN p[i] + 1 ELSE p[i]) - least
      BY <1>3 DEF Draw
    <3>2. p[i] = (before[i] + (IF i < t THEN 1 ELSE 0)) - m
      BY <1>2
    <3>3. i \in Int /\ before[i] \in 0 .. 1 /\ least \in Nat /\ m \in Nat
      BY DEF Index
    <3> HIDE DEF q
    <3> QED BY <1>5, <3>1, <3>2, <3>3
  <2>2. before[i] \in 0 .. 1 /\ i \in 0 .. N - 1
    BY DEF Index
  <2> HIDE DEF q
  <2> QED BY <1>5, <2>1, <2>2 DEF After
<1>7. n \in Nat
  <2>1. PICK j \in Index : q[j] = 0
    BY <1>4
  <2>2. before[j] \in 0 .. 1 /\ n \in Int
    BY <1>5
  <2> QED BY <1>6, <2>1, <2>2
<1>8. TwoRows(q, After(t))
  BY <1>6, <1>7 DEF TwoRows
<1> QED BY <1>4, <1>8 DEF Counts

\* The last draw before the wrap, after which a new row begins with target 0.
LEMMA RowWraps ==
    ASSUME NEW p, NEW t \in Index, Counts(p, FALSE, t)
    PROVE  Counts(Level(Draw(p, t)), TRUE, 0)
<1> DEFINE q == Level(Draw(p, t))
<1>1. Counts(q, FALSE, After(t))
  BY RowGoesOn
<1>2. q \in [Index -> Nat] /\ \A i \in Index : q[i] \in 0 .. 1
  BY <1>1 DEF Counts, OneRow
<1>3. q \in [Index -> 0 .. 1]
  BY <1>2
<1>4. \A i \in Index : q[i] = (q[i] + (IF i < 0 THEN 1 ELSE 0)) - 0
  BY <1>2, NAssumption DEF Index
<1>5. TwoRows(q, 0)
  BY <1>3, <1>4 DEF TwoRows
<1> QED BY <1>1, <1>5 DEF Counts

(***************************************************************************)
(* The steps                                                               *)
(***************************************************************************)

LEMMA TurnType == ASSUME TypeOK PROVE next \in Nat /\ Turn \in Index
<1>1. next \in Nat
  BY RequestsAssumption DEF TypeOK
<1> QED BY <1>1, NAssumption, NextRemainder DEF Turn, Index

LEMMA InitRotation == RotationInit => RotationIInv
<1> SUFFICES ASSUME RotationInit PROVE RotationIInv
  OBVIOUS
<1>1. TypeOK
  BY InitType DEF RotationInit
<1>2. Counts(picks, wrapped, Turn)
  BY <1>1, TurnType, CountsBegin DEF RotationInit
<1> QED BY <1>1, <1>2 DEF RotationInit, RotationIInv, FullLists, Init

\* A ticket of round robin draws the target whose turn it is, and it alone.
LEMMA TicketDraws ==
    ASSUME TypeOK, FullLists, NEW r \in Requests, TakeTicket(r)
    PROVE  /\ \A i \in Index : Drawn(i) <=> i = Turn
           /\ next' = Inc(next) /\ next' # next
<1>1. PICK i \in Index : IsAt(i, Index, Turn) /\ target' = [target EXCEPT ![r] = i]
  BY FullLength DEF TakeTicket, Choose, FullLists, Turn
<1>2. i = Turn
  BY <1>1, FullList, TurnType, NAssumption DEF Index
<1>3. \A j \in Index : Drawn(j) <=> j = i
  BY <1>1 DEF Drawn, TakeTicket, TypeOK
<1>4. 1 < Modulus
  <2>1. Cardinality(Requests) \in Nat /\ Cardinality(Requests) # 0
    BY RequestsAssumption, FS_CardinalityType, FS_EmptySet
  <2> QED BY <2>1, RequestsAssumption
<1> QED BY <1>2, <1>3, <1>4, RequestsAssumption DEF TakeTicket, TypeOK, Inc

\* No other step draws a target by round robin.
LEMMA OthersDrawNone ==
    ASSUME TypeOK, [Next]_vars, \A r \in Requests : ~TakeTicket(r)
    PROVE  \A i \in Index : ~Drawn(i)
<1> SUFFICES ASSUME NEW q \in Requests, pc[q] = "ticket", pc'[q] = "serving"
             PROVE  FALSE
  BY DEF Drawn
<1>1. CASE UNCHANGED vars
  BY <1>1 DEF vars, requestVars
<1>2. CASE Check \/ StopChecker \/ Cancel \/ \E i \in Flaky : BackendChanges(i)
  BY <1>2 DEF Check, Probe, SetTargetState, StoreHealthyIndexes, Tick, StopChecker,
              Cancel, BackendChanges, requestVars
<1>3. ASSUME NEW r \in Requests, Request(r) PROVE FALSE
  BY <1>3 DEF TypeOK, Request, Sticky, Select, Arrive, StickyHit, StickyMiss, LoadHealthy,
     HashTarget, ReadFirst, Scan, PickCandidate, DivideByZero, Acquire, Finish, Release,
     Leave, Forget
<1> QED BY <1>1, <1>2, <1>3 DEF Next

\* A ticket of round robin continues the row, wraps it once, or ends it.
LEMMA TicketCounts ==
    ASSUME RotationIInv, RotationNext, NEW r \in Requests, TakeTicket(r)
    PROVE  Counts(picks, wrapped, Turn)'
<1> DEFINE count == [i \in Index |-> IF Drawn(i) THEN picks[i] + 1 ELSE picks[i]]
<1>1. TypeOK /\ FullLists /\ Counts(picks, wrapped, Turn)
  BY DEF RotationIInv
<1>2. next \in Nat /\ Turn \in Index /\ N \in Nat \ {0} /\ Modulus \in Nat /\ next < Modulus
  BY <1>1, TurnType, NAssumption, RequestsAssumption DEF TypeOK
<1>3. next' = Inc(next) /\ next' # next /\ \A i \in Index : Drawn(i) <=> i = Turn
  BY <1>1, TicketDraws
<1>4. count = Draw(picks, Turn)
  BY <1>3 DEF Draw
<1>5. count # picks
  BY <1>1, <1>2, <1>4 DEF Draw, Counts
<1>6. IF next' < next /\ wrapped
      THEN picks' = [i \in Index |-> 0] /\ wrapped' = FALSE
      ELSE picks' = Level(Draw(picks, Turn)) /\ wrapped' = (wrapped \/ next' < next)
  BY <1>3, <1>4, <1>5 DEF RotationNext
<1>7. wrapped \in BOOLEAN
  BY <1>1 DEF Counts
<1>8. CASE next = Modulus - 1
  <2>1. next' = 0 /\ next' < next
    BY <1>2, <1>3, <1>8 DEF Inc
  <2>2. 0 % N = 0
    BY <1>2
  <2>3. Turn' = 0
    BY <2>1, <2>2 DEF Turn
  <2>4. CASE wrapped
    BY <1>6, <2>1, <2>3, <2>4, CountsBegin, Zeros
  <2>5. CASE ~wrapped
    <3>1. picks' = Level(Draw(picks, Turn)) /\ wrapped' = TRUE
      BY <1>6, <2>1, <2>5
    <3>2. wrapped = FALSE
      BY <1>7, <2>5
    <3> QED BY <1>1, <1>2, <2>3, <3>1, <3>2, RowWraps
  <2> QED BY <2>4, <2>5
<1>9. CASE next # Modulus - 1
  <2>1. next' = next + 1 /\ ~(next' < next)
    BY <1>2, <1>3, <1>9 DEF Inc
  <2>2. Turn' = After(Turn)
    BY <1>2, <2>1, NextRemainder DEF Turn, After
  <2>3. picks' = Level(Draw(picks, Turn)) /\ wrapped' = wrapped
    BY <1>6, <1>7, <2>1
  <2>4. CASE wrapped = TRUE
    BY <1>1, <1>2, <2>2, <2>3, <2>4, RowsGoOn
  <2>5. CASE wrapped = FALSE
    BY <1>1, <1>2, <2>2, <2>3, <2>5, RowGoesOn
  <2> QED BY <1>7, <2>4, <2>5
<1> QED BY <1>8, <1>9

\* Every other step leaves the counts alone or, with a ticket of least connection,
\* begins anew.
LEMMA OtherCounts ==
    ASSUME RotationIInv, RotationNext, TypeOK', \A r \in Requests : ~TakeTicket(r)
    PROVE  Counts(picks, wrapped, Turn)'
<1> DEFINE count == [i \in Index |-> IF Drawn(i) THEN picks[i] + 1 ELSE picks[i]]
<1>1. TypeOK /\ Counts(picks, wrapped, Turn) /\ wrapped \in BOOLEAN
  BY DEF RotationIInv, Counts
<1>2. \A i \in Index : ~Drawn(i)
  BY <1>1, OthersDrawNone DEF RotationNext
<1>3. count = picks
  BY <1>1, <1>2 DEF Counts
<1>4. CASE next' # next
  <2>1. picks' = [i \in Index |-> 0] /\ wrapped' = FALSE
    BY <1>3, <1>4 DEF RotationNext
  <2>2. next' \in Nat
    BY RequestsAssumption DEF TypeOK
  <2>3. Turn' \in Index
    BY <2>2, NAssumption, NextRemainder DEF Turn, Index
  <2> QED BY <2>1, <2>3, CountsBegin
<1>5. CASE next' = next
  <2>1. next \in Nat
    BY <1>1, TurnType
  <2>2. ~(next' < next)
    BY <1>5, <2>1
  <2>3. picks' = Level(picks) /\ wrapped' = wrapped
    BY <1>1, <1>3, <1>5, <2>2 DEF RotationNext
  <2>4. picks' = picks
    BY <1>1, <2>3, CountsStay
  <2>5. Turn' = Turn
    BY <1>5 DEF Turn
  <2> QED BY <1>1, <2>3, <2>4, <2>5
<1> QED BY <1>4, <1>5

\* A request that draws a ticket holds the full list, if all targets are listed.
LEMMA ListsFill ==
    ASSUME TypeOK, FullLists, AllListed, [Next]_vars PROVE FullLists'
<1> USE DEF TypeOK, FullLists, AllListed
<1>1. CASE UNCHANGED vars
  BY <1>1 DEF vars, requestVars
<1>2. CASE Check \/ StopChecker \/ Cancel \/ \E i \in Flaky : BackendChanges(i)
  BY <1>2 DEF Check, Probe, SetTargetState, StoreHealthyIndexes, Tick, StopChecker,
              Cancel, BackendChanges, requestVars
<1>3. ASSUME NEW r \in Requests, Request(r) PROVE FullLists'
  BY <1>3 DEF Request, Sticky, Select, Arrive, FirstSteps, StickyHit, StickyMiss, LoadHealthy, Choose,
     TakeTicket, HashTarget, ReadFirst, Scan, PickCandidate, DivideByZero, Acquire, Finish,
     Release, Leave, Forget
<1> QED BY <1>1, <1>2, <1>3 DEF Next

LEMMA NextRotation ==
    ASSUME RotationIInv, AllListed, [RotationNext]_<<vars, picks, wrapped>>
    PROVE  RotationIInv'
<1>1. TypeOK /\ FullLists /\ [Next]_vars
  BY DEF RotationIInv, RotationNext
<1>2. TypeOK' /\ FullLists'
  BY <1>1, NextType, ListsFill
<1>3. CASE UNCHANGED <<vars, picks, wrapped>>
  <2>1. picks' = picks /\ wrapped' = wrapped /\ Turn' = Turn
    BY <1>3 DEF vars, Turn
  <2> QED BY <1>2, <2>1 DEF RotationIInv
<1>4. CASE RotationNext
  BY <1>2, <1>4, TicketCounts, OtherCounts DEF RotationIInv
<1> QED BY <1>3, <1>4

(***************************************************************************)
(* The theorems                                                            *)
(***************************************************************************)

\* Round robin over targets that stay listed is even: over any stretch of tickets
\* that round robin draws in a row, no target is drawn twice more than another,
\* with one more draw where the uint64 of the tickets wraps.
THEOREM RotationFair == RotationSpec /\ []AllListed => []RotationIsFair
BY InitRotation, NextRotation, InvIsFair, PTL DEF RotationSpec

\* Without a health check nothing ever leaves the list.
UncheckedInv == checkerPc = "done" /\ AllListed

LEMMA UncheckedStays == ASSUME UncheckedInv, [Next]_vars PROVE UncheckedInv'
<1> USE DEF UncheckedInv, AllListed
<1>1. CASE UNCHANGED vars
  BY <1>1 DEF vars, poolVars, checkerVars
<1>2. CASE Check \/ StopChecker \/ Cancel \/ \E i \in Flaky : BackendChanges(i)
  BY <1>2 DEF Check, Probe, SetTargetState, StoreHealthyIndexes, Tick, StopChecker,
              Cancel, BackendChanges, poolVars, checkerVars
<1>3. ASSUME NEW r \in Requests, Request(r) PROVE UncheckedInv'
  BY <1>3 DEF Request, Sticky, Select, Arrive, StickyHit, StickyMiss, LoadHealthy,
     TakeTicket, HashTarget, ReadFirst, Scan, PickCandidate, DivideByZero, Acquire, Finish,
     Release, Leave, poolVars, checkerVars
<1> QED BY <1>1, <1>2, <1>3 DEF Next

\* So a pool without a health check draws its targets evenly.
THEOREM UncheckedRotationFair ==
    ASSUME HealthChecked = FALSE PROVE RotationSpec => []RotationIsFair
<1>1. RotationInit => UncheckedInv
  BY DEF RotationInit, Init, UncheckedInv, AllListed
<1>2. UncheckedInv /\ [RotationNext]_<<vars, picks, wrapped>> => UncheckedInv'
  <2>1. [RotationNext]_<<vars, picks, wrapped>> => [Next]_vars
    BY DEF RotationNext
  <2> QED BY <2>1, UncheckedStays
<1>3. UncheckedInv => AllListed
  BY DEF UncheckedInv
<1> QED BY <1>1, <1>2, <1>3, RotationFair, PTL DEF RotationSpec
=============================================================================
