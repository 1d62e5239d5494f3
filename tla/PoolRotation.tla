---------------------------- MODULE PoolRotation ----------------------------
(***************************************************************************)
(* Pool with the tickets drawn from p.next in a row by round robin, for    *)
(* the fairness of the rotation.  Counts are kept relative to the smallest *)
(* one, so that they stay small however long the system runs.              *)
(***************************************************************************)
EXTENDS Pool, TLC

VARIABLES
    picks,  \* history: tickets target i was drawn, minus the least of them
    wrapped \* history: p.next has wrapped since the counts began

Symmetry == Permutations(Requests)
SharedTickets == {"round_robin", "least_connection"}

\* NextTarget of some request draws target i.
Drawn(i) == \E r \in Requests : pc[r] = "ticket" /\ pc'[r] = "serving" /\ target'[r] = i

Level(counts) ==
    LET least == CHOOSE m \in {counts[i] : i \in Index} : \A i \in Index : m <= counts[i]
    IN  [i \in Index |-> counts[i] - least]

RotationInit ==
    /\ Init
    /\ picks = [i \in Index |-> 0]
    /\ wrapped = FALSE

\* A ticket drawn by least connection ends the row, and so does the second wrap.
RotationNext ==
    /\ Next
    /\ LET count == [i \in Index |-> IF Drawn(i) THEN picks[i] + 1 ELSE picks[i]]
           wraps == next' < next
       IN  IF next' # next /\ (count = picks \/ (wraps /\ wrapped))
           THEN picks' = [i \in Index |-> 0] /\ wrapped' = FALSE
           ELSE picks' = Level(count) /\ wrapped' = (wrapped \/ wraps)

RotationSpec == RotationInit /\ [][RotationNext]_<<vars, picks, wrapped>>

\* Round robin over targets that stay healthy: however the concurrent calls of
\* NextTarget interleave their load of the list and their ticket, no target is
\* drawn twice more than another; where p.next wraps, whatever the number of
\* targets, one more draw is all that the skew amounts to.
RotationIsFair == \A i \in Index : picks[i] <= IF wrapped THEN 2 ELSE 1
=============================================================================
