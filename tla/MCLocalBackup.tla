---------------------------- MODULE MCLocalBackup ----------------------------
(* Instances of LocalBackup for TLC. *)
EXTENDS LocalBackup, TLC

CONSTANTS r1, r2, r3, r4, j1, j2, v1

OneJob  == [r \in Runs |-> j1]
TwoJobs == [r \in Runs |-> IF r = r3 THEN j2 ELSE j1]
ManualSymmetry == Permutations(Manual)

OneVM   == [j \in Jobs |-> v1]

\* Runs of one job are interchangeable, so a run with a temporal property, which
\* takes no SYMMETRY, makes them in the order of their names (ACTION_CONSTRAINT).
Order    == <<r1, r2, r3, r4>>
InOrder  == \A i \in 1 .. 3 :
    Order[i + 1] \in Runs /\ state'[Order[i]] = "NONE" => state'[Order[i + 1]] = "NONE"

=============================================================================
