-------------------------------- MODULE DiffSet --------------------------------
(* What comparing two files and restoring one of them comes to: the set of   *)
(* the positions where they differ.  A restore may be asked to stop early,   *)
(* and takes the lowest position each time.                                  *)
EXTENDS Integers, FiniteSetsExt

VARIABLES
    positions,  \* where the files differ, as far as the shorter one goes
    restoring,  \* whether a restore is under way
    budget      \* positions it has still to restore

vars == <<positions, restoring, budget>>

Init ==
    /\ positions \in SUBSET Nat
    /\ restoring = FALSE
    /\ budget = 0

Begin ==
    /\ ~ restoring
    /\ restoring' = TRUE
    /\ budget' \in 0 .. Cardinality(positions)
    /\ UNCHANGED positions

Restore ==
    /\ restoring
    /\ budget > 0
    /\ positions' = positions \ {Min(positions)}
    /\ budget' = budget - 1
    /\ UNCHANGED restoring

(* All was restored that was asked for, or the program was killed. *)
End ==
    /\ restoring
    /\ restoring' = FALSE
    /\ budget' = 0
    /\ UNCHANGED positions

(* Another program writes the files. *)
Change ==
    /\ ~ restoring
    /\ positions' \in SUBSET Nat
    /\ UNCHANGED <<restoring, budget>>

Next == Begin \/ Restore \/ End \/ Change

Spec == Init /\ [][Next]_vars

================================================================================
