------------------------ MODULE MCDurableRecordStore ------------------------
(* Instances of DurableRecordStore for TLC. *)
EXTENDS DurableRecordStore, TLC

CONSTANTS o1, o2

\* The two processes are configured with different limits.
MCLimitOf == (o1 :> 1) @@ (o2 :> 2)
Symmetry == Permutations(Jobs) \cup Permutations(Keys)

\* A bound: while several Jobs compete, none is saved; leases and rows do not depend on it.
Unsaved == \A j \in Jobs : records'[j].revision <= 1
ContentionSpec == StoreInit /\ [][StoreNext /\ Unsaved]_storeVars
=============================================================================
