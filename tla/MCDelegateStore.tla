--------------------------- MODULE MCDelegateStore ---------------------------
(* Instances of DelegateStore for TLC. *)
EXTENDS DelegateStore, TLC

CONSTANTS t1, t2, c1, c2, web

TwoTasks == {t1, t2}
TwoCoordinators == {c1, c2}
OneChat  == {web}
NoFiles  == {<<>>}

StoreSymmetry == Permutations(Task) \cup Permutations(Coordinator)
==============================================================================
