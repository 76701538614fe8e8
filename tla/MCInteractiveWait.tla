--------------------------- MODULE MCInteractiveWait ---------------------------
(* Instances of InteractiveWait for TLC. *)
EXTENDS InteractiveWait, TLC

CONSTANTS a, b, w1, w2

TwoChats   == {a, b}
OneWorker  == {w1}
TwoWorkers == {w1, w2}
Parents    == [w \in TwoWorkers |-> IF w = w1 THEN a ELSE b]
ParentA    == [w \in OneWorker |-> a]
==============================================================================
