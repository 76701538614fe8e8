------------------------------ MODULE HostClock ------------------------------
(* What the models of single tools share: threads that run tools, and time. *)
EXTENDS Integers

CONSTANTS
    Callers,    \* the agent loop, workers
    Overlap     \* may calls of two threads, or a call and what else works on its state, overlap?

ASSUME ClockAssumption == Overlap \in BOOLEAN

VARIABLE clock  \* time(NULL), in the unit a model counts in

Tick(last) == clock < last /\ clock' = clock + 1

=============================================================================
