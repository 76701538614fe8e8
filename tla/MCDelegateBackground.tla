------------------------- MODULE MCDelegateBackground -------------------------
(***************************************************************************)
(* Instances of DelegateBackground for TLC.                                *)
(***************************************************************************)
EXTENDS DelegateBackground

CONSTANTS t1, t2, t3, c1, c2, web, k1, k2, fileA, fileB

TwoTasks   == {t1, t2}
ThreeTasks == {t1, t2, t3}
OneTeam    == {c1}
TwoTeams   == {c1, c2}
OneChat    == {web}
Keys       == {k1, k2}
Worth      == {TRUE}
NestedFiles == {<<>>, <<fileA>>, <<fileB, fileA>>}

Kid(key, needs, kind) ==
  [key |-> key, needs |-> needs, implement |-> kind = "implement",
   preflight |-> kind = "preflight"]

\* One task; a task and one that depends on it; one task more than the
\* table holds.
Batches ==
  { <<Kid(k1, {}, "plain")>>,
    <<Kid(k1, {}, "preflight"), Kid(k2, {k1}, "plain")>>,
    <<Kid(k1, {}, "implement"), Kid(k1, {}, "implement"), Kid(k2, {k1}, "plain")>> }

\* Each limit is the one that holds a task back.
OneTight ==
  { [all |-> 1, coordinator |-> 2, parent |-> 2],
    [all |-> 2, coordinator |-> 1, parent |-> 2],
    [all |-> 2, coordinator |-> 2, parent |-> 1] }
===============================================================================
