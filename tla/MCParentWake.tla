----------------------------- MODULE MCParentWake -----------------------------
(* Instances of ParentWake for TLC. *)
EXTENDS ParentWake, TLC

CONSTANTS t1, t2, c1, c2, web, feishu, sub

OneTask  == {t1}
TwoTasks == {t1, t2}
OneTeam  == {c1}
TwoTeams == {c1, c2}
WebOnly  == {web}
WebAndSub == {web, sub}
Feishu   == {feishu}
NoChat   == {}
NoFiles  == {<<>>}
NoFaults == {}
ClientFaults == {"disconnect"}
AllFaults == FaultKind
==============================================================================
