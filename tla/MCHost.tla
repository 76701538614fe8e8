------------------------------- MODULE MCHost -------------------------------
(* Cron, FileEdits and WsClients, which share nothing but the clock,        *)
(* checked by one run: part says whose behaviour it is.                     *)
EXTENDS Cron, FileEdits, WsClients, TLC

CONSTANTS note, plan

VARIABLE part
hostVars == <<part, cronVars, fileVars, wsVars>>

Request(kind, when, days, once, route) ==
    [kind |-> kind, when |-> when, days |-> days, once |-> once, route |-> route]
MCRequests == {Request("every", 2, {}, FALSE, <<"", "">>),
               Request("at", 3, {}, TRUE, <<"feishu", "">>),
               Request("weekly", 1, {0, 2}, FALSE, <<"voice", "chat">>)}
MCTexts == {<<"x", "y">>, <<Huge>>}
MCPatches == {[old |-> <<"x">>, new |-> <<"z", "z">>, refs |-> {}],
              [old |-> <<"y">>, new |-> <<>>, refs |-> {[line |-> 2, says |-> "y"]}]}
MCInitial == (note :> <<"x", "y">>) @@ (plan :> <<Huge>>)
MCRanges == {<<1, 1>>, <<1, 9>>}
Symmetric == Permutations(Ids)

HostInit == CronInit /\ FileInit /\ WsInit /\ part \in {"cron", "files", "clients"}
HostNext ==
    /\ UNCHANGED part
    /\ \/ /\ part = "cron" /\ CronNext
          /\ UNCHANGED <<disk, recent, read, call, replaced, bounds, wsVars>>
       \/ /\ part = "files" /\ FileNext
          /\ UNCHANGED <<slots, count, file, inbound, cron, tool, spent, lastFire, crashes, wsVars>>
       \/ part = "clients" /\ WsNext /\ UNCHANGED <<cronVars, fileVars>>
HostSpec == HostInit /\ [][HostNext]_hostVars
=============================================================================
