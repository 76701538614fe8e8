------------------------------ MODULE MCChats ------------------------------
(* InteractiveWait and SessionHistory, which share nothing but the chats,   *)
(* checked by one run: part says whose behaviour it is.                     *)
EXTENDS InteractiveWait, SessionHistory

CONSTANTS a, b, w1

TwoChats     == {a, b}
OneWorker    == {w1}
ParentA      == [w \in OneWorker |-> a]
UpTo9        == 1..9
FiveAndThree == (a :> 5) @@ (b :> 3)

VARIABLE part
chatVars == <<part, waitVars, historyVars>>

ChatInit == WaitInit /\ HistoryInit /\ part \in {"wait", "history"}
ChatNext ==
    /\ UNCHANGED part
    /\ \/ part = "wait" /\ WaitNext /\ UNCHANGED historyVars
       \/ part = "history" /\ HistoryNext /\ UNCHANGED waitVars

\* FairWaitSpec or FairHistorySpec.
FairChatSpec ==
    /\ ChatInit /\ [][ChatNext]_chatVars
    /\ WF_waitVars(part = "wait" /\ LoopTakes) /\ WF_waitVars(part = "wait" /\ TurnEnds)
    /\ \A t \in Asker :
         /\ WF_waitVars(part = "wait" /\ (Pop(t) \/ GiveBack(t) \/ Flush(t) \/ WaitEnds(t)))
         /\ SF_waitVars(part = "wait" /\ Expire(t))
    /\ WF_historyVars(part = "history" /\ Compression)
=============================================================================
