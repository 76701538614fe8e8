------------------------------- MODULE ChatLog -------------------------------
(***************************************************************************)
(* What the session store and the compressor together promise of a chat's  *)
(* history: messages are put at its end, it is deleted as a whole, and     *)
(* apart from that only middle messages ever leave it, once a summary has  *)
(* taken their place. SessionHistory implements this.                      *)
(***************************************************************************)
EXTENDS ChatMessages

VARIABLES
    log,      \* each chat's messages
    told      \* those a summary was made of

logVars == <<log, told>>

Ordered(s) == \A i, j \in DOMAIN s : i < j => s[i] < s[j]

\* A chat's history is in the order in which its messages were sent, and holds
\* none of them twice.
HistoryInOrder == \A c \in Chats : Ordered(log[c])

\* The sequence without its elements from i to j.
Without(s, i, j) ==
    [k \in 1..(Len(s) - (j - i + 1)) |-> IF k < i THEN s[k] ELSE s[k + (j - i + 1)]]

LogInit ==
    /\ log \in [Chats -> Seq(Messages)] /\ HistoryInOrder
    /\ told = [c \in Chats |-> {}]

Say(c) ==
    \E m \in Messages :
        /\ \A k \in DOMAIN log[c] : log[c][k] < m
        /\ log' = [log EXCEPT ![c] = Append(@, m)]
        /\ UNCHANGED told

\* The messages from i to j go into a summary.
Tell(c) ==
    \E i, j \in DOMAIN log[c] :
        /\ told' = [told EXCEPT ![c] = @ \cup {log[c][k] : k \in i..j}]
        /\ UNCHANGED log

\* The messages from i to j, none of them protected and all of them summarised, go.
Compress(c) ==
    \E i, j \in DOMAIN log[c] :
        /\ ProtectFirst < i /\ i <= j /\ j <= Len(log[c]) - ProtectLast
        /\ {log[c][k] : k \in i..j} \subseteq told[c]
        /\ log' = [log EXCEPT ![c] = Without(@, i, j)]
        /\ UNCHANGED told

Delete(c) == log' = [log EXCEPT ![c] = <<>>] /\ UNCHANGED told

LogNext == \E c \in Chats : Say(c) \/ Tell(c) \/ Compress(c) \/ Delete(c)

LogSpec == LogInit /\ [][LogNext]_logVars

-----------------------------------------------------------------------------
\* Every history is a sequence of messages.
LogType == log \in [Chats -> Seq(Messages)]

In(m, s) == \E k \in DOMAIN s : s[k] = m

\* A message leaves a history that is not deleted only after a summary was made
\* of it, and never from the protected start.
OnlyToldLeave ==
    [][\A c \in Chats : \A k \in DOMAIN log[c] :
          \/ log'[c] = <<>>
          \/ In(log[c][k], log'[c])
          \/ log[c][k] \in told[c] /\ k > ProtectFirst]_logVars

=============================================================================
