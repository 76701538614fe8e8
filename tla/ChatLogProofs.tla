---------------------------- MODULE ChatLogProofs ----------------------------
(* Theorems about ChatLog: for any chats, messages and protected stretches, *)
(* histories stay in the order of sending, and what leaves was summarised.  *)
EXTENDS ChatLog, TLAPS, SequenceTheorems

\* Adding a later message at the end of an ordered sequence keeps the order.
LEMMA OrderedAppend ==
    ASSUME NEW s \in Seq(Messages), NEW m \in Messages, Messages \subseteq Int,
           Ordered(s), \A k \in DOMAIN s : s[k] < m
    PROVE  Append(s, m) \in Seq(Messages) /\ Ordered(Append(s, m))
<1>1. Append(s, m) \in Seq(Messages)
  OBVIOUS
<1>2. ASSUME NEW i \in DOMAIN Append(s, m), NEW j \in DOMAIN Append(s, m), i < j
      PROVE  Append(s, m)[i] < Append(s, m)[j]
  <2>1. i \in 1..Len(s) /\ Append(s, m)[i] = s[i]
    BY <1>2
  <2>2. CASE j = Len(s) + 1
    BY <2>1, <2>2
  <2>3. CASE j \in 1..Len(s)
    BY <2>1, <2>3, <1>2 DEF Ordered
  <2> QED
    BY <1>2, <2>2, <2>3
<1> QED
  BY <1>1, <1>2 DEF Ordered

\* Taking a stretch out of an ordered sequence keeps the order.
LEMMA OrderedWithout ==
    ASSUME NEW s \in Seq(Messages), NEW i \in DOMAIN s, NEW j \in DOMAIN s, i <= j,
           Messages \subseteq Int, Ordered(s)
    PROVE  Without(s, i, j) \in Seq(Messages) /\ Ordered(Without(s, i, j))
<1> DEFINE d == j - i + 1
           n == Len(s) - d
           w == Without(s, i, j)
<1>1. /\ Len(s) \in Nat /\ DOMAIN s = 1..Len(s)
      /\ i \in 1..Len(s) /\ j \in 1..Len(s)
      /\ d \in Nat \ {0} /\ n \in Nat /\ n + d = Len(s) /\ i + d = j + 1
  <2>1. Len(s) \in Nat /\ DOMAIN s = 1..Len(s)
    OBVIOUS
  <2>2. i \in 1..Len(s) /\ j \in 1..Len(s) /\ i <= j
    BY <2>1
  <2> QED
    BY <2>1, <2>2
<1>2. w = [k \in 1..n |-> IF k < i THEN s[k] ELSE s[k + d]]
  BY DEF Without
<1> HIDE DEF w
<1> HIDE DEF d, n
<1>3. \A k \in 1..n : k \in DOMAIN s /\ (k >= i => k + d \in DOMAIN s)
  BY <1>1
<1>4. \A k \in 1..n : w[k] \in Messages
  BY <1>2, <1>3
<1>5. w \in Seq(Messages)
  <2>1. w \in [1..n -> Messages]
    BY <1>2, <1>4
  <2> QED
    BY <1>1, <2>1, SeqDef
<1>6. ASSUME NEW k \in 1..n, NEW l \in 1..n, k < l
      PROVE  w[k] < w[l]
  <2>1. CASE l < i
    BY <1>2, <1>3, <1>6, <2>1 DEF Ordered
  <2>2. CASE k < i /\ l >= i
    <3>1. k < l + d /\ k \in DOMAIN s /\ l + d \in DOMAIN s
      BY <1>1, <1>3, <1>6, <2>2
    <3>2. s[k] < s[l + d]
      BY <3>1 DEF Ordered
    <3> QED
      BY <1>2, <2>2, <3>2
  <2>3. CASE k >= i
    <3>1. l >= i /\ k + d < l + d /\ k + d \in DOMAIN s /\ l + d \in DOMAIN s
      BY <1>1, <1>3, <1>6, <2>3
    <3>2. s[k + d] < s[l + d]
      BY <3>1 DEF Ordered
    <3> QED
      BY <1>2, <1>1, <1>6, <2>3, <3>1, <3>2
  <2> QED
    BY <1>1, <1>6, <2>1, <2>2, <2>3
<1>7. DOMAIN w = 1..n
  BY <1>2
<1> QED
  BY <1>5, <1>6, <1>7 DEF Ordered, w

\* Every step of the history keeps it a sequence of messages in order.
LEMMA LogStep ==
    ASSUME LogType, HistoryInOrder, LogNext
    PROVE  LogType' /\ HistoryInOrder'
<1>1. PICK c \in Chats : Say(c) \/ Tell(c) \/ Compress(c) \/ Delete(c)
  BY DEF LogNext
<1>2. log[c] \in Seq(Messages) /\ Ordered(log[c])
  BY DEF LogType, HistoryInOrder
<1>3. SUFFICES ASSUME NEW s \in Seq(Messages), Ordered(s), log' = [log EXCEPT ![c] = s]
               PROVE  LogType' /\ HistoryInOrder'
  <2>1. CASE Say(c)
    <3>1. PICK m \in Messages : /\ \A k \in DOMAIN log[c] : log[c][k] < m
                               /\ log' = [log EXCEPT ![c] = Append(@, m)]
      BY <2>1 DEF Say
    <3>2. Append(log[c], m) \in Seq(Messages) /\ Ordered(Append(log[c], m))
      BY <1>2, <3>1, OrderedAppend, ChatAssumption
    <3> QED
      BY <1>3, <3>1, <3>2
  <2>2. CASE Compress(c)
    <3>1. PICK i \in DOMAIN log[c], j \in DOMAIN log[c] :
             /\ ProtectFirst < i /\ i <= j /\ j <= Len(log[c]) - ProtectLast
             /\ log' = [log EXCEPT ![c] = Without(@, i, j)]
      BY <2>2 DEF Compress
    <3>2. Without(log[c], i, j) \in Seq(Messages) /\ Ordered(Without(log[c], i, j))
      BY <1>2, <3>1, OrderedWithout, ChatAssumption
    <3> QED
      BY <1>3, <3>1, <3>2
  <2>4. CASE Tell(c)
    <3>1. log' = [log EXCEPT ![c] = log[c]]
      BY <2>4 DEF Tell, LogType
    <3> QED
      BY <1>2, <1>3, <3>1
  <2>3. CASE Delete(c)
    <3>1. <<>> \in Seq(Messages) /\ Ordered(<<>>)
      BY DEF Ordered
    <3> QED
      BY <1>3, <2>3, <3>1 DEF Delete
  <2> QED
    BY <1>1, <2>1, <2>2, <2>3, <2>4
<1>4. LogType'
  BY <1>3 DEF LogType
<1>5. \A d \in Chats : log'[d] = IF d = c THEN s ELSE log[d]
  BY <1>3 DEF LogType
<1>6. HistoryInOrder'
  BY <1>3, <1>5 DEF HistoryInOrder
<1> QED
  BY <1>4, <1>6

\* A chat's history is always a sequence of its messages in the order of sending,
\* none twice, however often it is compressed.
THEOREM HistoryStaysInOrder == LogSpec => [](LogType /\ HistoryInOrder)
<1>1. LogInit => LogType /\ HistoryInOrder
  BY DEF LogInit, LogType
<1>2. LogType /\ HistoryInOrder /\ [LogNext]_logVars => (LogType /\ HistoryInOrder)'
  BY LogStep DEF LogType, HistoryInOrder, Ordered, logVars
<1> QED
  BY <1>1, <1>2, PTL DEF LogSpec

\* What is taken out of a sequence lies between i and j; everything else stays.
LEMMA WithoutKeeps ==
    ASSUME NEW s \in Seq(Messages), NEW i \in DOMAIN s, NEW j \in DOMAIN s, i <= j,
           NEW k \in DOMAIN s, k \notin i..j
    PROVE  In(s[k], Without(s, i, j))
<1> DEFINE d == j - i + 1
           n == Len(s) - d
<1>1. /\ Len(s) \in Nat /\ DOMAIN s = 1..Len(s)
      /\ i \in 1..Len(s) /\ j \in 1..Len(s) /\ k \in 1..Len(s)
  OBVIOUS
<1>2. Without(s, i, j) = [l \in 1..n |-> IF l < i THEN s[l] ELSE s[l + d]]
  BY DEF Without
<1>3. CASE k < i
  <2>1. k \in 1..n
    BY <1>1, <1>3
  <2> QED
    BY <1>2, <1>3, <2>1 DEF In
<1>4. CASE k > j
  <2>1. k - d \in 1..n /\ ~(k - d < i) /\ (k - d) + d = k
    BY <1>1, <1>4
  <2> QED
    BY <1>2, <2>1 DEF In
<1> QED
  BY <1>1, <1>3, <1>4

\* What leaves a history was summarised before, and was not at its start.
THEOREM WhatLeavesIsTold == LogSpec => OnlyToldLeave
<1> DEFINE Kept == \A c \in Chats : \A k \in DOMAIN log[c] :
                     \/ log'[c] = <<>>
                     \/ In(log[c][k], log'[c])
                     \/ log[c][k] \in told[c] /\ k > ProtectFirst
<1>1. LogType /\ LogNext => Kept
  <2> SUFFICES ASSUME LogType, LogNext, NEW c \in Chats, NEW k \in DOMAIN log[c], log'[c] # <<>>
               PROVE  In(log[c][k], log'[c]) \/ (log[c][k] \in told[c] /\ k > ProtectFirst)
    OBVIOUS
  <2>1. PICK e \in Chats : Say(e) \/ Tell(e) \/ Compress(e) \/ Delete(e)
    BY DEF LogNext
  <2>2. log[c] \in Seq(Messages)
    BY DEF LogType
  <2>3. CASE log'[c] = log[c]
    BY <2>3 DEF In
  <2>4. CASE e = c /\ Say(c)
    <3>1. PICK m \in Messages : log' = [log EXCEPT ![c] = Append(@, m)]
      BY <2>4 DEF Say
    <3>2. log'[c] = Append(log[c], m)
      BY <3>1 DEF LogType
    <3>3. k \in DOMAIN Append(log[c], m) /\ Append(log[c], m)[k] = log[c][k]
      BY <2>2
    <3> QED
      BY <3>2, <3>3 DEF In
  <2>5. CASE e = c /\ Compress(c)
    <3>1. PICK i \in DOMAIN log[c], j \in DOMAIN log[c] :
             /\ ProtectFirst < i /\ i <= j
             /\ {log[c][l] : l \in i..j} \subseteq told[c]
             /\ log' = [log EXCEPT ![c] = Without(@, i, j)]
      BY <2>5 DEF Compress
    <3>2. log'[c] = Without(log[c], i, j)
      BY <3>1 DEF LogType
    <3>3. CASE k \in i..j
      <4>1. log[c][k] \in told[c]
        BY <3>1, <3>3
      <4>2. k > ProtectFirst
        BY <2>2, <3>1, <3>3, ChatAssumption
      <4> QED
        BY <4>1, <4>2
    <3>4. CASE k \notin i..j
      BY <2>2, <3>1, <3>2, <3>4, WithoutKeeps
    <3> QED
      BY <3>3, <3>4
  <2>6. e # c \/ Tell(e) => log'[c] = log[c]
    BY <2>1 DEF Say, Tell, Compress, Delete, LogType
  <2>7. Delete(c) => log'[c] = <<>>
    BY DEF Delete, LogType
  <2> QED
    BY <2>1, <2>3, <2>4, <2>5, <2>6, <2>7
<1>2. LogType /\ [LogNext]_logVars => [Kept]_logVars
  BY <1>1
<1>3. LogSpec => []LogType
  BY HistoryStaysInOrder, PTL
<1> QED
  BY <1>2, <1>3, PTL DEF LogSpec, OnlyToldLeave

=============================================================================
