--------------------------- MODULE WsClientsProofs ---------------------------
(***************************************************************************)
(* What WsClients keeps for every number of chats, sockets, clients and    *)
(* senders.  The table and the sockets stay in step because only the       *)
(* server's thread takes numbers and puts clients on the list: what it has *)
(* taken and not yet listed, or taken off and not yet closed, is in its    *)
(* hand (Held), and everybody else only takes clients off, by the number   *)
(* they have at that moment (TableInv).  That binds at most one client to  *)
(* a chat (ChatInv).  A reply changes hands step by step (ReplyInv).       *)
(***************************************************************************)
EXTENDS WsClients, SequenceTheorems, FiniteSetTheorems, WellFoundedInduction, TLAPS

-----------------------------------------------------------------------------
(* The invariant. *)

ServerAt == {"loop", "select", "accept", "add", "evicted", "walk", "read", "drop", "dropped",
             "bind", "take", "hand", "cut", "done", "tick", "check", "circle", "ended"}
ClientOrEnd == Slots \cup {End}
FdOrNone == Fds \cup {NoFd}
ChatOrNone == Chats \cup {NoChat}

ClientRecord == [active : BOOLEAN, fd : FdOrNone, chat : ChatOrNone, awaiting : BOOLEAN]
ServerRecord ==
    [at : ServerAt, ready : SUBSET Fds, next : ClientOrEnd \cup {AtHead}, fd : FdOrNone,
     old : FdOrNone, client : ClientOrEnd, chat : ChatOrNone, connects : BOOLEAN,
     sync : BOOLEAN, after : ClientOrEnd, reply : Nat, late : SUBSET Fds]
SenderRecord ==
    [at : {"idle", "write", "fail", "save"}, chat : ChatOrNone, reply : Nat, client : ClientOrEnd]

WsTypeOK ==
    /\ sockets \in [Fds -> {"shut", "open", "gone"}]
    /\ clients \in [Slots -> ClientRecord]
    /\ list \in Seq(Slots)
    /\ server \in ServerRecord
    /\ sender \in [Senders -> SenderRecord]
    /\ saved \in [Slots -> [chat : ChatOrNone, reply : Nat]]
    /\ issued \in 0..MaxReplies
    /\ got \in [1..MaxReplies -> Nat]

\* Whoever is about to use a client has one.
PointersOK ==
    /\ server.at \in {"evicted", "take", "hand", "cut"} => server.client # End
    /\ \A t \in Senders : sender[t].at \in {"write", "fail"} => sender[t].client # End

Active == {s \in Slots : clients[s].active}

\* The numbers the server's thread has in hand: open, and no client's.
Held == CASE server.at = "add" -> {server.fd}
          [] server.at = "evicted" -> {server.fd, server.old}
          [] server.at = "dropped" -> {server.old}
          [] OTHER -> {}
Steady == {"add", "evicted", "dropped"}

HeldOK ==
    /\ \A f \in Held : f \in Fds /\ sockets[f] # "shut" /\ \A s \in Active : clients[s].fd # f
    /\ server.at = "evicted" => server.fd # server.old /\ server.client \in Slots \ Active

ListOK == IsInjective(list) /\ ToSet(list) = Active
SocketsOK == \A s \in Active : clients[s].fd \in Fds /\ sockets[clients[s].fd] # "shut"
FdsDiffer == \A s, t \in Active : clients[s].fd = clients[t].fd => s = t
NoneForgotten ==
    \A f \in Fds : sockets[f] # "shut" => f \in Held \/ \E s \in Active : clients[s].fd = f

TableInv == HeldOK /\ ListOK /\ SocketsOK /\ FdsDiffer /\ NoneForgotten

\* No two clients are bound to one chat; at the binding, none but the client of
\* the frame is bound to its chat, and the client found for the frame is still
\* the one of its number, if it is listed.
ChatInv ==
    /\ \A s, t \in Active : clients[s].chat = clients[t].chat /\ clients[s].chat # NoChat => s = t
    /\ server.at = "bind" =>
         \A s \in Active : clients[s].chat = server.chat => clients[s].fd = server.fd
    /\ server.at \in {"drop", "dropped", "bind"} /\ ~server.connects /\ server.client \in Active
         => clients[server.client].fd = server.fd

\* A reply that was sent, and the places it can be in.
IsSaved(r, i) == saved[i].reply = r
IsSent(r, t) == sender[t].reply = r /\ sender[t].at # "idle"
IsHanded(r) == server.at = "hand" /\ server.reply = r
NowhereElse(r) ==
    /\ \A i \in Slots : IsSaved(r, i) =>
         ~IsHanded(r) /\ (\A j \in Slots : IsSaved(r, j) => i = j) /\ \A t \in Senders : ~IsSent(r, t)
    /\ \A t \in Senders : IsSent(r, t) =>
         ~IsHanded(r) /\ \A u \in Senders : IsSent(r, u) => t = u
    /\ got[r] <= 1
    /\ got[r] # 0 => /\ ~IsHanded(r) /\ \A i \in Slots : ~IsSaved(r, i)
                     /\ \A t \in Senders : ~IsSent(r, t)
Nowhere(r) ==
    /\ got[r] = 0 /\ ~IsHanded(r)
    /\ \A i \in Slots : ~IsSaved(r, i)
    /\ \A t \in Senders : ~IsSent(r, t)
ReplyInv ==
    /\ \A r \in 1..issued : NowhereElse(r)
    /\ \A r \in 1..MaxReplies : r > issued => Nowhere(r)

WsInv == WsTypeOK /\ PointersOK /\ TableInv /\ ChatInv /\ ReplyInv

-----------------------------------------------------------------------------
(* Numbers. *)

\* A set of numbers has a least element.
LEMMA LeastExists ==
  ASSUME NEW P \in SUBSET Nat, P # {}
  PROVE  (CHOOSE x \in P : \A y \in P : x <= y) \in P
<1> DEFINE R == {p \in Nat \X Nat : p[1] < p[2]}
<1>1. OpToRel(<, Nat) = R
  BY DEF OpToRel
<1>2. IsWellFoundedOn(R, Nat)
  BY <1>1, NatLessThanWellFounded
<1> HIDE DEF R
<1>3. PICK x \in P : \A y \in P : ~(<<y, x>> \in R)
  BY <1>2, WFMin
<1>4. ASSUME NEW y \in P PROVE x <= y
  <2>1. x \in Nat /\ y \in Nat
    OBVIOUS
  <2>2. y < x => <<y, x>> \in R
    BY <2>1 DEF R
  <2> QED
    BY <1>3, <2>1, <2>2
<1> QED
  BY <1>4

-----------------------------------------------------------------------------
(* The list. *)

\* Taking a listed client off leaves the others, each once.
LEMMA OffEffect ==
  ASSUME list \in Seq(Slots), IsInjective(list), NEW s \in ToSet(list), Off(s)
  PROVE  list' \in Seq(Slots) /\ IsInjective(list') /\ ToSet(list') = ToSet(list) \ {s}
<1> DEFINE n == Len(list)
           k == Place(s)
           before == SubSeq(list, 1, k - 1)
           behind == SubSeq(list, k + 1, n)
<1>1. /\ n \in Nat /\ DOMAIN list = 1..n /\ \A i \in 1..n : list[i] \in Slots
      /\ \A i, j \in 1..n : list[i] = list[j] => i = j
  BY LenProperties, ElementOfSeq DEF IsInjective
<1>2. k \in 1..n /\ list[k] = s
  BY <1>1 DEF ToSet, Place
<1> HIDE DEF k
<1>3. before \in Seq(Slots) /\ Len(before) = k - 1 /\ \A i \in 1..(k - 1) : before[i] = list[i]
  <2>1. 1 \in Int /\ k - 1 \in Int /\ \A i \in 1..(k - 1) : list[i] \in Slots
    BY <1>1, <1>2
  <2>2. /\ before \in Seq(Slots) /\ Len(before) = IF 1 <= k - 1 THEN k - 1 - 1 + 1 ELSE 0
        /\ \A i \in 1..(k - 1 - 1 + 1) : before[i] = list[1 + i - 1]
    BY <2>1, SubSeqProperties
  <2> QED
    BY <1>1, <1>2, <2>2
<1>4. behind \in Seq(Slots) /\ Len(behind) = n - k /\ \A i \in 1..(n - k) : behind[i] = list[k + i]
  <2>1. k + 1 \in Int /\ n \in Int /\ \A i \in (k + 1)..n : list[i] \in Slots
    BY <1>1, <1>2
  <2>2. /\ behind \in Seq(Slots) /\ Len(behind) = IF k + 1 <= n THEN n - (k + 1) + 1 ELSE 0
        /\ \A i \in 1..(n - (k + 1) + 1) : behind[i] = list[(k + 1) + i - 1]
    BY <2>1, SubSeqProperties
  <2>3. n \in Int /\ k \in Int /\ k <= n
    BY <1>1, <1>2
  <2> HIDE DEF n
  <2>5. n - (k + 1) + 1 = n - k /\ (~(k + 1 <= n) => n - k = 0)
    BY <2>3
  <2>4. \A i \in 1..(n - k) : (k + 1) + i - 1 = k + i
    BY <1>1, <1>2
  <2> QED
    BY <2>2, <2>4, <2>5
<1>5. list' = before \o behind
  BY DEF Off, RemoveAt, k
<1> HIDE DEF before, behind
<1>6. /\ list' \in Seq(Slots) /\ Len(list') = n - 1 /\ DOMAIN list' = 1..(n - 1)
      /\ \A i \in 1..(n - 1) : list'[i] = IF i < k THEN list[i] ELSE list[i + 1]
  <2>0. /\ list' \in Seq(Slots) /\ Len(list') = Len(before) + Len(behind)
        /\ \A i \in 1..(Len(before) + Len(behind)) :
             list'[i] = IF i <= Len(before) THEN before[i] ELSE behind[i - Len(before)]
    BY <1>3, <1>4, <1>5, ConcatProperties
  <2>1. /\ list' \in Seq(Slots) /\ Len(list') = (k - 1) + (n - k)
        /\ \A i \in 1..((k - 1) + (n - k)) :
             list'[i] = IF i <= k - 1 THEN before[i] ELSE behind[i - (k - 1)]
    <3>1. Len(before) = k - 1 /\ Len(behind) = n - k
      BY <1>3, <1>4
    <3> QED
      BY <2>0, <3>1
  <2>2. (k - 1) + (n - k) = n - 1
    BY <1>1, <1>2
  <2>3. ASSUME NEW i \in 1..(n - 1) PROVE list'[i] = IF i < k THEN list[i] ELSE list[i + 1]
    <3>1. CASE i < k
      BY <1>1, <1>2, <1>3, <2>1, <2>2, <3>1
    <3>2. CASE ~(i < k)
      <4>1. i - (k - 1) \in 1..(n - k) /\ k + (i - (k - 1)) = i + 1
        BY <1>1, <1>2, <3>2
      <4>2. list'[i] = behind[i - (k - 1)]
        BY <1>1, <1>2, <2>1, <2>2, <3>2
      <4> QED
        BY <1>4, <3>2, <4>1, <4>2
    <3> QED
      BY <3>1, <3>2
  <2> QED
    BY <1>1, <2>1, <2>2, <2>3, LenProperties
<1>7. IsInjective(list')
  <2> SUFFICES ASSUME NEW i \in 1..(n - 1), NEW j \in 1..(n - 1), list'[i] = list'[j] PROVE i = j
    BY <1>6 DEF IsInjective
  <2> QED
    BY <1>1, <1>2, <1>6
<1>8. ASSUME NEW x \in ToSet(list') PROVE x \in ToSet(list) \ {s}
  <2>1. PICK i \in 1..(n - 1) : x = list'[i]
    BY <1>6 DEF ToSet
  <2>2. PICK j \in 1..n : x = list[j] /\ j # k
    BY <1>1, <1>2, <1>6, <2>1
  <2> QED
    BY <1>1, <1>2, <2>2 DEF ToSet
<1>9. ASSUME NEW x \in ToSet(list) \ {s} PROVE x \in ToSet(list')
  <2>1. PICK j \in 1..n : x = list[j]
    BY <1>1 DEF ToSet
  <2>2. j # k
    BY <1>2, <2>1
  <2>3. CASE j < k
    <3>1. j \in 1..(n - 1) /\ list'[j] = x
      BY <1>1, <1>2, <1>6, <2>1, <2>3
    <3> QED
      BY <1>6, <3>1 DEF ToSet
  <2>4. CASE j > k
    <3>1. j - 1 \in 1..(n - 1) /\ list'[j - 1] = x
      BY <1>1, <1>2, <1>6, <2>1, <2>4
    <3> QED
      BY <1>6, <3>1 DEF ToSet
  <2> QED
    BY <1>1, <1>2, <2>2, <2>3, <2>4
<1> QED
  BY <1>6, <1>7, <1>8, <1>9

\* Putting a client on that is not listed.
LEMMA OnEffect ==
  ASSUME list \in Seq(Slots), IsInjective(list), NEW s \in Slots, s \notin ToSet(list),
         list' = <<s>> \o list
  PROVE  list' \in Seq(Slots) /\ IsInjective(list') /\ ToSet(list') = ToSet(list) \cup {s}
<1> DEFINE n == Len(list)
<1>1. /\ n \in Nat /\ DOMAIN list = 1..n
      /\ \A i, j \in 1..n : list[i] = list[j] => i = j
      /\ \A i \in 1..n : list[i] # s
  BY LenProperties DEF IsInjective, ToSet
<1>2. <<s>> \in Seq(Slots) /\ Len(<<s>>) = 1 /\ <<s>>[1] = s
  OBVIOUS
<1>3. /\ list' \in Seq(Slots) /\ Len(list') = 1 + n
      /\ \A i \in 1..(1 + n) : list'[i] = IF i <= 1 THEN <<s>>[i] ELSE list[i - 1]
  BY <1>2, ConcatProperties
<1>4. /\ DOMAIN list' = 1..(1 + n) /\ list'[1] = s
      /\ \A i \in 1..n : i + 1 \in 1..(1 + n) /\ list'[i + 1] = list[i]
  BY <1>1, <1>2, <1>3, LenProperties
<1>5. \A i \in 1..(1 + n) : i = 1 \/ (i - 1 \in 1..n /\ list'[i] = list[i - 1])
  BY <1>1, <1>3
<1>6. IsInjective(list')
  <2> SUFFICES ASSUME NEW i \in 1..(1 + n), NEW j \in 1..(1 + n), list'[i] = list'[j] PROVE i = j
    BY <1>4 DEF IsInjective
  <2> QED
    BY <1>1, <1>4, <1>5
<1>7. ToSet(list') = ToSet(list) \cup {s}
  <2>1. ASSUME NEW x \in ToSet(list') PROVE x \in ToSet(list) \cup {s}
    BY <1>1, <1>4, <1>5, <2>1 DEF ToSet
  <2>2. ASSUME NEW x \in ToSet(list) PROVE x \in ToSet(list')
    <3>1. PICK i \in 1..n : x = list[i]
      BY <1>1 DEF ToSet
    <3>2. i + 1 \in DOMAIN list' /\ list'[i + 1] = x
      BY <1>4, <3>1
    <3> QED
      BY <3>2 DEF ToSet
  <2>3. s \in ToSet(list')
    BY <1>1, <1>4 DEF ToSet
  <2> QED
    BY <2>1, <2>2, <2>3
<1> QED
  BY <1>3, <1>6, <1>7

\* The look-up by number finds the client that has it, if one has.
LEMMA ByFdFinds ==
  ASSUME WsTypeOK, NEW fd
  PROVE  \/ ByFd(fd) = End /\ \A s \in ToSet(list) : clients[s].fd # fd
         \/ ByFd(fd) \in ToSet(list) /\ clients[ByFd(fd)].fd = fd
<1> DEFINE hits == {k \in DOMAIN list : clients[list[k]].fd = fd}
           first == CHOOSE k \in hits : \A j \in hits : k <= j
<1>1. ByFd(fd) = IF hits = {} THEN End ELSE list[first]
  BY DEF ByFd, Find
<1>2. CASE hits = {}
  BY <1>1, <1>2 DEF ToSet
<1>3. CASE hits # {}
  <2>1. hits \subseteq Nat
    BY LenProperties DEF WsTypeOK
  <2>2. first \in hits
    BY <1>3, <2>1, LeastExists
  <2> QED
    BY <1>1, <1>3, <2>2 DEF ToSet
<1> QED
  BY <1>2, <1>3

-----------------------------------------------------------------------------
(* What most steps do: clients leave the list, or nothing happens to it. *)

\* Nobody joins, those who stay keep their numbers and chats, and the sockets
\* of those who leave, and of no others, are closed.
Shrinks ==
    /\ Active' \subseteq Active
    /\ \A s \in Active' : clients'[s].fd = clients[s].fd /\ clients'[s].chat = clients[s].chat
    /\ IsInjective(list') /\ ToSet(list') = Active'
    /\ \A f \in Fds : sockets'[f] # "shut" <=>
                        sockets[f] # "shut" /\ ~\E s \in Active \ Active' : clients[s].fd = f

\* The server's thread has nothing in hand, before and after, or does not move.
Calm == server' = server \/ (server.at \notin Steady /\ server'.at \notin Steady)

LEMMA TableShrinks ==
  ASSUME TableInv, Shrinks, Calm
  PROVE  TableInv'
<1>1. Held' = Held /\ (server'.at = "evicted" => server' = server)
  BY DEF Calm, Held, Steady
<1>2. HeldOK'
  BY <1>1 DEF TableInv, HeldOK, Shrinks, Active
<1>3. SocketsOK' /\ FdsDiffer'
  BY DEF TableInv, SocketsOK, FdsDiffer, Shrinks
<1>4. NoneForgotten'
  BY <1>1 DEF TableInv, NoneForgotten, Shrinks
<1>5. ListOK'
  BY DEF ListOK, Shrinks
<1> QED
  BY <1>2, <1>3, <1>4, <1>5 DEF TableInv

\* No frame is being dealt with, or the server's thread does not move.
NoFrame == server' = server \/ server'.at \notin {"drop", "dropped", "bind"}

LEMMA ChatShrinks ==
  ASSUME ChatInv, Shrinks, NoFrame
  PROVE  ChatInv'
BY DEF ChatInv, Shrinks, NoFrame

LEMMA SameShrinks ==
  ASSUME WsTypeOK, TableInv, UNCHANGED <<list, sockets>>,
         \A s \in Slots : clients'[s].active = clients[s].active /\ clients'[s].fd = clients[s].fd
                            /\ clients'[s].chat = clients[s].chat
  PROVE  Shrinks
<1>1. Active' = Active
  BY DEF Active
<1> QED
  BY <1>1 DEF Shrinks, TableInv, ListOK, Active

\* Removing the client of a number: none has it, or that client leaves.
LEMMA RemoveEffect ==
  ASSUME WsTypeOK, TableInv, NEW fd, RemoveFd(fd)
  PROVE  /\ Shrinks
         /\ sockets' \in [Fds -> {"shut", "open", "gone"}]
         /\ clients' \in [Slots -> ClientRecord]
         /\ list' \in Seq(Slots)
<1> DEFINE s == ByFd(fd)
<1>1. CASE s = End
  <2>1. UNCHANGED <<clients, list, sockets>>
    BY <1>1 DEF RemoveFd
  <2> QED
    BY <2>1, SameShrinks DEF WsTypeOK
<1>2. CASE s # End
  <2>1. s \in ToSet(list) /\ clients[s].fd = fd
    BY <1>2, ByFdFinds
  <2>2. s \in Active /\ s \in Slots
    BY <2>1 DEF TableInv, ListOK, Active
  <2>3. /\ clients' = [clients EXCEPT ![s].active = FALSE, ![s].fd = NoFd]
        /\ Off(s) /\ sockets' = [sockets EXCEPT ![fd] = "shut"]
    BY <1>2 DEF RemoveFd, CloseFd
  <2> HIDE DEF s
  <2>4. list' \in Seq(Slots) /\ IsInjective(list') /\ ToSet(list') = ToSet(list) \ {s}
    BY <2>1, <2>3, OffEffect DEF WsTypeOK, TableInv, ListOK
  <2>5. /\ clients' \in [Slots -> ClientRecord] /\ ~clients'[s].active
        /\ \A x \in Slots : x # s => clients'[x] = clients[x]
    <3>1. NoFd \in FdOrNone /\ clients \in [Slots -> ClientRecord]
      BY DEF WsTypeOK, FdOrNone
    <3>2. [clients[s] EXCEPT !.active = FALSE, !.fd = NoFd] \in ClientRecord
      BY <2>2, <3>1 DEF ClientRecord
    <3>3. clients' = [clients EXCEPT ![s] = [clients[s] EXCEPT !.active = FALSE, !.fd = NoFd]]
      BY <2>2, <2>3, <3>1
    <3>4. ~[clients[s] EXCEPT !.active = FALSE, !.fd = NoFd].active
      BY <2>2, <3>1 DEF ClientRecord
    <3> QED
      BY <2>2, <3>1, <3>2, <3>3, <3>4
  <2>6. Active' = Active \ {s}
    BY <2>2, <2>5 DEF Active
  <2>7. \A x \in Active' : clients'[x] = clients[x]
    BY <2>5, <2>6 DEF Active
  <2>8. Active \ Active' = {s}
    BY <2>2, <2>6
  <2>9. \A f \in Fds : sockets'[f] = IF f = fd THEN "shut" ELSE sockets[f]
    BY <2>3 DEF WsTypeOK
  <2>10. Shrinks
    <3>1. \A f \in Fds : (\E x \in Active \ Active' : clients[x].fd = f) <=> f = fd
      BY <2>1, <2>8
    <3> QED
      BY <2>4, <2>6, <2>7, <2>9, <3>1 DEF Shrinks, TableInv, ListOK
  <2>11. sockets' \in [Fds -> {"shut", "open", "gone"}]
    BY <2>3 DEF WsTypeOK
  <2> QED
    BY <2>4, <2>5, <2>10, <2>11
<1> QED
  BY <1>1, <1>2

\* The replies stay where they are.
LEMMA RepliesStay ==
  ASSUME ReplyInv, UNCHANGED <<sender, saved, issued, got>>,
         server'.at = "hand" => server'.reply = server.reply /\ server.at = "hand"
  PROVE  ReplyInv'
<1>1. \A r : /\ IsHanded(r)' => IsHanded(r)
             /\ \A i \in Slots : IsSaved(r, i)' = IsSaved(r, i)
             /\ \A t \in Senders : IsSent(r, t)' = IsSent(r, t)
  BY DEF IsHanded, IsSaved, IsSent
<1>2. \A r : NowhereElse(r) => NowhereElse(r)'
  BY <1>1 DEF NowhereElse
<1>3. \A r : Nowhere(r) => Nowhere(r)'
  BY <1>1 DEF Nowhere
<1> QED
  BY <1>2, <1>3 DEF ReplyInv

-----------------------------------------------------------------------------
(* Steps of the server's thread between two frames. *)

Between == {"loop", "select", "accept", "walk", "read", "done", "tick", "check", "circle", "ended"}

LEMMA ServerMovesOn ==
  ASSUME WsInv, server' \in ServerRecord, clients' \in [Slots -> ClientRecord],
         list' \in Seq(Slots), sockets' \in [Fds -> {"shut", "open", "gone"}],
         UNCHANGED <<sender, saved, issued, got>>, Shrinks,
         server.at \notin Steady, server'.at \in Between
  PROVE  WsInv'
<1>1. WsTypeOK'
  BY DEF WsInv, WsTypeOK
<1>2. PointersOK'
  BY DEF WsInv, PointersOK, Between
<1>3. TableInv'
  BY TableShrinks DEF WsInv, Calm, Between, Steady
<1>4. ChatInv'
  BY ChatShrinks DEF WsInv, NoFrame, Between
<1>5. ReplyInv'
  BY RepliesStay DEF WsInv, Between
<1> QED
  BY <1>1, <1>2, <1>3, <1>4, <1>5 DEF WsInv

\* ... when the table is not touched.
LEMMA ServerLooks ==
  ASSUME WsInv, server' \in ServerRecord, UNCHANGED <<clients, list, sockets>>,
         UNCHANGED <<sender, saved, issued, got>>,
         server.at \notin Steady, server'.at \in Between
  PROVE  WsInv'
<1>1. Shrinks
  BY SameShrinks DEF WsInv
<1> QED
  BY <1>1, ServerMovesOn DEF WsInv, WsTypeOK

LEMMA ListedFds ==
  ASSUME WsInv, NEW S \in SUBSET ToSet(list)
  PROVE  FdsOf(S) \in SUBSET Fds
BY DEF WsInv, TableInv, ListOK, SocketsOK, FdsOf

LEMMA WatchClientsKeeps ==
  ASSUME WsInv, WatchClients, UNCHANGED <<sender, issued>>
  PROVE  WsInv'
<1>1. server' \in ServerRecord /\ server'.at = "select"
  <2>1. FdsOf(ToSet(list)) \in SUBSET Fds
    BY ListedFds
  <2> QED
    BY <2>1 DEF WatchClients, AtLoop, ServerRecord, ServerAt, FdOrNone, ChatOrNone, ClientOrEnd
<1> QED
  BY <1>1, ServerLooks DEF WatchClients, Between, Steady

LEMMA SelectKeeps ==
  ASSUME WsInv, Select, UNCHANGED <<sender, issued>>
  PROVE  WsInv'
<1>1. server \in ServerRecord
  BY DEF WsInv, WsTypeOK
<1>2. server' \in ServerRecord /\ server'.at \in {"accept", "walk", "ended"}
  <2>1. CASE server' = [server EXCEPT !.at = "ended", !.ready = {}]
    BY <1>1, <2>1 DEF ServerRecord, ServerAt
  <2>2. CASE \E at \in {"accept", "walk"}, ready \in SUBSET server.ready :
                server' = [server EXCEPT !.at = at, !.ready = ready]
    BY <1>1, <2>2 DEF ServerRecord, ServerAt
  <2> QED
    BY <2>1, <2>2 DEF Select
<1> QED
  BY <1>2, ServerLooks DEF Select, Between, Steady

\* The client that follows a listed one.
LEMMA AfterType ==
  ASSUME WsTypeOK, NEW s \in ToSet(list)
  PROVE  After(s) \in ClientOrEnd
<1>1. Len(list) \in Nat /\ DOMAIN list = 1..Len(list) /\ \A k \in 1..Len(list) : list[k] \in Slots
  BY LenProperties, ElementOfSeq DEF WsTypeOK
<1>2. Place(s) \in 1..Len(list)
  BY <1>1 DEF ToSet, Place
<1>3. Place(s) # Len(list) => Place(s) + 1 \in 1..Len(list)
  BY <1>1, <1>2
<1> QED
  BY <1>1, <1>3 DEF After, ClientOrEnd

LEMMA WalkKeeps ==
  ASSUME WsInv, Walk, UNCHANGED <<sender, issued>>
  PROVE  WsInv'
<1>1. server \in ServerRecord /\ AtLoop \in ServerRecord
  BY DEF WsInv, WsTypeOK, AtLoop, ServerRecord, ServerAt, FdOrNone, ChatOrNone, ClientOrEnd
<1>2. server' \in ServerRecord /\ server'.at \in {"circle", "tick", "read"}
  <2> DEFINE rest == {k \in DOMAIN list : \A j \in DOMAIN list : list[j] = server.next => j <= k}
             ready == {k \in rest : clients[list[k]].fd \in server.ready}
             first == CHOOSE k \in ready : \A j \in ready : k <= j
  <2>1. CASE server' = [AtLoop EXCEPT !.at = "circle"]
    BY <1>1, <2>1 DEF ServerRecord, ServerAt
  <2>2. CASE server' = [AtLoop EXCEPT !.at = "tick"]
    BY <1>1, <2>2 DEF ServerRecord, ServerAt
  <2>3. CASE /\ ready # {}
             /\ server' = [server EXCEPT !.at = "read", !.fd = clients[list[first]].fd,
                                         !.next = After(list[first])]
    <3>1. ready \in SUBSET Nat /\ ready \subseteq DOMAIN list
      BY LenProperties DEF WsInv, WsTypeOK
    <3>2. first \in ready
      BY <2>3, <3>1, LeastExists
    <3>3. list[first] \in ToSet(list)
      BY <3>1, <3>2 DEF ToSet
    <3>4. clients[list[first]].fd \in Fds
      BY <3>3 DEF WsInv, TableInv, ListOK, SocketsOK
    <3>5. After(list[first]) \in ClientOrEnd
      BY <3>3, AfterType DEF WsInv
    <3> HIDE DEF first
    <3> QED
      BY <1>1, <2>3, <3>4, <3>5 DEF ServerRecord, ServerAt, FdOrNone
  <2> QED
    BY <2>1, <2>2, <2>3 DEF Walk
<1> QED
  BY <1>2, ServerLooks DEF Walk, Between, Steady

LEMMA DoneQuietKeeps ==
  ASSUME WsInv, server' = GoOn, UNCHANGED <<clients, list, sockets, sender, saved, issued, got>>,
         server.at \notin Steady
  PROVE  WsInv'
<1>1. server \in ServerRecord
  BY DEF WsInv, WsTypeOK
<1>2. server' \in ServerRecord /\ server'.at = "walk"
  BY <1>1 DEF GoOn, ServerRecord, ServerAt, FdOrNone, ChatOrNone, ClientOrEnd
<1> QED
  BY <1>2, ServerLooks DEF Between

LEMMA CheckedType ==
  ASSUME NEW ready \in SUBSET Fds, NEW late \in SUBSET Fds
  PROVE  Checked(ready, late) \in ServerRecord /\ Checked(ready, late).at \in {"loop", "check"}
BY DEF Checked, AtLoop, ServerRecord, ServerAt, FdOrNone, ChatOrNone, ClientOrEnd

LEMMA KeepaliveKeeps ==
  ASSUME WsInv, Keepalive, UNCHANGED <<sender, issued>>
  PROVE  WsInv'
<1>1. PICK late \in SUBSET ToSet(list), pinged \in SUBSET ToSet(list) :
        /\ clients' = [s \in Slots |->
              IF s \in pinged THEN [clients[s] EXCEPT !.awaiting = TRUE] ELSE clients[s]]
        /\ server' = Checked(FdsOf(pinged), FdsOf(late))
  BY DEF Keepalive
<1>2. server' \in ServerRecord /\ server'.at \in {"loop", "check"}
  BY <1>1, ListedFds, CheckedType
<1>3. ASSUME NEW s \in Slots
      PROVE  /\ clients'[s] \in ClientRecord /\ clients'[s].active = clients[s].active
             /\ clients'[s].fd = clients[s].fd /\ clients'[s].chat = clients[s].chat
  BY <1>1 DEF WsInv, WsTypeOK, ClientRecord
<1>4. clients' \in [Slots -> ClientRecord]
  BY <1>1, <1>3
<1>5. Shrinks
  BY <1>3, SameShrinks DEF WsInv, Keepalive
<1> QED
  BY <1>2, <1>4, <1>5, ServerMovesOn DEF Keepalive, Between, Steady, WsInv, WsTypeOK

LEMMA PingKeeps ==
  ASSUME WsInv, NEW fd \in Fds, Ping(fd) \/ Expel(fd), UNCHANGED <<sender, issued>>
  PROVE  WsInv'
<1>1. server \in ServerRecord
  BY DEF WsInv, WsTypeOK
<1>2. server' \in ServerRecord /\ server'.at \in {"loop", "check"}
  <2>1. server.ready \ {fd} \in SUBSET Fds /\ server.late \ {fd} \in SUBSET Fds
        /\ server.late \in SUBSET Fds /\ {} \in SUBSET Fds
    BY <1>1 DEF ServerRecord
  <2> QED
    BY <2>1, CheckedType DEF Ping, Expel
<1>3. CASE UNCHANGED <<clients, list, sockets>>
  BY <1>2, <1>3, ServerLooks DEF Ping, Expel, Between, Steady
<1>4. CASE RemoveFd(fd)
  BY <1>2, <1>4, RemoveEffect, ServerMovesOn DEF WsInv, Ping, Expel, Between, Steady
<1> QED
  BY <1>3, <1>4 DEF Ping, Expel

LEMMA CutKeeps ==
  ASSUME WsInv, Cut, UNCHANGED <<sender, issued>>
  PROVE  WsInv'
<1>1. server' \in ServerRecord /\ server'.at = "done"
  BY DEF WsInv, WsTypeOK, Cut, ServerRecord, ServerAt
<1> QED
  BY <1>1, RemoveEffect, ServerMovesOn DEF WsInv, Cut, Between, Steady

-----------------------------------------------------------------------------
(* Connections are taken and listed. *)

\* There are more numbers than clients.
LEMMA SomeFdIsFree ==
  ASSUME WsInv, Held = {}
  PROVE  Min({f \in Fds : sockets[f] = "shut"}) \in {f \in Fds : sockets[f] = "shut"}
<1> DEFINE shut == {f \in Fds : sockets[f] = "shut"}
           owner == [f \in Fds |-> CHOOSE s \in Active : clients[s].fd = f]
<1>1. shut # {}
  <2> SUFFICES ASSUME \A f \in Fds : sockets[f] # "shut" PROVE FALSE
    OBVIOUS
  <2>1. \A f \in Fds : \E s \in Active : clients[s].fd = f
    BY DEF WsInv, TableInv, NoneForgotten
  <2>2. \A f \in Fds : owner[f] \in Active /\ clients[owner[f]].fd = f
    BY <2>1
  <2>3. owner \in [Fds -> Slots]
    BY <2>2 DEF Active
  <2>4. IsFiniteSet(Slots) /\ Cardinality(Slots) = MaxClients
    BY FS_Interval, ClientsAssumption DEF Slots
  <2> HIDE DEF owner
  <2>5. Cardinality(Slots) < Cardinality(Fds) /\ IsFiniteSet(Fds)
    BY <2>4, FS_CardinalityType, ClientsAssumption
  <2>6. \E f, g \in Fds : f # g /\ owner[f] = owner[g]
    BY <2>3, <2>4, <2>5, FS_PigeonHole
  <2> QED
    BY <2>2, <2>6
<1>2. shut \in SUBSET Nat
  BY ClientsAssumption
<1> QED
  BY <1>1, <1>2, LeastExists DEF Min

LEMMA AcceptKeeps ==
  ASSUME WsInv, Accept, UNCHANGED <<sender, issued>>
  PROVE  WsInv'
<1> DEFINE fd == Min({f \in Fds : sockets[f] = "shut"})
<1>1. Held = {}
  BY DEF Accept, Held
<1>2. fd \in Fds /\ sockets[fd] = "shut"
  BY <1>1, SomeFdIsFree
<1>3. PICK chat \in ChatOrNone :
        /\ sockets' = [sockets EXCEPT ![fd] = "open"]
        /\ server' = [server EXCEPT !.at = "add", !.fd = fd, !.chat = chat]
  BY DEF Accept, ChatOrNone
<1> HIDE DEF fd
<1>4. server' \in ServerRecord /\ server'.at = "add" /\ server'.fd = fd
  BY <1>2, <1>3 DEF WsInv, WsTypeOK, ServerRecord, ServerAt, FdOrNone
<1>5. /\ sockets' \in [Fds -> {"shut", "open", "gone"}]
      /\ \A f \in Fds : sockets'[f] = IF f = fd THEN "open" ELSE sockets[f]
  BY <1>3 DEF WsInv, WsTypeOK
<1>6. UNCHANGED <<clients, list, sender, saved, issued, got>>
  BY DEF Accept
<1>7. WsTypeOK' /\ PointersOK'
  BY <1>4, <1>5, <1>6 DEF WsInv, WsTypeOK, PointersOK
<1>8. Active' = Active /\ Held' = {fd}
  BY <1>4, <1>6 DEF Active, Held
<1>9. TableInv'
  <2>1. \A s \in Active : clients[s].fd # fd
    BY <1>2 DEF WsInv, TableInv, SocketsOK
  <2>2. HeldOK'
    BY <1>2, <1>4, <1>5, <1>6, <1>8, <2>1 DEF HeldOK
  <2>3. ListOK' /\ SocketsOK' /\ FdsDiffer'
    BY <1>5, <1>6, <1>8, <2>1 DEF WsInv, TableInv, ListOK, SocketsOK, FdsDiffer
  <2>4. NoneForgotten'
    BY <1>1, <1>5, <1>6, <1>8 DEF WsInv, TableInv, NoneForgotten
  <2> QED
    BY <2>2, <2>3, <2>4 DEF TableInv
<1>10. ChatInv'
  BY <1>4, <1>6, <1>8 DEF WsInv, ChatInv
<1>11. ReplyInv'
  BY <1>4, <1>6, RepliesStay DEF WsInv
<1> QED
  BY <1>7, <1>9, <1>10, <1>11 DEF WsInv

\* A slot is filled with the new connection, and what else was in hand closed.
LEMMA FilledKeeps ==
  ASSUME WsInv, NEW s \in Slots, s \notin Active, Filled(s),
         server.at \in {"add", "evicted"}, UNCHANGED <<sender, saved, issued, got>>,
         sockets' \in [Fds -> {"shut", "open", "gone"}],
         \A f \in Fds : sockets'[f] = IF f \in Held \ {server.fd} THEN "shut" ELSE sockets[f]
  PROVE  WsInv'
<1> DEFINE fd == server.fd
           new == [FreeClient EXCEPT !.active = TRUE, !.fd = fd]
<1>1. /\ server \in ServerRecord /\ fd \in Held /\ fd \in Fds /\ sockets[fd] # "shut"
      /\ \A f \in Held : sockets[f] # "shut" /\ \A x \in Active : clients[x].fd # f
  BY DEF WsInv, WsTypeOK, TableInv, HeldOK, Held
<1>2. /\ clients' = [clients EXCEPT ![s] = new]
      /\ list' = <<s>> \o list
      /\ server' = [server EXCEPT !.old = NoFd, !.connects = server.chat # NoChat,
                                  !.at = IF server.chat = NoChat THEN "walk" ELSE "drop"]
  BY DEF Filled
<1>3. /\ new \in ClientRecord /\ new.active /\ new.fd = fd /\ new.chat = NoChat
  BY <1>1 DEF FreeClient, ClientRecord, FdOrNone, ChatOrNone
<1> HIDE DEF new
<1>4. /\ clients' \in [Slots -> ClientRecord] /\ clients'[s] = new
      /\ \A x \in Slots : x # s => clients'[x] = clients[x]
  BY <1>2, <1>3 DEF WsInv, WsTypeOK
<1>5. Active' = Active \cup {s}
  BY <1>3, <1>4 DEF Active
<1>6. list' \in Seq(Slots) /\ IsInjective(list') /\ ToSet(list') = ToSet(list) \cup {s}
  BY <1>2, OnEffect DEF WsInv, WsTypeOK, TableInv, ListOK
<1>7. /\ server' \in ServerRecord /\ server'.at \in {"walk", "drop"}
      /\ server'.at = "drop" => server'.connects
      /\ server'.client = server.client /\ server'.fd = fd
  <2>1. {"walk", "drop"} \subseteq ServerAt /\ NoFd \in FdOrNone
    BY DEF ServerAt, FdOrNone
  <2>2. PICK at \in {"walk", "drop"} :
          /\ server' = [server EXCEPT !.old = NoFd, !.connects = server.chat # NoChat, !.at = at]
          /\ at = "drop" => server.chat # NoChat
    BY <1>2
  <2> QED
    BY <1>1, <2>1, <2>2 DEF ServerRecord
<1>8. WsTypeOK' /\ PointersOK'
  BY <1>4, <1>6, <1>7 DEF WsInv, WsTypeOK, PointersOK
<1>9. Held' = {}
  BY <1>7 DEF Held
<1>10. /\ \A x \in Active : x \in Slots /\ x # s /\ clients'[x] = clients[x]
       /\ \A x \in Active' : x = s \/ x \in Active
  BY <1>4, <1>5 DEF Active
<1>11. TableInv'
  <2>1. HeldOK'
    BY <1>7, <1>9 DEF HeldOK
  <2>2. ListOK'
    BY <1>5, <1>6 DEF WsInv, TableInv, ListOK
  <2>3. SocketsOK'
    BY <1>1, <1>3, <1>4, <1>10 DEF WsInv, TableInv, SocketsOK
  <2>4. FdsDiffer'
    BY <1>1, <1>3, <1>4, <1>10 DEF WsInv, TableInv, FdsDiffer
  <2>5. ASSUME NEW f \in Fds, sockets'[f] # "shut"
        PROVE  \E x \in Active' : clients'[x].fd = f
    <3>1. sockets[f] # "shut" /\ (f \notin Held \/ f = fd)
      BY <2>5
    <3>2. CASE f = fd
      BY <1>3, <1>4, <1>5, <3>2
    <3>3. CASE f \notin Held
      <4>1. PICK x \in Active : clients[x].fd = f
        BY <3>1, <3>3 DEF WsInv, TableInv, NoneForgotten
      <4> QED
        BY <1>5, <1>10, <4>1
    <3> QED
      BY <3>1, <3>2, <3>3
  <2>6. NoneForgotten'
    BY <2>5 DEF NoneForgotten
  <2> QED
    BY <2>1, <2>2, <2>3, <2>4, <2>6 DEF TableInv
<1>12. ChatInv'
  BY <1>3, <1>4, <1>7, <1>10 DEF WsInv, ChatInv
<1>13. ReplyInv'
  BY <1>7, RepliesStay DEF WsInv
<1> QED
  BY <1>8, <1>11, <1>12, <1>13 DEF WsInv

\* A listed client loses its slot; its number is in hand until it is closed.
LEMMA DetachEffect ==
  ASSUME WsInv, NEW s \in ToSet(list), Detach(s)
  PROVE  /\ s \in Active /\ clients[s].fd \in Fds
         /\ Active' = Active \ {s} /\ \A x \in Active' : clients'[x] = clients[x]
         /\ clients' \in [Slots -> ClientRecord]
         /\ list' \in Seq(Slots) /\ IsInjective(list') /\ ToSet(list') = Active'
<1>1. s \in Active /\ s \in Slots /\ clients[s].fd \in Fds
  BY DEF WsInv, TableInv, ListOK, SocketsOK, Active
<1>2. /\ clients' = [clients EXCEPT ![s].active = FALSE, ![s].fd = NoFd, ![s].chat = NoChat]
      /\ Off(s)
  BY DEF Detach
<1>3. list' \in Seq(Slots) /\ IsInjective(list') /\ ToSet(list') = ToSet(list) \ {s}
  BY <1>2, OffEffect DEF WsInv, WsTypeOK, TableInv, ListOK
<1>4. /\ clients' \in [Slots -> ClientRecord] /\ ~clients'[s].active
      /\ \A x \in Slots : x # s => clients'[x] = clients[x]
  <2> DEFINE new == [clients[s] EXCEPT !.active = FALSE, !.fd = NoFd, !.chat = NoChat]
  <2>1. clients \in [Slots -> ClientRecord]
    BY DEF WsInv, WsTypeOK
  <2>2. new \in ClientRecord /\ ~new.active
    BY <1>1, <2>1 DEF ClientRecord, FdOrNone, ChatOrNone
  <2>3. clients' = [clients EXCEPT ![s] = new]
    BY <1>1, <1>2, <2>1
  <2> HIDE DEF new
  <2> QED
    BY <1>1, <2>1, <2>2, <2>3
<1>5. Active' = Active \ {s}
  BY <1>1, <1>4 DEF Active
<1>6. \A x \in Active' : clients'[x] = clients[x]
  BY <1>4, <1>5 DEF Active
<1> QED
  BY <1>1, <1>3, <1>4, <1>5, <1>6 DEF WsInv, TableInv, ListOK

LEMMA DetachKeepsTable ==
  ASSUME WsInv, NEW s \in ToSet(list), Detach(s), UNCHANGED sockets,
         Held' = Held \cup {clients[s].fd},
         server'.at = "evicted" => server'.old = clients[s].fd /\ server'.fd \in Held
                                     /\ server'.client = s
  PROVE  TableInv'
<1>1. /\ s \in Active /\ clients[s].fd \in Fds
      /\ Active' = Active \ {s} /\ \A x \in Active' : clients'[x] = clients[x]
      /\ IsInjective(list') /\ ToSet(list') = Active'
  BY DetachEffect
<1>2. \A x \in Active' : clients[x].fd # clients[s].fd
  BY <1>1 DEF WsInv, TableInv, FdsDiffer
<1>3. sockets[clients[s].fd] # "shut" /\ clients[s].fd \notin Held
  BY <1>1 DEF WsInv, TableInv, SocketsOK, HeldOK
<1>4. HeldOK'
  BY <1>1, <1>2, <1>3 DEF WsInv, TableInv, HeldOK, Active
<1>5. ListOK' /\ SocketsOK' /\ FdsDiffer'
  BY <1>1 DEF WsInv, TableInv, ListOK, SocketsOK, FdsDiffer
<1>6. NoneForgotten'
  BY <1>1 DEF WsInv, TableInv, NoneForgotten
<1> QED
  BY <1>4, <1>5, <1>6 DEF TableInv

\* What was in hand is closed.
LEMMA ClosedKeepsTable ==
  ASSUME WsInv, UNCHANGED <<clients, list>>, NEW fd, Held = {fd}, CloseFd(fd), Held' = {},
         server'.at # "evicted"
  PROVE  TableInv' /\ sockets' \in [Fds -> {"shut", "open", "gone"}]
<1>1. Active' = Active
  BY DEF Active
<1>2. /\ sockets' \in [Fds -> {"shut", "open", "gone"}]
      /\ \A f \in Fds : sockets'[f] = IF f = fd THEN "shut" ELSE sockets[f]
  BY DEF CloseFd, WsInv, WsTypeOK
<1>3. \A s \in Active : clients[s].fd # fd
  BY DEF WsInv, TableInv, HeldOK
<1>4. HeldOK' /\ ListOK' /\ SocketsOK' /\ FdsDiffer' /\ NoneForgotten'
  BY <1>1, <1>2, <1>3 DEF WsInv, TableInv, HeldOK, ListOK, SocketsOK, FdsDiffer, NoneForgotten
<1> QED
  BY <1>2, <1>4 DEF TableInv

LEMMA AddKeeps ==
  ASSUME WsInv, Add, UNCHANGED <<sender, issued>>
  PROVE  WsInv'
<1>1. /\ server \in ServerRecord /\ server.at = "add" /\ Held = {server.fd}
      /\ UNCHANGED <<saved, got>>
  BY DEF WsInv, WsTypeOK, Add, Held
<1>2. ASSUME NEW s \in Slots, ~clients[s].active, Filled(s), UNCHANGED sockets
      PROVE  WsInv'
  BY <1>1, <1>2, FilledKeeps DEF Active, WsInv, WsTypeOK
<1>3. ASSUME NEW s \in ToSet(list), Detach(s), UNCHANGED sockets,
             server' = [server EXCEPT !.at = "evicted", !.client = s, !.old = clients[s].fd]
      PROVE  WsInv'
  <2>1. /\ s \in Active /\ s \in Slots /\ clients[s].fd \in Fds
        /\ Active' = Active \ {s} /\ \A x \in Active' : clients'[x] = clients[x]
        /\ clients' \in [Slots -> ClientRecord] /\ list' \in Seq(Slots)
    BY <1>3, DetachEffect DEF Active
  <2>2. /\ server' \in ServerRecord /\ server'.at = "evicted" /\ server'.client = s
        /\ server'.old = clients[s].fd /\ server'.fd = server.fd
    BY <1>1, <1>3, <2>1 DEF ServerRecord, ServerAt, FdOrNone, ClientOrEnd
  <2>3. Held' = Held \cup {clients[s].fd}
    BY <1>1, <2>2 DEF Held
  <2>4. TableInv'
    BY <1>1, <1>3, <2>2, <2>3, DetachKeepsTable
  <2>5. WsTypeOK'
    BY <1>1, <1>3, <2>1, <2>2 DEF WsInv, WsTypeOK
  <2>6. PointersOK'
    BY <2>1, <2>2 DEF WsInv, PointersOK, Slots, End
  <2>7. ChatInv'
    BY <2>1, <2>2 DEF WsInv, ChatInv
  <2>8. ReplyInv'
    BY <1>1, <2>2, RepliesStay DEF WsInv
  <2> QED
    BY <2>4, <2>5, <2>6, <2>7, <2>8 DEF WsInv
<1>4. ASSUME CloseFd(server.fd), UNCHANGED <<clients, list>>, server' = [server EXCEPT !.at = "walk"]
      PROVE  WsInv'
  <2>1. server' \in ServerRecord /\ server'.at = "walk"
    BY <1>1, <1>4 DEF ServerRecord, ServerAt
  <2>2. Held' = {}
    BY <2>1 DEF Held
  <2>3. TableInv' /\ sockets' \in [Fds -> {"shut", "open", "gone"}]
    BY <1>1, <1>4, <2>1, <2>2, ClosedKeepsTable
  <2>4. WsTypeOK' /\ PointersOK'
    BY <1>1, <1>4, <2>1, <2>3 DEF WsInv, WsTypeOK, PointersOK
  <2>5. Active' = Active
    BY <1>4 DEF Active
  <2>6. ChatInv'
    BY <1>4, <2>1, <2>5 DEF WsInv, ChatInv
  <2>7. ReplyInv'
    BY <1>1, <2>1, RepliesStay DEF WsInv
  <2> QED
    BY <2>3, <2>4, <2>6, <2>7 DEF WsInv
<1> QED
  BY <1>2, <1>3, <1>4 DEF Add

LEMMA EvictedKeeps ==
  ASSUME WsInv, Evicted, UNCHANGED <<sender, issued>>
  PROVE  WsInv'
<1>1. /\ server.at = "evicted" /\ Held = {server.fd, server.old} /\ server.fd # server.old
      /\ server.client \in Slots \ Active
  BY DEF WsInv, Evicted, TableInv, HeldOK, Held
<1>2. Held \ {server.fd} = {server.old}
  BY <1>1
<1>3. /\ sockets' = [sockets EXCEPT ![server.old] = "shut"]
      /\ Filled(server.client) /\ UNCHANGED <<saved, got>>
  BY DEF Evicted, CloseFd
<1>4. /\ sockets' \in [Fds -> {"shut", "open", "gone"}]
      /\ \A f \in Fds : sockets'[f] = IF f \in Held \ {server.fd} THEN "shut" ELSE sockets[f]
  BY <1>2, <1>3 DEF WsInv, WsTypeOK
<1> QED
  BY <1>1, <1>3, <1>4, FilledKeeps

-----------------------------------------------------------------------------
(* Frames. *)

LEMMA ReadFrameKeeps ==
  ASSUME WsInv, ReadFrame, UNCHANGED <<sender, issued>>
  PROVE  WsInv'
<1> DEFINE fd == server.fd
           client == ByFd(fd)
<1>1. /\ server \in ServerRecord /\ server.at = "read" /\ UNCHANGED <<saved, got>>
      /\ clients \in [Slots -> ClientRecord]
  BY DEF WsInv, WsTypeOK, ReadFrame
<1>2. \/ client = End /\ \A s \in ToSet(list) : clients[s].fd # fd
      \/ client \in Active /\ client \in Slots /\ clients[client].fd = fd
  BY ByFdFinds DEF WsInv, TableInv, ListOK, Active
<1> HIDE DEF client
<1>3. CASE server' = GoOn /\ UNCHANGED <<clients, list, sockets>>
  BY <1>1, <1>3, DoneQuietKeeps DEF Steady
<1>4. CASE server' = GoOn /\ RemoveFd(fd)
  <2>1. server' \in ServerRecord /\ server'.at = "walk"
    BY <1>1, <1>4 DEF GoOn, ServerRecord, ServerAt, FdOrNone, ChatOrNone, ClientOrEnd
  <2> QED
    BY <1>1, <1>4, <2>1, RemoveEffect, ServerMovesOn DEF WsInv, Between, Steady
<1>5. CASE /\ server' = GoOn /\ UNCHANGED <<list, sockets>>
           /\ clients' = IF client = End THEN clients
                         ELSE [clients EXCEPT ![client].awaiting = FALSE]
  <2>1. server' \in ServerRecord /\ server'.at = "walk"
    BY <1>1, <1>5 DEF GoOn, ServerRecord, ServerAt, FdOrNone, ChatOrNone, ClientOrEnd
  <2>2. /\ clients' \in [Slots -> ClientRecord]
        /\ \A s \in Slots : clients'[s].active = clients[s].active /\ clients'[s].fd = clients[s].fd
                              /\ clients'[s].chat = clients[s].chat
    BY <1>1, <1>2, <1>5 DEF ClientRecord
  <2>3. Shrinks
    BY <1>5, <2>2, SameShrinks DEF WsInv
  <2> QED
    BY <1>1, <1>5, <2>1, <2>2, <2>3, ServerMovesOn DEF WsInv, WsTypeOK, Between, Steady
<1>6. ASSUME NEW frame \in Frames, UNCHANGED <<clients, list, sockets>>,
             server' = [server EXCEPT !.client = client, !.chat = frame.chat,
                          !.sync = frame.type = "session_sync",
                          !.at = IF frame.chat # NoChat THEN "drop" ELSE "done"]
      PROVE  WsInv'
  <2>1. /\ server' \in ServerRecord /\ server'.at \in {"drop", "done"}
        /\ server'.client = client /\ server'.fd = fd
    <3>1. frame.chat \in ChatOrNone /\ client \in ClientOrEnd
      BY <1>2 DEF Frames, ChatOrNone, ClientOrEnd
    <3> QED
      BY <1>1, <1>6, <3>1 DEF ServerRecord, ServerAt
  <2>2. Shrinks
    BY <1>6, SameShrinks DEF WsInv
  <2>3. WsTypeOK' /\ PointersOK'
    BY <1>1, <1>6, <2>1 DEF WsInv, WsTypeOK, PointersOK
  <2>4. TableInv'
    BY <1>1, <2>1, <2>2, TableShrinks DEF WsInv, Calm, Steady
  <2>5. Active' = Active
    BY <1>6 DEF Active
  <2>6. End \notin Active
    BY DEF Active, Slots, End
  <2>7. ChatInv'
    BY <1>2, <1>6, <2>1, <2>5, <2>6 DEF WsInv, ChatInv
  <2>8. ReplyInv'
    BY <1>1, <2>1, RepliesStay DEF WsInv
  <2> QED
    BY <2>3, <2>4, <2>7, <2>8 DEF WsInv
<1>7. \/ server' = GoOn /\ UNCHANGED <<clients, list, sockets>>
      \/ server' = GoOn /\ RemoveFd(fd)
      \/ /\ server' = GoOn /\ UNCHANGED <<list, sockets>>
         /\ clients' = IF client = End THEN clients
                       ELSE [clients EXCEPT ![client].awaiting = FALSE]
      \/ \E frame \in Frames :
           /\ UNCHANGED <<clients, list, sockets>>
           /\ server' = [server EXCEPT !.client = client, !.chat = frame.chat,
                           !.sync = frame.type = "session_sync",
                           !.at = IF frame.chat # NoChat THEN "drop" ELSE "done"]
  <2>1. ASSUME NEW frame \in Frames,
               CASE frame.type = "close" -> RemoveFd(fd) /\ server' = GoOn
                 [] frame.type = "pong" ->
                      /\ clients' = IF client = End THEN clients
                                    ELSE [clients EXCEPT ![client].awaiting = FALSE]
                      /\ server' = GoOn /\ UNCHANGED <<list, sockets>>
                 [] OTHER ->
                      /\ server' = [server EXCEPT !.client = client, !.chat = frame.chat,
                                      !.sync = frame.type = "session_sync",
                                      !.at = IF frame.chat # NoChat THEN "drop" ELSE "done"]
                      /\ UNCHANGED <<clients, list, sockets>>
        PROVE  <1>7!:
    <3>1. CASE frame.type = "close"
      BY <2>1, <3>1
    <3>2. CASE frame.type = "pong"
      BY <2>1, <3>2
    <3>3. CASE frame.type \notin {"close", "pong"}
      BY <2>1, <3>3
    <3> QED
      BY <3>1, <3>2, <3>3
  <2> QED
    BY <2>1 DEF ReadFrame, client
<1> QED
  BY <1>3, <1>4, <1>5, <1>6, <1>7

\* The look-up of a duplicate finds one, if there is one.
LEMMA DupFinds ==
  ASSUME WsTypeOK, NEW dup, dup = Find(LAMBDA c : c.fd # server.fd /\ c.chat = server.chat)
  PROVE  \/ dup = End /\ \A s \in ToSet(list) : clients[s].chat = server.chat => clients[s].fd = server.fd
         \/ dup \in ToSet(list) /\ dup # End
<1> DEFINE hits == {k \in DOMAIN list : clients[list[k]].fd # server.fd
                                          /\ clients[list[k]].chat = server.chat}
           first == CHOOSE k \in hits : \A j \in hits : k <= j
<1>1. dup = IF hits = {} THEN End ELSE list[first]
  BY DEF Find
<1>2. CASE hits = {}
  BY <1>1, <1>2 DEF ToSet
<1>3. CASE hits # {}
  <2>1. hits \subseteq Nat /\ \A k \in DOMAIN list : list[k] \in Slots
    BY LenProperties, ElementOfSeq DEF WsTypeOK
  <2>2. first \in hits
    BY <1>3, <2>1, LeastExists
  <2>3. first \in DOMAIN list /\ dup = list[first]
    BY <1>1, <1>3, <2>2
  <2>4. dup \in ToSet(list) /\ dup \in Slots
    BY <2>1, <2>3 DEF ToSet
  <2>5. dup # End
    BY <2>4 DEF Slots, End
  <2> QED
    BY <2>4, <2>5
<1> QED
  BY <1>2, <1>3

LEMMA DropKeeps ==
  ASSUME WsInv, Drop, UNCHANGED <<sender, issued>>
  PROVE  WsInv'
<1> DEFINE dup == Find(LAMBDA c : c.fd # server.fd /\ c.chat = server.chat)
<1>1. /\ server \in ServerRecord /\ server.at = "drop" /\ UNCHANGED <<sockets, saved, got>>
      /\ Held = {}
  BY DEF WsInv, WsTypeOK, Drop, Held
<1>2. CASE dup = End
  <2>1. \A s \in Active : clients[s].chat = server.chat => clients[s].fd = server.fd
    <3>1. \A s \in Slots : s # End
      BY DEF Slots, End
    <3> QED
      BY <1>2, DupFinds DEF WsInv, TableInv, ListOK
  <2>2. server' = [server EXCEPT !.at = "bind"] /\ UNCHANGED <<clients, list>>
    BY <1>2 DEF Drop
  <2>3. /\ server' \in ServerRecord /\ server'.at = "bind" /\ server'.chat = server.chat
        /\ server'.fd = server.fd /\ server'.client = server.client
        /\ server'.connects = server.connects
    BY <1>1, <2>2 DEF ServerRecord, ServerAt
  <2>4. Shrinks
    BY <1>1, <2>2, SameShrinks DEF WsInv
  <2>5. WsTypeOK' /\ PointersOK'
    BY <1>1, <2>2, <2>3 DEF WsInv, WsTypeOK, PointersOK
  <2>6. TableInv'
    BY <1>1, <2>3, <2>4, TableShrinks DEF WsInv, Calm, Steady
  <2>7. Active' = Active
    BY <2>2 DEF Active
  <2>8. ChatInv'
    BY <1>1, <2>1, <2>2, <2>3, <2>7 DEF WsInv, ChatInv
  <2>9. ReplyInv'
    BY <1>1, <2>3, RepliesStay DEF WsInv
  <2> QED
    BY <2>5, <2>6, <2>8, <2>9 DEF WsInv
<1>3. CASE dup # End
  <2>1. dup \in ToSet(list)
    BY <1>3, DupFinds DEF WsInv
  <2>2. /\ Detach(dup)
        /\ server' = [server EXCEPT !.at = "dropped", !.old = clients[dup].fd, !.after = After(dup)]
    BY <1>3 DEF Drop
  <2> HIDE DEF dup
  <2>3. /\ dup \in Active /\ clients[dup].fd \in Fds
        /\ Active' = Active \ {dup} /\ \A x \in Active' : clients'[x] = clients[x]
        /\ clients' \in [Slots -> ClientRecord] /\ list' \in Seq(Slots)
    BY <2>1, <2>2, DetachEffect
  <2>4. /\ server' \in ServerRecord /\ server'.at = "dropped" /\ server'.old = clients[dup].fd
        /\ server'.fd = server.fd /\ server'.client = server.client
        /\ server'.connects = server.connects
    <3>1. After(dup) \in ClientOrEnd
      BY <2>1, AfterType DEF WsInv
    <3> QED
      BY <1>1, <2>2, <2>3, <3>1 DEF ServerRecord, ServerAt, FdOrNone
  <2>5. Held' = Held \cup {clients[dup].fd}
    BY <1>1, <2>4 DEF Held
  <2>6. TableInv'
    BY <1>1, <2>1, <2>2, <2>4, <2>5, DetachKeepsTable
  <2>7. WsTypeOK' /\ PointersOK'
    BY <1>1, <2>3, <2>4 DEF WsInv, WsTypeOK, PointersOK
  <2>8. ChatInv'
    BY <1>1, <2>3, <2>4 DEF WsInv, ChatInv
  <2>9. ReplyInv'
    BY <1>1, <2>4, RepliesStay DEF WsInv
  <2> QED
    BY <2>6, <2>7, <2>8, <2>9 DEF WsInv
<1> QED
  BY <1>2, <1>3

LEMMA DroppedKeeps ==
  ASSUME WsInv, Dropped, UNCHANGED <<sender, issued>>
  PROVE  WsInv'
<1>1. /\ server \in ServerRecord /\ server.at = "dropped" /\ Held = {server.old}
      /\ CloseFd(server.old) /\ UNCHANGED <<clients, list, saved, got>>
  BY DEF WsInv, WsTypeOK, Dropped, Held
<1>2. /\ server' \in ServerRecord /\ server'.at \in {"drop", "circle"}
      /\ server'.at = "drop" => /\ server'.fd = server.fd /\ server'.client = server.client
                                /\ server'.connects = server.connects
  <2>1. /\ {"drop", "circle"} \subseteq ServerAt /\ End \in ClientOrEnd /\ NoFd \in FdOrNone
        /\ NoChat \in ChatOrNone /\ "loop" \in ServerAt
    BY DEF ServerAt, ClientOrEnd, FdOrNone, ChatOrNone
  <2>2. CASE server' = [server EXCEPT !.at = "drop", !.after = End, !.old = NoFd]
    BY <1>1, <2>1, <2>2 DEF ServerRecord
  <2>3. CASE server' = [AtLoop EXCEPT !.at = "circle"]
    <3>1. AtLoop \in ServerRecord
      BY <2>1 DEF AtLoop, ServerRecord
    <3> QED
      BY <2>1, <2>3, <3>1 DEF ServerRecord
  <2> QED
    BY <2>2, <2>3 DEF Dropped
<1>3. Held' = {}
  BY <1>2 DEF Held
<1>4. TableInv' /\ sockets' \in [Fds -> {"shut", "open", "gone"}]
  BY <1>1, <1>2, <1>3, ClosedKeepsTable
<1>5. WsTypeOK' /\ PointersOK'
  BY <1>1, <1>2, <1>4 DEF WsInv, WsTypeOK, PointersOK
<1>6. Active' = Active
  BY <1>1 DEF Active
<1>7. ChatInv'
  BY <1>1, <1>2, <1>6 DEF WsInv, ChatInv
<1>8. ReplyInv'
  BY <1>1, <1>2, RepliesStay DEF WsInv
<1> QED
  BY <1>4, <1>5, <1>7, <1>8 DEF WsInv

LEMMA BindKeeps ==
  ASSUME WsInv, Bind, UNCHANGED <<sender, issued>>
  PROVE  WsInv'
<1> DEFINE client == IF server.connects THEN ByFd(server.fd) ELSE server.client
<1>1. /\ server \in ServerRecord /\ server.at = "bind" /\ UNCHANGED <<list, sockets, saved, got>>
      /\ clients \in [Slots -> ClientRecord]
  BY DEF WsInv, WsTypeOK, Bind
<1>2. client \in ClientOrEnd /\ (client \in Active => clients[client].fd = server.fd)
  <2>1. CASE server.connects
    <3>1. \/ ByFd(server.fd) = End
          \/ ByFd(server.fd) \in Active /\ clients[ByFd(server.fd)].fd = server.fd
      BY ByFdFinds DEF WsInv, TableInv, ListOK
    <3>2. End \notin Active
      BY DEF Active, Slots, End
    <3> QED
      BY <2>1, <3>1, <3>2 DEF ClientOrEnd, Active
  <2>2. CASE ~server.connects
    BY <1>1, <2>2 DEF WsInv, ChatInv, ServerRecord
  <2> QED
    BY <2>1, <2>2
<1>3. CASE client = End
  <2>1. server' = [server EXCEPT !.at = "done"] /\ UNCHANGED clients
    BY <1>3 DEF Bind
  <2>2. server' \in ServerRecord /\ server'.at = "done"
    BY <1>1, <2>1 DEF ServerRecord, ServerAt
  <2> QED
    BY <1>1, <2>1, <2>2, ServerLooks DEF Between, Steady
<1>4. CASE client # End
  <2>1. /\ clients' = [clients EXCEPT ![client].chat = server.chat]
        /\ server' = [server EXCEPT !.at = "take", !.client = client]
    BY <1>4 DEF Bind
  <2>2. client \in Slots
    BY <1>2, <1>4 DEF ClientOrEnd
  <2> HIDE DEF client
  <2>3. server' \in ServerRecord /\ server'.at = "take" /\ server'.client = client
    BY <1>1, <1>2, <2>1 DEF ServerRecord, ServerAt
  <2>4. /\ clients' \in [Slots -> ClientRecord]
        /\ \A s \in Slots : /\ clients'[s].active = clients[s].active
                            /\ clients'[s].fd = clients[s].fd
                            /\ clients'[s].chat = IF s = client THEN server.chat ELSE clients[s].chat
    BY <1>1, <2>1, <2>2 DEF ClientRecord, ServerRecord
  <2>5. WsTypeOK' /\ PointersOK'
    BY <1>1, <1>4, <2>3, <2>4 DEF WsInv, WsTypeOK, PointersOK
  <2>6. Active' = Active /\ \A s \in Active : s \in Slots /\ clients'[s].fd = clients[s].fd
    BY <2>4 DEF Active
  <2>7. Held' = {} /\ Held = {}
    BY <1>1, <2>3 DEF Held
  <2>8. TableInv'
    <3>1. HeldOK'
      BY <2>3, <2>7 DEF HeldOK
    <3>2. ListOK' /\ SocketsOK' /\ FdsDiffer' /\ NoneForgotten'
      BY <1>1, <2>6, <2>7 DEF WsInv, TableInv, ListOK, SocketsOK, FdsDiffer, NoneForgotten
    <3> QED
      BY <3>1, <3>2 DEF TableInv
  <2>9. ChatInv'
    <3>1. ASSUME NEW s \in Active, s # client, client \in Active
          PROVE  clients[s].chat # server.chat
      BY <1>1, <1>2, <3>1 DEF WsInv, ChatInv, TableInv, FdsDiffer
    <3> QED
      BY <2>3, <2>4, <2>6, <3>1 DEF WsInv, ChatInv
  <2>10. ReplyInv'
    BY <1>1, <2>3, RepliesStay DEF WsInv
  <2> QED
    BY <2>5, <2>8, <2>9, <2>10 DEF WsInv
<1> QED
  BY <1>3, <1>4

-----------------------------------------------------------------------------
(* Replies change hands. *)

\* Nothing new holds a reply.
Less(r) ==
    /\ got'[r] = got[r]
    /\ IsHanded(r)' => IsHanded(r)
    /\ \A i \in Slots : IsSaved(r, i)' => IsSaved(r, i)
    /\ \A t \in Senders : IsSent(r, t)' => IsSent(r, t)

LEMMA LessKeeps ==
  ASSUME NEW r, Less(r)
  PROVE  (NowhereElse(r) => NowhereElse(r)') /\ (Nowhere(r) => Nowhere(r)')
BY DEF Less, NowhereElse, Nowhere

\* One reply moves, the others do not.
LEMMA OneMoves ==
  ASSUME WsTypeOK, ReplyInv, issued' = issued, NEW r,
         \A x \in 1..MaxReplies : x # r => Less(x),
         r \in 1..issued => NowhereElse(r)',
         r \in 1..MaxReplies /\ r > issued => Nowhere(r)'
  PROVE  ReplyInv'
<1>1. issued \in Nat /\ issued <= MaxReplies /\ MaxReplies \in Nat
  BY ClientsAssumption DEF WsTypeOK
<1>2. ASSUME NEW x \in 1..issued PROVE NowhereElse(x)'
  <2>1. x \in 1..MaxReplies
    BY <1>1
  <2> QED
    BY <2>1, LessKeeps DEF ReplyInv
<1>3. ASSUME NEW x \in 1..MaxReplies, x > issued PROVE Nowhere(x)'
  BY <1>3, LessKeeps DEF ReplyInv
<1> QED
  BY <1>2, <1>3 DEF ReplyInv

\* Who gives a reply away, for the next two lemmas.
GivesAway(r) ==
    /\ IsHanded(r) \/ \E t \in Senders : IsSent(r, t)
    /\ r \in 1..issued => ~IsHanded(r)' /\ \A t \in Senders : ~IsSent(r, t)'
    /\ \A x : IsHanded(x)' => IsHanded(x)
    /\ \A x : \A t \in Senders : IsSent(x, t)' => IsSent(x, t)
    /\ issued' = issued

\* ... to the socket of a client.
LEMMA WriteMoves ==
  ASSUME WsTypeOK, ReplyInv, NEW r \in Nat, GivesAway(r), WrittenTo(r), UNCHANGED saved
  PROVE  ReplyInv' /\ got' \in [1..MaxReplies -> Nat]
<1>1. got \in [1..MaxReplies -> Nat] /\ got' = [got EXCEPT ![r] = @ + 1]
  BY DEF WsTypeOK, WrittenTo
<1>2. \A x \in 1..MaxReplies : got'[x] = IF x = r THEN got[x] + 1 ELSE got[x]
  BY <1>1
<1>3. got' \in [1..MaxReplies -> Nat]
  <2>1. \A x \in 1..MaxReplies : got'[x] \in Nat
    BY <1>1, <1>2
  <2>2. got' = [x \in 1..MaxReplies |-> got'[x]]
    BY <1>1
  <2> QED
    BY <2>1, <2>2
<1>4. \A x \in 1..MaxReplies : x # r => Less(x)
  BY <1>2 DEF Less, GivesAway, IsSaved
<1>5. ASSUME r \in 1..issued PROVE NowhereElse(r)'
  <2>1. NowhereElse(r) /\ r \in 1..MaxReplies
    BY <1>5, ClientsAssumption DEF ReplyInv, WsTypeOK
  <2>2. got[r] = 0 /\ \A i \in Slots : ~IsSaved(r, i)
    BY <2>1 DEF NowhereElse, GivesAway
  <2>3. got'[r] = 1 /\ \A i \in Slots : ~IsSaved(r, i)'
    BY <1>2, <2>1, <2>2 DEF IsSaved
  <2> QED
    BY <1>5, <2>3 DEF NowhereElse, GivesAway
<1>6. ~(r \in 1..MaxReplies /\ r > issued)
  BY DEF ReplyInv, Nowhere, GivesAway
<1>7. issued' = issued
  BY DEF GivesAway
<1> QED
  BY <1>3, <1>4, <1>5, <1>6, <1>7, OneMoves

\* A reply is saved in one entry.
LEMMA SavedInOne ==
  ASSUME WsTypeOK, NEW chat, NEW r
  PROVE  \E i \in Slots : SavedWith(chat, r) = [saved EXCEPT ![i] = [chat |-> chat, reply |-> r]]
<1> DEFINE with(test) == {i \in Slots : saved[i].chat = test}
           place == CASE with(chat) # {} -> with(chat)
                      [] with(chat) = {} /\ with(NoChat) # {} -> with(NoChat)
                      [] OTHER -> {1}
           first == CHOOSE i \in place : \A j \in place : i <= j
<1>1. 1 \in Slots /\ Slots \subseteq Nat
  BY ClientsAssumption DEF Slots
<1>2. place \subseteq Slots /\ place # {}
  <2>1. CASE with(chat) # {}
    BY <2>1
  <2>2. CASE with(chat) = {} /\ with(NoChat) # {}
    BY <2>2
  <2>3. CASE with(chat) = {} /\ with(NoChat) = {}
    BY <1>1, <2>3
  <2> QED
    BY <2>1, <2>2, <2>3
<1>3. SavedWith(chat, r) = [saved EXCEPT ![first] = [chat |-> chat, reply |-> r]]
  BY DEF SavedWith
<1> HIDE DEF place
<1>4. first \in place
  <2>1. place \in SUBSET Nat
    BY <1>1, <1>2
  <2> QED
    BY <1>2, <2>1, LeastExists
<1> QED
  BY <1>2, <1>3, <1>4

\* ... to the saved ones.
LEMMA SaveMoves ==
  ASSUME WsTypeOK, ReplyInv, NEW r \in Nat, NEW chat \in ChatOrNone, GivesAway(r),
         saved' = SavedWith(chat, r), UNCHANGED got
  PROVE  ReplyInv' /\ saved' \in [Slots -> [chat : ChatOrNone, reply : Nat]]
<1>1. PICK i \in Slots : saved' = [saved EXCEPT ![i] = [chat |-> chat, reply |-> r]]
  BY SavedInOne
<1>2. saved' \in [Slots -> [chat : ChatOrNone, reply : Nat]]
  BY <1>1 DEF WsTypeOK
<1>3. \A j \in Slots : saved'[j].reply = IF j = i THEN r ELSE saved[j].reply
  BY <1>1 DEF WsTypeOK
<1>4. \A x \in 1..MaxReplies : x # r => Less(x)
  BY <1>3 DEF Less, GivesAway, IsSaved
<1>5. ASSUME r \in 1..issued PROVE NowhereElse(r)'
  <2>1. NowhereElse(r)
    BY <1>5 DEF ReplyInv
  <2>2. got[r] = 0 /\ \A j \in Slots : ~IsSaved(r, j)
    <3>1. got[r] \in Nat
      BY <1>5, ClientsAssumption DEF WsTypeOK
    <3> QED
      BY <2>1, <3>1 DEF NowhereElse, GivesAway
  <2>3. got'[r] = 0 /\ \A j \in Slots : IsSaved(r, j)' => j = i
    BY <1>3, <2>2 DEF IsSaved
  <2> QED
    BY <1>5, <2>3 DEF NowhereElse, GivesAway
<1>6. ~(r \in 1..MaxReplies /\ r > issued)
  BY DEF ReplyInv, Nowhere, GivesAway
<1>7. issued' = issued
  BY DEF GivesAway
<1> QED
  BY <1>2, <1>4, <1>5, <1>6, <1>7, OneMoves

\* Steps of the server's thread with a reply in its hand.
LEMMA ServerServes ==
  ASSUME WsInv, server' \in ServerRecord, UNCHANGED <<clients, list, sockets, sender, issued>>,
         saved' \in [Slots -> [chat : ChatOrNone, reply : Nat]], got' \in [1..MaxReplies -> Nat],
         server.at \notin Steady, server'.at \in {"take", "hand", "cut", "done"},
         server'.at # "done" => server'.client # End, ReplyInv'
  PROVE  WsInv'
<1>1. Shrinks
  BY SameShrinks DEF WsInv
<1>2. WsTypeOK' /\ PointersOK'
  BY DEF WsInv, WsTypeOK, PointersOK
<1>3. TableInv'
  BY <1>1, TableShrinks DEF WsInv, Calm, Steady
<1>4. ChatInv'
  BY <1>1, ChatShrinks DEF WsInv, NoFrame
<1> QED
  BY <1>2, <1>3, <1>4 DEF WsInv

LEMMA TakeKeeps ==
  ASSUME WsInv, Take, UNCHANGED <<sender, issued>>
  PROVE  WsInv'
<1> DEFINE mine == {i \in Slots : saved[i].chat = server.chat}
<1>1. /\ server \in ServerRecord /\ server.at = "take" /\ server.client # End
      /\ UNCHANGED <<clients, list, sockets, sender, issued, got>>
      /\ saved \in [Slots -> [chat : ChatOrNone, reply : Nat]]
  BY DEF WsInv, WsTypeOK, PointersOK, Take
<1>2. CASE mine = {}
  <2>1. server' = [server EXCEPT !.at = "done"] /\ UNCHANGED saved
    BY <1>2 DEF Take
  <2>2. server' \in ServerRecord /\ server'.at = "done"
    BY <1>1, <2>1 DEF ServerRecord, ServerAt
  <2> QED
    BY <1>1, <2>1, <2>2, ServerLooks DEF Between, Steady
<1>3. CASE mine # {}
  <2>1. PICK k \in mine : server' = [server EXCEPT !.at = "hand", !.reply = saved[k].reply]
    BY <1>3 DEF Take
  <2>2. saved' = Taken(server.chat)
    BY <1>3 DEF Take
  <2>3. PICK r \in Nat : r = saved[k].reply /\ IsSaved(r, k)
    BY <1>1 DEF IsSaved
  <2>4. /\ saved' \in [Slots -> [chat : ChatOrNone, reply : Nat]]
        /\ \A i \in Slots : saved'[i].reply = IF i \in mine THEN 0 ELSE saved[i].reply
    BY <1>1, <2>2 DEF Taken, NoEntry, ChatOrNone
  <2>5. /\ server' \in ServerRecord /\ server'.at = "hand" /\ server'.reply = r
        /\ server'.client = server.client
    BY <1>1, <2>1, <2>3 DEF ServerRecord, ServerAt
  <2> HIDE DEF mine
  <2>6. ReplyInv'
    <3>1. ASSUME NEW x \in 1..MaxReplies, x # r PROVE Less(x)
      <4>1. x # 0
        OBVIOUS
      <4>2. \A i \in Slots : IsSaved(x, i)' => IsSaved(x, i)
        BY <2>4, <4>1 DEF IsSaved
      <4> QED
        BY <1>1, <2>5, <3>1, <4>2 DEF Less, IsHanded, IsSent
    <3>2. ASSUME r \in 1..issued PROVE NowhereElse(r)'
      <4>1. NowhereElse(r) /\ got[r] \in Nat /\ r # 0
        BY <3>2, ClientsAssumption DEF WsInv, ReplyInv, WsTypeOK
      <4>2. k \in Slots
        BY <2>1 DEF mine
      <4>3. /\ got[r] = 0 /\ \A i \in Slots : IsSaved(r, i) => i = k
            /\ \A t \in Senders : ~IsSent(r, t)
        BY <2>3, <4>1, <4>2 DEF NowhereElse
      <4>4. \A i \in Slots : ~IsSaved(r, i)'
        BY <2>1, <2>4, <4>1, <4>3 DEF IsSaved
      <4>5. got'[r] = 0 /\ \A t \in Senders : ~IsSent(r, t)'
        BY <1>1, <4>3 DEF IsSent
      <4> QED
        BY <4>4, <4>5 DEF NowhereElse
    <3>3. ~(r \in 1..MaxReplies /\ r > issued)
      BY <2>1, <2>3 DEF WsInv, ReplyInv, Nowhere, mine
    <3> QED
      BY <1>1, <3>1, <3>2, <3>3, OneMoves DEF WsInv
  <2> QED
    BY <1>1, <2>4, <2>5, <2>6, ServerServes DEF Steady, WsInv, WsTypeOK
<1> QED
  BY <1>2, <1>3

LEMMA HandKeeps ==
  ASSUME WsInv, Hand, UNCHANGED <<sender, issued>>
  PROVE  WsInv'
<1>1. /\ server \in ServerRecord /\ server.at = "hand" /\ server.client # End
      /\ server.reply \in Nat /\ server.chat \in ChatOrNone
      /\ UNCHANGED <<clients, list, sockets, sender, issued>>
  BY DEF WsInv, WsTypeOK, PointersOK, Hand, ServerRecord
<1>2. server' \in ServerRecord /\ server'.at \in {"cut", "done"} /\ server'.client = server.client
  <2>1. PICK at \in {"cut", "done"} : server' = [server EXCEPT !.at = at, !.reply = 0]
    BY DEF Hand
  <2> QED
    BY <1>1, <2>1 DEF ServerRecord, ServerAt
<1> PICK r \in Nat, chat \in ChatOrNone : r = server.reply /\ chat = server.chat
  BY <1>1
<1>3. GivesAway(r)
  <2>1. IsHanded(r) /\ \A x : ~IsHanded(x)'
    BY <1>1, <1>2 DEF IsHanded
  <2>2. \A x : \A t \in Senders : IsSent(x, t)' = IsSent(x, t)
    BY <1>1 DEF IsSent
  <2>3. r \in 1..issued => \A t \in Senders : ~IsSent(r, t)
    BY <2>1 DEF WsInv, ReplyInv, NowhereElse
  <2> QED
    BY <1>1, <2>1, <2>2, <2>3 DEF GivesAway
<1>4. CASE WrittenTo(r) /\ UNCHANGED saved
  BY <1>1, <1>2, <1>3, <1>4, WriteMoves, ServerServes DEF WsInv, WsTypeOK, Steady
<1>5. CASE saved' = SavedWith(chat, r) /\ UNCHANGED got
  BY <1>1, <1>2, <1>3, <1>5, SaveMoves, ServerServes DEF WsInv, WsTypeOK, Steady
<1> QED
  BY <1>4, <1>5 DEF Hand

\* The look-up by chat finds a client or none.
LEMMA ByChatFinds ==
  ASSUME WsTypeOK, NEW chat
  PROVE  ByChat(chat) \in ClientOrEnd
<1> DEFINE hits == {k \in DOMAIN list : clients[list[k]].chat = chat /\ chat # NoChat}
           first == CHOOSE k \in hits : \A j \in hits : k <= j
<1>1. ByChat(chat) = IF hits = {} THEN End ELSE list[first]
  BY DEF ByChat, Find
<1>2. hits \subseteq Nat /\ \A k \in DOMAIN list : list[k] \in Slots
  BY LenProperties, ElementOfSeq DEF WsTypeOK
<1>3. hits # {} => first \in hits
  BY <1>2, LeastExists
<1> QED
  BY <1>1, <1>2, <1>3 DEF ClientOrEnd

LEMMA DoneKeeps ==
  ASSUME WsInv, Done, UNCHANGED <<sender, issued>>
  PROVE  WsInv'
<1>1. /\ server \in ServerRecord /\ server.at = "done"
      /\ UNCHANGED <<clients, list, sockets, sender, issued, saved, got>>
  BY DEF WsInv, WsTypeOK, Done
<1>2. CASE server' = GoOn
  BY <1>1, <1>2, DoneQuietKeeps DEF Steady
<1>3. CASE server' # GoOn
  <2>1. PICK chat \in ChatOrNone :
          /\ ByChat(chat) # End
          /\ server' = [server EXCEPT !.at = "take", !.sync = FALSE,
                                      !.client = ByChat(chat), !.chat = chat]
    <3> DEFINE chat == IF server.chat # NoChat \/ server.client = End THEN server.chat
                       ELSE clients[server.client].chat
    <3>1. chat \in ChatOrNone
      BY <1>1 DEF WsInv, WsTypeOK, ServerRecord, ClientRecord, ClientOrEnd
    <3>2. /\ ByChat(chat) # End
          /\ server' = [server EXCEPT !.at = "take", !.sync = FALSE,
                                      !.client = ByChat(chat), !.chat = chat]
      BY <1>3 DEF Done
    <3> QED
      BY <3>1, <3>2
  <2>2. ByChat(chat) \in ClientOrEnd
    BY ByChatFinds DEF WsInv
  <2>3. server' \in ServerRecord /\ server'.at = "take" /\ server'.client # End
    BY <1>1, <2>1, <2>2 DEF ServerRecord, ServerAt
  <2>4. ReplyInv'
    BY <1>1, <2>3, RepliesStay DEF WsInv
  <2> QED
    BY <1>1, <2>3, <2>4, ServerServes DEF WsInv, WsTypeOK, Steady
<1> QED
  BY <1>2, <1>3

-----------------------------------------------------------------------------
(* The other threads. *)

LEMMA OthersMove ==
  ASSUME WsInv, UNCHANGED server, Shrinks,
         clients' \in [Slots -> ClientRecord], list' \in Seq(Slots),
         sockets' \in [Fds -> {"shut", "open", "gone"}],
         sender' \in [Senders -> SenderRecord],
         saved' \in [Slots -> [chat : ChatOrNone, reply : Nat]], got' \in [1..MaxReplies -> Nat],
         issued' \in 0..MaxReplies,
         \A t \in Senders : sender'[t].at \in {"write", "fail"} => sender'[t].client # End,
         ReplyInv'
  PROVE  WsInv'
<1>1. WsTypeOK' /\ PointersOK'
  BY DEF WsInv, WsTypeOK, PointersOK
<1>2. TableInv'
  BY TableShrinks DEF WsInv, Calm
<1>3. ChatInv'
  BY ChatShrinks DEF WsInv, NoFrame
<1> QED
  BY <1>1, <1>2, <1>3 DEF WsInv

\* ... when they leave the table alone.
LEMMA OthersLook ==
  ASSUME WsInv, UNCHANGED <<server, clients, list, sockets>>,
         sender' \in [Senders -> SenderRecord],
         saved' \in [Slots -> [chat : ChatOrNone, reply : Nat]], got' \in [1..MaxReplies -> Nat],
         issued' \in 0..MaxReplies,
         \A t \in Senders : sender'[t].at \in {"write", "fail"} => sender'[t].client # End,
         ReplyInv'
  PROVE  WsInv'
<1>1. Shrinks
  BY SameShrinks DEF WsInv
<1> QED
  BY <1>1, OthersMove DEF WsInv, WsTypeOK

\* One sender goes on with its reply or has none any more.
LEMMA SenderMoves ==
  ASSUME WsInv, NEW t \in Senders, NEW new \in SenderRecord, sender' = [sender EXCEPT ![t] = new],
         sender[t].at # "idle", new.at = "idle" \/ new.reply = sender[t].reply,
         new.at = "fail" => new.client # End, new.at # "write"
  PROVE  /\ sender' \in [Senders -> SenderRecord]
         /\ \A u \in Senders : sender'[u].at \in {"write", "fail"} => sender'[u].client # End
         /\ \A x : \A u \in Senders : IsSent(x, u)' => IsSent(x, u)
<1>1. sender \in [Senders -> SenderRecord]
  BY DEF WsInv, WsTypeOK
<1>2. \A u \in Senders : sender'[u] = IF u = t THEN new ELSE sender[u]
  BY <1>1
<1> QED
  BY <1>1, <1>2 DEF WsInv, PointersOK, IsSent

\* A sender gives its reply away.
LEMMA SenderGives ==
  ASSUME WsInv, NEW t \in Senders, sender' = [sender EXCEPT ![t] = Quiet],
         sender[t].at # "idle", NEW r, r = sender[t].reply, UNCHANGED <<server, issued>>
  PROVE  GivesAway(r)
<1>1. \A u \in Senders : sender'[u] = IF u = t THEN Quiet ELSE sender[u]
  BY DEF WsInv, WsTypeOK
<1>2. \A x : \A u \in Senders : IsSent(x, u)' => IsSent(x, u) /\ u # t
  BY <1>1 DEF IsSent, Quiet
<1>3. IsSent(r, t) /\ \A x : IsHanded(x)' = IsHanded(x)
  BY DEF IsSent, IsHanded
<1>4. r \in 1..issued => ~IsHanded(r) /\ \A u \in Senders : IsSent(r, u) => t = u
  BY <1>3 DEF WsInv, ReplyInv, NowhereElse
<1> QED
  BY <1>2, <1>3, <1>4 DEF GivesAway

LEMMA SpeakKeeps ==
  ASSUME WsInv, NEW t \in Senders, Speak(t), UNCHANGED server
  PROVE  WsInv'
<1>0. PICK r : r = issued + 1
  OBVIOUS
<1>1. /\ issued \in Nat /\ issued' = r /\ r \in Nat /\ r <= MaxReplies /\ MaxReplies \in Nat
      /\ sender[t].at = "idle" /\ UNCHANGED <<clients, list, sockets, saved, got>>
      /\ sender \in [Senders -> SenderRecord]
  BY <1>0, ClientsAssumption DEF WsInv, WsTypeOK, Speak
<1>2. PICK chat \in Chats :
        sender' = [sender EXCEPT ![t] =
               IF ByChat(chat) = End /\ t # Outbound THEN Quiet
               ELSE [at |-> IF ByChat(chat) = End THEN "save" ELSE "write",
                     chat |-> chat, reply |-> r, client |-> ByChat(chat)]]
  BY <1>0 DEF Speak
<1> DEFINE new == IF ByChat(chat) = End /\ t # Outbound THEN Quiet
                  ELSE [at |-> IF ByChat(chat) = End THEN "save" ELSE "write",
                        chat |-> chat, reply |-> r, client |-> ByChat(chat)]
<1>3. /\ new \in SenderRecord /\ (new.at = "idle" \/ new.reply = r)
      /\ new.at \in {"write", "fail"} => new.client # End
  <2>1. ByChat(chat) \in ClientOrEnd
    BY ByChatFinds DEF WsInv
  <2> QED
    BY <1>1, <2>1 DEF Quiet, SenderRecord, ChatOrNone, ClientOrEnd
<1>4. sender' = [sender EXCEPT ![t] = new]
  BY <1>2
<1> HIDE DEF new
<1>5. \A u \in Senders : sender'[u] = IF u = t THEN new ELSE sender[u]
  BY <1>1, <1>4
<1>6. /\ sender' \in [Senders -> SenderRecord]
      /\ \A u \in Senders : sender'[u].at \in {"write", "fail"} => sender'[u].client # End
  BY <1>1, <1>3, <1>4, <1>5 DEF WsInv, PointersOK
<1>7. \A x : x # r => Less(x)
  BY <1>1, <1>3, <1>5 DEF Less, IsHanded, IsSaved, IsSent
<1>8. Nowhere(r)
  BY <1>0, <1>1 DEF WsInv, ReplyInv
<1>9. NowhereElse(r)'
  <2>1. got'[r] = 0 /\ ~IsHanded(r)' /\ \A i \in Slots : ~IsSaved(r, i)'
    BY <1>1, <1>8 DEF Nowhere, IsHanded, IsSaved
  <2>2. \A u \in Senders : IsSent(r, u)' => u = t
    BY <1>5, <1>8 DEF Nowhere, IsSent
  <2> QED
    BY <2>1, <2>2 DEF NowhereElse
<1>10. ReplyInv'
  <2>1. ASSUME NEW x \in 1..issued' PROVE NowhereElse(x)'
    <3>1. x = r \/ (x # r /\ x \in 1..issued)
      BY <1>0, <1>1
    <3> QED
      BY <1>7, <1>9, <3>1, LessKeeps DEF WsInv, ReplyInv
  <2>2. ASSUME NEW x \in 1..MaxReplies, x > issued' PROVE Nowhere(x)'
    <3>1. x # r /\ x > issued
      BY <1>0, <1>1, <2>2
    <3> QED
      BY <1>7, <3>1, LessKeeps DEF WsInv, ReplyInv
  <2> QED
    BY <2>1, <2>2 DEF ReplyInv
<1>11. issued' \in 0..MaxReplies
  <2>1. r \in 0..MaxReplies
    BY <1>0, <1>1
  <2> QED
    BY <1>1, <2>1
<1> QED
  BY <1>1, <1>6, <1>10, <1>11, OthersLook DEF WsInv, WsTypeOK

LEMMA WriteReplyKeeps ==
  ASSUME WsInv, NEW t \in Senders, WriteReply(t), UNCHANGED server
  PROVE  WsInv'
<1>1. /\ sender[t].at = "write" /\ UNCHANGED <<server, clients, list, sockets, saved, issued>>
      /\ sender[t] \in SenderRecord /\ sender[t].client # End
  BY DEF WsInv, WsTypeOK, PointersOK, WriteReply
<1> PICK r \in Nat : r = sender[t].reply
  BY <1>1 DEF SenderRecord
<1>2. Quiet \in SenderRecord /\ Quiet.at = "idle"
  BY DEF Quiet, SenderRecord, ChatOrNone, ClientOrEnd
<1>3. CASE WrittenTo(r) /\ sender' = [sender EXCEPT ![t] = Quiet]
  <2>1. GivesAway(r)
    BY <1>1, <1>3, SenderGives
  <2>2. ReplyInv' /\ got' \in [1..MaxReplies -> Nat]
    BY <1>1, <1>3, <2>1, WriteMoves DEF WsInv
  <2>3. /\ sender' \in [Senders -> SenderRecord]
        /\ \A u \in Senders : sender'[u].at \in {"write", "fail"} => sender'[u].client # End
    BY <1>1, <1>2, <1>3, SenderMoves
  <2> QED
    BY <1>1, <2>2, <2>3, OthersLook DEF WsInv, WsTypeOK
<1>4. CASE sender' = [sender EXCEPT ![t].at = "fail"] /\ UNCHANGED got
  <2>1. PICK new \in SenderRecord :
          /\ sender' = [sender EXCEPT ![t] = new] /\ new.at = "fail"
          /\ new.reply = sender[t].reply /\ new.client = sender[t].client
    <3>1. [sender[t] EXCEPT !.at = "fail"] \in SenderRecord
      BY <1>1 DEF SenderRecord
    <3>2. sender' = [sender EXCEPT ![t] = [sender[t] EXCEPT !.at = "fail"]]
      BY <1>4
    <3> QED
      BY <1>1, <3>1, <3>2 DEF SenderRecord
  <2>2. /\ sender' \in [Senders -> SenderRecord]
        /\ \A u \in Senders : sender'[u].at \in {"write", "fail"} => sender'[u].client # End
        /\ \A x : \A u \in Senders : IsSent(x, u)' => IsSent(x, u)
    BY <1>1, <2>1, SenderMoves
  <2>3. ReplyInv'
    <3>1. \A x : Less(x)
      BY <1>1, <1>4, <2>2 DEF Less, IsHanded, IsSaved
    <3> QED
      BY <1>1, <3>1, LessKeeps DEF WsInv, ReplyInv
  <2> QED
    BY <1>1, <1>4, <2>2, <2>3, OthersLook DEF WsInv, WsTypeOK
<1> QED
  BY <1>3, <1>4 DEF WriteReply

LEMMA DropClientKeeps ==
  ASSUME WsInv, NEW t \in Senders, DropClient(t), UNCHANGED server
  PROVE  WsInv'
<1>1. /\ sender[t].at = "fail" /\ RemoveFd(clients[sender[t].client].fd)
      /\ UNCHANGED <<server, saved, got, issued>> /\ sender[t] \in SenderRecord
      /\ sender' = [sender EXCEPT ![t] = IF t = Outbound THEN [@ EXCEPT !.at = "save"] ELSE Quiet]
  BY DEF WsInv, WsTypeOK, DropClient
<1>2. /\ Shrinks /\ sockets' \in [Fds -> {"shut", "open", "gone"}]
      /\ clients' \in [Slots -> ClientRecord] /\ list' \in Seq(Slots)
  BY <1>1, RemoveEffect DEF WsInv
<1>3. PICK new \in SenderRecord :
        /\ sender' = [sender EXCEPT ![t] = new] /\ new.at \in {"save", "idle"}
        /\ new.at = "save" => new.reply = sender[t].reply
  <2>1. [sender[t] EXCEPT !.at = "save"] \in SenderRecord /\ Quiet \in SenderRecord
    BY <1>1 DEF SenderRecord, Quiet, ChatOrNone, ClientOrEnd
  <2>2. \/ sender' = [sender EXCEPT ![t] = [sender[t] EXCEPT !.at = "save"]]
        \/ sender' = [sender EXCEPT ![t] = Quiet]
    BY <1>1
  <2> QED
    BY <1>1, <2>1, <2>2 DEF SenderRecord, Quiet
<1>4. /\ sender' \in [Senders -> SenderRecord]
      /\ \A u \in Senders : sender'[u].at \in {"write", "fail"} => sender'[u].client # End
      /\ \A x : \A u \in Senders : IsSent(x, u)' => IsSent(x, u)
  BY <1>1, <1>3, SenderMoves
<1>5. ReplyInv'
  <2>1. \A x : Less(x)
    BY <1>1, <1>4 DEF Less, IsHanded, IsSaved
  <2> QED
    BY <1>1, <2>1, LessKeeps DEF WsInv, ReplyInv
<1> QED
  BY <1>1, <1>2, <1>4, <1>5, OthersMove DEF WsInv, WsTypeOK

LEMMA SaveReplyKeeps ==
  ASSUME WsInv, NEW t \in Senders, SaveReply(t), UNCHANGED server
  PROVE  WsInv'
<1>1. /\ sender[t].at = "save" /\ UNCHANGED <<server, clients, list, sockets, got, issued>>
      /\ sender[t] \in SenderRecord /\ sender' = [sender EXCEPT ![t] = Quiet]
  BY DEF WsInv, WsTypeOK, SaveReply
<1> PICK r \in Nat, chat \in ChatOrNone : r = sender[t].reply /\ chat = sender[t].chat
  BY <1>1 DEF SenderRecord
<1>2. Quiet \in SenderRecord /\ Quiet.at = "idle"
  BY DEF Quiet, SenderRecord, ChatOrNone, ClientOrEnd
<1>3. GivesAway(r)
  BY <1>1, SenderGives
<1>4. ReplyInv' /\ saved' \in [Slots -> [chat : ChatOrNone, reply : Nat]]
  <2>1. saved' = SavedWith(chat, r)
    BY DEF SaveReply
  <2> QED
    BY <1>1, <1>3, <2>1, SaveMoves DEF WsInv
<1>5. /\ sender' \in [Senders -> SenderRecord]
      /\ \A u \in Senders : sender'[u].at \in {"write", "fail"} => sender'[u].client # End
  BY <1>1, <1>2, SenderMoves
<1> QED
  BY <1>1, <1>4, <1>5, OthersLook DEF WsInv, WsTypeOK

LEMMA HangUpKeeps ==
  ASSUME WsInv, NEW fd \in Fds, HangUp(fd)
  PROVE  WsInv'
<1>1. /\ sockets[fd] = "open" /\ sockets' = [sockets EXCEPT ![fd] = "gone"]
      /\ UNCHANGED <<clients, list, server, sender, saved, issued, got>>
      /\ sockets \in [Fds -> {"shut", "open", "gone"}]
  BY DEF WsInv, WsTypeOK, HangUp
<1>2. \A f \in Fds : sockets'[f] # "shut" <=> sockets[f] # "shut"
  BY <1>1
<1>3. Active' = Active
  BY <1>1 DEF Active
<1>4. Shrinks
  BY <1>1, <1>2, <1>3 DEF Shrinks, WsInv, TableInv, ListOK
<1>5. sockets' \in [Fds -> {"shut", "open", "gone"}]
  BY <1>1
<1>6. ReplyInv'
  BY <1>1, RepliesStay DEF WsInv
<1> QED
  BY <1>1, <1>4, <1>5, <1>6, OthersMove DEF WsInv, WsTypeOK, PointersOK

-----------------------------------------------------------------------------
(* The invariant, of every behaviour. *)

LEMMA InitWsInv == WsInit => WsInv
<1> SUFFICES ASSUME WsInit PROVE WsInv
  OBVIOUS
<1>1. WsTypeOK
  <2>1. FreeClient \in ClientRecord /\ AtLoop \in ServerRecord /\ Quiet \in SenderRecord
        /\ NoEntry \in [chat : ChatOrNone, reply : Nat]
    BY DEF FreeClient, AtLoop, Quiet, NoEntry, ClientRecord, ServerRecord, SenderRecord,
           ServerAt, FdOrNone, ChatOrNone, ClientOrEnd
  <2> QED
    BY <2>1, ClientsAssumption DEF WsInit, WsTypeOK
<1>2. PointersOK
  BY DEF WsInit, PointersOK, AtLoop, Quiet
<1>3. Active = {} /\ Held = {}
  BY DEF WsInit, Active, Held, FreeClient, AtLoop
<1>4. TableInv
  <2>1. IsInjective(list) /\ ToSet(list) = {}
    BY DEF WsInit, IsInjective, ToSet
  <2> QED
    BY <1>3, <2>1
       DEF WsInit, TableInv, HeldOK, ListOK, SocketsOK, FdsDiffer, NoneForgotten, AtLoop
<1>5. ChatInv
  BY <1>3 DEF WsInit, ChatInv, AtLoop
<1>6. ReplyInv
  <2>1. \A r \in 1..MaxReplies : Nowhere(r)
    BY DEF WsInit, Nowhere, IsHanded, IsSaved, IsSent, AtLoop, Quiet, NoEntry
  <2> QED
    BY <2>1 DEF WsInit, ReplyInv
<1> QED
  BY <1>1, <1>2, <1>4, <1>5, <1>6 DEF WsInv

LEMMA NextWsInv == WsInv /\ [WsNext]_wsVars => WsInv'
<1> SUFFICES ASSUME WsInv, [WsNext]_wsVars PROVE WsInv'
  OBVIOUS
<1>1. CASE Server
  <2>1. UNCHANGED <<sender, issued>>
    BY <1>1 DEF Server
  <2>2. CASE WatchClients
    BY <2>1, <2>2, WatchClientsKeeps
  <2>3. CASE Select
    BY <2>1, <2>3, SelectKeeps
  <2>4. CASE Accept
    BY <2>1, <2>4, AcceptKeeps
  <2>5. CASE Add
    BY <2>1, <2>5, AddKeeps
  <2>6. CASE Evicted
    BY <2>1, <2>6, EvictedKeeps
  <2>7. CASE Walk
    BY <2>1, <2>7, WalkKeeps
  <2>8. CASE ReadFrame
    BY <2>1, <2>8, ReadFrameKeeps
  <2>9. CASE Drop
    BY <2>1, <2>9, DropKeeps
  <2>10. CASE Dropped
    BY <2>1, <2>10, DroppedKeeps
  <2>11. CASE Bind
    BY <2>1, <2>11, BindKeeps
  <2>12. CASE Take
    BY <2>1, <2>12, TakeKeeps
  <2>13. CASE Hand
    BY <2>1, <2>13, HandKeeps
  <2>14. CASE Cut
    BY <2>1, <2>14, CutKeeps
  <2>15. CASE Done
    BY <2>1, <2>15, DoneKeeps
  <2>16. CASE Keepalive
    BY <2>1, <2>16, KeepaliveKeeps
  <2>17. ASSUME NEW fd \in Fds, Ping(fd) \/ Expel(fd) PROVE WsInv'
    BY <2>1, <2>17, PingKeeps
  <2> QED
    BY <1>1, <2>2, <2>3, <2>4, <2>5, <2>6, <2>7, <2>8, <2>9, <2>10, <2>11, <2>12, <2>13, <2>14,
       <2>15, <2>16, <2>17 DEF Server
<1>2. ASSUME NEW t \in Senders, Sender(t) PROVE WsInv'
  BY <1>2, SpeakKeeps, WriteReplyKeeps, DropClientKeeps, SaveReplyKeeps DEF Sender
<1>3. ASSUME NEW fd \in Fds, HangUp(fd) PROVE WsInv'
  BY <1>3, HangUpKeeps
<1>4. CASE UNCHANGED wsVars
  <2>1. UNCHANGED <<sockets, clients, list, server, sender, saved, issued, got>>
    BY <1>4 DEF wsVars
  <2>2. Shrinks
    BY <2>1, SameShrinks DEF WsInv
  <2>3. ReplyInv'
    BY <2>1, RepliesStay DEF WsInv
  <2> QED
    BY <2>1, <2>2, <2>3, OthersMove DEF WsInv, WsTypeOK, PointersOK
<1> QED
  BY <1>1, <1>2, <1>3, <1>4 DEF WsNext

\* The table, the sockets, the bindings and the replies fit each other at every
\* step of the server's thread, of the senders and of the other ends.
THEOREM WsInvariant == WsSpec => []WsInv
BY InitWsInv, NextWsInv, PTL DEF WsSpec

\* However many threads add and remove clients by number while others hold
\* pointers to them: the list has each client in use once, each with an open
\* socket of its own, and no open socket is forgotten.
THEOREM TheTableMatchesSockets == WsSpec => []TableMatchesSockets
<1>1. WsInv => TableMatchesSockets
  <2> SUFFICES ASSUME WsInv PROVE TableMatchesSockets
    OBVIOUS
  <2>1. ToSet(list) = Active /\ IsInjective(list)
    BY DEF WsInv, TableInv, ListOK
  <2>2. Held \subseteq InHand
    BY DEF Held, InHand
  <2>3. \A f \in Fds : sockets[f] # "shut" => f \in FdsOf(Active) \/ f \in InHand
    BY <2>2 DEF WsInv, TableInv, NoneForgotten, FdsOf
  <2> QED
    BY <2>1, <2>3 DEF WsInv, TableInv, SocketsOK, FdsDiffer, TableMatchesSockets, Active
<1> QED
  BY <1>1, WsInvariant, PTL

\* Whatever chats clients name, and whoever leaves meanwhile, no two clients are
\* bound to one chat.
THEOREM NoTwoClientsOfAChat == WsSpec => []OneClientPerChat
<1>1. WsInv => OneClientPerChat
  BY DEF WsInv, TableInv, ListOK, ChatInv, OneClientPerChat
<1> QED
  BY <1>1, WsInvariant, PTL

\* A set with at most one element.
LEMMA AtMostOne ==
  ASSUME NEW S, \A x, y \in S : x = y
  PROVE  IF S = {} THEN Cardinality(S) = 0 ELSE Cardinality(S) = 1
<1>1. CASE S = {}
  BY <1>1, FS_EmptySet
<1>2. CASE S # {}
  <2>1. PICK x \in S : S = {x}
    BY <1>2
  <2> QED
    BY <1>2, <2>1, FS_Singleton
<1> QED
  BY <1>1, <1>2

\* A reply is sent, saved, on its way to a client that came back or written, one
\* of these at a time, and written once at most.
THEOREM RepliesInOnePlace == WsSpec => []ReplyInOnePlace
<1>1. WsInv => ReplyInOnePlace
  <2> SUFFICES ASSUME WsInv, NEW r \in 1..issued
               PROVE  got[r] + Cardinality({i \in Slots : saved[i].reply = r})
                        + Cardinality({t \in Senders : sender[t].reply = r /\ sender[t].at # "idle"})
                        + (IF server.at = "hand" /\ server.reply = r THEN 1 ELSE 0) <= 1
    BY DEF ReplyInOnePlace
  <2> DEFINE S == {i \in Slots : IsSaved(r, i)}
             T == {t \in Senders : IsSent(r, t)}
  <2>1. NowhereElse(r) /\ got[r] \in Nat
    BY ClientsAssumption DEF WsInv, ReplyInv, WsTypeOK
  <2>2. /\ \A i, j \in S : i = j
        /\ \A t, u \in T : t = u
        /\ S # {} => T = {} /\ ~IsHanded(r) /\ got[r] = 0
        /\ T # {} => ~IsHanded(r) /\ got[r] = 0
        /\ IsHanded(r) => got[r] = 0
        /\ got[r] <= 1
    BY <2>1 DEF NowhereElse
  <2>3. /\ IF S = {} THEN Cardinality(S) = 0 ELSE Cardinality(S) = 1
        /\ IF T = {} THEN Cardinality(T) = 0 ELSE Cardinality(T) = 1
    BY <2>2, AtMostOne
  <2>4. /\ S = {i \in Slots : saved[i].reply = r}
        /\ T = {t \in Senders : sender[t].reply = r /\ sender[t].at # "idle"}
    BY DEF IsSaved, IsSent
  <2> HIDE DEF S, T
  <2>5. got[r] + Cardinality(S) + Cardinality(T) + (IF IsHanded(r) THEN 1 ELSE 0) <= 1
    BY <2>1, <2>2, <2>3
  <2> QED
    BY <2>4, <2>5 DEF IsHanded
<1> QED
  BY <1>1, WsInvariant, PTL

=============================================================================
