------------------------------ MODULE WsClients ------------------------------
(***************************************************************************)
(* The websocket gateway: one thread accepts connections, reads frames,    *)
(* binds connections to chats and pings; other threads look a chat's       *)
(* client up and write to it. The table of clients has a lock, each client *)
(* one for writing, the saved replies one; what a thread found under a     *)
(* lock it uses after giving it back. A file descriptor is free for the    *)
(* next connection as soon as it is closed. Time is left out: a client may *)
(* be found silent for too long at any tick. So is a client that begins a  *)
(* request or a frame and does not finish it: the thread waits for it      *)
(* without a limit. A write that fails returns an error; it may also end   *)
(* the process by SIGPIPE, which nothing catches.                          *)
(***************************************************************************)
EXTENDS Integers, Sequences, FiniteSets, SequencesExt

CONSTANTS
    Chats,       \* ids of chats that clients name
    Fds,         \* numbers of sockets; a new one gets the lowest that is free
    MaxClients,  \* WS_MAX_CLIENTS, the number of saved replies too
    Senders,     \* threads that send: Outbound and the workers
    Outbound,    \* the thread whose replies are saved when they cannot be sent
    MaxReplies   \* bound: how many replies and events are sent

ASSUME ClientsAssumption ==
    /\ MaxClients \in Nat \ {0} /\ MaxReplies \in Nat
    /\ Outbound \in Senders
    /\ Fds \subseteq Nat /\ IsFiniteSet(Fds) /\ Cardinality(Fds) > MaxClients

NoChat == "none"      \* the name ws_<fd> a client has until it names its chat
NoFd == -1
End == 0              \* the head of the list, where a walk along it ends
AtHead == -1          \* a walk that starts
Slots == 1..MaxClients

VARIABLES
    sockets,     \* what each number stands for; gone, when the other end has closed
    clients,     \* s_clients
    list,        \* s_client_list
    server,      \* locals of the server's thread
    sender,      \* locals of the threads that send
    saved,       \* s_pending_entries
    issued,      \* the model's own: how many replies there were
    got          \* the model's own: how often each reply was written to a socket

wsVars == <<sockets, clients, list, server, sender, saved, issued, got>>

FreeClient == [active |-> FALSE, fd |-> NoFd, chat |-> NoChat, awaiting |-> FALSE]
NoEntry == [chat |-> NoChat, reply |-> 0]
AtLoop == [at |-> "loop", ready |-> {}, next |-> AtHead, fd |-> NoFd, old |-> NoFd,
           client |-> End, chat |-> NoChat, connects |-> FALSE, sync |-> FALSE,
           after |-> End, reply |-> 0, late |-> {}]
Quiet == [at |-> "idle", chat |-> NoChat, reply |-> 0, client |-> End]
\* A ping is answered and counts as a pong. A client names its chat or does not.
Frames == [type : {"close", "pong"}, chat : {NoChat}]
              \cup [type : {"message", "session_sync"}, chat : Chats \cup {NoChat}]

-----------------------------------------------------------------------------
(* The table                                                               *)

Gone(fd) == sockets[fd] = "gone"

\* The first client of the list for which a test holds, End if there is none.
Find(Test(_)) ==
    LET hits == {k \in DOMAIN list : Test(clients[list[k]])}
    IN  IF hits = {} THEN End ELSE list[CHOOSE k \in hits : \A j \in hits : k <= j]

ByFd(fd) == Find(LAMBDA c : c.fd = fd)
ByChat(chat) == Find(LAMBDA c : c.chat = chat /\ chat # NoChat)

Place(s) == CHOOSE k \in DOMAIN list : list[k] = s
After(s) == IF Place(s) = Len(list) THEN End ELSE list[Place(s) + 1]
Off(s) == list' = RemoveAt(list, Place(s))

FdsOf(slots) == {clients[s].fd : s \in slots}

CloseFd(fd) == sockets' = [sockets EXCEPT ![fd] = "shut"]

\* remove_client: does nothing when no client has the number any more.
RemoveFd(fd) ==
    LET s == ByFd(fd)
    IN  IF s = End THEN UNCHANGED <<clients, list, sockets>>
        ELSE /\ clients' = [clients EXCEPT ![s].active = FALSE, ![s].fd = NoFd]
             /\ Off(s) /\ CloseFd(fd)

\* Dropped as a duplicate or to make room; the socket is closed without the lock.
Detach(s) ==
    /\ clients' = [clients EXCEPT ![s].active = FALSE, ![s].fd = NoFd, ![s].chat = NoChat]
    /\ Off(s)

\* A reply takes the place of an older one of its chat, or else of the first entry.
SavedWith(chat, reply) ==
    LET with(test) == {i \in Slots : saved[i].chat = test}
        place == CASE with(chat) # {} -> with(chat)
                   [] with(chat) = {} /\ with(NoChat) # {} -> with(NoChat)
                   [] OTHER -> {1}
        i == CHOOSE i \in place : \A j \in place : i <= j
    IN  [saved EXCEPT ![i] = [chat |-> chat, reply |-> reply]]

Taken_Kept(chat) == saved
Taken(chat) == [i \in Slots |-> IF saved[i].chat = chat THEN NoEntry ELSE saved[i]]

\* Writing to a client: a socket whose other end is gone may still take the bytes.
Writable(s) == clients[s].fd # NoFd
Fails(s) == Writable(s) => Gone(clients[s].fd)
WrittenTo(reply) == got' = [got EXCEPT ![reply] = @ + 1]

\* The lock on the table is free unless the server's thread walks in a circle.
TableFree == server.at # "circle"

-----------------------------------------------------------------------------
(* The loop: waiting, accepting, the walk along the clients                *)

WatchClients ==
    /\ server.at = "loop"
    /\ server' = [AtLoop EXCEPT !.at = "select", !.ready = FdsOf(ToSet(list))]
    /\ UNCHANGED <<clients, list, sockets, saved, got>>

\* Any client may have said something, and the end of a connection can be read.
\* A number that was closed in the meantime is an error that ends the thread.
Select ==
    /\ server.at = "select"
    /\ IF \E f \in server.ready : sockets[f] = "shut"
       THEN server' = [server EXCEPT !.at = "ended", !.ready = {}]
       ELSE \E at \in {"accept", "walk"}, ready \in SUBSET server.ready :
              /\ {f \in server.ready : Gone(f)} \subseteq ready
              /\ server' = [server EXCEPT !.at = at, !.ready = ready]
    /\ UNCHANGED <<clients, list, sockets, saved, got>>

\* A client may name its chat as it connects.
Accept ==
    /\ server.at = "accept"
    /\ \E chat \in Chats \cup {NoChat} :
         LET fd == Min({f \in Fds : sockets[f] = "shut"})
         IN  /\ sockets' = [sockets EXCEPT ![fd] = "open"]
             /\ server' = [server EXCEPT !.at = "add", !.fd = fd, !.chat = chat]
    /\ UNCHANGED <<clients, list, saved, got>>

Filled(s) ==
    /\ clients' = [clients EXCEPT ![s] = [FreeClient EXCEPT !.active = TRUE, !.fd = server.fd]]
    /\ list' = <<s>> \o list
    /\ server' = [server EXCEPT !.old = NoFd, !.connects = server.chat # NoChat,
                                !.at = IF server.chat = NoChat THEN "walk" ELSE "drop"]

Add ==
    /\ server.at = "add"
    /\ \/ \E s \in Slots :
            /\ ~clients[s].active /\ \A t \in 1..(s - 1) : clients[t].active
            /\ Filled(s) /\ UNCHANGED sockets
       \/ /\ \A s \in Slots : clients[s].active
          /\ \/ \E s \in ToSet(list) :
                  /\ Detach(s) /\ UNCHANGED sockets
                  /\ server' = [server EXCEPT !.at = "evicted", !.client = s, !.old = clients[s].fd]
             \/ /\ CloseFd(server.fd) /\ UNCHANGED <<clients, list>>
                /\ server' = [server EXCEPT !.at = "walk"]
    /\ UNCHANGED <<saved, got>>

Evicted_Leaks ==
    /\ server.at = "evicted"
    /\ Filled(server.client) /\ UNCHANGED sockets
    /\ UNCHANGED <<saved, got>>

Evicted ==
    /\ server.at = "evicted"
    /\ CloseFd(server.old) /\ Filled(server.client)
    /\ UNCHANGED <<saved, got>>

\* On to the next client that has something to say. The one a walk was to go on
\* with may have left the list meanwhile: it is then its own successor, for ever.
Walk ==
    /\ server.at = "walk"
    /\ LET rest == {k \in DOMAIN list : \A j \in DOMAIN list : list[j] = server.next => j <= k}
           ready == {k \in rest : clients[list[k]].fd \in server.ready}
           k == CHOOSE k \in ready : \A j \in ready : k <= j
       IN  server' =
             IF server.next \notin ToSet(list) \cup {AtHead, End} THEN [AtLoop EXCEPT !.at = "circle"]
             ELSE IF server.next = End \/ ready = {} THEN [AtLoop EXCEPT !.at = "tick"]
             ELSE [server EXCEPT !.at = "read", !.fd = clients[list[k]].fd, !.next = After(list[k])]
    /\ UNCHANGED <<clients, list, sockets, saved, got>>

-----------------------------------------------------------------------------
(* Frames                                                                  *)

GoOn == [server EXCEPT !.at = "walk", !.fd = NoFd, !.client = End, !.chat = NoChat,
                         !.connects = FALSE, !.sync = FALSE, !.reply = 0]

\* The client is looked for without the lock; what a text frame names as its chat
\* becomes the client's.
ReadFrame ==
    /\ server.at = "read"
    /\ LET fd == server.fd
           client == ByFd(fd)
       IN  \/ /\ sockets[fd] = "shut"
              /\ server' = GoOn /\ UNCHANGED <<clients, list, sockets>>
           \/ /\ Gone(fd)
              /\ RemoveFd(fd) /\ server' = GoOn
           \/ \E frame \in Frames :
              /\ sockets[fd] # "shut"
              /\ CASE frame.type = "close" ->
                        RemoveFd(fd) /\ server' = GoOn
                   [] frame.type = "pong" ->
                        /\ clients' = IF client = End THEN clients
                                      ELSE [clients EXCEPT ![client].awaiting = FALSE]
                        /\ server' = GoOn /\ UNCHANGED <<list, sockets>>
                   [] OTHER ->
                        /\ server' = [server EXCEPT !.client = client, !.chat = frame.chat,
                                        !.sync = frame.type = "session_sync",
                                        !.at = IF frame.chat # NoChat THEN "drop" ELSE "done"]
                        /\ UNCHANGED <<clients, list, sockets>>
    /\ UNCHANGED <<saved, got>>

Drop_None ==
    /\ server.at = "drop"
    /\ server' = [server EXCEPT !.at = "bind"]
    /\ UNCHANGED <<clients, list, sockets, saved, got>>

\* drop_duplicate_chat_id: every other client of the chat goes.
Drop ==
    /\ server.at = "drop"
    /\ LET dup == Find(LAMBDA c : c.fd # server.fd /\ c.chat = server.chat)
       IN  IF dup = End
           THEN server' = [server EXCEPT !.at = "bind"] /\ UNCHANGED <<clients, list>>
           ELSE /\ Detach(dup)
                /\ server' = [server EXCEPT !.at = "dropped", !.old = clients[dup].fd, !.after = After(dup)]
    /\ UNCHANGED <<sockets, saved, got>>

\* The search goes on behind the dropped client, with the lock taken again.
Dropped ==
    /\ server.at = "dropped"
    /\ CloseFd(server.old)
    /\ server' = IF server.after \in ToSet(list) \cup {End}
                 THEN [server EXCEPT !.at = "drop", !.after = End, !.old = NoFd]
                 ELSE [AtLoop EXCEPT !.at = "circle"]
    /\ UNCHANGED <<clients, list, saved, got>>

Bind ==
    /\ server.at = "bind"
    /\ LET client == IF server.connects THEN ByFd(server.fd) ELSE server.client
       IN  IF client = End
           THEN server' = [server EXCEPT !.at = "done"] /\ UNCHANGED clients
           ELSE /\ clients' = [clients EXCEPT ![client].chat = server.chat]
                /\ server' = [server EXCEPT !.at = "take", !.client = client]
    /\ UNCHANGED <<list, sockets, saved, got>>

-----------------------------------------------------------------------------
(* Saved replies                                                           *)

Take ==
    /\ server.at = "take"
    /\ LET mine == {i \in Slots : saved[i].chat = server.chat}
       IN  IF mine = {}
           THEN server' = [server EXCEPT !.at = "done"] /\ UNCHANGED saved
           ELSE /\ saved' = Taken(server.chat)
                /\ server' = [server EXCEPT !.at = "hand", !.reply = saved[CHOOSE i \in mine : TRUE].reply]
    /\ UNCHANGED <<clients, list, sockets, got>>

Hand ==
    /\ server.at = "hand"
    /\ \/ /\ Writable(server.client)
          /\ WrittenTo(server.reply)
          /\ server' = [server EXCEPT !.at = "done", !.reply = 0]
          /\ UNCHANGED saved
       \/ /\ Fails(server.client)
          /\ saved' = SavedWith(server.chat, server.reply)
          /\ server' = [server EXCEPT !.at = "cut", !.reply = 0]
          /\ UNCHANGED got
    /\ UNCHANGED <<clients, list, sockets>>

Cut ==
    /\ server.at = "cut"
    /\ RemoveFd(clients[server.client].fd)
    /\ server' = [server EXCEPT !.at = "done"]
    /\ UNCHANGED <<saved, got>>

\* A client that synchronises is looked up once more and given what was saved.
Done ==
    /\ server.at = "done"
    /\ LET chat == IF server.chat # NoChat \/ server.client = End THEN server.chat
                   ELSE clients[server.client].chat
       IN  server' = IF server.sync /\ ByChat(chat) # End
                     THEN [server EXCEPT !.at = "take", !.sync = FALSE, !.client = ByChat(chat), !.chat = chat]
                     ELSE GoOn
    /\ UNCHANGED <<clients, list, sockets, saved, got>>

-----------------------------------------------------------------------------
(* Keepalive                                                               *)

Checked(ready, late) ==
    IF ready \cup late = {} THEN AtLoop
    ELSE [AtLoop EXCEPT !.at = "check", !.ready = ready, !.late = late]

\* Any client may be due for a ping, and one that owes a pong be too late with it.
\* Only this thread gives out numbers, so it can count on those it notes down.
Keepalive ==
    /\ server.at = "tick"
    /\ \E late \in SUBSET {s \in ToSet(list) : clients[s].awaiting} :
         \E pinged \in SUBSET (ToSet(list) \ late) :
           /\ clients' = [s \in Slots |->
                 IF s \in pinged THEN [clients[s] EXCEPT !.awaiting = TRUE] ELSE clients[s]]
           /\ server' = Checked(FdsOf(pinged), FdsOf(late))
    /\ UNCHANGED <<list, sockets, saved, got>>

\* First the pings are sent, then those that are too late go.
Ping(fd) ==
    /\ server.at = "check" /\ fd \in server.ready
    /\ \/ sockets[fd] # "shut" /\ UNCHANGED <<clients, list, sockets>>
       \/ sockets[fd] # "open" /\ RemoveFd(fd)
    /\ server' = Checked(server.ready \ {fd}, server.late)
    /\ UNCHANGED <<saved, got>>

Expel(fd) ==
    /\ server.at = "check" /\ server.ready = {} /\ fd \in server.late
    /\ RemoveFd(fd)
    /\ server' = Checked({}, server.late \ {fd})
    /\ UNCHANGED <<saved, got>>

Server ==
    /\ \/ WatchClients \/ Select \/ Accept \/ Add \/ Evicted \/ Walk \/ ReadFrame \/ Drop \/ Dropped \/ Bind
       \/ Take \/ Hand \/ Cut \/ Done \/ Keepalive
       \/ \E fd \in Fds : Ping(fd) \/ Expel(fd)
    /\ UNCHANGED <<sender, issued>>

-----------------------------------------------------------------------------
(* Threads that send                                                       *)

Speak(t) ==
    /\ sender[t].at = "idle" /\ TableFree /\ issued < MaxReplies
    /\ issued' = issued + 1
    /\ \E chat \in Chats :
         LET client == ByChat(chat)
         IN  sender' = [sender EXCEPT ![t] =
               IF client = End /\ t # Outbound THEN Quiet
               ELSE [at |-> IF client = End THEN "save" ELSE "write",
                     chat |-> chat, reply |-> issued + 1, client |-> client]]
    /\ UNCHANGED <<clients, list, sockets, saved, got>>

WriteReply(t) ==
    /\ sender[t].at = "write"
    /\ \/ /\ Writable(sender[t].client)
          /\ WrittenTo(sender[t].reply)
          /\ sender' = [sender EXCEPT ![t] = Quiet]
       \/ /\ Fails(sender[t].client)
          /\ sender' = [sender EXCEPT ![t].at = "fail"]
          /\ UNCHANGED got
    /\ UNCHANGED <<clients, list, sockets, saved, issued>>

\* What the client's number is now, is removed.
DropClient(t) ==
    /\ sender[t].at = "fail" /\ TableFree
    /\ RemoveFd(clients[sender[t].client].fd)
    /\ sender' = [sender EXCEPT ![t] = IF t = Outbound THEN [@ EXCEPT !.at = "save"] ELSE Quiet]
    /\ UNCHANGED <<saved, got, issued>>

SaveReply(t) ==
    /\ sender[t].at = "save"
    /\ saved' = SavedWith(sender[t].chat, sender[t].reply)
    /\ sender' = [sender EXCEPT ![t] = Quiet]
    /\ UNCHANGED <<clients, list, sockets, got, issued>>

Sender(t) == (Speak(t) \/ WriteReply(t) \/ DropClient(t) \/ SaveReply(t)) /\ UNCHANGED server

-----------------------------------------------------------------------------
(* The other ends                                                          *)

HangUp(fd) ==
    /\ sockets[fd] = "open"
    /\ sockets' = [sockets EXCEPT ![fd] = "gone"]
    /\ UNCHANGED <<clients, list, server, sender, saved, issued, got>>

WsInit ==
    /\ sockets = [f \in Fds |-> "shut"]
    /\ clients = [s \in Slots |-> FreeClient] /\ list = <<>>
    /\ server = AtLoop
    /\ sender = [t \in Senders |-> Quiet]
    /\ saved = [i \in Slots |-> NoEntry]
    /\ issued = 0 /\ got = [r \in 1..MaxReplies |-> 0]

WsNext ==
    \/ Server
    \/ \E t \in Senders : Sender(t)
    \/ \E fd \in Fds : HangUp(fd)

WsSpec == WsInit /\ [][WsNext]_wsVars

\* The server's thread goes on whenever it can.
FairWsSpec == WsSpec /\ WF_wsVars(Server)

-----------------------------------------------------------------------------
(* Properties                                                              *)

InHand == {server.fd, server.old}

\* Threads add and remove clients by number while others hold pointers to them:
\* the list has each client in use once, each with an open socket of its own, and
\* no open socket is forgotten, unless the server's thread has it in hand.
TableMatchesSockets ==
    /\ IsInjective(list) /\ ToSet(list) = {s \in Slots : clients[s].active}
    /\ \A s \in ToSet(list) : clients[s].fd \in Fds /\ sockets[clients[s].fd] # "shut"
    /\ \A s, t \in ToSet(list) : clients[s].fd = clients[t].fd => s = t
    /\ \A f \in Fds : sockets[f] # "shut" => f \in FdsOf(ToSet(list)) \/ f \in InHand

\* Whatever chats clients name, when they connect or later, and whoever leaves
\* meanwhile: once a frame is dealt with no two clients are bound to one chat.
OneClientPerChat ==
    \A s, t \in ToSet(list) :
        clients[s].chat = clients[t].chat /\ clients[s].chat # NoChat => s = t

\* A reply is in one place at most: with the thread that sends it, saved, on its
\* way to a client that came back, or written once.
ReplyInOnePlace ==
    \A r \in 1..issued :
        got[r] + Cardinality({i \in Slots : saved[i].reply = r})
               + Cardinality({t \in Senders : sender[t].reply = r /\ sender[t].at # "idle"})
               + (IF server.at = "hand" /\ server.reply = r THEN 1 ELSE 0) <= 1

\* "select() listens for new connections and clients' events at once ... every
\* second a keepalive check" (ws_server_host.c:254).
KeepaliveGoesOn == []<>(server.at = "tick")

=============================================================================
