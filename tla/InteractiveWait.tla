---------------------------- MODULE InteractiveWait ----------------------------
(***************************************************************************)
(* How a tool asks the user something and waits for the answer             *)
(* (kernel/interactive.c).                                                 *)
(*                                                                         *)
(* A turn of the agent loop asks the questions of an interview or a        *)
(* password; a delegate worker, on a thread of its own, asks a password in *)
(* the chat its task came from.  The answer comes back on the inbound      *)
(* queue like any message, so whoever waits takes messages off that queue, *)
(* puts aside what is not its answer and gives it back when it is done,    *)
(* next to the loop, which takes them to run turns, and to the clients,    *)
(* which add to them.  The request the task store shows of a worker        *)
(* (DelegateStore) plays no part in the wait and is left out.              *)
(***************************************************************************)
EXTENDS Integers, Sequences, FiniteSets, SequencesExt

CONSTANTS
  Loop,         \* the agent loop's thread
  Worker,       \* the delegate workers; a worker also names its session
  Chat,         \* the chats of the clients
  ParentOf,     \* the chat each worker's task came from
  Second,       \* the instants a request id is made from
  InboundLen,   \* BUS_QUEUE_LEN
  DeferMax,     \* how many messages a wait puts aside, 16
  MaxSaid,      \* bounds of the model: messages of the users and requests
  MaxRequests

ASSUME WaitAssumption ==
  /\ Loop \notin Worker /\ Worker \cap Chat = {}
  /\ ParentOf \in [Worker -> Chat]
  /\ InboundLen \in Nat \ {0} /\ DeferMax \in Nat /\ MaxSaid \in Nat /\ MaxRequests \in Nat

VARIABLES
  inbound,    \* the inbound queue
  loop,       \* the message the agent loop runs a turn for, <<>> for none
  wait,       \* the wait of each thread, and its local variables
  requests,   \* what was asked, in order
  fate        \* what became of each message

waitVars == <<inbound, loop, wait, requests, fate>>

Asker == {Loop} \cup Worker
Type == {"question", "sudo"}
Message == [kind : {"user"}, chat : Chat, n : 1 .. MaxSaid]
             \cup [kind : {"reply"}, chat : Chat \cup Worker, n : 1 .. MaxRequests]
Id(m) == <<m.kind, m.n>>
Ids == {"user"} \X (1 .. MaxSaid) \cup {"reply"} \X (1 .. MaxRequests)
Fate == {"none", "sent", "lost", "handled", "ignored", "taken"}

\* shown: the chat the prompt appeared in.  got, the model's own: the request
\* the answer that ended the wait was given to, 0 for none.
Request == [asker : Asker, shown : Chat, type : Type, second : Second, got : 0 .. MaxRequests]

\* aside is the array deferred; hand, a message it has no room for.
NoWait == [at |-> "idle", request |-> 0, aside |-> <<>>, hand |-> <<>>]

-----------------------------------------------------------------------------
(* The queue and the clients. *)

\* message_bus_push_inbound: a queue that stays full drops the message.
Push(m) ==
  IF Len(inbound) < InboundLen
  THEN inbound' = Append(inbound, m) /\ fate' = [fate EXCEPT ![Id(m)] = "sent"]
  ELSE UNCHANGED inbound /\ fate' = [fate EXCEPT ![Id(m)] = "lost"]

Say(chat) ==
  /\ \E n \in 1 .. MaxSaid :
       /\ fate[<<"user", n>>] = "none" /\ \A k \in 1 .. n - 1 : fate[<<"user", k>>] # "none"
       /\ Push([kind |-> "user", chat |-> chat, n |-> n])
  /\ UNCHANGED <<loop, wait, requests>>

\* ws_handle_interactive_reply: the client names the session of the prompt or
\* only its chat, and may take as long as it likes.
Answer(r) ==
  /\ fate[<<"reply", r>>] = "none"
  /\ \E chat \in {requests[r].shown} \cup ({requests[r].asker} \cap Worker) :
       Push([kind |-> "reply", chat |-> chat, n |-> r])
  /\ UNCHANGED <<loop, wait, requests>>

-----------------------------------------------------------------------------
(* The agent loop. *)

\* agent_loop_task: an answer nobody took comes as an internal message and is
\* dropped, any other gets a turn.
LoopTakes ==
  /\ loop = <<>> /\ inbound # <<>>
  /\ LET m == Head(inbound) IN
       IF m.kind = "reply"
       THEN fate' = [fate EXCEPT ![Id(m)] = "ignored"] /\ UNCHANGED loop
       ELSE fate' = [fate EXCEPT ![Id(m)] = "handled"] /\ loop' = <<m>>
  /\ inbound' = Tail(inbound)
  /\ UNCHANGED <<wait, requests>>

TurnEnds ==
  /\ loop # <<>> /\ wait[Loop].at = "idle"
  /\ loop' = <<>>
  /\ UNCHANGED <<inbound, wait, requests, fate>>

-----------------------------------------------------------------------------
(* Asking and waiting. *)

\* A request id is the type, the second and the process: two requests of the
\* same type in the same second have the same one.
Ask(a, chat, type) ==
  /\ wait[a].at = "idle" /\ Len(requests) < MaxRequests
  /\ \E s \in Second :
       requests' = Append(requests, [asker |-> a, shown |-> chat, type |-> type,
                                     second |-> s, got |-> 0])
  /\ wait' = [wait EXCEPT ![a] = [NoWait EXCEPT !.at = "waiting", !.request = Len(requests) + 1]]
  /\ UNCHANGED <<inbound, loop, fate>>

\* agent_turn_try_interview, and channel_runtime_wait_sudo_password for a tool
\* of the loop's own turn
LoopAsks == \E type \in Type : loop # <<>> /\ Ask(Loop, loop[1].chat, type)

\* channel_runtime_wait_sudo_password for a tool of a delegate's session: the
\* prompt goes to the chat of the task's parent.
WorkerAsks(w) == Ask(w, ParentOf[w], "sudo")

Key(r) == <<requests[r].type, requests[r].second>>

\* The chats a wait takes its answer from: the asker's own, and the parent's
\* of a delegate.
Accepts(a) == {requests[wait[a].request].shown} \cup ({a} \cap Worker)

\* Faulty: whoever answered, wherever.
Matches_AnyChat(a, m) == m.kind = "reply" /\ Key(m.n) = Key(wait[a].request)

\* parse_interactive_reply, and the test before it
Matches(a, m) ==
  m.kind = "reply" /\ m.chat \in Accepts(a) /\ Key(m.n) = Key(wait[a].request)

HasRoom(a) == Len(wait[a].aside) < DeferMax

\* One round of the loop of channel_runtime_wait_interactive_reply.
Pop(a) ==
  /\ wait[a].at = "waiting" /\ inbound # <<>>
  /\ inbound' = Tail(inbound)
  /\ LET m == Head(inbound) IN
       \/ /\ Matches(a, m)
          /\ fate' = [fate EXCEPT ![Id(m)] = "taken"]
          /\ requests' = [requests EXCEPT ![wait[a].request].got = m.n]
          /\ wait' = [wait EXCEPT ![a].at = "flush"]
       \/ /\ ~Matches(a, m) /\ HasRoom(a)
          /\ wait' = [wait EXCEPT ![a].aside = Append(@, m)]
          /\ UNCHANGED <<requests, fate>>
       \/ /\ ~Matches(a, m) /\ ~HasRoom(a)
          /\ wait' = [wait EXCEPT ![a].at = "bounce", ![a].hand = <<m>>]
          /\ UNCHANGED <<requests, fate>>
  /\ UNCHANGED loop

\* Faulty: the message given back is put aside as well.
GiveBack_KeepsCopy(a) ==
  /\ wait[a].at = "bounce"
  /\ Push(wait[a].hand[1])
  /\ wait' = [wait EXCEPT ![a].at = "waiting", ![a].hand = <<>>,
                          ![a].aside = Append(@, wait[a].hand[1])]
  /\ UNCHANGED <<loop, requests>>

\* No room to put it aside: it goes back to the end of the queue.
GiveBack(a) ==
  /\ wait[a].at = "bounce"
  /\ Push(wait[a].hand[1])
  /\ wait' = [wait EXCEPT ![a].at = "waiting", ![a].hand = <<>>]
  /\ UNCHANGED <<loop, requests>>

\* Faulty: a wait that timed out keeps what it put aside.
Expire_KeepsAside(a) ==
  /\ wait[a].at = "waiting"
  /\ wait' = [wait EXCEPT ![a].at = "idle"]
  /\ UNCHANGED <<inbound, loop, requests, fate>>

\* 180 seconds have passed when the loop tests the time.
Expire(a) ==
  /\ wait[a].at = "waiting"
  /\ wait' = [wait EXCEPT ![a].at = "flush"]
  /\ UNCHANGED <<inbound, loop, requests, fate>>

\* What was put aside goes back, one message at a time, in order.
Flush(a) ==
  /\ wait[a].at = "flush" /\ wait[a].aside # <<>>
  /\ Push(Head(wait[a].aside))
  /\ wait' = [wait EXCEPT ![a].aside = Tail(@)]
  /\ UNCHANGED <<loop, requests>>

WaitEnds(a) ==
  /\ wait[a].at = "flush" /\ wait[a].aside = <<>>
  /\ wait' = [wait EXCEPT ![a] = NoWait]
  /\ UNCHANGED <<inbound, loop, requests, fate>>

-----------------------------------------------------------------------------

WaitInit ==
  /\ inbound = <<>> /\ loop = <<>> /\ requests = <<>>
  /\ wait = [a \in Asker |-> NoWait]
  /\ fate = [i \in Ids |-> "none"]

WaitSteps(a) == Pop(a) \/ GiveBack(a) \/ Expire(a) \/ Flush(a) \/ WaitEnds(a)

WaitNext ==
  \/ \E chat \in Chat : Say(chat)
  \/ \E r \in 1 .. Len(requests) : Answer(r)
  \/ LoopTakes \/ TurnEnds \/ LoopAsks
  \/ \E w \in Worker : WorkerAsks(w)
  \/ \E a \in Asker : WaitSteps(a)

WaitSpec == WaitInit /\ [][WaitNext]_waitVars

\* The threads run; the clock passes every deadline, and a wait tests it after
\* every message, though not in every state.
FairWaitSpec ==
  /\ WaitSpec
  /\ WF_waitVars(LoopTakes) /\ WF_waitVars(TurnEnds)
  /\ \A a \in Asker : /\ WF_waitVars(Pop(a) \/ GiveBack(a) \/ Flush(a) \/ WaitEnds(a))
                      /\ SF_waitVars(Expire(a))

-----------------------------------------------------------------------------
(* Properties. *)

\* Every variable has its type: a wait puts no more aside than its array
\* holds (interactive.c:194).
WaitTypeOK ==
  /\ inbound \in Seq(Message) /\ Len(inbound) <= InboundLen
  /\ loop = <<>> \/ (Len(loop) = 1 /\ loop[1] \in Message)
  /\ requests \in Seq(Request)
  /\ \A a \in Asker :
       /\ wait[a].at \in {"idle", "waiting", "bounce", "flush"}
       /\ wait[a].request \in 0 .. Len(requests)
       /\ wait[a].aside \in Seq(Message) /\ Len(wait[a].aside) <= DeferMax
       /\ wait[a].hand \in Seq(Message)
       /\ wait[a].at # "idle" => wait[a].request # 0
       /\ Len(wait[a].hand) = (IF wait[a].at = "bounce" THEN 1 ELSE 0)
  /\ fate \in [Ids -> Fate]

\* Where messages lie: in the queue, in a wait's array or in its hand.
Lines == {<<"inbound", Loop>>} \cup ({"aside", "hand"} \X Asker)
Line(l) ==
  CASE l[1] = "inbound" -> inbound
    [] l[1] = "aside" -> wait[l[2]].aside
    [] l[1] = "hand" -> wait[l[2]].hand
Places(i) == UNION {{<<l, k>> : k \in {n \in 1 .. Len(Line(l)) : Id(Line(l)[n]) = i}} : l \in Lines}

\* Every message on its way is in one place and once: in the queue, in a
\* wait's array or in its hand; what is settled is nowhere (interactive.c:171-204).
EveryMessageOnce ==
  \A i \in Ids :
    /\ fate[i] = "sent" => \E p \in Places(i) : Places(i) = {p}
    /\ fate[i] # "sent" => Places(i) = {}

\* What is typed in one chat never answers what was asked in another, nor a
\* question a password, even when the request ids are the same
\* (interactive.c:182-192).
AnswerStaysInChat ==
  \A r \in 1 .. Len(requests) :
    LET q == requests[r].got IN
      q # 0 => requests[q].shown = requests[r].shown /\ requests[q].type = requests[r].type

\* A message the queue took is handled, taken as an answer, ignored or, where
\* it is given back to a full queue, lost: no wait keeps it (interactive.c:202-204).
QueuedIsSettled ==
  \A i \in Ids : (fate[i] = "sent") ~> (fate[i] # "sent")

\* A wait lasts "until the time is up or the answer is received"
\* (interactive.h:31, :42): an answer that has come in is not thrown away under it.
AnswerReachesWaiter ==
  \A a \in Asker :
    wait[a].at \in {"waiting", "bounce"} => fate[<<"reply", wait[a].request>>] # "ignored"
==============================================================================
