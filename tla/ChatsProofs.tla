------------------------------ MODULE ChatsProofs ------------------------------
(***************************************************************************)
(* What a chat can rely on while it waits and while it is remembered.      *)
(*                                                                         *)
(* InteractiveWait, for every number of chats, workers, requests and       *)
(* messages, every length of the queue and of the arrays.  That no answer  *)
(* crosses chats rests on where answers come from: one that is on its way  *)
(* names the chat its request was shown in or the session that asked       *)
(* (Known), and a session asks in the chat of its parent only. That a      *)
(* message is in one place rests on taking and putting one (TakeOnce,      *)
(* PutOnce), of which every step is made (OnceInv).                        *)
(*                                                                         *)
(* SessionHistory implements ChatLog, for any chats, messages, slots,      *)
(* passes and deaths of the process, as long as no file grows past what is *)
(* read of it and no chat changes between the worker's last look and its   *)
(* writing; and a chat's seqs stay new (SeqInv).                           *)
(***************************************************************************)
EXTENDS InteractiveWait, SessionHistory, SequenceTheorems, TLAPS

-----------------------------------------------------------------------------
(*                        Requests and their answers.                      *)

-----------------------------------------------------------------------------
(* The invariant. *)

\* What Answer and Say put on the queue.
GivenTo(m) ==
  m.kind = "reply" =>
    /\ m.n \in 1 .. Len(requests)
    /\ m.chat \in {requests[m.n].shown} \cup ({requests[m.n].asker} \cap Worker)
Known == {m \in Message : GivenTo(m)}

AnswersOK == inbound \in Seq(Known) /\ Len(inbound) <= InboundLen

LoopOK == loop # <<>> => \E m \in Message : m.kind = "user" /\ loop = <<m>>

RequestsOK ==
  /\ requests \in Seq(Request) /\ Len(requests) <= MaxRequests
  /\ \A r \in 1 .. Len(requests) :
       /\ requests[r].asker \in Worker => requests[r].shown = ParentOf[requests[r].asker]
       /\ requests[r].got \in 0 .. Len(requests)

Waits == [at : {"idle", "waiting", "bounce", "flush"}, request : Nat,
          aside : Seq(Message), hand : Seq(Message)]

\* What the thread a keeps of its wait, of the requests asked and of the
\* messages known of.
GoodWait(a, w, asked, known) ==
  /\ w.request \in 0 .. Len(asked)
  /\ w.at # "idle" => w.request # 0 /\ asked[w.request].asker = a
  /\ w.aside \in Seq(known) /\ Len(w.aside) <= DeferMax
  /\ w.hand \in Seq(known)
  /\ Len(w.hand) = (IF w.at = "bounce" THEN 1 ELSE 0)

WaitsOK ==
  /\ wait \in [Asker -> Waits]
  /\ \A a \in Asker : GoodWait(a, wait[a], requests, Known)

FateOK == fate \in [Ids -> Fate]

WaitInv == AnswersOK /\ LoopOK /\ RequestsOK /\ WaitsOK /\ FateOK /\ AnswerStaysInChat

-----------------------------------------------------------------------------
(* Requests are added and answered, never changed in what was asked. *)

RequestsKept ==
  /\ requests' \in Seq(Request) /\ Len(requests) <= Len(requests')
  /\ \A r \in 1 .. Len(requests) :
       /\ requests'[r].asker = requests[r].asker
       /\ requests'[r].shown = requests[r].shown
       /\ requests'[r].type = requests[r].type

LEMMA KnownGrows ==
  ASSUME RequestsOK, RequestsKept
  PROVE  Known \subseteq Known'
<1>1. Len(requests) \in Nat /\ Len(requests') \in Nat
  BY DEF RequestsOK, RequestsKept
<1>2. ASSUME NEW m \in Known PROVE GivenTo(m)'
  <2>1. CASE m.kind = "reply"
    <3>1. m.n \in 1 .. Len(requests) /\ m.chat \in {requests[m.n].shown} \cup ({requests[m.n].asker} \cap Worker)
      BY <1>2, <2>1 DEF Known, GivenTo
    <3>2. m.n \in 1 .. Len(requests')
      BY <1>1, <3>1 DEF RequestsKept
    <3> QED
      BY <3>1, <3>2 DEF RequestsKept, GivenTo
  <2>2. CASE m.kind # "reply"
    BY <2>2 DEF GivenTo
  <2> QED
    BY <2>1, <2>2
<1> QED
  BY <1>2 DEF Known

LEMMA SeqGrows ==
  ASSUME NEW S, NEW T, S \subseteq T, NEW s \in Seq(S)
  PROVE  s \in Seq(T)
<1>1. s \in [1 .. Len(s) -> S] /\ Len(s) \in Nat
  OBVIOUS
<1>2. s \in [1 .. Len(s) -> T]
  BY <1>1
<1> QED
  BY <1>1, <1>2

LEMMA WaitUnchanged ==
  ASSUME RequestsOK, UNCHANGED requests
  PROVE  RequestsKept
BY DEF RequestsOK, RequestsKept

\* The first of a sequence is taken off it.
LEMMA HeadAndTail ==
  ASSUME NEW S, NEW s \in Seq(S), s # <<>>
  PROVE  /\ Head(s) \in S /\ Tail(s) \in Seq(S)
         /\ Len(s) \in Nat /\ Len(Tail(s)) = Len(s) - 1
OBVIOUS

LEMMA IdType ==
  ASSUME NEW m \in Message
  PROVE  Id(m) \in Ids
BY DEF Message, Id, Ids

LEMMA PushKeeps ==
  ASSUME AnswersOK, FateOK, RequestsOK, NEW m \in Known, Push(m), UNCHANGED requests
  PROVE  AnswersOK' /\ FateOK'
<1>1. Known' = Known
  BY DEF Known, GivenTo
<1>2. m \in Message /\ Id(m) \in Ids
  BY IdType DEF Known
<1>3. CASE Len(inbound) < InboundLen
  <2>1. inbound' = Append(inbound, m) /\ fate' = [fate EXCEPT ![Id(m)] = "sent"]
    BY <1>3 DEF Push
  <2>2. inbound' \in Seq(Known) /\ Len(inbound') = Len(inbound) + 1 /\ Len(inbound) \in Nat
    BY <2>1 DEF AnswersOK
  <2>3. Len(inbound') <= InboundLen
    BY <2>2, <1>3, WaitAssumption
  <2>4. fate' \in [Ids -> Fate]
    BY <2>1, <1>2 DEF FateOK, Fate
  <2> QED
    BY <1>1, <2>2, <2>3, <2>4 DEF AnswersOK, FateOK
<1>4. CASE ~(Len(inbound) < InboundLen)
  <2>1. inbound' = inbound /\ fate' = [fate EXCEPT ![Id(m)] = "lost"]
    BY <1>4 DEF Push
  <2>2. fate' \in [Ids -> Fate]
    BY <2>1, <1>2 DEF FateOK, Fate
  <2> QED
    BY <1>1, <2>1, <2>2 DEF AnswersOK, FateOK
<1> QED
  BY <1>3, <1>4

\* The record of no wait.
LEMMA NoWaitGood ==
  ASSUME NEW a \in Asker, NEW asked, Len(asked) \in Nat, NEW known
  PROVE  NoWait \in Waits /\ GoodWait(a, NoWait, asked, known)
BY WaitAssumption DEF NoWait, Waits, GoodWait

\* The wait of one thread changes.
LEMMA OneWaitChanges ==
  ASSUME WaitsOK, RequestsOK, RequestsKept, NEW a \in Asker, NEW w \in Waits,
         GoodWait(a, w, requests', Known'), wait' = [wait EXCEPT ![a] = w]
  PROVE  WaitsOK'
<1>1. wait' \in [Asker -> Waits]
  BY DEF WaitsOK
<1>2. ASSUME NEW b \in Asker PROVE GoodWait(b, wait'[b], requests', Known')
  <2>1. CASE b = a
    BY <2>1 DEF WaitsOK
  <2>2. CASE b # a
    <3>1. wait'[b] = wait[b]
      BY <2>2 DEF WaitsOK
    <3>2. GoodWait(b, wait[b], requests, Known)
      BY DEF WaitsOK
    <3>3. wait[b].aside \in Seq(Known') /\ wait[b].hand \in Seq(Known')
      BY <3>2, KnownGrows, SeqGrows DEF GoodWait
    <3>4. Len(requests) \in Nat /\ Len(requests') \in Nat /\ Len(requests) <= Len(requests')
      BY DEF RequestsOK, RequestsKept
    <3>5. wait[b].request \in 0 .. Len(requests')
      BY <3>2, <3>4 DEF GoodWait
    <3>6. wait[b].at # "idle" => wait[b].request # 0 /\ requests'[wait[b].request].asker = b
      <4>1. SUFFICES ASSUME wait[b].at # "idle"
                     PROVE  wait[b].request # 0 /\ requests'[wait[b].request].asker = b
        OBVIOUS
      <4>2. wait[b].request \in 1 .. Len(requests) /\ requests[wait[b].request].asker = b
        BY <3>2, <3>4, <4>1 DEF GoodWait
      <4> QED
        BY <4>2 DEF RequestsKept
    <3> QED
      BY <3>1, <3>2, <3>3, <3>5, <3>6 DEF GoodWait
  <2> QED
    BY <2>1, <2>2
<1> QED
  BY <1>1, <1>2 DEF WaitsOK

-----------------------------------------------------------------------------
(* The queue, the clients and the loop. *)

\* What a step that leaves the requests alone keeps of the waits.
LEMMA WaitsStay ==
  ASSUME WaitsOK, RequestsOK, UNCHANGED <<wait, requests>>
  PROVE  WaitsOK' /\ RequestsOK' /\ Known' = Known
<1>1. Known' = Known
  BY DEF Known, GivenTo
<1> QED
  BY <1>1 DEF WaitsOK, RequestsOK

LEMMA SayKeeps ==
  ASSUME WaitInv, NEW chat \in Chat, Say(chat)
  PROVE  WaitInv'
<1>1. PICK n \in 1 .. MaxSaid : Push([kind |-> "user", chat |-> chat, n |-> n])
  BY DEF Say
<1>2. [kind |-> "user", chat |-> chat, n |-> n] \in Known
  BY DEF Known, GivenTo, Message
<1>3. UNCHANGED <<loop, wait, requests>>
  BY DEF Say
<1>4. AnswersOK' /\ FateOK'
  BY <1>1, <1>2, <1>3, PushKeeps DEF WaitInv
<1>5. WaitsOK' /\ RequestsOK'
  BY <1>3, WaitsStay DEF WaitInv
<1> QED
  BY <1>3, <1>4, <1>5 DEF WaitInv, LoopOK, AnswerStaysInChat

LEMMA AnswerKeeps ==
  ASSUME WaitInv, NEW r \in 1 .. Len(requests), Answer(r)
  PROVE  WaitInv'
<1>1. PICK chat \in {requests[r].shown} \cup ({requests[r].asker} \cap Worker) :
        Push([kind |-> "reply", chat |-> chat, n |-> r])
  BY DEF Answer
<1>2. r \in 1 .. MaxRequests
  BY WaitAssumption DEF WaitInv, RequestsOK
<1>3. requests[r] \in Request
  BY DEF WaitInv, RequestsOK
<1>4. chat \in Chat \cup Worker
  BY <1>1, <1>3 DEF Request
<1>5. [kind |-> "reply", chat |-> chat, n |-> r] \in Known
  BY <1>1, <1>2, <1>4 DEF Known, GivenTo, Message
<1>6. UNCHANGED <<loop, wait, requests>>
  BY DEF Answer
<1>7. AnswersOK' /\ FateOK'
  BY <1>1, <1>5, <1>6, PushKeeps DEF WaitInv
<1>8. WaitsOK' /\ RequestsOK'
  BY <1>6, WaitsStay DEF WaitInv
<1> QED
  BY <1>6, <1>7, <1>8 DEF WaitInv, LoopOK, AnswerStaysInChat

\* Taking the first message off the queue.
LEMMA TakeKeeps ==
  ASSUME AnswersOK, RequestsOK, inbound # <<>>, inbound' = Tail(inbound), RequestsKept
  PROVE  /\ AnswersOK' /\ Head(inbound) \in Known
         /\ Head(inbound) \in Message /\ Id(Head(inbound)) \in Ids
<1>1. /\ Head(inbound) \in Known /\ Tail(inbound) \in Seq(Known)
      /\ Len(inbound) \in Nat /\ Len(Tail(inbound)) = Len(inbound) - 1
  BY HeadAndTail DEF AnswersOK
<1>2. inbound' \in Seq(Known')
  BY <1>1, KnownGrows, SeqGrows
<1>3. Len(inbound') <= InboundLen
  BY <1>1, WaitAssumption DEF AnswersOK
<1>4. Head(inbound) \in Message
  BY <1>1 DEF Known
<1> QED
  BY <1>1, <1>2, <1>3, <1>4, IdType DEF AnswersOK

LEMMA LoopKeeps ==
  ASSUME WaitInv, LoopTakes \/ TurnEnds
  PROVE  WaitInv'
<1>1. UNCHANGED <<wait, requests>>
  BY DEF LoopTakes, TurnEnds
<1>2. WaitsOK' /\ RequestsOK' /\ Known' = Known
  BY <1>1, WaitsStay DEF WaitInv
<1>3. AnswerStaysInChat'
  BY <1>1 DEF WaitInv, AnswerStaysInChat
<1>4. CASE LoopTakes
  <2> DEFINE m == Head(inbound)
  <2>1. AnswersOK' /\ m \in Message /\ Id(m) \in Ids
    BY <1>1, <1>4, TakeKeeps, WaitUnchanged DEF WaitInv, LoopTakes
  <2>2. FateOK'
    BY <1>4, <2>1 DEF WaitInv, FateOK, Fate, LoopTakes
  <2>3. LoopOK'
    <3>1. CASE m.kind = "reply"
      BY <1>4, <3>1 DEF WaitInv, LoopOK, LoopTakes
    <3>2. CASE m.kind # "reply"
      <4>1. m.kind = "user"
        BY <2>1, <3>2 DEF Message
      <4> QED
        BY <1>4, <2>1, <3>2, <4>1 DEF LoopOK, LoopTakes
    <3> QED
      BY <3>1, <3>2
  <2> QED
    BY <1>2, <1>3, <2>1, <2>2, <2>3 DEF WaitInv
<1>5. CASE TurnEnds
  BY <1>2, <1>3, <1>5 DEF WaitInv, AnswersOK, LoopOK, FateOK, TurnEnds
<1> QED
  BY <1>4, <1>5

-----------------------------------------------------------------------------
(* Asking. *)

LEMMA AskKeeps ==
  ASSUME WaitInv, NEW a \in Asker, NEW chat \in Chat, NEW type \in Type, Ask(a, chat, type),
         a \in Worker => chat = ParentOf[a]
  PROVE  WaitInv'
<1> DEFINE n == Len(requests)
<1>1. PICK s \in Second :
        requests' = Append(requests, [asker |-> a, shown |-> chat, type |-> type,
                                      second |-> s, got |-> 0])
  BY DEF Ask
<1> DEFINE new == [asker |-> a, shown |-> chat, type |-> type, second |-> s, got |-> 0]
<1>2. n \in Nat /\ n < MaxRequests /\ requests \in Seq(Request)
  BY DEF WaitInv, RequestsOK, Ask
<1>3. new \in Request
  BY WaitAssumption DEF Request
<1>4. /\ requests' \in Seq(Request) /\ Len(requests') = n + 1
      /\ requests'[n + 1] = new
      /\ \A r \in 1 .. n : requests'[r] = requests[r]
  BY <1>1, <1>2, <1>3
<1> HIDE DEF new
<1>5. RequestsKept
  BY <1>2, <1>4 DEF RequestsKept
<1>6. RequestsOK'
  <2>1. Len(requests') <= MaxRequests
    BY <1>2, <1>4, WaitAssumption
  <2>2. new.asker = a /\ new.shown = chat /\ new.got = 0
    BY DEF new
  <2>3. ASSUME NEW r \in 1 .. Len(requests')
        PROVE  /\ requests'[r].asker \in Worker => requests'[r].shown = ParentOf[requests'[r].asker]
               /\ requests'[r].got \in 0 .. Len(requests')
    <3>1. CASE r = n + 1
      <4>1. requests'[r] = new
        BY <1>4, <3>1
      <4> QED
        BY <1>2, <1>4, <2>2, <4>1
    <3>2. CASE r \in 1 .. n
      <4>1. requests'[r] = requests[r]
        BY <1>4, <3>2
      <4>2. requests[r].asker \in Worker => requests[r].shown = ParentOf[requests[r].asker]
        BY <3>2 DEF WaitInv, RequestsOK
      <4>3. requests[r].got \in 0 .. n
        BY <3>2 DEF WaitInv, RequestsOK
      <4> QED
        BY <1>2, <1>4, <4>1, <4>2, <4>3
    <3> QED
      BY <1>2, <1>4, <2>3, <3>1, <3>2
  <2> QED
    BY <1>4, <2>1, <2>3 DEF RequestsOK
<1>7. Known \subseteq Known'
  BY <1>5, KnownGrows DEF WaitInv
<1>8. wait' = [wait EXCEPT ![a] = [NoWait EXCEPT !.at = "waiting", !.request = n + 1]]
  BY DEF Ask
<1>9. WaitsOK'
  <2> DEFINE last == n + 1
             asking == [NoWait EXCEPT !.at = "waiting", !.request = last]
  <2>1. wait' = [wait EXCEPT ![a] = asking]
    BY <1>8
  <2>2. NoWait \in Waits
    BY NoWaitGood, <1>2
  <2>last. last \in Nat
    BY <1>2
  <2> HIDE DEF last
  <2>3. /\ asking \in Waits /\ asking.at = "waiting" /\ asking.request = last
        /\ asking.aside = NoWait.aside /\ asking.hand = NoWait.hand
    BY <2>2, <2>last DEF Waits
  <2> USE DEF last
  <2>4. NoWait.aside = <<>> /\ NoWait.hand = <<>>
    BY DEF NoWait
  <2>5. requests'[n + 1].asker = a
    BY <1>4 DEF new
  <2> HIDE DEF asking
  <2>6. GoodWait(a, asking, requests', Known')
    BY <1>2, <1>4, <2>3, <2>4, <2>5, WaitAssumption DEF GoodWait
  <2> QED
    BY <1>5, <2>1, <2>3, <2>6, OneWaitChanges DEF WaitInv
<1>10. AnswerStaysInChat'
  <2>1. ASSUME NEW r \in 1 .. Len(requests'), requests'[r].got # 0
        PROVE  /\ requests'[requests'[r].got].shown = requests'[r].shown
               /\ requests'[requests'[r].got].type = requests'[r].type
    <3>1. r \in 1 .. n
      BY <1>2, <1>4, <2>1 DEF new
    <3>2. requests[r].got \in 1 .. n
      BY <1>2, <1>4, <2>1, <3>1 DEF WaitInv, RequestsOK
    <3> QED
      BY <1>4, <2>1, <3>1, <3>2 DEF WaitInv, AnswerStaysInChat
  <2> QED
    BY <2>1 DEF AnswerStaysInChat
<1>11. AnswersOK' /\ LoopOK' /\ FateOK'
  <2>1. UNCHANGED <<inbound, loop, fate>>
    BY DEF Ask
  <2>2. inbound \in Seq(Known')
    BY <1>7, SeqGrows DEF WaitInv, AnswersOK
  <2> QED
    BY <2>1, <2>2 DEF WaitInv, AnswersOK, LoopOK, FateOK
<1> QED
  BY <1>6, <1>9, <1>10, <1>11 DEF WaitInv

LEMMA LoopAsksKeeps ==
  ASSUME WaitInv, LoopAsks
  PROVE  WaitInv'
<1>1. PICK type \in Type : loop # <<>> /\ Ask(Loop, loop[1].chat, type)
  BY DEF LoopAsks
<1>2. loop[1].chat \in Chat
  <2>1. PICK m \in Message : m.kind = "user" /\ loop = <<m>>
    BY <1>1 DEF WaitInv, LoopOK
  <2>2. m.chat \in Chat
    BY <2>1 DEF Message
  <2> QED
    BY <2>1, <2>2
<1> QED
  BY <1>1, <1>2, AskKeeps, WaitAssumption DEF Asker

LEMMA WorkerAsksKeeps ==
  ASSUME WaitInv, NEW w \in Worker, WorkerAsks(w)
  PROVE  WaitInv'
<1>1. ParentOf[w] \in Chat
  BY WaitAssumption
<1> QED
  BY <1>1, AskKeeps DEF WorkerAsks, Asker, Type

-----------------------------------------------------------------------------
(* Waiting. *)

\* A wait under way, with what it keeps.
LEMMA AtWork ==
  ASSUME WaitInv, NEW a \in Asker, wait[a].at # "idle"
  PROVE  /\ wait[a] \in Waits /\ GoodWait(a, wait[a], requests, Known)
         /\ Len(requests) \in Nat
         /\ wait[a].request \in 1 .. Len(requests)
         /\ requests[wait[a].request] \in Request
         /\ requests[wait[a].request].asker = a
<1>1. wait[a] \in Waits /\ GoodWait(a, wait[a], requests, Known)
  BY DEF WaitInv, WaitsOK
<1>2. Len(requests) \in Nat /\ requests \in Seq(Request)
  BY DEF WaitInv, RequestsOK
<1>3. wait[a].request \in 1 .. Len(requests) /\ requests[wait[a].request].asker = a
  BY <1>1, <1>2 DEF GoodWait
<1> QED
  BY <1>1, <1>2, <1>3

\* Where the requests stay, so does what is known of them.
LEMMA SameRequests ==
  ASSUME WaitInv, UNCHANGED requests
  PROVE  RequestsKept /\ Known' = Known /\ RequestsOK' /\ AnswerStaysInChat'
<1>1. RequestsKept
  BY WaitUnchanged DEF WaitInv
<1>2. Known' = Known
  BY DEF Known, GivenTo
<1> QED
  BY <1>1, <1>2 DEF WaitInv, RequestsOK, AnswerStaysInChat

\* An answer accepted by a wait was given to a request of the same chat and
\* type: a chat is no session, and a session asks in its parent's chat only.
LEMMA SameChat ==
  ASSUME WaitInv, NEW a \in Asker, wait[a].at = "waiting", NEW m \in Known, Matches(a, m)
  PROVE  /\ m.n \in 1 .. Len(requests)
         /\ requests[m.n].shown = requests[wait[a].request].shown
         /\ requests[m.n].type = requests[wait[a].request].type
<1> DEFINE i == wait[a].request
<1>1. i \in 1 .. Len(requests) /\ requests[i].asker = a /\ requests[i] \in Request
  BY AtWork
<1>2. m.kind = "reply" /\ m.chat \in {requests[i].shown} \cup ({a} \cap Worker) /\ Key(m.n) = Key(i)
  BY DEF Matches, Accepts
<1>3. /\ m.n \in 1 .. Len(requests)
      /\ m.chat \in {requests[m.n].shown} \cup ({requests[m.n].asker} \cap Worker)
  BY <1>2 DEF Known, GivenTo
<1>4. requests[m.n] \in Request
  BY <1>3 DEF WaitInv, RequestsOK
<1>5. requests[m.n].type = requests[i].type
  BY <1>2 DEF Key
<1>6. requests[i].shown \in Chat /\ requests[m.n].shown \in Chat
  BY <1>1, <1>4 DEF Request
<1>7. CASE m.chat \in Worker
  <2>1. m.chat = a /\ m.chat = requests[m.n].asker
    BY <1>2, <1>3, <1>6, <1>7, WaitAssumption
  <2>2. requests[m.n].shown = ParentOf[a]
    BY <1>3, <1>7, <2>1 DEF WaitInv, RequestsOK
  <2>3. requests[i].shown = ParentOf[a]
    BY <1>1, <1>7, <2>1 DEF WaitInv, RequestsOK
  <2> QED
    BY <1>3, <1>5, <2>2, <2>3
<1>8. CASE m.chat \notin Worker
  <2>1. m.chat = requests[i].shown /\ m.chat = requests[m.n].shown
    BY <1>2, <1>3, <1>8
  <2> QED
    BY <1>3, <1>5, <2>1
<1> QED
  BY <1>7, <1>8

LEMMA PopKeeps ==
  ASSUME WaitInv, NEW a \in Asker, Pop(a)
  PROVE  WaitInv'
<1> DEFINE m == Head(inbound)
           i == wait[a].request
<1>1. wait[a].at = "waiting" /\ inbound # <<>> /\ inbound' = Tail(inbound) /\ UNCHANGED loop
  BY DEF Pop
<1>2. LoopOK'
  BY <1>1 DEF WaitInv, LoopOK
<1>3. /\ wait[a] \in Waits /\ GoodWait(a, wait[a], requests, Known) /\ Len(requests) \in Nat
      /\ i \in 1 .. Len(requests) /\ requests[i] \in Request /\ requests[i].asker = a
  BY <1>1, AtWork
<1>4. m \in Known /\ m \in Message
  BY <1>1, HeadAndTail DEF WaitInv, AnswersOK, Known
<1>5. Id(m) \in Ids
  BY <1>4, IdType
<1>6. CASE /\ Matches(a, m)
           /\ fate' = [fate EXCEPT ![Id(m)] = "taken"]
           /\ requests' = [requests EXCEPT ![i].got = m.n]
           /\ wait' = [wait EXCEPT ![a].at = "flush"]
  <2>1. /\ m.n \in 1 .. Len(requests)
        /\ requests[m.n].shown = requests[i].shown /\ requests[m.n].type = requests[i].type
    BY <1>1, <1>4, <1>6, SameChat
  <2> DEFINE q == m.n
  <2>2. q \in 0 .. MaxRequests
    BY <1>3, <2>1, WaitAssumption DEF WaitInv, RequestsOK
  <2>3. requests' = [requests EXCEPT ![i] = [requests[i] EXCEPT !.got = q]]
    BY <1>6
  <2> HIDE DEF q, m, i
  <2>4. [requests[i] EXCEPT !.got = q] \in Request
    BY <1>3, <2>2 DEF Request
  <2>5. /\ requests' \in Seq(Request) /\ Len(requests') = Len(requests)
        /\ \A r \in 1 .. Len(requests) :
             requests'[r] = IF r = i THEN [requests[i] EXCEPT !.got = q] ELSE requests[r]
    BY <1>3, <2>3, <2>4 DEF WaitInv, RequestsOK
  <2>6. \A r \in 1 .. Len(requests) :
          /\ requests'[r].asker = requests[r].asker
          /\ requests'[r].shown = requests[r].shown
          /\ requests'[r].type = requests[r].type
          /\ requests'[r].got = IF r = i THEN q ELSE requests[r].got
    BY <1>3, <2>5 DEF Request
  <2>7. RequestsKept
    BY <1>3, <2>5, <2>6 DEF RequestsKept
  <2>8. RequestsOK'
    <3>1. Len(requests') <= MaxRequests
      BY <2>5 DEF WaitInv, RequestsOK
    <3>2. q \in 0 .. Len(requests)
      BY <1>3, <2>1 DEF q
    <3>3. \A r \in 1 .. Len(requests) :
            /\ requests'[r].asker \in Worker => requests'[r].shown = ParentOf[requests'[r].asker]
            /\ requests'[r].got \in 0 .. Len(requests)
      BY <2>6, <3>2 DEF WaitInv, RequestsOK
    <3> QED
      BY <2>5, <3>1, <3>3 DEF RequestsOK
  <2>9. AnswerStaysInChat'
    <3>1. ASSUME NEW r \in 1 .. Len(requests), requests'[r].got # 0
          PROVE  /\ requests'[requests'[r].got].shown = requests'[r].shown
                 /\ requests'[requests'[r].got].type = requests'[r].type
      <4>1. CASE r = i
        <5>1. requests'[r].got = q
          BY <2>6, <4>1
        <5>2. q \in 1 .. Len(requests) /\ requests[q].shown = requests[i].shown
              /\ requests[q].type = requests[i].type
          BY <2>1 DEF q
        <5> QED
          BY <2>6, <4>1, <5>1, <5>2
      <4>2. CASE r # i
        <5>1. requests'[r].got = requests[r].got
          BY <2>6, <4>2
        <5>2. requests[r].got \in 1 .. Len(requests)
          BY <1>3, <3>1, <5>1 DEF WaitInv, RequestsOK
        <5>3. /\ requests[requests[r].got].shown = requests[r].shown
              /\ requests[requests[r].got].type = requests[r].type
          BY <3>1, <5>1 DEF WaitInv, AnswerStaysInChat
        <5> QED
          BY <2>6, <5>1, <5>2, <5>3
      <4> QED
        BY <4>1, <4>2
    <3> QED
      BY <2>5, <3>1 DEF AnswerStaysInChat
  <2>10. AnswersOK'
    BY <1>1, <2>7, TakeKeeps DEF WaitInv
  <2>11. FateOK'
    BY <1>5, <1>6 DEF WaitInv, FateOK, Fate, m
  <2>12. WaitsOK'
    <3> DEFINE w == [wait[a] EXCEPT !.at = "flush"]
    <3>1. wait' = [wait EXCEPT ![a] = w]
      BY <1>6
    <3>2. /\ w \in Waits /\ w.at = "flush" /\ w.request = wait[a].request
          /\ w.aside = wait[a].aside /\ w.hand = wait[a].hand
      BY <1>3 DEF Waits
    <3>3. wait[a].aside \in Seq(Known') /\ wait[a].hand \in Seq(Known')
      BY <1>3, <2>7, KnownGrows, SeqGrows DEF WaitInv, GoodWait
    <3> HIDE DEF w
    <3>4. Len(w.aside) <= DeferMax /\ Len(w.hand) = 0
      BY <1>1, <1>3, <3>2 DEF GoodWait
    <3>5. w.request \in 1 .. Len(requests') /\ requests'[w.request].asker = a
      BY <1>3, <2>5, <2>6, <3>2 DEF i
    <3>6. GoodWait(a, w, requests', Known')
      BY <3>2, <3>3, <3>4, <3>5 DEF GoodWait
    <3> QED
      BY <2>7, <3>1, <3>2, <3>6, OneWaitChanges DEF WaitInv
  <2> QED
    BY <1>2, <2>8, <2>9, <2>10, <2>11, <2>12 DEF WaitInv
<1>7. CASE /\ ~Matches(a, m) /\ HasRoom(a)
           /\ wait' = [wait EXCEPT ![a].aside = Append(@, m)]
           /\ UNCHANGED <<requests, fate>>
  <2>1. RequestsKept /\ Known' = Known /\ RequestsOK' /\ AnswerStaysInChat'
    BY <1>7, SameRequests
  <2>2. AnswersOK' /\ FateOK'
    BY <1>1, <1>7, <2>1, TakeKeeps DEF WaitInv, FateOK
  <2> DEFINE more == Append(wait[a].aside, m)
             w == [wait[a] EXCEPT !.aside = more]
  <2>3. wait' = [wait EXCEPT ![a] = w]
    BY <1>7
  <2>seq. more \in Seq(Message)
    <3>1. wait[a].aside \in Seq(Message)
      BY <1>3 DEF Waits
    <3> QED
      BY <1>4, <3>1
  <2> HIDE DEF m, more
  <2>4. /\ w \in Waits /\ w.at = "waiting" /\ w.request = wait[a].request
        /\ w.aside = more /\ w.hand = wait[a].hand
    BY <1>1, <1>3, <2>seq DEF Waits
  <2> USE DEF more
  <2> HIDE DEF w
  <2>5. w.aside \in Seq(Known) /\ Len(w.aside) <= DeferMax
    BY <1>3, <1>4, <1>7, <2>4, WaitAssumption DEF GoodWait, HasRoom
  <2>6. GoodWait(a, w, requests', Known')
    BY <1>1, <1>3, <1>7, <2>1, <2>4, <2>5 DEF GoodWait
  <2>7. WaitsOK'
    BY <2>1, <2>3, <2>4, <2>6, OneWaitChanges DEF WaitInv
  <2> QED
    BY <1>2, <2>1, <2>2, <2>7 DEF WaitInv
<1>8. CASE /\ ~Matches(a, m) /\ ~HasRoom(a)
           /\ wait' = [wait EXCEPT ![a].at = "bounce", ![a].hand = <<m>>]
           /\ UNCHANGED <<requests, fate>>
  <2>1. RequestsKept /\ Known' = Known /\ RequestsOK' /\ AnswerStaysInChat'
    BY <1>8, SameRequests
  <2>2. AnswersOK' /\ FateOK'
    BY <1>1, <1>8, <2>1, TakeKeeps DEF WaitInv, FateOK
  <2> HIDE DEF m
  <2> DEFINE one == <<m>>
             w == [wait[a] EXCEPT !.at = "bounce", !.hand = one]
  <2>3. wait' = [wait EXCEPT ![a] = w]
    BY <1>3, <1>8 DEF WaitInv, WaitsOK
  <2>seq. one \in Seq(Message)
    BY <1>4
  <2> HIDE DEF one
  <2>4. /\ w \in Waits /\ w.at = "bounce" /\ w.request = wait[a].request
        /\ w.aside = wait[a].aside /\ w.hand = one
    BY <1>3, <2>seq DEF Waits
  <2> USE DEF one
  <2> HIDE DEF w
  <2>5. w.hand \in Seq(Known) /\ Len(w.hand) = 1
    BY <1>4, <2>4
  <2>6. GoodWait(a, w, requests', Known')
    BY <1>1, <1>3, <1>8, <2>1, <2>4, <2>5 DEF GoodWait
  <2>7. WaitsOK'
    BY <2>1, <2>3, <2>4, <2>6, OneWaitChanges DEF WaitInv
  <2> QED
    BY <1>2, <2>1, <2>2, <2>7 DEF WaitInv
<1> QED
  BY <1>6, <1>7, <1>8 DEF Pop

LEMMA GiveBackKeeps ==
  ASSUME WaitInv, NEW a \in Asker, GiveBack(a)
  PROVE  WaitInv'
<1> DEFINE m == wait[a].hand[1]
           w == [wait[a] EXCEPT !.at = "waiting", !.hand = <<>>]
<1>1. wait[a].at = "bounce" /\ Push(m) /\ UNCHANGED <<loop, requests>>
  BY DEF GiveBack
<1>2. wait[a] \in Waits /\ GoodWait(a, wait[a], requests, Known)
  BY <1>1, AtWork
<1>3. m \in Known
  BY <1>1, <1>2 DEF GoodWait
<1>4. RequestsKept /\ Known' = Known /\ RequestsOK' /\ AnswerStaysInChat' /\ LoopOK'
  BY <1>1, SameRequests DEF WaitInv, LoopOK
<1>5. AnswersOK' /\ FateOK'
  BY <1>1, <1>3, PushKeeps DEF WaitInv
<1>6. wait' = [wait EXCEPT ![a] = w]
  BY <1>2 DEF GiveBack, WaitInv, WaitsOK
<1> DEFINE none == <<>>
<1>seq. none \in Seq(Message)
  OBVIOUS
<1> HIDE DEF none
<1>7. /\ w \in Waits /\ w.at = "waiting" /\ w.request = wait[a].request
      /\ w.aside = wait[a].aside /\ w.hand = none
  BY <1>2, <1>seq DEF Waits, none
<1> USE DEF none
<1> HIDE DEF w
<1>8. GoodWait(a, w, requests', Known')
  BY <1>1, <1>2, <1>4, <1>7 DEF GoodWait
<1>9. WaitsOK'
  BY <1>4, <1>6, <1>7, <1>8, OneWaitChanges DEF WaitInv
<1> QED
  BY <1>4, <1>5, <1>9 DEF WaitInv

LEMMA ExpireKeeps ==
  ASSUME WaitInv, NEW a \in Asker, Expire(a)
  PROVE  WaitInv'
<1> DEFINE w == [wait[a] EXCEPT !.at = "flush"]
<1>1. wait[a].at = "waiting" /\ UNCHANGED <<inbound, loop, requests, fate>>
  BY DEF Expire
<1>2. wait[a] \in Waits /\ GoodWait(a, wait[a], requests, Known)
  BY <1>1, AtWork
<1>3. RequestsKept /\ Known' = Known /\ RequestsOK' /\ AnswerStaysInChat'
  BY <1>1, SameRequests
<1>4. LoopOK' /\ AnswersOK' /\ FateOK'
  BY <1>1, <1>3 DEF WaitInv, LoopOK, AnswersOK, FateOK
<1>5. wait' = [wait EXCEPT ![a] = w]
  BY DEF Expire
<1>6. /\ w \in Waits /\ w.at = "flush" /\ w.request = wait[a].request
      /\ w.aside = wait[a].aside /\ w.hand = wait[a].hand
  BY <1>2 DEF Waits
<1> HIDE DEF w
<1>7. GoodWait(a, w, requests', Known')
  BY <1>1, <1>2, <1>3, <1>6 DEF GoodWait
<1>8. WaitsOK'
  BY <1>3, <1>5, <1>6, <1>7, OneWaitChanges DEF WaitInv
<1> QED
  BY <1>3, <1>4, <1>8 DEF WaitInv

LEMMA FlushKeeps ==
  ASSUME WaitInv, NEW a \in Asker, Flush(a)
  PROVE  WaitInv'
<1> DEFINE m == Head(wait[a].aside)
           w == [wait[a] EXCEPT !.aside = Tail(wait[a].aside)]
<1>1. /\ wait[a].at = "flush" /\ wait[a].aside # <<>> /\ Push(m)
      /\ UNCHANGED <<loop, requests>>
  BY DEF Flush
<1>2. wait[a] \in Waits /\ GoodWait(a, wait[a], requests, Known)
  BY <1>1, AtWork
<1>3. /\ m \in Known /\ Tail(wait[a].aside) \in Seq(Known) /\ Len(wait[a].aside) \in Nat
      /\ Len(Tail(wait[a].aside)) = Len(wait[a].aside) - 1
  BY <1>1, <1>2, HeadAndTail DEF GoodWait
<1>4. RequestsKept /\ Known' = Known /\ RequestsOK' /\ AnswerStaysInChat' /\ LoopOK'
  BY <1>1, SameRequests DEF WaitInv, LoopOK
<1>5. AnswersOK' /\ FateOK'
  BY <1>1, <1>3, PushKeeps DEF WaitInv
<1>6. wait' = [wait EXCEPT ![a] = w]
  BY DEF Flush
<1>7. Tail(wait[a].aside) \in Seq(Message)
  BY <1>1, <1>2, HeadAndTail DEF Waits
<1>8. /\ w \in Waits /\ w.at = "flush" /\ w.request = wait[a].request
      /\ w.aside = Tail(wait[a].aside) /\ w.hand = wait[a].hand
  BY <1>1, <1>2, <1>7 DEF Waits
<1> HIDE DEF w
<1>9. Len(w.aside) <= DeferMax
  BY <1>2, <1>3, <1>8, WaitAssumption DEF GoodWait
<1>10. GoodWait(a, w, requests', Known')
  BY <1>1, <1>2, <1>3, <1>4, <1>8, <1>9 DEF GoodWait
<1>11. WaitsOK'
  BY <1>4, <1>6, <1>8, <1>10, OneWaitChanges DEF WaitInv
<1> QED
  BY <1>4, <1>5, <1>11 DEF WaitInv

LEMMA WaitEndsKeeps ==
  ASSUME WaitInv, NEW a \in Asker, WaitEnds(a)
  PROVE  WaitInv'
<1>1. wait[a].at = "flush" /\ UNCHANGED <<inbound, loop, requests, fate>>
      /\ wait' = [wait EXCEPT ![a] = NoWait]
  BY DEF WaitEnds
<1>2. RequestsKept /\ Known' = Known /\ RequestsOK' /\ AnswerStaysInChat'
  BY <1>1, SameRequests
<1>3. LoopOK' /\ AnswersOK' /\ FateOK'
  BY <1>1, <1>2 DEF WaitInv, LoopOK, AnswersOK, FateOK
<1>4. Len(requests') \in Nat
  BY <1>2 DEF RequestsKept
<1>5. NoWait \in Waits /\ GoodWait(a, NoWait, requests', Known')
  BY <1>4, NoWaitGood
<1>6. WaitsOK'
  BY <1>1, <1>2, <1>5, OneWaitChanges DEF WaitInv
<1> QED
  BY <1>2, <1>3, <1>6 DEF WaitInv

-----------------------------------------------------------------------------
(* The theorems. *)

LEMMA WaitInvInit ==
  ASSUME WaitInit
  PROVE  WaitInv
<1>1. inbound = <<>> /\ loop = <<>> /\ requests = <<>> /\ Len(requests) = 0
  BY DEF WaitInit
<1>2. AnswersOK /\ LoopOK
  BY <1>1, WaitAssumption DEF AnswersOK, LoopOK
<1>3. RequestsOK /\ AnswerStaysInChat
  BY <1>1, WaitAssumption DEF RequestsOK, AnswerStaysInChat
<1>4. WaitsOK
  <2>1. \A a \in Asker : NoWait \in Waits /\ GoodWait(a, NoWait, requests, Known)
    BY <1>1, NoWaitGood
  <2>2. wait = [a \in Asker |-> NoWait]
    BY DEF WaitInit
  <2> QED
    BY <2>1, <2>2 DEF WaitsOK
<1>5. FateOK
  BY DEF WaitInit, FateOK, Fate
<1> QED
  BY <1>2, <1>3, <1>4, <1>5 DEF WaitInv

LEMMA WaitInvStep ==
  ASSUME WaitInv, WaitNext
  PROVE  WaitInv'
<1>1. CASE \E chat \in Chat : Say(chat)
  BY <1>1, SayKeeps
<1>2. CASE \E r \in 1 .. Len(requests) : Answer(r)
  BY <1>2, AnswerKeeps
<1>3. CASE LoopTakes \/ TurnEnds
  BY <1>3, LoopKeeps
<1>4. CASE LoopAsks
  BY <1>4, LoopAsksKeeps
<1>5. CASE \E w \in Worker : WorkerAsks(w)
  BY <1>5, WorkerAsksKeeps
<1>6. ASSUME NEW a \in Asker, WaitSteps(a) PROVE WaitInv'
  BY <1>6, PopKeeps, GiveBackKeeps, ExpireKeeps, FlushKeeps, WaitEndsKeeps DEF WaitSteps
<1> QED
  BY <1>1, <1>2, <1>3, <1>4, <1>5, <1>6 DEF WaitNext

LEMMA WaitInvStutter ==
  ASSUME WaitInv, UNCHANGED waitVars
  PROVE  WaitInv'
<1>1. UNCHANGED <<inbound, loop, wait, requests, fate>>
  BY DEF waitVars
<1>2. Known' = Known
  BY <1>1 DEF Known, GivenTo
<1> QED
  BY <1>1, <1>2 DEF WaitInv, AnswersOK, LoopOK, RequestsOK, WaitsOK, FateOK, AnswerStaysInChat

LEMMA WaitInvAlways == WaitSpec => []WaitInv
<1>1. WaitInit => WaitInv
  BY WaitInvInit
<1>2. WaitInv /\ [WaitNext]_waitVars => WaitInv'
  BY WaitInvStep, WaitInvStutter
<1> QED
  BY <1>1, <1>2, PTL DEF WaitSpec

\* What is typed in one chat never answers what was asked in another, nor a
\* question a password (channel_runtime_wait_interactive_reply).
THEOREM AnswersStayInChat == WaitSpec => []AnswerStaysInChat
<1>1. WaitInv => AnswerStaysInChat
  BY DEF WaitInv
<1> QED
  BY <1>1, WaitInvAlways, PTL

\* Every variable keeps its type, and a wait puts no more aside than its
\* array holds.
THEOREM WaitTypeCorrect == WaitSpec => []WaitTypeOK
<1>1. WaitInv => WaitTypeOK
  <2> SUFFICES ASSUME WaitInv PROVE WaitTypeOK
    OBVIOUS
  <2>1. Known \subseteq Message
    BY DEF Known
  <2>2. inbound \in Seq(Message) /\ Len(inbound) <= InboundLen
    BY <2>1, SeqGrows DEF WaitInv, AnswersOK
  <2>3. loop = <<>> \/ (Len(loop) = 1 /\ loop[1] \in Message)
    BY DEF WaitInv, LoopOK
  <2>4. requests \in Seq(Request)
    BY DEF WaitInv, RequestsOK
  <2>5. ASSUME NEW a \in Asker
        PROVE  /\ wait[a].at \in {"idle", "waiting", "bounce", "flush"}
               /\ wait[a].request \in 0 .. Len(requests)
               /\ wait[a].aside \in Seq(Message) /\ Len(wait[a].aside) <= DeferMax
               /\ wait[a].hand \in Seq(Message)
               /\ wait[a].at # "idle" => wait[a].request # 0
               /\ Len(wait[a].hand) = (IF wait[a].at = "bounce" THEN 1 ELSE 0)
    <3>1. wait[a] \in Waits /\ GoodWait(a, wait[a], requests, Known)
      BY DEF WaitInv, WaitsOK
    <3>2. wait[a].at \in {"idle", "waiting", "bounce", "flush"}
          /\ wait[a].aside \in Seq(Message) /\ wait[a].hand \in Seq(Message)
      BY <3>1 DEF Waits
    <3> QED
      BY <3>1, <3>2 DEF GoodWait
  <2>6. fate \in [Ids -> Fate]
    BY DEF WaitInv, FateOK
  <2> QED
    BY <2>2, <2>3, <2>4, <2>5, <2>6 DEF WaitTypeOK
<1> QED
  BY <1>1, WaitInvAlways, PTL

-----------------------------------------------------------------------------
(* Every message is in one place. *)

\* Lines hold each message of a set once, and no other.
Once(L, S) ==
  /\ L \in [Lines -> Seq(Message)]
  /\ \A l \in Lines : \A k \in 1 .. Len(L[l]) : Id(L[l][k]) \in S
  /\ \A i \in S : \E l \in Lines : \E k \in 1 .. Len(L[l]) : Id(L[l][k]) = i
  /\ \A l, m \in Lines : \A k \in 1 .. Len(L[l]), n \in 1 .. Len(L[m]) :
       Id(L[l][k]) = Id(L[m][n]) => l = m /\ k = n

\* The first message is taken off a line.
LEMMA TakeOnce ==
  ASSUME NEW L, NEW S, Once(L, S), NEW l \in Lines, L[l] # <<>>
  PROVE  /\ Id(Head(L[l])) \in S /\ Head(L[l]) \in Message
         /\ Once([L EXCEPT ![l] = Tail(@)], S \ {Id(Head(L[l]))})
<1> DEFINE M == [L EXCEPT ![l] = Tail(@)]
           h == Head(L[l])
<1>1. L \in [Lines -> Seq(Message)] /\ L[l] \in Seq(Message)
  BY DEF Once
<1>0. \A m, p \in Lines : \A k \in 1 .. Len(L[m]), n \in 1 .. Len(L[p]) :
        Id(L[m][k]) = Id(L[p][n]) => m = p /\ k = n
  BY DEF Once
<1>2. /\ Len(L[l]) \in Nat /\ 1 \in 1 .. Len(L[l]) /\ h = L[l][1] /\ h \in Message
      /\ Tail(L[l]) \in Seq(Message) /\ Len(Tail(L[l])) = Len(L[l]) - 1
      /\ \A k \in 1 .. Len(Tail(L[l])) : Tail(L[l])[k] = L[l][k + 1] /\ k + 1 \in 1 .. Len(L[l])
  BY <1>1, HeadTailProperties, EmptySeq, LenProperties
<1>3. /\ M \in [Lines -> Seq(Message)] /\ M[l] = Tail(L[l])
      /\ \A m \in Lines : m # l => M[m] = L[m]
  BY <1>1, <1>2
<1> DEFINE at(m, k) == IF m = l THEN k + 1 ELSE k
<1>4. \A m \in Lines : \A k \in 1 .. Len(M[m]) :
        /\ at(m, k) \in 1 .. Len(L[m]) /\ M[m][k] = L[m][at(m, k)]
        /\ m = l => at(m, k) # 1
  BY <1>2, <1>3
<1>5. \A m \in Lines : \A n \in 1 .. Len(L[m]) :
        (m = l /\ n = 1) \/ \E k \in 1 .. Len(M[m]) : at(m, k) = n
  <2> SUFFICES ASSUME NEW m \in Lines, NEW n \in 1 .. Len(L[m]), ~(m = l /\ n = 1)
               PROVE  \E k \in 1 .. Len(M[m]) : at(m, k) = n
    OBVIOUS
  <2>1. CASE m = l
    <3>1. n - 1 \in 1 .. Len(M[m]) /\ at(m, n - 1) = n
      BY <1>2, <1>3, <2>1
    <3> QED
      BY <3>1
  <2>2. CASE m # l
    BY <1>3, <2>2
  <2> QED
    BY <2>1, <2>2
<1>6. \A m \in Lines : \A k, n \in 1 .. Len(M[m]) : at(m, k) = at(m, n) => k = n
  BY <1>2, <1>3
<1> HIDE DEF M, at, h
<1>7. Id(h) \in S
  BY <1>2 DEF Once
<1>8. \A m \in Lines : \A k \in 1 .. Len(M[m]) : Id(M[m][k]) \in S /\ Id(M[m][k]) # Id(h)
  <2> SUFFICES ASSUME NEW m \in Lines, NEW k \in 1 .. Len(M[m])
               PROVE  Id(M[m][k]) \in S /\ Id(M[m][k]) # Id(h)
    OBVIOUS
  <2>1. at(m, k) \in 1 .. Len(L[m]) /\ M[m][k] = L[m][at(m, k)] /\ (m = l => at(m, k) # 1)
    BY <1>4
  <2>2. Id(M[m][k]) \in S
    BY <2>1 DEF Once
  <2>3. CASE Id(M[m][k]) = Id(h)
    <3>1. Id(L[m][at(m, k)]) = Id(L[l][1])
      BY <1>2, <2>1, <2>3
    <3>2. m = l /\ at(m, k) = 1
      BY <1>0, <1>2, <2>1, <3>1
    <3> QED
      BY <2>1, <3>2
  <2> QED
    BY <2>2, <2>3
<1>9. \A i \in S \ {Id(h)} : \E m \in Lines : \E k \in 1 .. Len(M[m]) : Id(M[m][k]) = i
  <2> SUFFICES ASSUME NEW i \in S, i # Id(h)
               PROVE  \E m \in Lines : \E k \in 1 .. Len(M[m]) : Id(M[m][k]) = i
    OBVIOUS
  <2>0. PICK m \in Lines : \E n \in 1 .. Len(L[m]) : Id(L[m][n]) = i
    BY DEF Once
  <2>1. PICK n \in 1 .. Len(L[m]) : Id(L[m][n]) = i
    BY <2>0
  <2>2. ~(m = l /\ n = 1)
    BY <1>2, <2>1
  <2>3. PICK k \in 1 .. Len(M[m]) : at(m, k) = n
    BY <1>5, <2>2
  <2>4. Id(M[m][k]) = i
    BY <1>4, <2>1, <2>3
  <2> QED
    BY <2>4
<1>10. \A m, p \in Lines : \A k \in 1 .. Len(M[m]), n \in 1 .. Len(M[p]) :
         Id(M[m][k]) = Id(M[p][n]) => m = p /\ k = n
  <2> SUFFICES ASSUME NEW m \in Lines, NEW p \in Lines, NEW k \in 1 .. Len(M[m]), NEW n \in 1 .. Len(M[p]),
                      Id(M[m][k]) = Id(M[p][n])
               PROVE  m = p /\ k = n
    OBVIOUS
  <2>1. /\ at(m, k) \in 1 .. Len(L[m]) /\ M[m][k] = L[m][at(m, k)]
        /\ at(p, n) \in 1 .. Len(L[p]) /\ M[p][n] = L[p][at(p, n)]
    BY <1>4
  <2>2. Id(L[m][at(m, k)]) = Id(L[p][at(p, n)])
    BY <2>1
  <2>3. m = p /\ at(m, k) = at(p, n)
    BY <1>0, <2>1, <2>2
  <2> QED
    BY <1>6, <2>3
<1> QED
  BY <1>2, <1>3, <1>7, <1>8, <1>9, <1>10 DEF Once, M, h

\* A message that is on none is put at the end of a line.
LEMMA PutOnce ==
  ASSUME NEW L, NEW S, Once(L, S), NEW l \in Lines, NEW e \in Message, Id(e) \notin S
  PROVE  Once([L EXCEPT ![l] = Append(@, e)], S \cup {Id(e)})
<1> DEFINE M == [L EXCEPT ![l] = Append(@, e)]
           last == Len(L[l]) + 1
<1>1. L \in [Lines -> Seq(Message)] /\ L[l] \in Seq(Message)
  BY DEF Once
<1>0. \A m, p \in Lines : \A k \in 1 .. Len(L[m]), n \in 1 .. Len(L[p]) :
        Id(L[m][k]) = Id(L[p][n]) => m = p /\ k = n
  BY DEF Once
<1>2. /\ Len(L[l]) \in Nat
      /\ Append(L[l], e) \in Seq(Message) /\ Len(Append(L[l], e)) = Len(L[l]) + 1
      /\ Append(L[l], e)[last] = e
      /\ \A k \in 1 .. Len(L[l]) : Append(L[l], e)[k] = L[l][k]
  BY <1>1, AppendProperties, LenProperties
<1>3. /\ M \in [Lines -> Seq(Message)] /\ M[l] = Append(L[l], e)
      /\ \A m \in Lines : m # l => M[m] = L[m]
  BY <1>1, <1>2
<1>4. \A m \in Lines : \A k \in 1 .. Len(M[m]) :
        \/ k \in 1 .. Len(L[m]) /\ M[m][k] = L[m][k]
        \/ m = l /\ k = last /\ M[m][k] = e
  <2> SUFFICES ASSUME NEW m \in Lines, NEW k \in 1 .. Len(M[m])
               PROVE  \/ k \in 1 .. Len(L[m]) /\ M[m][k] = L[m][k]
                      \/ m = l /\ k = last /\ M[m][k] = e
    OBVIOUS
  <2>1. CASE m # l
    BY <1>3, <2>1
  <2>2. CASE m = l
    <3>1. M[m] = Append(L[l], e) /\ (k \in 1 .. Len(L[l]) \/ k = last)
      BY <1>2, <1>3, <2>2
    <3> QED
      BY <1>2, <2>2, <3>1
  <2> QED
    BY <2>1, <2>2
<1>5. /\ \A m \in Lines : \A k \in 1 .. Len(L[m]) : k \in 1 .. Len(M[m]) /\ M[m][k] = L[m][k]
      /\ last \in 1 .. Len(M[l]) /\ M[l][last] = e
  <2>1. \A k \in 1 .. Len(L[l]) : k \in 1 .. Len(M[l]) /\ M[l][k] = L[l][k]
    BY <1>2, <1>3
  <2>2. last \in 1 .. Len(M[l]) /\ M[l][last] = e
    BY <1>2, <1>3
  <2> QED
    BY <1>3, <2>1, <2>2
<1> HIDE DEF M, last
<1>6. \A m \in Lines : \A k \in 1 .. Len(M[m]) : Id(M[m][k]) \in S \cup {Id(e)}
  BY <1>4 DEF Once
<1>7. \A i \in S \cup {Id(e)} : \E m \in Lines : \E k \in 1 .. Len(M[m]) : Id(M[m][k]) = i
  <2> SUFFICES ASSUME NEW i \in S \cup {Id(e)}
               PROVE  \E m \in Lines : \E k \in 1 .. Len(M[m]) : Id(M[m][k]) = i
    OBVIOUS
  <2>1. CASE i = Id(e)
    BY <1>5, <2>1
  <2>2. CASE i \in S
    <3>0. PICK m \in Lines : \E n \in 1 .. Len(L[m]) : Id(L[m][n]) = i
      BY <2>2 DEF Once
    <3>1. PICK n \in 1 .. Len(L[m]) : Id(L[m][n]) = i
      BY <3>0
    <3>2. n \in 1 .. Len(M[m]) /\ Id(M[m][n]) = i
      BY <1>5, <3>1
    <3> QED
      BY <3>2
  <2> QED
    BY <2>1, <2>2
<1>8. \A m, p \in Lines : \A k \in 1 .. Len(M[m]), n \in 1 .. Len(M[p]) :
        Id(M[m][k]) = Id(M[p][n]) => m = p /\ k = n
  <2> SUFFICES ASSUME NEW m \in Lines, NEW p \in Lines, NEW k \in 1 .. Len(M[m]), NEW n \in 1 .. Len(M[p]),
                      Id(M[m][k]) = Id(M[p][n])
               PROVE  m = p /\ k = n
    OBVIOUS
  <2>1. \/ k \in 1 .. Len(L[m]) /\ M[m][k] = L[m][k] /\ Id(M[m][k]) \in S
        \/ m = l /\ k = last /\ M[m][k] = e
    BY <1>4 DEF Once
  <2>2. \/ n \in 1 .. Len(L[p]) /\ M[p][n] = L[p][n] /\ Id(M[p][n]) \in S
        \/ p = l /\ n = last /\ M[p][n] = e
    BY <1>4 DEF Once
  <2>3. CASE Id(M[m][k]) \in S
    <3>1. /\ k \in 1 .. Len(L[m]) /\ M[m][k] = L[m][k]
          /\ n \in 1 .. Len(L[p]) /\ M[p][n] = L[p][n]
      BY <2>1, <2>2, <2>3
    <3>2. Id(L[m][k]) = Id(L[p][n])
      BY <3>1
    <3> QED
      BY <1>0, <3>1, <3>2
  <2>4. CASE Id(M[m][k]) \notin S
    BY <2>1, <2>2, <2>4
  <2> QED
    BY <2>3, <2>4
<1> QED
  BY <1>3, <1>6, <1>7, <1>8 DEF Once, M

\* What the lines hold, and whose messages they are.
Held == [l \in Lines |-> Line(l)]
OnTheirWay == {i \in Ids : fate[i] = "sent"}
OnceInv ==
  /\ Once(Held, OnTheirWay)
  /\ \A a \in Asker : wait[a].at = "idle" => wait[a].aside = <<>>

OverLines(M) == M = [l \in Lines |-> M[l]]

Queue == <<"inbound", Loop>>
Aside(a) == <<"aside", a>>
Hand(a) == <<"hand", a>>

LEMMA TheLines ==
  /\ Queue \in Lines
  /\ \A a \in Asker : Aside(a) \in Lines /\ Hand(a) \in Lines
  /\ \A l \in Lines : l = Queue \/ \E a \in Asker : l = Aside(a) \/ l = Hand(a)
  /\ \A a, b : /\ Queue # Aside(a) /\ Queue # Hand(a) /\ Aside(a) # Hand(b)
               /\ a # b => Aside(a) # Aside(b) /\ Hand(a) # Hand(b)
BY DEF Lines, Queue, Aside, Hand

LEMMA HeldNow ==
  /\ OverLines(Held) /\ Held[Queue] = inbound
  /\ \A a \in Asker : Held[Aside(a)] = wait[a].aside /\ Held[Hand(a)] = wait[a].hand
<1>1. Line(Queue) = inbound /\ \A a \in Asker : Line(Aside(a)) = wait[a].aside /\ Line(Hand(a)) = wait[a].hand
  BY DEF Line, Queue, Aside, Hand
<1> QED
  BY <1>1, TheLines DEF Held, OverLines

\* What the lines hold after a step.
LEMMA HeldThen ==
  ASSUME NEW M, OverLines(M), M[Queue] = inbound',
         \A a \in Asker : M[Aside(a)] = wait'[a].aside /\ M[Hand(a)] = wait'[a].hand
  PROVE  Held' = M
<1>1. Line(Queue)' = inbound' /\ \A a \in Asker : Line(Aside(a))' = wait'[a].aside /\ Line(Hand(a))' = wait'[a].hand
  BY DEF Line, Queue, Aside, Hand
<1>2. \A l \in Lines : Line(l)' = M[l]
  <2> SUFFICES ASSUME NEW l \in Lines PROVE Line(l)' = M[l]
    OBVIOUS
  <2>1. CASE l = Queue
    BY <1>1, <2>1
  <2>2. CASE \E a \in Asker : l = Aside(a) \/ l = Hand(a)
    BY <1>1, <2>2
  <2> QED
    BY <2>1, <2>2, TheLines
<1>3. Held' = [l \in Lines |-> Line(l)']
  BY DEF Held, Lines, Asker
<1> QED
  BY <1>2, <1>3 DEF OverLines

\* One thread's wait changes, and perhaps the queue.
LEMMA HeldOfOne ==
  ASSUME WaitInv, NEW a \in Asker, NEW w, wait' = [wait EXCEPT ![a] = w],
         NEW M, OverLines(M), M[Queue] = inbound', M[Aside(a)] = w.aside, M[Hand(a)] = w.hand,
         \A b \in Asker : b # a => M[Aside(b)] = Held[Aside(b)] /\ M[Hand(b)] = Held[Hand(b)]
  PROVE  Held' = M /\ wait'[a] = w /\ \A b \in Asker : b # a => wait'[b] = wait[b]
<1>1. wait'[a] = w /\ \A b \in Asker : b # a => wait'[b] = wait[b]
  BY DEF WaitInv, WaitsOK
<1>2. \A b \in Asker : M[Aside(b)] = wait'[b].aside /\ M[Hand(b)] = wait'[b].hand
  BY <1>1, HeldNow
<1> QED
  BY <1>1, <1>2, HeldThen

\* A message that is on no line goes into the queue, or is lost.
LEMMA PushOnce ==
  ASSUME FateOK, NEW e \in Message, Push(e), NEW M, Once(M, OnTheirWay \ {Id(e)}), M[Queue] = inbound
  PROVE  Once([M EXCEPT ![Queue] = inbound'], OnTheirWay')
<1>1. OverLines(M) /\ Queue \in Lines /\ Id(e) \in Ids /\ fate \in [Ids -> Fate]
  BY TheLines, IdType DEF Once, FateOK, OverLines
<1>2. CASE Len(inbound) < InboundLen
  <2>1. inbound' = Append(inbound, e) /\ fate' = [fate EXCEPT ![Id(e)] = "sent"]
    BY <1>2 DEF Push
  <2>2. OnTheirWay' = (OnTheirWay \ {Id(e)}) \cup {Id(e)}
    BY <1>1, <2>1 DEF OnTheirWay, Ids
  <2>3. [M EXCEPT ![Queue] = inbound'] = [M EXCEPT ![Queue] = Append(@, e)]
    BY <2>1
  <2> QED
    BY <1>1, <2>2, <2>3, PutOnce
<1>3. CASE ~(Len(inbound) < InboundLen)
  <2>1. inbound' = inbound /\ fate' = [fate EXCEPT ![Id(e)] = "lost"]
    BY <1>3 DEF Push
  <2>2. OnTheirWay' = OnTheirWay \ {Id(e)}
    BY <1>1, <2>1 DEF OnTheirWay, Ids
  <2>3. [M EXCEPT ![Queue] = inbound'] = M
    BY <1>1, <2>1 DEF OverLines
  <2> QED
    BY <2>2, <2>3
<1> QED
  BY <1>2, <1>3

\* The users and their clients.
LEMMA SendOnce ==
  ASSUME WaitInv, OnceInv, NEW e \in Message, fate[Id(e)] = "none", Push(e), UNCHANGED wait
  PROVE  OnceInv'
<1>1. Once(Held, OnTheirWay \ {Id(e)})
  <2>1. OnTheirWay \ {Id(e)} = OnTheirWay
    BY DEF OnTheirWay
  <2> QED
    BY <2>1 DEF OnceInv
<1> DEFINE M == [Held EXCEPT ![Queue] = inbound']
<1>2. Once(M, OnTheirWay')
  BY <1>1, HeldNow, PushOnce DEF WaitInv
<1>3. /\ OverLines(M) /\ M[Queue] = inbound'
      /\ \A a \in Asker : M[Aside(a)] = wait'[a].aside /\ M[Hand(a)] = wait'[a].hand
  BY HeldNow, TheLines DEF OverLines
<1> HIDE DEF M
<1>4. Held' = M
  BY <1>3, HeldThen
<1> QED
  BY <1>2, <1>4 DEF OnceInv

\* The queue's first message comes off it and out of the world.
LEMMA SettleOnce ==
  ASSUME WaitInv, OnceInv, inbound # <<>>, inbound' = Tail(inbound),
         NEW v, v # "sent", fate' = [fate EXCEPT ![Id(Head(inbound))] = v]
  PROVE  LET M == [Held EXCEPT ![Queue] = inbound'] IN
           /\ Once(M, OnTheirWay') /\ OverLines(M) /\ M[Queue] = inbound'
           /\ \A a \in Asker : M[Aside(a)] = Held[Aside(a)] /\ M[Hand(a)] = Held[Hand(a)]
<1>1. Once(Held, OnTheirWay) /\ Held[Queue] = inbound /\ Queue \in Lines
  BY HeldNow, TheLines DEF OnceInv
<1>2. Once([Held EXCEPT ![Queue] = Tail(@)], OnTheirWay \ {Id(Head(inbound))}) /\ Id(Head(inbound)) \in OnTheirWay
  BY <1>1, TakeOnce
<1>3. OnTheirWay' = OnTheirWay \ {Id(Head(inbound))}
  BY <1>2 DEF OnTheirWay, WaitInv, FateOK
<1>4. [Held EXCEPT ![Queue] = inbound'] = [Held EXCEPT ![Queue] = Tail(@)]
  BY <1>1
<1> QED
  BY <1>2, <1>3, <1>4, HeldNow, TheLines DEF OverLines

LEMMA LoopTakesOnce ==
  ASSUME WaitInv, OnceInv, LoopTakes
  PROVE  OnceInv'
<1>1. /\ inbound # <<>> /\ inbound' = Tail(inbound) /\ UNCHANGED wait
      /\ \E v \in {"ignored", "handled"} : fate' = [fate EXCEPT ![Id(Head(inbound))] = v]
  BY DEF LoopTakes
<1> DEFINE M == [Held EXCEPT ![Queue] = inbound']
<1>2. /\ Once(M, OnTheirWay') /\ OverLines(M) /\ M[Queue] = inbound'
      /\ \A a \in Asker : M[Aside(a)] = Held[Aside(a)] /\ M[Hand(a)] = Held[Hand(a)]
  BY <1>1, SettleOnce
<1> HIDE DEF M
<1>2a. \A a \in Asker : M[Aside(a)] = wait'[a].aside /\ M[Hand(a)] = wait'[a].hand
  BY <1>1, <1>2, HeldNow
<1>3. Held' = M
  BY <1>2, <1>2a, HeldThen
<1> QED
  BY <1>1, <1>2, <1>3 DEF OnceInv

\* The threads that wait.
LEMMA ShapeOfWait ==
  ASSUME WaitInv, NEW a \in Asker
  PROVE  /\ wait = [b \in Asker |-> wait[b]]
         /\ wait[a] = [f \in {"at", "request", "aside", "hand"} |-> wait[a][f]]
         /\ wait[a].aside \in Seq(Message) /\ wait[a].hand \in Seq(Message)
         /\ wait[a].at # "bounce" => wait[a].hand = <<>>
         /\ wait[a].at = "bounce" => Len(wait[a].hand) = 1
<1>1. wait[a] \in Waits /\ GoodWait(a, wait[a], requests, Known) /\ wait \in [Asker -> Waits]
  BY DEF WaitInv, WaitsOK
<1>2. wait[a].aside \in Seq(Message) /\ wait[a].hand \in Seq(Message)
  BY <1>1 DEF Waits
<1>3. Len(wait[a].hand) = (IF wait[a].at = "bounce" THEN 1 ELSE 0)
  BY <1>1 DEF GoodWait
<1>4. wait[a] = [f \in {"at", "request", "aside", "hand"} |-> wait[a][f]]
  BY <1>1 DEF Waits
<1> QED
  BY <1>1, <1>2, <1>3, <1>4, EmptySeq

LEMMA PopOnce ==
  ASSUME WaitInv, OnceInv, NEW a \in Asker, Pop(a)
  PROVE  OnceInv'
<1> DEFINE e == Head(inbound)
           fields == {"at", "request", "aside", "hand"}
<1>1. wait[a].at = "waiting" /\ inbound # <<>> /\ inbound' = Tail(inbound)
  BY DEF Pop
<1>2. /\ wait = [b \in Asker |-> wait[b]] /\ wait[a] = [f \in fields |-> wait[a][f]]
      /\ wait[a].hand = <<>> /\ wait[a].aside \in Seq(Message)
  BY <1>1, ShapeOfWait
<1>3. CASE Matches(a, e)
  <2> DEFINE M == [Held EXCEPT ![Queue] = inbound']
             w == [wait[a] EXCEPT !.at = "flush"]
  <2>1. fate' = [fate EXCEPT ![Id(e)] = "taken"] /\ wait' = [wait EXCEPT ![a] = w]
    BY <1>3 DEF Pop
  <2>2. w.at = "flush" /\ w.aside = wait[a].aside /\ w.hand = wait[a].hand
    BY <1>2
  <2>3. /\ Once(M, OnTheirWay') /\ OverLines(M) /\ M[Queue] = inbound'
        /\ \A b \in Asker : M[Aside(b)] = Held[Aside(b)] /\ M[Hand(b)] = Held[Hand(b)]
    BY <1>1, <2>1, SettleOnce
  <2> HIDE DEF M, w
  <2>3a. M[Aside(a)] = w.aside /\ M[Hand(a)] = w.hand
    BY <2>2, <2>3, HeldNow
  <2>4. Held' = M /\ wait'[a] = w /\ \A b \in Asker : b # a => wait'[b] = wait[b]
    BY <2>1, <2>3, <2>3a, HeldOfOne
  <2> QED
    BY <2>2, <2>3, <2>4 DEF OnceInv
<1>4. ASSUME ~Matches(a, e)
      PROVE  OnceInv'
  <2>1. Once(Held, OnTheirWay) /\ Held[Queue] = inbound /\ Queue \in Lines
    BY HeldNow, TheLines DEF OnceInv
  <2> DEFINE M == [Held EXCEPT ![Queue] = Tail(@)]
             l == IF HasRoom(a) THEN Aside(a) ELSE Hand(a)
             N == [M EXCEPT ![l] = Append(@, e)]
  <2>2. e \in Message /\ Id(e) \in OnTheirWay /\ Once(M, OnTheirWay \ {Id(e)})
    BY <1>1, <2>1, TakeOnce
  <2>3. l \in Lines /\ l # Queue
    BY TheLines
  <2>4. fate' = fate
    BY <1>4 DEF Pop
  <2>5. Once(N, OnTheirWay')
    <3>1. Once(N, (OnTheirWay \ {Id(e)}) \cup {Id(e)})
      BY <2>2, <2>3, PutOnce
    <3>2. OnTheirWay' = (OnTheirWay \ {Id(e)}) \cup {Id(e)}
      BY <2>2, <2>4 DEF OnTheirWay, Ids
    <3> QED
      BY <3>1, <3>2
  <2>6. /\ OverLines(N) /\ N[Queue] = inbound' /\ N[l] = Append(Held[l], e)
        /\ \A m \in Lines : m # Queue /\ m # l => N[m] = Held[m]
    BY <1>1, <2>1, <2>3, HeldNow DEF OverLines
  <2> HIDE DEF N, M
  <2>7. CASE HasRoom(a)
    <3> DEFINE w == [wait[a] EXCEPT !.aside = Append(@, e)]
    <3>1. wait' = [wait EXCEPT ![a] = w]
      BY <1>4, <2>7 DEF Pop
    <3>2. w.at = "waiting" /\ w.aside = Append(wait[a].aside, e) /\ w.hand = <<>>
      BY <1>1, <1>2
    <3>3. N[Aside(a)] = w.aside /\ N[Hand(a)] = w.hand
      BY <1>2, <2>6, <2>7, <3>2, HeldNow, TheLines
    <3>4. \A b \in Asker : b # a => N[Aside(b)] = Held[Aside(b)] /\ N[Hand(b)] = Held[Hand(b)]
      BY <2>6, <2>7, TheLines
    <3> HIDE DEF w
    <3>5. Held' = N /\ wait'[a] = w /\ \A b \in Asker : b # a => wait'[b] = wait[b]
      BY <2>6, <3>1, <3>3, <3>4, HeldOfOne
    <3> QED
      BY <2>5, <3>2, <3>5 DEF OnceInv
  <2>8. CASE ~HasRoom(a)
    <3> DEFINE w == [wait[a] EXCEPT !.at = "bounce", !.hand = <<e>>]
    <3>1. wait' = [wait EXCEPT ![a] = w]
      BY <1>4, <2>8 DEF Pop
    <3>2. w.at = "bounce" /\ w.aside = wait[a].aside /\ w.hand = <<e>>
      BY <1>2
    <3>3. N[Aside(a)] = w.aside /\ N[Hand(a)] = w.hand
      <4>1. Append(<<>>, e) = <<e>>
        OBVIOUS
      <4>2. Held[Hand(a)] = <<>> /\ Held[Aside(a)] = wait[a].aside
        BY <1>2, HeldNow
      <4>3. N[Hand(a)] = <<e>>
        BY <2>6, <2>8, <4>1, <4>2
      <4>4. N[Aside(a)] = wait[a].aside
        BY <2>6, <2>8, <4>2, TheLines
      <4> QED
        BY <3>2, <4>3, <4>4
    <3>4. \A b \in Asker : b # a => N[Aside(b)] = Held[Aside(b)] /\ N[Hand(b)] = Held[Hand(b)]
      BY <2>6, <2>8, TheLines
    <3> HIDE DEF w
    <3>5. Held' = N /\ wait'[a] = w /\ \A b \in Asker : b # a => wait'[b] = wait[b]
      BY <2>6, <3>1, <3>3, <3>4, HeldOfOne
    <3> QED
      BY <2>5, <3>2, <3>5 DEF OnceInv
  <2> QED
    BY <2>7, <2>8
<1> QED
  BY <1>3, <1>4

\* The first of an array, or a hand, goes back to the queue.
LEMMA ReturnOnce ==
  ASSUME WaitInv, OnceInv, NEW a \in Asker, NEW l \in {Aside(a), Hand(a)}, Held[l] # <<>>,
         Push(Head(Held[l])), NEW w, wait' = [wait EXCEPT ![a] = w], w.at # "idle",
         w.aside = IF l = Aside(a) THEN Tail(Held[l]) ELSE wait[a].aside,
         w.hand = IF l = Hand(a) THEN Tail(Held[l]) ELSE wait[a].hand
  PROVE  OnceInv'
<1> DEFINE e == Head(Held[l])
           M == [Held EXCEPT ![l] = Tail(@)]
           N == [M EXCEPT ![Queue] = inbound']
<1>1. l \in Lines /\ l # Queue /\ Queue \in Lines /\ Once(Held, OnTheirWay) /\ OverLines(Held)
  BY TheLines, HeldNow DEF OnceInv
<1>2. e \in Message /\ Once(M, OnTheirWay \ {Id(e)})
  BY <1>1, TakeOnce
<1>3. M[Queue] = inbound
  BY <1>1, HeldNow
<1>4. Once(N, OnTheirWay')
  BY <1>2, <1>3, PushOnce DEF WaitInv
<1>5. /\ OverLines(N) /\ N[Queue] = inbound' /\ N[l] = Tail(Held[l])
      /\ \A m \in Lines : m # Queue /\ m # l => N[m] = Held[m]
  BY <1>1 DEF OverLines
<1> HIDE DEF N, M
<1>6. N[Aside(a)] = w.aside /\ N[Hand(a)] = w.hand
  <2>1. CASE l = Aside(a)
    BY <1>5, <2>1, HeldNow, TheLines
  <2>2. CASE l = Hand(a)
    BY <1>5, <2>2, HeldNow, TheLines
  <2> QED
    BY <2>1, <2>2
<1>7. \A b \in Asker : b # a => N[Aside(b)] = Held[Aside(b)] /\ N[Hand(b)] = Held[Hand(b)]
  BY <1>5, TheLines
<1>8. Held' = N /\ wait'[a] = w /\ \A b \in Asker : b # a => wait'[b] = wait[b]
  BY <1>5, <1>6, <1>7, HeldOfOne
<1> QED
  BY <1>4, <1>8 DEF OnceInv

LEMMA GiveBackOnce ==
  ASSUME WaitInv, OnceInv, NEW a \in Asker, GiveBack(a)
  PROVE  OnceInv'
<1> DEFINE w == [wait[a] EXCEPT !.at = "waiting", !.hand = <<>>]
<1>1. wait[a].at = "bounce" /\ Push(wait[a].hand[1]) /\ wait' = [wait EXCEPT ![a] = w]
  BY DEF GiveBack
<1>2. /\ wait[a] = [f \in {"at", "request", "aside", "hand"} |-> wait[a][f]]
      /\ wait[a].hand \in Seq(Message) /\ Len(wait[a].hand) = 1
  BY <1>1, ShapeOfWait
<1>3. w.at = "waiting" /\ w.aside = wait[a].aside /\ w.hand = <<>>
  BY <1>2
<1>4. wait[a].hand # <<>> /\ Tail(wait[a].hand) = <<>> /\ Head(wait[a].hand) = wait[a].hand[1]
  <2> DEFINE h == wait[a].hand
  <2>1. h \in Seq(Message) /\ Len(h) = 1
    BY <1>2
  <2> HIDE DEF h
  <2>2. h # <<>>
    BY <2>1, EmptySeq
  <2>3. Tail(h) \in Seq(Message) /\ Len(Tail(h)) = 0 /\ Head(h) = h[1]
    BY <2>1, <2>2, HeadTailProperties
  <2>4. Tail(h) = <<>>
    BY <2>3, EmptySeq
  <2> QED
    BY <2>2, <2>3, <2>4 DEF h
<1>5. Held[Hand(a)] = wait[a].hand /\ Hand(a) # Aside(a)
  BY HeldNow, TheLines
<1> HIDE DEF w
<1> QED
  BY <1>1, <1>3, <1>4, <1>5, ReturnOnce

LEMMA FlushOnce ==
  ASSUME WaitInv, OnceInv, NEW a \in Asker, Flush(a)
  PROVE  OnceInv'
<1> DEFINE w == [wait[a] EXCEPT !.aside = Tail(@)]
<1>1. /\ wait[a].at = "flush" /\ wait[a].aside # <<>>
      /\ Push(Head(wait[a].aside)) /\ wait' = [wait EXCEPT ![a] = w]
  BY DEF Flush
<1>2. wait[a] = [f \in {"at", "request", "aside", "hand"} |-> wait[a][f]]
  BY ShapeOfWait
<1>3. w.at = "flush" /\ w.aside = Tail(wait[a].aside) /\ w.hand = wait[a].hand
  BY <1>1, <1>2
<1>4. Held[Aside(a)] = wait[a].aside /\ Hand(a) # Aside(a)
  BY HeldNow, TheLines
<1> HIDE DEF w
<1> QED
  BY <1>1, <1>3, <1>4, ReturnOnce

\* A wait begins, runs out or ends: no message moves.
LEMMA StillOnce ==
  ASSUME WaitInv, OnceInv, UNCHANGED <<inbound, fate>>, NEW a \in Asker, NEW w,
         wait' = [wait EXCEPT ![a] = w], w.aside = wait[a].aside, w.hand = wait[a].hand,
         w.at = "idle" => w.aside = <<>>
  PROVE  OnceInv'
<1>1. Held' = Held /\ wait'[a] = w /\ \A b \in Asker : b # a => wait'[b] = wait[b]
  <2>1. OverLines(Held) /\ Held[Queue] = inbound' /\ Held[Aside(a)] = w.aside /\ Held[Hand(a)] = w.hand
    BY HeldNow
  <2> QED
    BY <2>1, HeldOfOne
<1>2. OnTheirWay' = OnTheirWay
  BY DEF OnTheirWay, Ids
<1> QED
  BY <1>1, <1>2 DEF OnceInv

LEMMA AskOnce ==
  ASSUME WaitInv, OnceInv, NEW a \in Asker, NEW chat, NEW type, Ask(a, chat, type)
  PROVE  OnceInv'
<1> DEFINE w == [NoWait EXCEPT !.at = "waiting", !.request = Len(requests) + 1]
<1>1. wait[a].at = "idle" /\ wait' = [wait EXCEPT ![a] = w] /\ UNCHANGED <<inbound, fate>>
  BY DEF Ask
<1>2. w.at = "waiting" /\ w.aside = <<>> /\ w.hand = <<>>
  BY DEF NoWait
<1>3. wait[a].aside = <<>> /\ wait[a].hand = <<>>
  BY <1>1, ShapeOfWait DEF OnceInv
<1> HIDE DEF w
<1> QED
  BY <1>1, <1>2, <1>3, StillOnce

LEMMA OverOnce ==
  ASSUME WaitInv, OnceInv, NEW a \in Asker, Expire(a) \/ WaitEnds(a)
  PROVE  OnceInv'
<1>1. CASE Expire(a)
  <2> DEFINE w == [wait[a] EXCEPT !.at = "flush"]
  <2>1. wait' = [wait EXCEPT ![a] = w] /\ UNCHANGED <<inbound, fate>>
    BY <1>1 DEF Expire
  <2>2. wait[a] = [f \in {"at", "request", "aside", "hand"} |-> wait[a][f]]
    BY ShapeOfWait
  <2>3. w.at = "flush" /\ w.aside = wait[a].aside /\ w.hand = wait[a].hand
    BY <2>2
  <2> HIDE DEF w
  <2> QED
    BY <2>1, <2>3, StillOnce
<1>2. CASE WaitEnds(a)
  <2>1. wait[a].at = "flush" /\ wait[a].aside = <<>> /\ wait' = [wait EXCEPT ![a] = NoWait] /\ UNCHANGED <<inbound, fate>>
    BY <1>2 DEF WaitEnds
  <2>2. wait[a].hand = <<>> /\ NoWait.aside = <<>> /\ NoWait.hand = <<>>
    BY <2>1, ShapeOfWait DEF NoWait
  <2> QED
    BY <2>1, <2>2, StillOnce
<1> QED
  BY <1>1, <1>2

LEMMA OnceStep ==
  ASSUME WaitInv, OnceInv, [WaitNext]_waitVars
  PROVE  OnceInv'
<1>1. CASE UNCHANGED waitVars
  <2>1. UNCHANGED <<inbound, wait, fate>>
    BY <1>1 DEF waitVars
  <2>2. Held' = Held
    BY <2>1, HeldNow, HeldThen
  <2>3. OnTheirWay' = OnTheirWay
    BY <2>1 DEF OnTheirWay, Ids
  <2> QED
    BY <2>1, <2>2, <2>3 DEF OnceInv
<1>2. ASSUME NEW chat \in Chat, Say(chat) PROVE OnceInv'
  <2>1. PICK n \in 1 .. MaxSaid :
          fate[<<"user", n>>] = "none" /\ Push([kind |-> "user", chat |-> chat, n |-> n])
    BY <1>2 DEF Say
  <2> DEFINE e == [kind |-> "user", chat |-> chat, n |-> n]
  <2>2. e \in Message /\ Id(e) = <<"user", n>> /\ UNCHANGED wait
    BY <1>2 DEF Message, Id, Say
  <2> HIDE DEF e
  <2>3. Push(e)
    BY <2>1 DEF e
  <2> QED
    BY <2>1, <2>2, <2>3, SendOnce
<1>3. ASSUME NEW r \in 1 .. Len(requests), Answer(r) PROVE OnceInv'
  <2>1. PICK chat \in {requests[r].shown} \cup ({requests[r].asker} \cap Worker) :
          Push([kind |-> "reply", chat |-> chat, n |-> r])
    BY <1>3 DEF Answer
  <2>2. r \in 1 .. MaxRequests /\ requests[r] \in Request
    BY WaitAssumption DEF WaitInv, RequestsOK
  <2>3. chat \in Chat \cup Worker
    BY <2>1, <2>2 DEF Request
  <2> DEFINE e == [kind |-> "reply", chat |-> chat, n |-> r]
  <2>4. e \in Message /\ Id(e) = <<"reply", r>> /\ UNCHANGED wait /\ fate[<<"reply", r>>] = "none"
    BY <1>3, <2>2, <2>3 DEF Message, Id, Answer
  <2> HIDE DEF e
  <2>5. Push(e)
    BY <2>1 DEF e
  <2> QED
    BY <2>4, <2>5, SendOnce
<1>4. CASE TurnEnds
  <2>1. UNCHANGED <<inbound, wait, fate>>
    BY <1>4 DEF TurnEnds
  <2>2. Held' = Held /\ OnTheirWay' = OnTheirWay
    BY <2>1, HeldNow, HeldThen DEF OnTheirWay, Ids
  <2> QED
    BY <2>1, <2>2 DEF OnceInv
<1>5. CASE LoopAsks
  <2>1. Loop \in Asker
    BY DEF Asker
  <2> QED
    BY <1>5, <2>1, AskOnce DEF LoopAsks
<1>6. ASSUME NEW t \in Worker, WorkerAsks(t) PROVE OnceInv'
  <2>1. t \in Asker
    BY DEF Asker
  <2> QED
    BY <1>6, <2>1, AskOnce DEF WorkerAsks
<1>7. ASSUME NEW a \in Asker, WaitSteps(a) PROVE OnceInv'
  BY <1>7, PopOnce, GiveBackOnce, FlushOnce, OverOnce DEF WaitSteps
<1> QED
  BY <1>1, <1>2, <1>3, <1>4, <1>5, <1>6, <1>7, LoopTakesOnce DEF WaitNext

\* However the loop and the waits take turns at the queue and give back what is not
\* theirs, a message on its way is in the queue, in an array or in a hand, once; a
\* settled one is in none of them (channel_runtime_wait_interactive_reply).
THEOREM MessagesAreOnce == WaitSpec => []EveryMessageOnce
<1>1. WaitInit => OnceInv
  <2> SUFFICES ASSUME WaitInit PROVE OnceInv
    OBVIOUS
  <2>1. inbound = <<>> /\ \A a \in Asker : wait[a] = NoWait
    BY DEF WaitInit
  <2>2. NoWait.aside = <<>> /\ NoWait.hand = <<>>
    BY DEF NoWait
  <2>3. \A l \in Lines : Held[l] = <<>>
    BY <2>1, <2>2, HeldNow, TheLines
  <2>4. Held \in [Lines -> Seq(Message)]
    BY <2>3, EmptySeq, HeldNow DEF OverLines
  <2>5. OnTheirWay = {}
    BY DEF WaitInit, OnTheirWay
  <2> QED
    BY <2>1, <2>2, <2>3, <2>4, <2>5, EmptySeq DEF OnceInv, Once
<1>2. WaitInv /\ OnceInv /\ [WaitNext]_waitVars => OnceInv'
  BY OnceStep
<1>3. OnceInv => EveryMessageOnce
  <2> SUFFICES ASSUME OnceInv, NEW i \in Ids
               PROVE  /\ fate[i] = "sent" => \E p \in Places(i) : Places(i) = {p}
                      /\ fate[i] # "sent" => Places(i) = {}
    BY DEF EveryMessageOnce
  <2>1. /\ \A l \in Lines : \A k \in 1 .. Len(Line(l)) : Id(Line(l)[k]) \in OnTheirWay
        /\ \A j \in OnTheirWay : \E l \in Lines : \E k \in 1 .. Len(Line(l)) : Id(Line(l)[k]) = j
        /\ \A l, m \in Lines : \A k \in 1 .. Len(Line(l)), n \in 1 .. Len(Line(m)) :
             Id(Line(l)[k]) = Id(Line(m)[n]) => l = m /\ k = n
    BY DEF OnceInv, Once, Held
  <2>2. \A p : p \in Places(i) <=>
          \E l \in Lines : \E k \in 1 .. Len(Line(l)) : p = <<l, k>> /\ Id(Line(l)[k]) = i
    BY DEF Places
  <2>3. ASSUME fate[i] = "sent" PROVE \E p \in Places(i) : Places(i) = {p}
    <3>1. i \in OnTheirWay
      BY <2>3 DEF OnTheirWay
    <3>2. PICK l \in Lines : \E k \in 1 .. Len(Line(l)) : Id(Line(l)[k]) = i
      BY <2>1, <3>1
    <3>3. PICK k \in 1 .. Len(Line(l)) : Id(Line(l)[k]) = i
      BY <3>2
    <3>4. <<l, k>> \in Places(i)
      BY <2>2, <3>3
    <3>5. \A p \in Places(i) : p = <<l, k>>
      BY <2>1, <2>2, <3>3
    <3> QED
      BY <3>4, <3>5
  <2>4. ASSUME fate[i] # "sent" PROVE Places(i) = {}
    BY <2>1, <2>2, <2>4 DEF OnTheirWay
  <2> QED
    BY <2>3, <2>4
<1> QED
  BY <1>1, <1>2, <1>3, WaitInvAlways, PTL DEF WaitSpec

-----------------------------------------------------------------------------
(*                        Histories and summaries.                         *)

-----------------------------------------------------------------------------
(* Sequences. *)

\* A sequence from its elements.
LEMMA FromElements ==
  ASSUME NEW S, NEW n \in Nat, NEW s, s = [k \in 1..n |-> s[k]], \A k \in 1..n : s[k] \in S
  PROVE  s \in Seq(S) /\ Len(s) = n /\ DOMAIN s = 1..n
<1>1. s \in [1..n -> S]
  OBVIOUS
<1>2. s \in Seq(S)
  BY <1>1, SeqDef
<1> QED
  BY <1>1, <1>2, LenProperties

\* What was seen is the beginning of what is there now.
Begins(seen, latest) ==
  Len(seen) <= Len(latest) /\ \A k \in 1..Len(seen) : latest[k] = seen[k]

\* The compacted history is what is there without the middle of what was seen.
LEMMA CompactedIs ==
  ASSUME NEW S, NEW seen \in Seq(S), NEW latest \in Seq(S), Begins(seen, latest),
         ProtectFirst + ProtectLast < Len(seen)
  PROVE  LET d == Len(seen) - ProtectLast - ProtectFirst
             r == Compacted(seen, latest)
         IN  /\ d \in Nat \ {0} /\ Len(latest) - d \in Nat
             /\ r \in Seq(S) /\ Len(r) = Len(latest) - d
             /\ \A k \in 1..(Len(latest) - d) : r[k] = IF k <= ProtectFirst THEN latest[k] ELSE latest[k + d]
<1> DEFINE n == Len(seen)
           l == Len(latest)
           f == ProtectFirst
           p == ProtectLast
           d == n - p - f
           first == SubSeq(seen, 1, f)
           last == SubSeq(seen, n - p + 1, n)
           since == SubSeq(latest, n + 1, l)
<1>1. /\ n \in Nat /\ l \in Nat /\ f \in Nat \ {0} /\ p \in Nat \ {0} /\ f + p < n /\ n <= l
      /\ \A k \in 1..n : latest[k] = seen[k]
  BY ChatAssumption, LenProperties DEF Begins
<1>2. first \in Seq(S) /\ Len(first) = f /\ \A k \in 1..f : first[k] = latest[k]
  <2>1. 1 \in 1..(n + 1) /\ f \in (1 - 1)..n /\ f - 1 + 1 = f /\ \A k \in 1..f : 1 + k - 1 = k /\ k \in 1..n
    BY <1>1
  <2>2. first \in Seq(S) /\ Len(first) = f - 1 + 1 /\ \A k \in 1..(f - 1 + 1) : first[k] = seen[1 + k - 1]
    BY <2>1, SubSeqProperties
  <2> QED
    BY <1>1, <2>1, <2>2
<1>3. last \in Seq(S) /\ Len(last) = p /\ \A k \in 1..p : last[k] = latest[n - p + k]
  <2>1. /\ n - p + 1 \in 1..(n + 1) /\ n \in ((n - p + 1) - 1)..n /\ n - (n - p + 1) + 1 = p
        /\ \A k \in 1..p : (n - p + 1) + k - 1 = n - p + k /\ n - p + k \in 1..n
    BY <1>1
  <2>2. /\ last \in Seq(S) /\ Len(last) = n - (n - p + 1) + 1
        /\ \A k \in 1..(n - (n - p + 1) + 1) : last[k] = seen[(n - p + 1) + k - 1]
    BY <2>1, SubSeqProperties
  <2> QED
    BY <1>1, <2>1, <2>2
<1>4. since \in Seq(S) /\ Len(since) = l - n /\ \A k \in 1..(l - n) : since[k] = latest[n + k]
  <2>1. /\ n + 1 \in 1..(l + 1) /\ l \in ((n + 1) - 1)..l /\ l - (n + 1) + 1 = l - n
        /\ \A k \in 1..(l - n) : (n + 1) + k - 1 = n + k
    BY <1>1
  <2>2. /\ since \in Seq(S) /\ Len(since) = l - (n + 1) + 1
        /\ \A k \in 1..(l - (n + 1) + 1) : since[k] = latest[(n + 1) + k - 1]
    BY <2>1, SubSeqProperties
  <2> QED
    BY <2>1, <2>2
<1> HIDE DEF first, last, since
<1>5. /\ first \o last \in Seq(S) /\ Len(first \o last) = f + p
      /\ \A k \in 1..(f + p) : (first \o last)[k] = IF k <= f THEN latest[k] ELSE latest[k + d]
  <2>1. /\ first \o last \in Seq(S) /\ Len(first \o last) = f + p
        /\ \A k \in 1..(f + p) : (first \o last)[k] = IF k <= f THEN first[k] ELSE last[k - f]
    <3>1. /\ first \o last \in Seq(S) /\ Len(first \o last) = Len(first) + Len(last)
          /\ \A k \in 1..(Len(first) + Len(last)) :
               (first \o last)[k] = IF k <= Len(first) THEN first[k] ELSE last[k - Len(first)]
      BY <1>2, <1>3, ConcatProperties
    <3>2. Len(first) = f /\ Len(last) = p
      BY <1>2, <1>3
    <3> QED
      BY <3>1, <3>2
  <2>2. n \in Nat /\ f \in Nat /\ p \in Nat
    BY <1>1
  <2>3. ASSUME NEW k \in 1..(f + p), k <= f PROVE k \in 1..f
    BY <2>2, <2>3
  <2>4. ASSUME NEW k \in 1..(f + p), ~(k <= f) PROVE k - f \in 1..p /\ n - p + (k - f) = k + (n - p - f)
    BY <2>2, <2>4
  <2> SUFFICES ASSUME NEW k \in 1..(f + p)
               PROVE  (first \o last)[k] = IF k <= f THEN latest[k] ELSE latest[k + d]
    BY <2>1
  <2>5. (first \o last)[k] = IF k <= f THEN first[k] ELSE last[k - f]
    BY <2>1
  <2>6. CASE k <= f
    <3>1. k \in 1..f
      BY <2>3, <2>6
    <3>2. first[k] = latest[k]
      BY <1>2, <3>1
    <3> QED
      BY <2>5, <2>6, <3>2
  <2>7. CASE ~(k <= f)
    <3>1. k - f \in 1..p /\ n - p + (k - f) = k + d
      BY <2>4, <2>7
    <3>2. last[k - f] = latest[n - p + (k - f)]
      BY <1>3, <3>1
    <3>3. last[k - f] = latest[k + d]
      BY <3>1, <3>2
    <3> QED
      BY <2>5, <2>7, <3>3
  <2> QED
    BY <2>6, <2>7
<1> DEFINE both == first \o last
<1>5a. both \in Seq(S) /\ Len(both) = f + p
  BY <1>5
<1> HIDE DEF both
<1>6. /\ both \o since \in Seq(S) /\ Len(both \o since) = (f + p) + (l - n)
      /\ \A k \in 1..((f + p) + (l - n)) : (both \o since)[k] = IF k <= f + p THEN both[k] ELSE since[k - (f + p)]
  <2>1. /\ both \o since \in Seq(S) /\ Len(both \o since) = Len(both) + Len(since)
        /\ \A k \in 1..(Len(both) + Len(since)) :
             (both \o since)[k] = IF k <= Len(both) THEN both[k] ELSE since[k - Len(both)]
    BY <1>4, <1>5a, ConcatProperties
  <2>2. Len(both) = f + p /\ Len(since) = l - n
    BY <1>4, <1>5a
  <2> QED
    BY <2>1, <2>2
<1>7. (f + p) + (l - n) = l - d /\ d \in Nat \ {0} /\ l - d \in Nat
  BY <1>1
<1>8. \A k \in 1..(l - d) : /\ k <= f + p => k \in 1..(f + p)
                            /\ ~(k <= f + p) => k - (f + p) \in 1..(l - n) /\ n + (k - (f + p)) = k + d /\ ~(k <= f)
  <2> SUFFICES ASSUME NEW k \in 1..(l - d)
               PROVE  /\ k <= f + p => k \in 1..(f + p)
                      /\ ~(k <= f + p) => k - (f + p) \in 1..(l - n) /\ n + (k - (f + p)) = k + d /\ ~(k <= f)
    OBVIOUS
  <2>1. k \in Nat \ {0} /\ k <= (f + p) + (l - n)
    BY <1>7
  <2> QED
    BY <1>1, <2>1
<1>9. \A k \in 1..(l - d) : (both \o since)[k] = IF k <= f THEN latest[k] ELSE latest[k + d]
  <2> SUFFICES ASSUME NEW k \in 1..(l - d)
               PROVE  (both \o since)[k] = IF k <= f THEN latest[k] ELSE latest[k + d]
    OBVIOUS
  <2>1. (both \o since)[k] = IF k <= f + p THEN both[k] ELSE since[k - (f + p)]
    BY <1>6, <1>7
  <2>2. CASE k <= f + p
    <3>1. k \in 1..(f + p)
      BY <1>8, <2>2
    <3>2. both[k] = IF k <= f THEN latest[k] ELSE latest[k + d]
      BY <1>5, <3>1 DEF both
    <3> QED
      BY <2>1, <2>2, <3>2
  <2>3. CASE ~(k <= f + p)
    <3>1. k - (f + p) \in 1..(l - n) /\ n + (k - (f + p)) = k + d /\ ~(k <= f)
      BY <1>8, <2>3
    <3>2. since[k - (f + p)] = latest[n + (k - (f + p))]
      BY <1>4, <3>1
    <3>3. since[k - (f + p)] = latest[k + d]
      BY <3>1, <3>2
    <3> QED
      BY <2>1, <2>3, <3>1, <3>3
  <2> QED
    BY <2>2, <2>3
<1>10. Compacted(seen, latest) = both \o since
  BY DEF Compacted, first, last, since, both
<1> QED
  BY <1>6, <1>7, <1>9, <1>10

-----------------------------------------------------------------------------
(* The invariant. *)

\* Messages are numbered from one, those of earlier processes included.
NumberedFromOne ==
  /\ \A m \in Messages, k \in Nat \ {0} : k <= m => k \in Messages
  /\ \A c \in Chats : InitialLength[c] \in Messages \cup {0}

\* No file is longer than what is read of it.
ReadAsAWhole == \A c \in Chats : Len(files[c]) <= Window

Entries == [id : Messages, seq : Nat, size : Sizes \cup {"short"}]
Tasks == [type : {"save", "compress"}, chat : Chats, id : Nat, size : Sizes \cup {"short"}]
WorkerFields == {"at", "chat", "pass", "seen", "result"}

\* Numbers rise along a sequence of lines, up to a number.
Rising(s, top) ==
  \A k \in 1..Len(s) :
    /\ k <= s[k].id /\ s[k].id <= top
    /\ \A j \in 1..Len(s) : j < k => s[j].id < s[k].id

\* What the memory core has yet to write comes after all of them.
Before(s, queue) ==
  \A k \in 1..Len(s), q \in 1..Len(queue) : queue[q].type = "save" => s[k].id < queue[q].id

SaverOK ==
  /\ saver \in [at : {"no", "reply", "schedule", "request"}, chat : Chats \cup {""}]
  /\ saver.at # "no" => saver.chat \in Chats
  /\ saver.at = "reply" => sent + 1 \in Messages

ShapesOK ==
  /\ files \in [Chats -> Seq(Entries)]
  /\ told \in [Chats -> SUBSET Messages]
  /\ sent \in Messages \cup {0}
  /\ SaverOK
  /\ worker = [f \in WorkerFields |-> worker[f]]
  /\ worker.seen \in Seq(Entries) /\ worker.result \in Seq(Entries)

QueueOK ==
  /\ memory \in Seq(Tasks)
  /\ \A q \in 1..Len(memory) : memory[q].type = "save" =>
       /\ memory[q].id \in 1..sent
       /\ \A p \in 1..Len(memory) : p < q /\ memory[p].type = "save" => memory[p].id < memory[q].id

FilesOK == \A c \in Chats : Rising(files[c], sent) /\ Before(files[c], memory)

\* What the worker saw is still the beginning of the file, the middle of it is in
\* the summary, and the result is the file without it.
WorkerOK ==
  /\ worker.at \in {"summary", "latest", "open", "write"} => worker.chat \in Chats
  /\ worker.at \in {"summary", "latest", "open"} =>
       Begins(worker.seen, files[worker.chat]) /\ Len(worker.seen) >= MinNeeded
  /\ worker.at \in {"latest", "open"} => Numbers(Middle(worker.seen)) \subseteq told[worker.chat]
  /\ worker.at = "open" => worker.result = Compacted(worker.seen, files[worker.chat])
  /\ worker.at = "write" =>
       Rising(worker.result, sent) /\ Before(worker.result, memory) /\ files[worker.chat] = <<>>

HistoryInv == ShapesOK /\ QueueOK /\ FilesOK /\ WorkerOK

LEMMA Numbered ==
  ASSUME NumberedFromOne
  PROVE  /\ Messages \subseteq Nat \ {0}
         /\ \A m \in Messages \cup {0}, k \in Nat \ {0} : k <= m => k \in Messages
BY ChatAssumption DEF NumberedFromOne

LEMMA RestingShape == Resting = [f \in WorkerFields |-> Resting[f]] /\ Resting.at = "wait"
                      /\ Resting.seen = <<>> /\ Resting.result = <<>>
BY DEF Resting, WorkerFields

LEMMA ReadWhole ==
  ASSUME ReadAsAWhole, HistoryInv, NEW c \in Chats PROVE History(files[c]) = files[c]
<1>1. files[c] \in Seq(Entries) /\ Len(files[c]) \in Nat
  BY LenProperties DEF HistoryInv, ShapesOK
<1>2. ~(Len(files[c]) > Window)
  BY <1>1, HistoryAssumption DEF ReadAsAWhole
<1> QED
  BY <1>1, <1>2, SubSeqFull DEF History

\* Lines that rise to a number rise to a later one.
LEMMA RisesOn ==
  ASSUME NEW s \in Seq(Entries), NEW m \in Nat, Rising(s, m) PROVE Rising(s, m + 1)
<1>1. \A k \in 1..Len(s) : s[k].id \in Nat
  <2>1. \A k \in 1..Len(s) : s[k] \in Entries
    BY ElementOfSeq
  <2> QED
    BY <2>1, ChatAssumption DEF Entries
<1> QED
  BY <1>1 DEF Rising

LEMMA NothingBefore == \A m, q : Rising(<<>>, m) /\ Before(<<>>, q)
<1>1. Len(<<>>) = 0
  BY EmptySeq
<1> QED
  BY <1>1 DEF Rising, Before

-----------------------------------------------------------------------------
(* Saving a turn. *)

\* A task is queued, or dropped.
QueuedOrNot(task) ==
  \/ memory' = memory
  \/ /\ memory' \in Seq(Tasks) /\ Len(memory') = Len(memory) + 1
     /\ \A q \in 1..Len(memory) : memory'[q] = memory[q]
     /\ memory'[Len(memory) + 1] = task

LEMMA SentShape ==
  ASSUME QueueOK, NEW task \in Tasks, memory' = Sent(task) PROVE QueuedOrNot(task)
<1>1. memory \in Seq(Tasks)
  BY DEF QueueOK
<1>2. CASE memory' = Append(memory, task)
  BY <1>1, <1>2, AppendProperties DEF QueuedOrNot
<1>3. CASE memory' = memory
  BY <1>3 DEF QueuedOrNot
<1> QED
  BY <1>2, <1>3 DEF Sent

LEMMA SentNat ==
  ASSUME NumberedFromOne, HistoryInv PROVE sent \in Nat
BY ChatAssumption DEF HistoryInv, ShapesOK

\* What the memory core has yet to write has numbers that were sent.
LEMMA QueueNumbers ==
  ASSUME HistoryInv
  PROVE  /\ memory \in Seq(Tasks) /\ Len(memory) \in Nat
         /\ \A q \in 1..Len(memory) : memory[q].type = "save" => memory[q].id \in 1..sent
BY LenProperties DEF HistoryInv, QueueOK

LEMMA EntryNumber ==
  ASSUME NEW s \in Seq(Entries), NEW k \in 1..Len(s) PROVE s[k] \in Entries /\ s[k].id \in Nat
<1>1. s[k] \in Entries
  BY ElementOfSeq
<1> QED
  BY <1>1, ChatAssumption DEF Entries

\* The number sent last, and a task with it or without a number.
NumbersOn(task) ==
  /\ sent' \in Messages \cup {0}
  /\ sent' = sent \/ sent' = sent + 1
  /\ task.type = "save" => sent' = sent + 1 /\ task.id = sent + 1

LEMMA QueueGoesOn ==
  ASSUME HistoryInv, sent \in Nat, NEW task \in Tasks, QueuedOrNot(task), NumbersOn(task)
  PROVE  QueueOK'
<1>1. sent' = sent \/ sent' = sent + 1
  BY DEF NumbersOn
<1>2. memory \in Seq(Tasks) /\ Len(memory) \in Nat
      /\ \A q \in 1..Len(memory) : memory[q].type = "save" => memory[q].id \in 1..sent /\ memory[q].id \in 1..sent'
  BY <1>1, QueueNumbers
<1>3. CASE memory' = memory
  BY <1>2, <1>3 DEF HistoryInv, QueueOK
<1>4. CASE memory' # memory
  <2>1. /\ memory' \in Seq(Tasks) /\ Len(memory') = Len(memory) + 1
        /\ \A q \in 1..Len(memory) : memory'[q] = memory[q]
        /\ memory'[Len(memory) + 1] = task
    BY <1>4 DEF QueuedOrNot
  <2>2. ASSUME NEW q \in 1..Len(memory'), memory'[q].type = "save"
        PROVE  /\ memory'[q].id \in 1..sent'
               /\ \A p \in 1..Len(memory') : p < q /\ memory'[p].type = "save" => memory'[p].id < memory'[q].id
    <3>1. \A p \in 1..Len(memory') : p < q => p \in 1..Len(memory) /\ memory'[p] = memory[p]
      BY <1>2, <2>1
    <3>2. CASE q \in 1..Len(memory)
      <4>1. memory'[q] = memory[q]
        BY <2>1, <3>2
      <4> QED
        BY <1>2, <2>2, <3>1, <3>2, <4>1 DEF HistoryInv, QueueOK
    <3>3. CASE q = Len(memory) + 1
      <4>1. memory'[q].id = sent + 1 /\ sent' = sent + 1
        BY <2>1, <2>2, <3>3 DEF NumbersOn
      <4>2. \A p \in 1..Len(memory') : p < q /\ memory'[p].type = "save" => memory'[p].id \in 1..sent
        BY <1>2, <3>1
      <4> QED
        BY <4>1, <4>2
    <3>4. q \in 1..Len(memory) \/ q = Len(memory) + 1
      BY <1>2, <2>1
    <3> QED
      BY <3>2, <3>3, <3>4
  <2> QED
    BY <2>1, <2>2 DEF QueueOK
<1> QED
  BY <1>3, <1>4

LEMMA BeforeGoesOn ==
  ASSUME HistoryInv, sent \in Nat, NEW task \in Tasks, QueuedOrNot(task), NumbersOn(task),
         NEW s \in Seq(Entries), Rising(s, sent), Before(s, memory)
  PROVE  Rising(s, sent') /\ Before(s, memory')
<1>1. Rising(s, sent')
  BY RisesOn DEF NumbersOn
<1>2. CASE memory' = memory
  BY <1>1, <1>2
<1>3. CASE memory' # memory
  <2>1. /\ memory' \in Seq(Tasks) /\ Len(memory') = Len(memory) + 1
        /\ \A q \in 1..Len(memory) : memory'[q] = memory[q]
        /\ memory'[Len(memory) + 1] = task
    BY <1>3 DEF QueuedOrNot
  <2>2. Len(memory) \in Nat
    BY QueueNumbers
  <2>3. ASSUME NEW k \in 1..Len(s), NEW q \in 1..Len(memory'), memory'[q].type = "save"
        PROVE  s[k].id < memory'[q].id
    <3>1. CASE q \in 1..Len(memory)
      BY <2>1, <2>3, <3>1 DEF Before
    <3>2. CASE q = Len(memory) + 1
      <4>1. s[k].id \in Nat /\ s[k].id <= sent
        BY EntryNumber DEF Rising
      <4>2. memory'[q].id = sent + 1
        BY <2>1, <2>3, <3>2 DEF NumbersOn
      <4> QED
        BY <4>1, <4>2
    <3>3. q \in 1..Len(memory) \/ q = Len(memory) + 1
      BY <2>1, <2>2
    <3> QED
      BY <3>1, <3>2, <3>3
  <2> QED
    BY <1>1, <2>3 DEF Before
<1> QED
  BY <1>2, <1>3

\* The loop sends a message of a number of its own, or something else.
LEMMA SendKeeps ==
  ASSUME NumberedFromOne, HistoryInv, UNCHANGED <<files, worker, told>>,
         NEW task \in Tasks, QueuedOrNot(task), NumbersOn(task), SaverOK'
  PROVE  HistoryInv'
<1>1. sent \in Nat
  BY SentNat
<1>2. ShapesOK'
  BY DEF HistoryInv, ShapesOK, NumbersOn
<1>3. QueueOK'
  BY <1>1, QueueGoesOn
<1>4. \A s \in Seq(Entries) : Rising(s, sent) /\ Before(s, memory) => Rising(s, sent') /\ Before(s, memory')
  BY <1>1, BeforeGoesOn
<1>5. \A c \in Chats : files[c] \in Seq(Entries)
  BY DEF HistoryInv, ShapesOK
<1>6. FilesOK'
  BY <1>4, <1>5 DEF HistoryInv, FilesOK
<1>7. worker.result \in Seq(Entries)
  BY DEF HistoryInv, ShapesOK
<1>8. WorkerOK'
  BY <1>4, <1>7 DEF HistoryInv, WorkerOK
<1> QED
  BY <1>2, <1>3, <1>6, <1>8 DEF HistoryInv

LEMMA TurnSavesKeeps ==
  ASSUME NumberedFromOne, HistoryInv, TurnSaves PROVE HistoryInv'
<1>1. sent \in Messages \cup {0} /\ sent \in Nat /\ SaverOK /\ QueueOK
  BY SentNat DEF HistoryInv, ShapesOK
<1>2. ASSUME NEW c \in Chats, SaveMessage(c) PROVE HistoryInv'
  <2>1. PICK z \in Sizes : memory' = Sent(SaveTask(c, z))
    BY <1>2 DEF SaveMessage
  <2>2. SaveTask(c, z) \in Tasks /\ SaveTask(c, z).type = "save" /\ SaveTask(c, z).id = sent + 1
    BY <1>1 DEF SaveTask, Tasks
  <2>3. sent + 2 \in Messages /\ sent' = sent + 1 /\ saver' = [at |-> "reply", chat |-> c] /\ UNCHANGED <<files, worker, told>>
    BY <1>2 DEF SaveMessage
  <2>4. sent' \in Messages /\ sent' + 1 \in Messages
    <3>1. sent + 1 \in Nat \ {0} /\ sent + 1 <= sent + 2 /\ (sent + 1) + 1 = sent + 2
      BY <1>1
    <3> QED
      BY <2>3, <3>1, Numbered
  <2>5. SaverOK'
    BY <2>3, <2>4 DEF SaverOK
  <2>6. NumbersOn(SaveTask(c, z))
    BY <2>2, <2>3, <2>4 DEF NumbersOn
  <2>7. QueuedOrNot(SaveTask(c, z))
    BY <1>1, <2>1, <2>2, SentShape
  <2> QED
    BY <2>2, <2>3, <2>5, <2>6, <2>7, SendKeeps
<1>3. CASE SaveReply
  <2>1. PICK z \in Sizes : memory' = Sent(SaveTask(saver.chat, z))
    BY <1>3 DEF SaveReply
  <2>2. saver.at = "reply" /\ saver.chat \in Chats /\ sent + 1 \in Messages
    BY <1>1, <1>3 DEF SaveReply, SaverOK
  <2>3. SaveTask(saver.chat, z) \in Tasks /\ SaveTask(saver.chat, z).type = "save" /\ SaveTask(saver.chat, z).id = sent + 1
    BY <1>1, <2>2 DEF SaveTask, Tasks
  <2>4. sent' = sent + 1 /\ saver' = [saver EXCEPT !.at = "schedule"] /\ UNCHANGED <<files, worker, told>>
    BY <1>3 DEF SaveReply
  <2>5. SaverOK'
    BY <1>1, <2>2, <2>4 DEF SaverOK
  <2>6. NumbersOn(SaveTask(saver.chat, z))
    BY <2>2, <2>3, <2>4 DEF NumbersOn
  <2>7. QueuedOrNot(SaveTask(saver.chat, z))
    BY <1>1, <2>1, <2>3, SentShape
  <2> QED
    BY <2>3, <2>4, <2>5, <2>6, <2>7, SendKeeps
<1>4. CASE ScheduleAfterSave
  <2>1. saver.at = "schedule" /\ saver' = [saver EXCEPT !.at = "request"] /\ UNCHANGED <<files, memory, worker, sent, told>>
    BY <1>4 DEF ScheduleAfterSave
  <2>2. SaverOK'
    BY <1>1, <2>1 DEF SaverOK
  <2> QED
    BY <2>1, <2>2 DEF HistoryInv, ShapesOK, QueueOK, FilesOK, WorkerOK
<1>5. CASE RequestCompression
  <2> DEFINE task == [type |-> "compress", chat |-> saver.chat, id |-> 0, size |-> "short"]
  <2>1. saver.at = "request" /\ saver' = NotSaving /\ UNCHANGED <<files, worker, told, sent>>
        /\ (memory' = Sent(task) \/ memory' = memory)
    BY <1>5 DEF RequestCompression
  <2>2. task \in Tasks /\ task.type # "save"
    BY <1>1, <2>1 DEF Tasks, SaverOK
  <2>3. SaverOK'
    BY <2>1 DEF NotSaving, SaverOK
  <2> HIDE DEF task
  <2>4. NumbersOn(task)
    BY <1>1, <2>1, <2>2 DEF NumbersOn
  <2>5. QueuedOrNot(task)
    BY <1>1, <2>1, <2>2, SentShape DEF QueuedOrNot
  <2> QED
    BY <2>1, <2>2, <2>3, <2>4, <2>5, SendKeeps
<1> QED
  BY <1>2, <1>3, <1>4, <1>5 DEF TurnSaves

-----------------------------------------------------------------------------
(* The memory core. *)

QueueTaken ==
  /\ memory' \in Seq(Tasks) /\ Len(memory') = Len(memory) - 1
  /\ \A q \in 1..Len(memory') : memory'[q] = memory[q + 1] /\ q + 1 \in 1..Len(memory)

LEMMA TakenShape ==
  ASSUME HistoryInv, memory # <<>>, memory' = Tail(memory)
  PROVE  QueueTaken /\ Head(memory) = memory[1] /\ memory[1] \in Tasks /\ 1 \in 1..Len(memory)
<1>1. memory \in Seq(Tasks)
  BY DEF HistoryInv, QueueOK
<1>2. /\ Head(memory) \in Tasks /\ Tail(memory) \in Seq(Tasks) /\ Len(Tail(memory)) = Len(memory) - 1
      /\ \A i \in 1..Len(Tail(memory)) : Tail(memory)[i] = memory[i + 1]
  BY <1>1, HeadTailProperties
<1>3. Len(memory) \in Nat \ {0} /\ Head(memory) = memory[1]
  BY <1>1, EmptySeq
<1> QED
  BY <1>2, <1>3 DEF QueueTaken

\* The queue without its first task.
LEMMA TakenKeeps ==
  ASSUME HistoryInv, QueueTaken, sent' = sent
  PROVE  QueueOK' /\ \A s \in Seq(Entries) : Before(s, memory) => Before(s, memory')
<1>1. memory \in Seq(Tasks) /\ Len(memory) \in Nat
  BY QueueNumbers
<1>2. \A p, q \in 1..Len(memory') : p < q => p + 1 < q + 1
  BY <1>1 DEF QueueTaken
<1>3. QueueOK'
  BY <1>2 DEF HistoryInv, QueueOK, QueueTaken
<1>4. \A s \in Seq(Entries) : Before(s, memory) => Before(s, memory')
  BY DEF Before, QueueTaken
<1> QED
  BY <1>3, <1>4

LEMMA SchedulesKeeps ==
  ASSUME HistoryInv, CoreSchedules PROVE HistoryInv'
<1>1. memory # <<>> /\ memory' = Tail(memory) /\ UNCHANGED <<files, saver, worker, sent, told>>
  BY DEF CoreSchedules
<1>2. QueueOK' /\ \A s \in Seq(Entries) : Before(s, memory) => Before(s, memory')
  BY <1>1, TakenShape, TakenKeeps
<1>3. ShapesOK'
  BY <1>1 DEF HistoryInv, ShapesOK, SaverOK
<1>4. FilesOK'
  BY <1>1, <1>2 DEF HistoryInv, FilesOK, ShapesOK
<1>5. WorkerOK'
  BY <1>1, <1>2 DEF HistoryInv, WorkerOK, ShapesOK
<1> QED
  BY <1>2, <1>3, <1>4, <1>5 DEF HistoryInv

\* The number of the next seq is a number.
LEMMA NextSeqNat ==
  ASSUME NEW s \in Seq(Entries) PROVE NextSeq(s) \in Nat
<1>1. CASE s = <<>>
  BY <1>1 DEF NextSeq
<1>2. CASE s # <<>>
  <2>1. Len(s) \in 1..Len(s)
    BY <1>2, EmptySeq
  <2>2. s[Len(s)] \in Entries
    BY <2>1, ElementOfSeq
  <2> QED
    BY <1>2, <2>2 DEF NextSeq, Last, Entries
<1> QED
  BY <1>1, <1>2

\* What appending adds comes after what is there and before what waits.
LEMMA AppendedIs ==
  ASSUME NumberedFromOne, HistoryInv, memory # <<>>, memory' = Tail(memory), memory[1].type = "save",
         NEW s \in Seq(Entries), Rising(s, sent), Before(s, memory), memory[1].size # "over"
  PROVE  LET t == Appended(s, memory[1])
         IN  /\ t \in Seq(Entries) /\ Len(t) = Len(s) + 1 /\ \A k \in 1..Len(s) : t[k] = s[k] /\ s[k].id < memory[1].id
             /\ t[Len(s) + 1].id = memory[1].id
             /\ memory[1].id \in Messages
             /\ Rising(t, sent) /\ Before(t, memory')
<1> DEFINE task == memory[1]
           e == [id |-> task.id, seq |-> NextSeq(s), size |-> task.size]
           t == Appended(s, task)
<1>1. QueueTaken /\ task \in Tasks /\ 1 \in 1..Len(memory)
  BY TakenShape
<1>2. task.id \in 1..sent /\ sent \in Nat /\ task.id \in Messages
  <2>1. task.id \in 1..sent /\ sent \in Nat
    BY <1>1, QueueNumbers, SentNat
  <2>2. sent \in Messages \cup {0}
    BY DEF HistoryInv, ShapesOK
  <2> QED
    BY <2>1, <2>2, Numbered
<1>3. e \in Entries
  BY <1>1, <1>2, NextSeqNat DEF Entries, Tasks
<1>4. t = Append(s, e)
  BY DEF Appended
<1> HIDE DEF e
<1>5. t \in Seq(Entries) /\ Len(t) = Len(s) + 1 /\ (\A k \in 1..Len(s) : t[k] = s[k]) /\ t[Len(s) + 1] = e /\ e.id = task.id
  BY <1>3, <1>4, AppendProperties DEF e
<1> HIDE DEF t
<1>6. \A k \in 1..Len(s) : s[k].id < task.id /\ k <= s[k].id /\ s[k].id <= sent /\ s[k].id \in Nat
  BY <1>1, EntryNumber DEF Before, Rising
<1>7. Len(s) \in Nat /\ Len(s) + 1 <= task.id
  <2>1. Len(s) \in Nat
    BY LenProperties
  <2>2. CASE Len(s) = 0
    BY <1>2, <2>2
  <2>3. CASE Len(s) # 0
    <3>1. Len(s) \in 1..Len(s)
      BY <2>1, <2>3
    <3>2. Len(s) <= s[Len(s)].id /\ s[Len(s)].id < task.id /\ s[Len(s)].id \in Nat
      BY <1>6, <3>1
    <3> QED
      BY <1>2, <2>1, <3>2
  <2> QED
    BY <2>1, <2>2, <2>3
<1>8. \A k \in 1..Len(t) : k \in 1..Len(s) \/ k = Len(s) + 1
  BY <1>5, <1>7
<1>9. Rising(t, sent)
  <2>1. ASSUME NEW k \in 1..Len(t)
        PROVE  k <= t[k].id /\ t[k].id <= sent /\ \A j \in 1..Len(t) : j < k => t[j].id < t[k].id
    <3>1. CASE k \in 1..Len(s)
      <4>1. \A j \in 1..Len(t) : j < k => j \in 1..Len(s)
        BY <1>5, <1>7, <3>1
      <4> QED
        BY <1>5, <1>6, <3>1, <4>1 DEF Rising
    <3>2. CASE k = Len(s) + 1
      <4>1. \A j \in 1..Len(t) : j < k => j \in 1..Len(s)
        BY <1>5, <1>7, <3>2
      <4>2. t[k].id = task.id /\ k <= t[k].id /\ t[k].id <= sent
        BY <1>2, <1>5, <1>7, <3>2
      <4>3. \A j \in 1..Len(s) : t[j].id < task.id
        BY <1>5, <1>6
      <4> QED
        BY <4>1, <4>2, <4>3
    <3> QED
      BY <1>8, <3>1, <3>2
  <2> QED
    BY <2>1 DEF Rising
<1>10. Before(t, memory')
  <2>1. ASSUME NEW k \in 1..Len(t), NEW q \in 1..Len(memory'), memory'[q].type = "save"
        PROVE  t[k].id < memory'[q].id
    <3>1. memory'[q] = memory[q + 1] /\ q + 1 \in 1..Len(memory) /\ 1 < q + 1
      BY <1>1 DEF QueueTaken
    <3>2. task.id < memory'[q].id /\ memory'[q].id \in Nat
      BY <1>1, <2>1, <3>1, QueueNumbers DEF HistoryInv, QueueOK
    <3>3. CASE k \in 1..Len(s)
      BY <1>5, <2>1, <3>1, <3>3 DEF Before
    <3>4. CASE k = Len(s) + 1
      BY <1>5, <3>2, <3>4
    <3> QED
      BY <1>8, <3>3, <3>4
  <2> QED
    BY <2>1 DEF Before
<1> QED
  BY <1>2, <1>5, <1>6, <1>9, <1>10 DEF t

LEMMA AppendsKeeps ==
  ASSUME NumberedFromOne, ~Races, HistoryInv, CoreAppends PROVE HistoryInv'
<1> DEFINE task == memory[1]
           c == task.chat
           file == files[c]
<1>1. memory # <<>> /\ memory' = Tail(memory) /\ UNCHANGED <<saver, worker, sent, told>>
  BY DEF CoreAppends
<1>2. QueueTaken /\ Head(memory) = task /\ task \in Tasks
  BY <1>1, TakenShape
<1>3. task.type = "save" /\ c \in Chats /\ files' = [files EXCEPT ![c] = Appended(file, task)]
      /\ (worker.chat # c \/ worker.at \notin {"open", "write"})
  BY <1>2 DEF CoreAppends, Settled, Tasks
<1>4. QueueOK' /\ \A s \in Seq(Entries) : Before(s, memory) => Before(s, memory')
  BY <1>1, <1>2, TakenKeeps
<1>5. file \in Seq(Entries) /\ Rising(file, sent) /\ Before(file, memory)
  BY <1>3 DEF HistoryInv, ShapesOK, FilesOK
<1>6. /\ files'[c] \in Seq(Entries) /\ Rising(files'[c], sent) /\ Before(files'[c], memory')
      /\ Len(file) <= Len(files'[c]) /\ \A k \in 1..Len(file) : files'[c][k] = file[k]
  <2>1. files'[c] = Appended(file, task)
    BY <1>3 DEF HistoryInv, ShapesOK
  <2>2. CASE task.size = "over"
    <3>1. files'[c] = file /\ Len(file) \in Nat
      BY <1>5, <2>1, <2>2, LenProperties DEF Appended
    <3> QED
      BY <1>4, <1>5, <3>1
  <2>3. CASE task.size # "over"
    <3>1. Len(file) \in Nat
      BY <1>5, LenProperties
    <3> QED
      BY <1>1, <1>3, <1>5, <2>1, <2>3, <3>1, AppendedIs
  <2> QED
    BY <2>2, <2>3
<1>7. \A d \in Chats : d # c => files'[d] = files[d]
  BY <1>3 DEF HistoryInv, ShapesOK
<1>8. ShapesOK'
  BY <1>1, <1>3, <1>6, <1>7 DEF HistoryInv, ShapesOK, SaverOK
<1>9. FilesOK'
  <2> SUFFICES ASSUME NEW d \in Chats PROVE Rising(files'[d], sent) /\ Before(files'[d], memory')
    BY <1>1 DEF FilesOK
  <2>1. CASE d = c
    BY <1>6, <2>1
  <2>2. CASE d # c
    BY <1>4, <1>7, <2>2 DEF HistoryInv, FilesOK, ShapesOK
  <2> QED
    BY <2>1, <2>2
<1> DEFINE d == worker.chat
<1>10. ASSUME worker.at \in {"summary", "latest", "open"}
       PROVE  Begins(worker.seen, files'[d]) /\ (worker.at = "open" => files'[d] = files[d])
  <2>1. d \in Chats /\ Begins(worker.seen, files[d]) /\ worker.seen \in Seq(Entries)
    BY <1>10 DEF HistoryInv, WorkerOK, ShapesOK
  <2>2. CASE d # c
    BY <1>7, <2>1, <2>2
  <2>3. CASE d = c
    <3>1. Len(worker.seen) \in Nat /\ Len(file) \in Nat /\ Len(files'[c]) \in Nat
      BY <1>5, <1>6, <2>1, LenProperties
    <3> QED
      BY <1>3, <1>6, <2>1, <2>3, <3>1, <1>10 DEF Begins
  <2> QED
    BY <2>2, <2>3
<1>11. ASSUME worker.at = "write" PROVE files'[d] = <<>>
  BY <1>3, <1>7, <1>11 DEF HistoryInv, WorkerOK
<1>12. WorkerOK'
  BY <1>1, <1>4, <1>10, <1>11 DEF HistoryInv, WorkerOK, ShapesOK
<1> QED
  BY <1>4, <1>8, <1>9, <1>12 DEF HistoryInv

-----------------------------------------------------------------------------
(* The compression worker. *)

\* Only the worker moves.
LEMMA WorkerMoves ==
  ASSUME HistoryInv, UNCHANGED <<files, memory, saver, sent>>, told' \in [Chats -> SUBSET Messages], WorkerOK',
         worker' = [f \in WorkerFields |-> worker'[f]], worker'.seen \in Seq(Entries), worker'.result \in Seq(Entries)
  PROVE  HistoryInv'
BY DEF HistoryInv, ShapesOK, SaverOK, QueueOK, FilesOK

\* A worker that is in none of the steps that matter.
LEMMA WorkerRests ==
  ASSUME HistoryInv, UNCHANGED <<files, memory, saver, sent, told>>,
         worker' = [f \in WorkerFields |-> worker'[f]], worker'.seen \in Seq(Entries), worker'.result \in Seq(Entries),
         worker'.at \notin {"summary", "latest", "open", "write"}
  PROVE  HistoryInv'
<1>1. WorkerOK'
  BY DEF WorkerOK
<1> QED
  BY <1>1, WorkerMoves DEF HistoryInv, ShapesOK

LEMMA NothingRead ==
  History(<<>>) = <<>> /\ ~Needed(<<>>)
<1>1. Len(<<>>) = 0
  BY EmptySeq
<1>2. MinNeeded > 0 /\ MinNeeded \in Nat
  BY ChatAssumption DEF MinNeeded
<1>3. <<>> \in Seq(Entries)
  BY EmptySeq
<1>4. SubSeq(<<>>, 1, Len(<<>>)) = <<>>
  BY <1>3, SubSeqFull
<1>5. ~(Len(<<>>) > Window)
  BY <1>1, HistoryAssumption
<1> QED
  BY <1>1, <1>2, <1>4, <1>5 DEF History, Needed

LEMMA LooksKeeps ==
  ASSUME ReadAsAWhole, HistoryInv, LookAtHistory PROVE HistoryInv'
<1> DEFINE seen == History(FileOf(worker.chat))
<1>1. UNCHANGED <<files, memory, saver, sent, told>> /\ worker = [f \in WorkerFields |-> worker[f]]
      /\ worker.seen \in Seq(Entries) /\ worker.result \in Seq(Entries) /\ told \in [Chats -> SUBSET Messages]
  BY DEF LookAtHistory, HistoryInv, ShapesOK
<1>2. CASE worker.pass <= MaxPasses /\ Needed(seen)
  <2>1. worker' = [worker EXCEPT !.at = "summary", !.seen = seen]
    BY <1>2 DEF LookAtHistory
  <2>2. worker.chat \in Chats
    BY <1>2, NothingRead DEF FileOf
  <2>3. seen = files[worker.chat] /\ seen \in Seq(Entries)
    BY <2>2, ReadWhole DEF FileOf, HistoryInv, ShapesOK
  <2> HIDE DEF seen
  <2>4. /\ worker' = [f \in WorkerFields |-> worker'[f]]
        /\ worker'.seen = seen /\ worker'.result \in Seq(Entries) /\ worker'.at = "summary" /\ worker'.chat = worker.chat
    BY <1>1, <2>1 DEF WorkerFields
  <2>5. Len(seen) >= MinNeeded /\ Len(seen) \in Nat
    BY <1>2, <2>3, LenProperties DEF Needed
  <2>6. WorkerOK'
    BY <1>1, <2>2, <2>3, <2>4, <2>5 DEF WorkerOK, Begins, MinNeeded
  <2> QED
    BY <1>1, <2>3, <2>4, <2>6, WorkerMoves
<1>3. CASE ~(worker.pass <= MaxPasses /\ Needed(seen))
  <2>1. worker' = [worker EXCEPT !.at = "done"]
    BY <1>3 DEF LookAtHistory
  <2>2. /\ worker' = [f \in WorkerFields |-> worker'[f]]
        /\ worker'.seen = worker.seen /\ worker'.result = worker.result /\ worker'.at = "done"
    BY <1>1, <2>1 DEF WorkerFields
  <2> QED
    BY <1>1, <2>2, WorkerRests
<1> QED
  BY <1>2, <1>3

\* The middle of what was seen, in what is there now.
LEMMA MiddleNumbers ==
  ASSUME NEW seen \in Seq(Entries), NEW latest \in Seq(Entries), Begins(seen, latest), Len(seen) >= MinNeeded
  PROVE  /\ Numbers(Middle(seen)) = {latest[k].id : k \in (ProtectFirst + 1)..(Len(seen) - ProtectLast)}
         /\ Numbers(Middle(seen)) \subseteq Messages
<1> DEFINE i == ProtectFirst + 1
           j == Len(seen) - ProtectLast
           m == Middle(seen)
<1>1. i \in Nat /\ j \in Nat /\ i < j /\ j < Len(seen) /\ Len(seen) \in Nat /\ Len(latest) \in Nat /\ i >= 1
  BY ChatAssumption, LenProperties DEF MinNeeded
<1>2. \A k \in i..j : k \in 1..Len(seen) /\ seen[k] \in Entries /\ latest[k] = seen[k]
  <2>1. \A k \in i..j : k \in 1..Len(seen)
    BY <1>1
  <2> QED
    BY <2>1, ElementOfSeq DEF Begins
<1>3. m \in Seq(Entries) /\ Len(m) = j - i + 1 /\ \A k \in 1..(j - i + 1) : m[k] = seen[i + k - 1]
  BY <1>1, <1>2, SubSeqProperties DEF Middle
<1>4. DOMAIN m = 1..(j - i + 1)
  BY <1>3, LenProperties
<1> HIDE DEF m
<1>5. \A k \in 1..(j - i + 1) : i + k - 1 \in i..j
  BY <1>1
<1>6. \A k \in i..j : k - i + 1 \in 1..(j - i + 1) /\ i + (k - i + 1) - 1 = k
  BY <1>1
<1>7. Numbers(m) \subseteq {latest[k].id : k \in i..j}
  <2>1. ASSUME NEW k \in 1..(j - i + 1) PROVE m[k].id \in {latest[q].id : q \in i..j}
    <3>1. m[k] = latest[i + k - 1] /\ i + k - 1 \in i..j
      BY <1>2, <1>3, <1>5
    <3> QED
      BY <3>1
  <2> QED
    BY <1>4, <2>1 DEF Numbers
<1>8. {latest[k].id : k \in i..j} \subseteq Numbers(m)
  BY <1>2, <1>3, <1>4, <1>6 DEF Numbers
<1>9. {latest[k].id : k \in i..j} \subseteq Messages
  BY <1>2 DEF Entries
<1> QED
  BY <1>7, <1>8, <1>9 DEF m

LEMMA SummaryKeeps ==
  ASSUME HistoryInv, WriteSummary PROVE HistoryInv'
<1> DEFINE d == worker.chat
           numbers == Numbers(Middle(worker.seen))
<1>1. /\ UNCHANGED <<files, memory, saver, sent>> /\ worker = [f \in WorkerFields |-> worker[f]]
      /\ worker.seen \in Seq(Entries) /\ worker.result \in Seq(Entries) /\ told \in [Chats -> SUBSET Messages]
      /\ worker.at = "summary" /\ worker' = [worker EXCEPT !.at = "latest"]
      /\ told' = [told EXCEPT ![d] = @ \cup numbers]
  BY DEF WriteSummary, HistoryInv, ShapesOK
<1>2. d \in Chats /\ Begins(worker.seen, files[d]) /\ Len(worker.seen) >= MinNeeded /\ files[d] \in Seq(Entries)
  BY <1>1 DEF HistoryInv, WorkerOK, ShapesOK
<1>3. numbers \subseteq Messages
  BY <1>1, <1>2, MiddleNumbers
<1> HIDE DEF numbers
<1>4. told' \in [Chats -> SUBSET Messages] /\ numbers \subseteq told'[d]
  BY <1>1, <1>2, <1>3
<1>5. /\ worker' = [f \in WorkerFields |-> worker'[f]] /\ worker'.at = "latest" /\ worker'.chat = d
      /\ worker'.seen = worker.seen /\ worker'.result = worker.result
  BY <1>1 DEF WorkerFields
<1>6. WorkerOK'
  BY <1>1, <1>2, <1>4, <1>5 DEF WorkerOK, numbers
<1> QED
  BY <1>1, <1>4, <1>5, <1>6, WorkerMoves

LEMMA MoreThanProtected ==
  ASSUME NEW s, Len(s) \in Nat, Len(s) >= MinNeeded PROVE ProtectFirst + ProtectLast < Len(s)
BY ChatAssumption DEF MinNeeded

LEMMA LatestKeeps ==
  ASSUME ReadAsAWhole, HistoryInv, ReadLatest PROVE HistoryInv'
<1> DEFINE d == worker.chat
           result == Compacted(worker.seen, History(files[d]))
<1>1. /\ UNCHANGED <<files, memory, saver, sent, told>> /\ worker = [f \in WorkerFields |-> worker[f]]
      /\ worker.seen \in Seq(Entries) /\ worker.result \in Seq(Entries) /\ told \in [Chats -> SUBSET Messages]
      /\ worker.at = "latest"
  BY DEF ReadLatest, HistoryInv, ShapesOK
<1>2. /\ d \in Chats /\ Begins(worker.seen, files[d]) /\ Len(worker.seen) >= MinNeeded /\ files[d] \in Seq(Entries)
      /\ Numbers(Middle(worker.seen)) \subseteq told[d]
  BY <1>1 DEF HistoryInv, WorkerOK, ShapesOK
<1>3. result = Compacted(worker.seen, files[d])
  BY <1>2, ReadWhole
<1>4. result \in Seq(Entries)
  BY <1>1, <1>2, <1>3, LenProperties, MoreThanProtected, CompactedIs
<1> HIDE DEF result
<1>5. CASE Len(worker.seen) > MinNeeded
  <2>1. worker' = [worker EXCEPT !.at = "open", !.result = result]
    BY <1>5 DEF ReadLatest, result
  <2>2. /\ worker' = [f \in WorkerFields |-> worker'[f]] /\ worker'.at = "open" /\ worker'.chat = d
        /\ worker'.seen = worker.seen /\ worker'.result = result
    BY <1>1, <2>1 DEF WorkerFields
  <2>3. WorkerOK'
    BY <1>1, <1>2, <1>3, <2>2 DEF WorkerOK
  <2> QED
    BY <1>1, <1>4, <2>2, <2>3, WorkerMoves
<1>6. CASE ~(Len(worker.seen) > MinNeeded)
  <2>1. worker' = [worker EXCEPT !.at = "done"]
    BY <1>6 DEF ReadLatest
  <2>2. /\ worker' = [f \in WorkerFields |-> worker'[f]]
        /\ worker'.seen = worker.seen /\ worker'.result = worker.result /\ worker'.at = "done"
    BY <1>1, <2>1 DEF WorkerFields
  <2> QED
    BY <1>1, <2>2, WorkerRests
<1> QED
  BY <1>5, <1>6

\* Lines out of which a stretch was cut rise still, and come before what waits.
LEMMA CutRises ==
  ASSUME NEW s \in Seq(Entries), NEW r \in Seq(Entries), NEW m, NEW queue, Rising(s, m), Before(s, queue),
         NEW d \in Nat, NEW f \in Nat, Len(r) = Len(s) - d,
         \A k \in 1..Len(r) : r[k] = IF k <= f THEN s[k] ELSE s[k + d]
  PROVE  Rising(r, m) /\ Before(r, queue)
<1> DEFINE at(k) == IF k <= f THEN k ELSE k + d
<1>1. Len(s) \in Nat /\ Len(r) \in Nat
  BY LenProperties
<1>2. \A k \in 1..Len(r) : r[k] = s[at(k)] /\ at(k) \in 1..Len(s) /\ k <= at(k)
  BY <1>1
<1>3. \A j, k \in 1..Len(r) : j < k => at(j) < at(k)
  BY <1>1
<1> HIDE DEF at
<1>4. \A k \in 1..Len(s) : s[k].id \in Nat
  BY EntryNumber
<1>5. \A k \in 1..Len(r) : k <= r[k].id /\ r[k].id <= m
  <2> SUFFICES ASSUME NEW k \in 1..Len(r) PROVE k <= r[k].id /\ r[k].id <= m
    OBVIOUS
  <2>1. at(k) <= s[at(k)].id /\ s[at(k)].id <= m /\ s[at(k)].id \in Nat /\ at(k) \in Nat /\ k <= at(k) /\ r[k] = s[at(k)]
    BY <1>1, <1>2, <1>4 DEF Rising
  <2> QED
    BY <1>1, <2>1
<1>6. \A j, k \in 1..Len(r) : j < k => r[j].id < r[k].id
  BY <1>2, <1>3 DEF Rising
<1> QED
  BY <1>2, <1>5, <1>6 DEF Rising, Before

\* What is written is the file without the middle that was summarised.
LEMMA ResultIs ==
  ASSUME HistoryInv, worker.at = "open"
  PROVE  LET d == Len(worker.seen) - ProtectLast - ProtectFirst
             file == files[worker.chat]
             r == worker.result
         IN  /\ d \in Nat /\ Len(r) = Len(file) - d /\ r \in Seq(Entries) /\ file \in Seq(Entries) /\ Len(r) \in Nat
             /\ \A k \in 1..Len(r) : r[k] = IF k <= ProtectFirst THEN file[k] ELSE file[k + d]
<1>1. /\ worker.seen \in Seq(Entries) /\ worker.chat \in Chats /\ files[worker.chat] \in Seq(Entries)
      /\ Begins(worker.seen, files[worker.chat]) /\ Len(worker.seen) >= MinNeeded
      /\ worker.result = Compacted(worker.seen, files[worker.chat])
  BY DEF HistoryInv, WorkerOK, ShapesOK
<1>2. ProtectFirst + ProtectLast < Len(worker.seen)
  BY <1>1, LenProperties, MoreThanProtected
<1> QED
  BY <1>1, <1>2, CompactedIs, SMTT(30)

LEMMA OpensKeeps ==
  ASSUME HistoryInv, OpenHistory PROVE HistoryInv'
<1> DEFINE d == worker.chat
<1>1. /\ UNCHANGED <<memory, saver, sent, told>> /\ worker = [f \in WorkerFields |-> worker[f]]
      /\ worker.seen \in Seq(Entries) /\ worker.result \in Seq(Entries) /\ files \in [Chats -> Seq(Entries)]
      /\ worker.at = "open" /\ d \in Chats
      /\ worker' = [worker EXCEPT !.at = "write"] /\ files' = [files EXCEPT ![d] = <<>>]
  BY DEF OpenHistory, HistoryInv, ShapesOK, WorkerOK
<1>2. /\ worker' = [f \in WorkerFields |-> worker'[f]] /\ worker'.at = "write" /\ worker'.chat = d
      /\ worker'.seen = worker.seen /\ worker'.result = worker.result
  BY <1>1 DEF WorkerFields
<1>3. files' \in [Chats -> Seq(Entries)] /\ files'[d] = <<>> /\ \A c \in Chats : c # d => files'[c] = files[c]
  <2>1. <<>> \in Seq(Entries)
    BY EmptySeq
  <2> QED
    BY <1>1, <2>1
<1>4. Rising(worker.result, sent) /\ Before(worker.result, memory)
  <2>1. Rising(files[d], sent) /\ Before(files[d], memory)
    BY <1>1 DEF HistoryInv, FilesOK
  <2>2. ProtectFirst \in Nat
    BY ChatAssumption
  <2> DEFINE cut == Len(worker.seen) - ProtectLast - ProtectFirst
  <2>3. /\ cut \in Nat /\ Len(worker.result) = Len(files[d]) - cut /\ files[d] \in Seq(Entries)
        /\ \A k \in 1..Len(worker.result) :
             worker.result[k] = IF k <= ProtectFirst THEN files[d][k] ELSE files[d][k + cut]
    BY <1>1, ResultIs
  <2> HIDE DEF cut
  <2>4. worker.result \in Seq(Entries) /\ cut \in Nat
    BY <1>1, <2>3
  <2> QED
    BY <2>1, <2>2, <2>3, <2>4, CutRises
<1>5. WorkerOK'
  BY <1>1, <1>2, <1>3, <1>4 DEF WorkerOK
<1>6. FilesOK'
  BY <1>1, <1>3, NothingBefore DEF HistoryInv, FilesOK
<1> QED
  BY <1>1, <1>2, <1>3, <1>5, <1>6 DEF HistoryInv, ShapesOK, SaverOK, QueueOK

LEMMA WritesKeeps ==
  ASSUME HistoryInv, WriteHistory PROVE HistoryInv'
<1> DEFINE d == worker.chat
<1>1. /\ UNCHANGED <<memory, saver, sent, told>> /\ worker = [f \in WorkerFields |-> worker[f]]
      /\ worker.result \in Seq(Entries) /\ files \in [Chats -> Seq(Entries)]
      /\ worker.at = "write" /\ d \in Chats
      /\ worker' = [worker EXCEPT !.at = "look", !.pass = @ + 1, !.seen = <<>>, !.result = <<>>]
      /\ files' = [files EXCEPT ![d] = worker.result]
      /\ Rising(worker.result, sent) /\ Before(worker.result, memory)
  BY DEF WriteHistory, HistoryInv, ShapesOK, WorkerOK
<1>2. /\ worker' = [f \in WorkerFields |-> worker'[f]] /\ worker'.at = "look"
      /\ worker'.seen = <<>> /\ worker'.result = <<>>
  BY <1>1 DEF WorkerFields
<1>3. files' \in [Chats -> Seq(Entries)] /\ files'[d] = worker.result /\ \A c \in Chats : c # d => files'[c] = files[c]
  BY <1>1
<1>4. WorkerOK'
  BY <1>2 DEF WorkerOK
<1>5. FilesOK'
  BY <1>1, <1>3 DEF HistoryInv, FilesOK
<1>6. <<>> \in Seq(Entries)
  BY EmptySeq
<1>7. ShapesOK'
  BY <1>1, <1>2, <1>3, <1>6 DEF HistoryInv, ShapesOK, SaverOK
<1>8. QueueOK'
  BY <1>1 DEF HistoryInv, QueueOK
<1> QED
  BY <1>4, <1>5, <1>7, <1>8 DEF HistoryInv

LEMMA CompressionKeeps ==
  ASSUME ReadAsAWhole, HistoryInv, Compression PROVE HistoryInv'
<1>1. CASE PickJob
  <2>1. PICK k \in 1..JobSlots : worker' = [Resting EXCEPT !.at = "look", !.chat = jobs[k].chat, !.pass = 1]
    BY <1>1 DEF PickJob
  <2>2. /\ worker' = [f \in WorkerFields |-> worker'[f]] /\ worker'.at = "look"
        /\ worker'.seen = <<>> /\ worker'.result = <<>>
    BY <2>1 DEF Resting, WorkerFields
  <2> QED
    BY <1>1, <2>2, EmptySeq, WorkerRests DEF PickJob
<1>2. CASE FinishJob
  <2>1. UNCHANGED <<files, memory, saver, sent, told>> /\ worker' = Resting
    BY <1>2 DEF FinishJob
  <2> QED
    BY <2>1, EmptySeq, RestingShape, WorkerRests
<1> QED
  BY <1>1, <1>2, LooksKeeps, SummaryKeeps, LatestKeeps, OpensKeeps, WritesKeeps DEF Compression

-----------------------------------------------------------------------------
(* Surroundings, and the whole. *)

LEMMA ClearKeeps ==
  ASSUME ~Races, HistoryInv, NEW c \in Chats, ClearSession(c) PROVE HistoryInv'
<1>1. /\ UNCHANGED <<memory, saver, sent, told, worker>> /\ files \in [Chats -> Seq(Entries)]
      /\ files' = [files EXCEPT ![c] = <<>>] /\ worker.chat # c
  BY DEF ClearSession, MayDelete, HistoryInv, ShapesOK
<1>2. files' \in [Chats -> Seq(Entries)] /\ files'[c] = <<>> /\ \A d \in Chats : d # c => files'[d] = files[d]
  BY <1>1, EmptySeq
<1>3. WorkerOK'
  BY <1>1, <1>2 DEF HistoryInv, WorkerOK
<1>4. FilesOK'
  BY <1>1, <1>2, NothingBefore DEF HistoryInv, FilesOK
<1> QED
  BY <1>1, <1>2, <1>3, <1>4 DEF HistoryInv, ShapesOK, SaverOK, QueueOK

LEMMA DieKeeps ==
  ASSUME HistoryInv, Die PROVE HistoryInv'
<1>1. UNCHANGED <<files, sent, told>> /\ memory' = <<>> /\ saver' = NotSaving /\ worker' = Resting
  BY DEF Die
<1>2. WorkerOK'
  BY <1>1, RestingShape DEF WorkerOK
<1>3. Len(<<>>) = 0 /\ <<>> \in Seq(Tasks) /\ <<>> \in Seq(Entries)
  BY EmptySeq
<1>4. QueueOK' /\ SaverOK'
  <2>1. QueueOK'
    BY <1>1, <1>3 DEF QueueOK
  <2>2. SaverOK'
    BY <1>1 DEF NotSaving, SaverOK
  <2> QED
    BY <2>1, <2>2
<1>5. FilesOK'
  BY <1>1, <1>3 DEF HistoryInv, FilesOK, Before
<1>6. ShapesOK'
  BY <1>1, <1>3, <1>4, RestingShape DEF HistoryInv, ShapesOK
<1> QED
  BY <1>2, <1>4, <1>5, <1>6 DEF HistoryInv

LEMMA InitHolds ==
  ASSUME NumberedFromOne, HistoryInit PROVE HistoryInv
<1>1. sent \in Messages \cup {0} /\ \A c \in Chats : InitialLength[c] \in Nat /\ InitialLength[c] <= sent
  BY HistoryAssumption DEF NumberedFromOne, HistoryInit
<1>2. ASSUME NEW c \in Chats
      PROVE  /\ files[c] \in Seq(Entries) /\ Len(files[c]) = InitialLength[c]
             /\ \A k \in 1..InitialLength[c] : files[c][k].id = k
  <2> DEFINE n == InitialLength[c]
             s == [k \in 1..n |-> [id |-> k, seq |-> k, size |-> "short"]]
  <2>1. n \in Nat /\ n <= sent /\ sent \in Messages \cup {0} /\ sent \in Nat
    BY <1>1, ChatAssumption
  <2>2. \A k \in 1..n : k \in Nat \ {0} /\ k <= sent
    BY <2>1
  <2>3. \A k \in 1..n : k \in Messages
    BY <2>1, <2>2, Numbered
  <2>4. \A k \in 1..n : s[k] \in Entries /\ s[k].id = k
    BY <2>2, <2>3 DEF Entries
  <2>5. files[c] = s
    BY DEF HistoryInit
  <2>6. s = [k \in 1..n |-> s[k]]
    OBVIOUS
  <2> HIDE DEF s
  <2>7. s \in Seq(Entries) /\ Len(s) = n
    BY <2>1, <2>4, <2>6, FromElements
  <2> QED
    BY <2>4, <2>5, <2>7
<1>3. Len(<<>>) = 0 /\ <<>> \in Seq(Tasks) /\ <<>> \in Seq(Entries)
  BY EmptySeq
<1>4. memory = <<>> /\ saver = NotSaving /\ worker = Resting /\ told = [c \in Chats |-> {}] /\ files = [c \in Chats |-> files[c]]
  BY DEF HistoryInit
<1>5. QueueOK /\ SaverOK
  <2>1. QueueOK
    BY <1>3, <1>4 DEF QueueOK
  <2>2. SaverOK
    BY <1>4 DEF NotSaving, SaverOK
  <2> QED
    BY <2>1, <2>2
<1>6. WorkerOK
  BY <1>4, RestingShape DEF WorkerOK
<1>7. FilesOK
  <2>1. \A c \in Chats : Before(files[c], memory)
    BY <1>3, <1>4 DEF Before
  <2>2. sent \in Nat
    BY <1>1, ChatAssumption
  <2>3. \A c \in Chats : Rising(files[c], sent)
    BY <1>1, <1>2, <2>2 DEF Rising
  <2> QED
    BY <2>1, <2>3 DEF FilesOK
<1>8. ShapesOK
  <2>1. files \in [Chats -> Seq(Entries)]
    BY <1>2, <1>4
  <2> QED
    BY <1>1, <1>3, <1>4, <1>5, <2>1, RestingShape DEF ShapesOK
<1> QED
  BY <1>5, <1>6, <1>7, <1>8 DEF HistoryInv

LEMMA StepKeeps ==
  ASSUME NumberedFromOne, ~Races, ReadAsAWhole, HistoryInv, [HistoryNext]_historyVars PROVE HistoryInv'
<1>1. CASE UNCHANGED historyVars
  BY <1>1 DEF historyVars, HistoryInv, ShapesOK, SaverOK, QueueOK, FilesOK, WorkerOK
<1>2. CASE HistoryNext
  BY <1>2, TurnSavesKeeps, AppendsKeeps, SchedulesKeeps, CompressionKeeps, ClearKeeps, DieKeeps
     DEF HistoryNext, MemoryCore
<1> QED
  BY <1>1, <1>2

-----------------------------------------------------------------------------
(* The mapping. *)

LogIds(entries) == [k \in DOMAIN entries |-> entries[k].id]

LEMMA IdsAre ==
  ASSUME NEW s \in Seq(Entries)
  PROVE  /\ LogIds(s) \in Seq(Messages) /\ Len(LogIds(s)) = Len(s) /\ Len(s) \in Nat /\ DOMAIN LogIds(s) = 1..Len(s)
         /\ \A k \in 1..Len(s) : LogIds(s)[k] = s[k].id
<1>1. Len(s) \in Nat /\ DOMAIN s = 1..Len(s) /\ \A k \in 1..Len(s) : s[k] \in Entries
  BY LenProperties, ElementOfSeq
<1>2. DOMAIN LogIds(s) = 1..Len(s) /\ (\A k \in 1..Len(s) : LogIds(s)[k] = s[k].id) /\ LogIds(s) = [k \in 1..Len(s) |-> LogIds(s)[k]]
  BY <1>1 DEF LogIds
<1>3. \A k \in 1..Len(s) : LogIds(s)[k] \in Messages
  BY <1>1, <1>2 DEF Entries
<1> QED
  BY <1>1, <1>2, <1>3, FromElements

LEMMA LogIs ==
  ASSUME NEW c \in Chats
  PROVE  /\ Log(c) = IF worker.at = "write" /\ worker.chat = c THEN LogIds(worker.result) ELSE LogIds(files[c])
         /\ Log(c)' = IF worker'.at = "write" /\ worker'.chat = c THEN LogIds(worker'.result) ELSE LogIds(files'[c])
BY DEF Log, LogIds, Content

\* Nothing of what a chat is promised changes.
LEMMA HistoryUnchanged ==
  ASSUME UNCHANGED told, \A c \in Chats : Log(c)' = Log(c) PROVE UNCHANGED ChatLog!logVars
BY DEF ChatLog!logVars

\* One chat's history changes.
LEMMA OneChanges ==
  ASSUME NEW c \in Chats, NEW new, Log(c)' = new, \A b \in Chats : b # c => Log(b)' = Log(b)
  PROVE  [b \in Chats |-> Log(b)]' = [[b \in Chats |-> Log(b)] EXCEPT ![c] = new]
OBVIOUS

LEMMA AppendIsSaid ==
  ASSUME NumberedFromOne, ~Races, HistoryInv, CoreAppends PROVE [ChatLog!LogNext]_ChatLog!logVars
<1>1. memory # <<>> /\ memory' = Tail(memory) /\ UNCHANGED <<worker, told>>
  BY DEF CoreAppends
<1>2. Head(memory) = memory[1] /\ memory[1] \in Tasks
  BY <1>1, TakenShape
<1>2a. PICK c \in Chats, task \in Tasks : task = memory[1] /\ c = task.chat
  BY <1>2 DEF Tasks
<1> DEFINE file == files[c]
           new == Appended(file, task)
<1>3. task.type = "save" /\ files' = [files EXCEPT ![c] = new]
      /\ ~(worker.at = "write" /\ worker.chat = c)
  <2>1. /\ Head(memory).type = "save" /\ Settled(Head(memory).chat)
        /\ files' = [files EXCEPT ![Head(memory).chat] = Appended(@, Head(memory))]
    BY DEF CoreAppends
  <2>2. Head(memory) = task /\ Head(memory).chat = c
    BY <1>2, <1>2a
  <2>3. task.type = "save" /\ Settled(c) /\ files' = [files EXCEPT ![c] = Appended(@, task)]
    BY <2>1, <2>2
  <2> QED
    BY <2>3 DEF Settled
<1>4. file \in Seq(Entries) /\ Rising(file, sent) /\ Before(file, memory) /\ files \in [Chats -> Seq(Entries)]
  BY <1>3 DEF HistoryInv, ShapesOK, FilesOK
<1>5. Log(c) = LogIds(file) /\ Log(c)' = LogIds(new) /\ \A b \in Chats : b # c => Log(b)' = Log(b)
  BY <1>1, <1>3, <1>4, LogIs
<1>6. CASE task.size = "over"
  <2>1. new = file
    BY <1>6 DEF Appended
  <2> QED
    BY <1>1, <1>5, <2>1, HistoryUnchanged
<1>7. CASE task.size # "over"
  <2>1. /\ new \in Seq(Entries) /\ Len(new) = Len(file) + 1
        /\ \A k \in 1..Len(file) : new[k] = file[k] /\ file[k].id < task.id
        /\ new[Len(file) + 1].id = task.id /\ task.id \in Messages
    BY <1>1, <1>2a, <1>3, <1>4, <1>7, AppendedIs
  <2> HIDE DEF new
  <2>2. LogIds(new) = Append(LogIds(file), task.id)
    <3>1. /\ LogIds(new) \in Seq(Messages) /\ Len(LogIds(new)) = Len(file) + 1 /\ LogIds(file) \in Seq(Messages)
          /\ Len(LogIds(file)) = Len(file) /\ Len(file) \in Nat
          /\ \A k \in 1..(Len(file) + 1) : LogIds(new)[k] = new[k].id
          /\ \A k \in 1..Len(file) : LogIds(file)[k] = file[k].id
      BY <1>4, <2>1, IdsAre
    <3>2. /\ Append(LogIds(file), task.id) \in Seq(Messages) /\ Len(Append(LogIds(file), task.id)) = Len(file) + 1
          /\ Append(LogIds(file), task.id)[Len(file) + 1] = task.id
          /\ \A k \in 1..Len(file) : Append(LogIds(file), task.id)[k] = LogIds(file)[k]
      BY <2>1, <3>1, AppendProperties
    <3>3. \A k \in 1..(Len(file) + 1) : LogIds(new)[k] = Append(LogIds(file), task.id)[k]
      <4>1. \A k \in 1..(Len(file) + 1) : k \in 1..Len(file) \/ k = Len(file) + 1
        BY <3>1
      <4>2. ASSUME NEW k \in 1..Len(file) PROVE LogIds(new)[k] = Append(LogIds(file), task.id)[k]
        <5>1. k \in 1..(Len(file) + 1)
          BY <3>1
        <5>2. LogIds(new)[k] = new[k].id /\ LogIds(file)[k] = file[k].id
          BY <3>1, <5>1
        <5>3. new[k] = file[k] /\ Append(LogIds(file), task.id)[k] = LogIds(file)[k]
          BY <2>1, <3>2
        <5> QED
          BY <5>2, <5>3
      <4>3. LogIds(new)[Len(file) + 1] = Append(LogIds(file), task.id)[Len(file) + 1]
        BY <2>1, <3>1, <3>2
      <4> QED
        BY <4>1, <4>2, <4>3
    <3> QED
      BY <3>1, <3>2, <3>3, SeqEqual
  <2>3. \A k \in DOMAIN Log(c) : Log(c)[k] < task.id
    BY <1>4, <1>5, <2>1, IdsAre
  <2>4. [b \in Chats |-> Log(b)]' = [[b \in Chats |-> Log(b)] EXCEPT ![c] = Append(@, task.id)]
    BY <1>5, <2>2, OneChanges
  <2>5. ChatLog!Say(c)
    BY <1>1, <2>1, <2>3, <2>4 DEF ChatLog!Say
  <2> QED
    BY <2>5 DEF ChatLog!LogNext
<1> QED
  BY <1>6, <1>7

LEMMA SummaryIsTold ==
  ASSUME HistoryInv, WriteSummary PROVE [ChatLog!LogNext]_ChatLog!logVars
<1> DEFINE i == ProtectFirst + 1
           j == Len(worker.seen) - ProtectLast
<1>0. PICK d \in Chats : d = worker.chat
  BY DEF WriteSummary, HistoryInv, WorkerOK
<1>1. /\ UNCHANGED files /\ worker.seen \in Seq(Entries) /\ files \in [Chats -> Seq(Entries)]
      /\ worker = [f \in WorkerFields |-> worker[f]]
      /\ worker.at = "summary" /\ worker' = [worker EXCEPT !.at = "latest"]
      /\ told' = [told EXCEPT ![d] = @ \cup Numbers(Middle(worker.seen))]
  BY <1>0 DEF WriteSummary, HistoryInv, ShapesOK
<1>2. Begins(worker.seen, files[d]) /\ Len(worker.seen) >= MinNeeded /\ files[d] \in Seq(Entries)
  BY <1>0, <1>1 DEF HistoryInv, WorkerOK
<1>3. worker'.at = "latest"
  BY <1>1 DEF WorkerFields
<1>4. \A c \in Chats : Log(c)' = Log(c) /\ Log(c) = LogIds(files[c])
  BY <1>1, <1>3, LogIs
<1>5. i \in DOMAIN Log(d) /\ j \in DOMAIN Log(d) /\ (i..j) \subseteq 1..Len(files[d]) /\ DOMAIN Log(d) = 1..Len(files[d])
  <2>1. DOMAIN Log(d) = 1..Len(files[d]) /\ Len(files[d]) \in Nat
    BY <1>1, <1>2, <1>4, IdsAre
  <2>2. Len(worker.seen) \in Nat
    BY <1>1, LenProperties
  <2> QED
    BY <1>2, <2>1, <2>2, ChatAssumption DEF MinNeeded, Begins
<1>6. Numbers(Middle(worker.seen)) = {Log(d)[k] : k \in i..j}
  <2>1. Numbers(Middle(worker.seen)) = {files[d][k].id : k \in i..j}
    BY <1>1, <1>2, MiddleNumbers
  <2>2. \A k \in i..j : Log(d)[k] = files[d][k].id
    BY <1>1, <1>2, <1>4, <1>5, IdsAre
  <2> QED
    BY <2>1, <2>2
<1> HIDE DEF i, j
<1>7. ChatLog!Tell(d)
  <2> DEFINE log == [c \in Chats |-> Log(c)]
  <2>1. UNCHANGED log
    BY <1>4
  <2>2. i \in DOMAIN log[d] /\ j \in DOMAIN log[d] /\ Numbers(Middle(worker.seen)) = {log[d][k] : k \in i..j}
    BY <1>5, <1>6
  <2> HIDE DEF log
  <2>3. \E a, b \in DOMAIN log[d] :
          told' = [told EXCEPT ![d] = @ \cup {log[d][k] : k \in a..b}] /\ UNCHANGED log
    BY <1>0, <1>1, <2>1, <2>2
  <2> QED
    BY <2>3 DEF ChatLog!Tell, log
<1> QED
  BY <1>2, <1>7 DEF ChatLog!LogNext

LEMMA OpeningCompresses ==
  ASSUME HistoryInv, OpenHistory PROVE [ChatLog!LogNext]_ChatLog!logVars
<1>0. PICK d \in Chats : d = worker.chat
  BY DEF OpenHistory, HistoryInv, WorkerOK
<1> DEFINE file == files[d]
           i == ProtectFirst + 1
           j == Len(worker.seen) - ProtectLast
           cut == Len(worker.seen) - ProtectLast - ProtectFirst
           r == worker.result
<1>1. /\ UNCHANGED told /\ worker.seen \in Seq(Entries) /\ files \in [Chats -> Seq(Entries)]
      /\ worker = [f \in WorkerFields |-> worker[f]]
      /\ worker.at = "open" /\ worker' = [worker EXCEPT !.at = "write"]
      /\ files' = [files EXCEPT ![d] = <<>>]
  BY <1>0 DEF OpenHistory, HistoryInv, ShapesOK
<1>2. /\ Begins(worker.seen, file) /\ Len(worker.seen) >= MinNeeded
      /\ Numbers(Middle(worker.seen)) \subseteq told[d] /\ file \in Seq(Entries)
  BY <1>0, <1>1 DEF HistoryInv, WorkerOK
<1>3. worker'.at = "write" /\ worker'.chat = d /\ worker'.result = r
  BY <1>0, <1>1 DEF WorkerFields
<1>4. Log(d) = LogIds(file) /\ Log(d)' = LogIds(r) /\ \A b \in Chats : b # d => Log(b)' = Log(b)
  BY <1>1, <1>2, <1>3, LogIs
<1>5. /\ cut \in Nat /\ Len(r) = Len(file) - cut /\ r \in Seq(Entries) /\ Len(r) \in Nat
      /\ \A k \in 1..Len(r) : r[k] = IF k <= ProtectFirst THEN file[k] ELSE file[k + cut]
  BY <1>0, <1>1, ResultIs
<1>6. /\ DOMAIN LogIds(file) = 1..Len(file) /\ Len(file) \in Nat /\ Len(LogIds(file)) = Len(file)
      /\ LogIds(r) = [k \in 1..Len(r) |-> r[k].id]
      /\ \A k \in 1..Len(file) : LogIds(file)[k] = file[k].id
  <2>1. DOMAIN r = 1..Len(r)
    BY <1>5, LenProperties
  <2> QED
    BY <1>2, <2>1, IdsAre DEF LogIds
<1>7. /\ i \in 1..Len(file) /\ j \in 1..Len(file) /\ (i..j) \subseteq 1..Len(file)
      /\ ProtectFirst < i /\ i <= j /\ j <= Len(file) - ProtectLast /\ j - i + 1 = cut
      /\ \A k \in Nat : k < i <=> k <= ProtectFirst
  <2>1. Len(worker.seen) \in Nat
    BY <1>1, LenProperties
  <2> QED
    BY <1>2, <1>6, <2>1, ChatAssumption DEF MinNeeded, Begins
<1>8. {LogIds(file)[k] : k \in i..j} \subseteq told[d]
  <2>1. Numbers(Middle(worker.seen)) = {file[k].id : k \in i..j}
    BY <1>1, <1>2, MiddleNumbers
  <2> HIDE DEF i, j, r, cut, file
  <2>2. \A k \in i..j : LogIds(file)[k] = file[k].id
    BY <1>6, <1>7
  <2>3. {LogIds(file)[k] : k \in i..j} = {file[k].id : k \in i..j}
    BY <2>2
  <2> QED
    BY <1>2, <2>1, <2>3
<1>9. LogIds(r) = ChatLog!Without(LogIds(file), i, j)
  <2>1. \A k \in 1..Len(r) : r[k].id = IF k < i THEN LogIds(file)[k] ELSE LogIds(file)[k + cut]
    <3> SUFFICES ASSUME NEW k \in 1..Len(r) PROVE r[k].id = IF k < i THEN LogIds(file)[k] ELSE LogIds(file)[k + cut]
      OBVIOUS
    <3>1. k \in 1..Len(file) /\ k + cut \in 1..Len(file) /\ k \in Nat
      BY <1>5, <1>6
    <3> QED
      BY <1>5, <1>6, <1>7, <3>1
  <2> HIDE DEF cut, i, j
  <2>2. ChatLog!Without(LogIds(file), i, j)
          = [k \in 1..Len(r) |-> IF k < i THEN LogIds(file)[k] ELSE LogIds(file)[k + cut]]
    BY <1>5, <1>6, <1>7 DEF ChatLog!Without
  <2> QED
    BY <1>6, <2>1, <2>2
<1> HIDE DEF i, j, r, cut
<1>10. [b \in Chats |-> Log(b)]' = [[b \in Chats |-> Log(b)] EXCEPT ![d] = ChatLog!Without(@, i, j)]
  BY <1>2, <1>4, <1>9, OneChanges
<1>11. ChatLog!Compress(d)
  <2> DEFINE log == [b \in Chats |-> Log(b)]
  <2>1. /\ i \in DOMAIN log[d] /\ j \in DOMAIN log[d] /\ j <= Len(log[d]) - ProtectLast
        /\ {log[d][k] : k \in i..j} \subseteq told[d]
    BY <1>4, <1>6, <1>7, <1>8
  <2>2. log' = [log EXCEPT ![d] = ChatLog!Without(@, i, j)]
    BY <1>10
  <2> HIDE DEF log
  <2>3. \E a, b \in DOMAIN log[d] :
          /\ ProtectFirst < a /\ a <= b /\ b <= Len(log[d]) - ProtectLast
          /\ {log[d][k] : k \in a..b} \subseteq told[d]
          /\ log' = [log EXCEPT ![d] = ChatLog!Without(@, a, b)]
          /\ UNCHANGED told
    BY <1>1, <1>7, <2>1, <2>2
  <2> QED
    BY <2>3 DEF ChatLog!Compress, log
<1> QED
  BY <1>2, <1>11 DEF ChatLog!LogNext

LEMMA WritingShowsNothing ==
  ASSUME HistoryInv, WriteHistory PROVE UNCHANGED ChatLog!logVars
<1>1. /\ UNCHANGED told /\ files \in [Chats -> Seq(Entries)]
      /\ worker = [f \in WorkerFields |-> worker[f]] /\ worker.chat \in Chats
      /\ worker.at = "write"
      /\ worker' = [worker EXCEPT !.at = "look", !.pass = @ + 1, !.seen = <<>>, !.result = <<>>]
      /\ files' = [files EXCEPT ![worker.chat] = worker.result]
  BY DEF WriteHistory, HistoryInv, ShapesOK, WorkerOK
<1>2. worker'.at = "look"
  BY <1>1 DEF WorkerFields
<1>3. \A c \in Chats : Log(c)' = Log(c)
  BY <1>1, <1>2, LogIs
<1> QED
  BY <1>1, <1>3, HistoryUnchanged

\* The file of a chat is gone, with what was about to be written to it.
LEMMA IdsOfNothing == LogIds(<<>>) = <<>>
<1>1. <<>> \in Seq(Entries)
  BY EmptySeq
<1>2. LogIds(<<>>) \in Seq(Messages) /\ Len(LogIds(<<>>)) = 0
  BY <1>1, IdsAre, EmptySeq
<1> QED
  BY <1>2, EmptySeq

LEMMA ClearingDeletes ==
  ASSUME ~Races, HistoryInv, NEW c \in Chats, ClearSession(c) PROVE [ChatLog!LogNext]_ChatLog!logVars
<1>1. /\ UNCHANGED <<told, worker>> /\ files \in [Chats -> Seq(Entries)]
      /\ files' = [files EXCEPT ![c] = <<>>] /\ worker.chat # c
  BY DEF ClearSession, MayDelete, HistoryInv, ShapesOK
<1>2. Log(c)' = <<>> /\ \A b \in Chats : b # c => Log(b)' = Log(b)
  BY <1>1, LogIs, IdsOfNothing
<1>3. ChatLog!Delete(c)
  BY <1>1, <1>2, OneChanges DEF ChatLog!Delete
<1> QED
  BY <1>3 DEF ChatLog!LogNext

LEMMA DyingDeletesAtMostOne ==
  ASSUME HistoryInv, Die PROVE [ChatLog!LogNext]_ChatLog!logVars
<1>1. UNCHANGED <<told, files>> /\ worker' = Resting /\ worker'.at = "wait"
  BY RestingShape DEF Die
<1>2. CASE worker.at = "write"
  <2>1. PICK d \in Chats : d = worker.chat /\ files[d] = <<>>
    BY <1>2 DEF HistoryInv, WorkerOK
  <2>2. Log(d)' = <<>> /\ \A b \in Chats : b # d => Log(b)' = Log(b)
    BY <1>1, <2>1, LogIs, IdsOfNothing
  <2>3. ChatLog!Delete(d)
    BY <1>1, <2>1, <2>2, OneChanges DEF ChatLog!Delete
  <2> QED
    BY <2>1, <2>3 DEF ChatLog!LogNext
<1>3. CASE worker.at # "write"
  <2>1. \A c \in Chats : Log(c)' = Log(c)
    BY <1>1, <1>3, LogIs
  <2> QED
    BY <1>1, <2>1, HistoryUnchanged
<1> QED
  BY <1>2, <1>3

\* The other steps show nothing.
LEMMA OthersShowNothing ==
  ASSUME HistoryInv, TurnSaves \/ CoreSchedules \/ PickJob \/ LookAtHistory \/ ReadLatest \/ FinishJob
  PROVE  UNCHANGED ChatLog!logVars
<1>1. UNCHANGED <<files, told>> /\ worker = [f \in WorkerFields |-> worker[f]]
  BY DEF HistoryInv, ShapesOK, TurnSaves, SaveMessage, SaveReply, ScheduleAfterSave, RequestCompression,
         CoreSchedules, PickJob, LookAtHistory, ReadLatest, FinishJob
<1>2. worker' = worker \/ (worker.at # "write" /\ worker'.at # "write")
  <2>1. CASE TurnSaves \/ CoreSchedules
    BY <2>1 DEF TurnSaves, SaveMessage, SaveReply, ScheduleAfterSave, RequestCompression, CoreSchedules
  <2>2. CASE PickJob
    <3>1. PICK k \in 1..JobSlots : worker' = [Resting EXCEPT !.at = "look", !.chat = jobs[k].chat, !.pass = 1]
      BY <2>2 DEF PickJob
    <3>2. worker'.at = "look"
      BY <3>1 DEF Resting
    <3> QED
      BY <2>2, <3>2 DEF PickJob
  <2>3. CASE LookAtHistory
    BY <1>1, <2>3 DEF LookAtHistory, WorkerFields
  <2>4. CASE ReadLatest
    BY <1>1, <2>4 DEF ReadLatest, WorkerFields
  <2>5. CASE FinishJob
    BY <2>5, RestingShape DEF FinishJob
  <2> QED
    BY <2>1, <2>2, <2>3, <2>4, <2>5
<1>3. \A c \in Chats : Log(c)' = Log(c)
  BY <1>1, <1>2, LogIs
<1> QED
  BY <1>1, <1>3, HistoryUnchanged

LEMMA StepsAreSteps ==
  ASSUME NumberedFromOne, ~Races, HistoryInv, [HistoryNext]_historyVars PROVE [ChatLog!LogNext]_ChatLog!logVars
<1>1. CASE UNCHANGED historyVars
  <2>1. UNCHANGED <<files, worker, told>>
    BY <1>1 DEF historyVars
  <2>2. \A c \in Chats : Log(c)' = Log(c)
    BY <2>1 DEF Log, Content
  <2> QED
    BY <2>1, <2>2, HistoryUnchanged
<1>2. CASE HistoryNext
  BY <1>2, AppendIsSaid, SummaryIsTold, OpeningCompresses, WritingShowsNothing, ClearingDeletes,
     DyingDeletesAtMostOne, OthersShowNothing DEF HistoryNext, MemoryCore, Compression
<1> QED
  BY <1>1, <1>2

LEMMA InitIsInit ==
  ASSUME NumberedFromOne, HistoryInit, HistoryInv PROVE ChatLog!LogInit
<1>1. ASSUME NEW c \in Chats PROVE Log(c) \in Seq(Messages) /\ ChatLog!Ordered(Log(c))
  <2>1. files[c] \in Seq(Entries) /\ Rising(files[c], sent) /\ Log(c) = LogIds(files[c])
    BY LogIs, RestingShape DEF HistoryInv, ShapesOK, FilesOK, HistoryInit
  <2> QED
    BY <2>1, IdsAre DEF Rising, ChatLog!Ordered
<1>2. told = [c \in Chats |-> {}]
  BY DEF HistoryInit
<1> QED
  BY <1>1, <1>2 DEF ChatLog!LogInit, ChatLog!HistoryInOrder

\* Appending, compressing and rewriting by three threads implement the history a
\* chat is promised (session_mgr.c, context_compressor.c, core_memory.c): the
\* lines of its file come in the order in which they were sent, none twice; none
\* leaves but by deleting the session, or from the middle once the summary has it.
\* It holds while the files are short enough to be read as a whole.
THEOREM ChatIsKept ==
  ASSUME NumberedFromOne, ~Races
  PROVE  HistorySpec /\ []ReadAsAWhole => ImplementsChatLog
<1>1. HistoryInit => HistoryInv /\ ChatLog!LogInit
  BY InitHolds, InitIsInit
<1>2. HistoryInv /\ ReadAsAWhole /\ [HistoryNext]_historyVars => HistoryInv' /\ [ChatLog!LogNext]_ChatLog!logVars
  BY StepKeeps, StepsAreSteps
<1> QED
  BY <1>1, <1>2, PTL DEF HistorySpec, ImplementsChatLog, ChatLog!LogSpec

-----------------------------------------------------------------------------
(* The seqs of a chat's lines. *)

\* Seqs rise along what a chat's file holds or will hold.
SeqRising(s) == \A j, k \in 1..Len(s) : j < k => s[j].seq < s[k].seq
SeqInv == deletes \in Nat /\ deaths \in Nat /\ \A c \in Chats : SeqRising(Content(c))

SeqOfLast(s) == IF s = <<>> THEN 0 ELSE Last(s).seq
SeqKept(c) == ~Cleared(c) => LastSeq(c)' >= LastSeq(c) /\ ChatLog!Ordered(Seqs(c)')

LEMMA ContentType ==
  ASSUME HistoryInv, NEW c \in Chats
  PROVE  Content(c) \in Seq(Entries) /\ LastSeq(c) = SeqOfLast(Content(c))
BY DEF HistoryInv, ShapesOK, Content, LastSeq, SeqOfLast

\* The last line's seq, which is the highest.
LEMMA LastIs ==
  ASSUME NEW s \in Seq(Entries)
  PROVE  /\ Len(s) \in Nat /\ SeqOfLast(s) \in Nat
         /\ Len(s) # 0 => SeqOfLast(s) = s[Len(s)].seq
         /\ \A k \in 1..Len(s) : s[k].seq \in Nat
         /\ SeqRising(s) => \A k \in 1..Len(s) : s[k].seq <= SeqOfLast(s)
<1>1. Len(s) \in Nat /\ (s = <<>> <=> Len(s) = 0) /\ \A k \in 1..Len(s) : s[k].seq \in Nat
  <2>1. Len(s) \in Nat /\ (s = <<>> <=> Len(s) = 0)
    BY LenProperties, EmptySeq
  <2>2. \A k \in 1..Len(s) : s[k] \in Entries
    BY ElementOfSeq
  <2> QED
    BY <2>1, <2>2 DEF Entries
<1>2. CASE Len(s) = 0
  BY <1>1, <1>2 DEF SeqOfLast
<1>3. CASE Len(s) # 0
  <2>1. Len(s) \in 1..Len(s) /\ SeqOfLast(s) = s[Len(s)].seq
    BY <1>1, <1>3 DEF SeqOfLast, Last
  <2>2. ASSUME SeqRising(s), NEW k \in 1..Len(s) PROVE s[k].seq <= s[Len(s)].seq
    <3>1. k = Len(s) \/ k < Len(s)
      BY <1>1
    <3> QED
      BY <1>1, <2>1, <2>2, <3>1 DEF SeqRising
  <2> QED
    BY <1>1, <1>3, <2>1, <2>2
<1> QED
  BY <1>2, <1>3

LEMMA SeqsOrdered ==
  ASSUME NEW c \in Chats, Content(c)' \in Seq(Entries), SeqRising(Content(c)')
  PROVE  ChatLog!Ordered(Seqs(c)')
<1> DEFINE t == Content(c)'
<1>1. DOMAIN t = 1..Len(t)
  BY LenProperties
<1>2. Seqs(c)' = [k \in DOMAIN t |-> t[k].seq]
  BY DEF Seqs
<1> HIDE DEF t
<1>3. SeqRising(t)
  BY DEF t
<1> QED
  BY <1>1, <1>2, <1>3 DEF ChatLog!Ordered, SeqRising

\* A chat's lines are as they were.
LEMMA SameSeqs ==
  ASSUME HistoryInv, SeqInv, NEW c \in Chats, Content(c)' = Content(c)
  PROVE  SeqRising(Content(c)') /\ SeqKept(c)
<1>1. Content(c)' \in Seq(Entries) /\ SeqRising(Content(c)') /\ LastSeq(c)' = LastSeq(c)
  BY ContentType DEF SeqInv, LastSeq
<1>2. LastSeq(c) \in Nat
  BY ContentType, LastIs
<1> QED
  BY <1>1, <1>2, SeqsOrdered DEF SeqKept

\* A line that is appended has a seq above those before it.
LEMMA AppendRises ==
  ASSUME NEW s \in Seq(Entries), SeqRising(s), NEW task, task.id \in Messages, task.size \in Sizes \cup {"short"}
  PROVE  LET t == Appended(s, task)
         IN  t \in Seq(Entries) /\ SeqRising(t) /\ SeqOfLast(t) >= SeqOfLast(s)
<1> DEFINE e == [id |-> task.id, seq |-> NextSeq(s), size |-> task.size]
           t == Appended(s, task)
<1>1. /\ Len(s) \in Nat /\ SeqOfLast(s) \in Nat
      /\ \A k \in 1..Len(s) : s[k].seq \in Nat /\ s[k].seq <= SeqOfLast(s)
  BY LastIs
<1>2. CASE task.size = "over"
  BY <1>1, <1>2 DEF Appended
<1>3. CASE task.size # "over"
  <2>1. e \in Entries /\ e.seq = SeqOfLast(s) + 1
    BY <1>1, NextSeqNat DEF Entries, NextSeq, SeqOfLast
  <2>2. t = Append(s, e)
    BY <1>3 DEF Appended
  <2> HIDE DEF e, t
  <2>3. t \in Seq(Entries) /\ Len(t) = Len(s) + 1 /\ (\A k \in 1..Len(s) : t[k] = s[k]) /\ t[Len(s) + 1] = e
    BY <2>1, <2>2, AppendProperties
  <2>4. SeqRising(t)
    <3> SUFFICES ASSUME NEW j \in 1..Len(t), NEW k \in 1..Len(t), j < k PROVE t[j].seq < t[k].seq
      BY DEF SeqRising
    <3>1. j \in 1..Len(s) /\ t[j] = s[j]
      BY <1>1, <2>3
    <3>2. CASE k \in 1..Len(s)
      BY <2>3, <3>1, <3>2 DEF SeqRising
    <3>3. CASE k = Len(s) + 1
      BY <1>1, <2>1, <2>3, <3>1, <3>3
    <3> QED
      BY <1>1, <2>3, <3>2, <3>3
  <2>5. SeqOfLast(t) = SeqOfLast(s) + 1
    BY <1>1, <2>1, <2>3, LastIs
  <2> QED
    BY <1>1, <2>3, <2>4, <2>5 DEF t
<1> QED
  BY <1>2, <1>3

LEMMA AppendKeepsSeqs ==
  ASSUME NumberedFromOne, ~Races, HistoryInv, SeqInv, CoreAppends, NEW c \in Chats
  PROVE  SeqRising(Content(c)') /\ SeqKept(c)
<1> DEFINE task == memory[1]
<1>1. memory # <<>> /\ memory' = Tail(memory) /\ UNCHANGED <<worker, sent>>
  BY DEF CoreAppends
<1>2. QueueTaken /\ Head(memory) = task /\ task \in Tasks /\ 1 \in 1..Len(memory)
  BY <1>1, TakenShape
<1>3. /\ task.type = "save" /\ files' = [files EXCEPT ![task.chat] = Appended(@, task)]
      /\ files \in [Chats -> Seq(Entries)] /\ task.chat \in Chats
      /\ (worker.chat # task.chat \/ worker.at \notin {"open", "write"})
  BY <1>2 DEF CoreAppends, Settled, HistoryInv, ShapesOK, Tasks
<1>4. CASE c # task.chat
  <2>1. Content(c)' = Content(c)
    BY <1>1, <1>3, <1>4 DEF Content
  <2> QED
    BY <2>1, SameSeqs
<1>5. CASE c = task.chat
  <2>1. Content(c) = files[c] /\ Content(c)' = Appended(files[c], task)
    BY <1>1, <1>3, <1>5 DEF Content
  <2>2. files[c] \in Seq(Entries) /\ SeqRising(files[c])
    BY <1>3, <2>1 DEF SeqInv
  <2>3. task.id \in Messages /\ task.size \in Sizes \cup {"short"}
    <3>1. task.id \in 1..sent /\ sent \in Nat
      BY <1>2, <1>3, QueueNumbers, SentNat
    <3>2. sent \in Messages \cup {0}
      BY DEF HistoryInv, ShapesOK
    <3> QED
      BY <1>2, <3>1, <3>2, Numbered DEF Tasks
  <2> DEFINE t == Appended(files[c], task)
  <2>4. t \in Seq(Entries) /\ SeqRising(t) /\ SeqOfLast(t) >= SeqOfLast(files[c])
    BY <2>2, <2>3, AppendRises
  <2>5. LastSeq(c) = SeqOfLast(files[c]) /\ LastSeq(c)' = SeqOfLast(t)
    BY <2>1 DEF LastSeq, SeqOfLast
  <2> HIDE DEF t
  <2>6. Content(c)' = t
    BY <2>1 DEF t
  <2> QED
    BY <2>4, <2>5, <2>6, SeqsOrdered DEF SeqKept
<1> QED
  BY <1>4, <1>5

\* The middle goes, the last line stays.
LEMMA OpeningKeepsSeqs ==
  ASSUME HistoryInv, SeqInv, OpenHistory, NEW c \in Chats
  PROVE  SeqRising(Content(c)') /\ SeqKept(c)
<1>1. /\ worker.at = "open" /\ worker.chat \in Chats
      /\ worker = [f \in WorkerFields |-> worker[f]] /\ files \in [Chats -> Seq(Entries)]
      /\ worker' = [worker EXCEPT !.at = "write"] /\ files' = [files EXCEPT ![worker.chat] = <<>>]
  BY DEF OpenHistory, HistoryInv, ShapesOK, WorkerOK
<1>2. worker'.at = "write" /\ worker'.chat = worker.chat /\ worker'.result = worker.result
  BY <1>1 DEF WorkerFields
<1>3. CASE c # worker.chat
  <2>1. Content(c)' = Content(c)
    BY <1>1, <1>2, <1>3 DEF Content
  <2> QED
    BY <2>1, SameSeqs
<1>4. CASE c = worker.chat
  <2> DEFINE r == worker.result
             s == files[c]
             d == Len(worker.seen) - ProtectLast - ProtectFirst
  <2>1. Content(c)' = r /\ Content(c) = s
    BY <1>1, <1>2, <1>4 DEF Content
  <2>2. /\ d \in Nat /\ Len(r) = Len(s) - d /\ r \in Seq(Entries) /\ s \in Seq(Entries) /\ Len(r) \in Nat
        /\ \A k \in 1..Len(r) : r[k] = IF k <= ProtectFirst THEN s[k] ELSE s[k + d]
    BY <1>1, <1>4, ResultIs
  <2>3. /\ ProtectFirst \in Nat /\ ProtectLast \in Nat \ {0} /\ Len(worker.seen) \in Nat
        /\ Len(worker.seen) <= Len(s) /\ Len(s) \in Nat
    BY <1>1, <1>4, ChatAssumption, LenProperties DEF HistoryInv, WorkerOK, ShapesOK, Begins
  <2>4. Len(r) > ProtectFirst /\ Len(s) = Len(r) + d /\ Len(s) \in Nat
    <3>1. d = Len(worker.seen) - ProtectLast - ProtectFirst
      OBVIOUS
    <3>2. d \in Nat /\ Len(r) = Len(s) - d /\ Len(s) \in Nat /\ Len(worker.seen) <= Len(s)
      BY <2>2, <2>3
    <3> HIDE DEF r, s, d
    <3>3. Len(s) = Len(r) + d /\ Len(r) = Len(s) - Len(worker.seen) + ProtectLast + ProtectFirst
      BY <2>3, <3>1, <3>2
    <3> QED
      BY <2>3, <3>2, <3>3
  <2>5. SeqRising(s)
    BY <2>1 DEF SeqInv
  <2> HIDE DEF r, s, d
  <2>6. SeqRising(r)
    <3> SUFFICES ASSUME NEW j \in 1..Len(r), NEW k \in 1..Len(r), j < k PROVE r[j].seq < r[k].seq
      BY DEF SeqRising
    <3> DEFINE at(i) == IF i <= ProtectFirst THEN i ELSE i + d
    <3>1. at(j) \in 1..Len(s) /\ at(k) \in 1..Len(s) /\ at(j) < at(k)
      BY <2>2, <2>3, <2>4
    <3>2. r[j] = s[at(j)] /\ r[k] = s[at(k)]
      BY <2>2
    <3> HIDE DEF at
    <3> QED
      BY <2>5, <3>1, <3>2 DEF SeqRising
  <2>7. SeqOfLast(r) = SeqOfLast(s) /\ SeqOfLast(s) \in Nat
    <3>1. Len(r) # 0 /\ Len(s) # 0 /\ Len(r) \in 1..Len(r) /\ ~(Len(r) <= ProtectFirst)
      BY <2>2, <2>3, <2>4
    <3>2. r[Len(r)] = s[Len(s)]
      BY <2>2, <2>4, <3>1
    <3> QED
      BY <2>2, <3>1, <3>2, LastIs
  <2>8. LastSeq(c)' = SeqOfLast(r) /\ LastSeq(c) = SeqOfLast(s)
    BY <2>1 DEF LastSeq, SeqOfLast
  <2> QED
    BY <2>1, <2>2, <2>6, <2>7, <2>8, SeqsOrdered DEF SeqKept
<1> QED
  BY <1>3, <1>4

\* A deletion, or the death of the process, is what the property leaves out.
LEMMA ClearingKeepsSeqs ==
  ASSUME ~Races, HistoryInv, SeqInv, NEW d \in Chats, ClearSession(d), NEW c \in Chats
  PROVE  SeqRising(Content(c)') /\ SeqKept(c)
<1>1. /\ worker.chat # d /\ UNCHANGED worker /\ files' = [files EXCEPT ![d] = <<>>]
      /\ files \in [Chats -> Seq(Entries)] /\ deletes \in Nat /\ deletes' = deletes + 1
  BY DEF ClearSession, MayDelete, HistoryInv, ShapesOK, SeqInv
<1>2. CASE c # d
  <2>1. Content(c)' = Content(c)
    BY <1>1, <1>2 DEF Content
  <2> QED
    BY <2>1, SameSeqs
<1>3. CASE c = d
  <2>1. Content(c)' = <<>> /\ files'[c] = <<>>
    BY <1>1, <1>3 DEF Content
  <2>2. SeqRising(<<>>)
    BY EmptySeq DEF SeqRising
  <2> QED
    BY <1>1, <2>1, <2>2 DEF SeqKept, Cleared
<1> QED
  BY <1>2, <1>3

\* Writing puts in the file what it was going to hold; no other step touches it.
LEMMA OtherSeqs ==
  ASSUME HistoryInv, TurnSaves \/ CoreSchedules \/ (Compression /\ ~OpenHistory), NEW c \in Chats
  PROVE  Content(c)' = Content(c)
<1>1. worker = [f \in WorkerFields |-> worker[f]] /\ files \in [Chats -> Seq(Entries)]
  BY DEF HistoryInv, ShapesOK
<1>2. CASE TurnSaves \/ CoreSchedules
  BY <1>2 DEF TurnSaves, SaveMessage, SaveReply, ScheduleAfterSave, RequestCompression, CoreSchedules, Content
<1>3. CASE WriteHistory
  <2>1. /\ worker.at = "write" /\ worker.chat \in Chats
        /\ worker'.at = "look" /\ files' = [files EXCEPT ![worker.chat] = worker.result]
    BY <1>1, <1>3 DEF WriteHistory, HistoryInv, WorkerOK, WorkerFields
  <2> QED
    BY <1>1, <2>1 DEF Content
<1>4. ASSUME UNCHANGED files, worker.at # "write", worker'.at # "write"
      PROVE  Content(c)' = Content(c)
  BY <1>4 DEF Content
<1>5. CASE PickJob
  <2>1. PICK name : worker' = [Resting EXCEPT !.at = "look", !.chat = name, !.pass = 1]
    BY <1>5 DEF PickJob
  <2>2. worker'.at = "look"
    BY <2>1 DEF Resting
  <2> QED
    BY <1>4, <1>5, <2>2 DEF PickJob
<1>6. CASE LookAtHistory
  <2>1. worker'.at \in {"summary", "done"}
    BY <1>1, <1>6 DEF LookAtHistory, WorkerFields
  <2> QED
    BY <1>4, <1>6, <2>1 DEF LookAtHistory
<1>7. CASE WriteSummary
  <2>1. worker'.at = "latest"
    BY <1>1, <1>7 DEF WriteSummary, WorkerFields
  <2> QED
    BY <1>4, <1>7, <2>1 DEF WriteSummary
<1>8. CASE ReadLatest
  <2>1. worker'.at \in {"open", "done"}
    BY <1>1, <1>8 DEF ReadLatest, WorkerFields
  <2> QED
    BY <1>4, <1>8, <2>1 DEF ReadLatest
<1>9. CASE FinishJob
  <2>1. worker'.at = "wait"
    BY <1>9, RestingShape DEF FinishJob
  <2> QED
    BY <1>4, <1>9, <2>1 DEF FinishJob
<1> QED
  BY <1>2, <1>3, <1>5, <1>6, <1>7, <1>8, <1>9 DEF Compression

LEMMA DyingKeepsSeqs ==
  ASSUME HistoryInv, SeqInv, Die, NEW c \in Chats
  PROVE  SeqRising(Content(c)')
<1>1. UNCHANGED files /\ worker'.at = "wait"
  BY RestingShape DEF Die
<1>2. Content(c)' = files[c]
  BY <1>1 DEF Content
<1>3. CASE worker.at = "write" /\ worker.chat = c
  BY <1>2, <1>3, EmptySeq DEF HistoryInv, WorkerOK, SeqRising
<1>4. CASE ~(worker.at = "write" /\ worker.chat = c)
  BY <1>2, <1>4 DEF SeqInv, Content
<1> QED
  BY <1>3, <1>4

LEMMA SeqStep ==
  ASSUME NumberedFromOne, ~Races, HistoryInv, SeqInv, [HistoryNext]_historyVars
  PROVE  SeqInv' /\ [\A c \in Chats : SeqKept(c)]_historyVars
<1>1. CASE UNCHANGED historyVars
  BY <1>1 DEF historyVars, SeqInv, Content
<1>2. CASE Die
  <2>1. deaths \in Nat /\ deaths' = deaths + 1 /\ deletes' = deletes /\ deletes \in Nat
    BY <1>2 DEF Die, SeqInv
  <2>2. \A c \in Chats : SeqKept(c)
    BY <2>1 DEF SeqKept, Cleared
  <2> QED
    BY <1>2, <2>1, <2>2, DyingKeepsSeqs DEF SeqInv
<1>3. CASE \E d \in Chats : ClearSession(d)
  <2>1. PICK d \in Chats : ClearSession(d)
    BY <1>3
  <2>2. deletes' \in Nat /\ deaths' \in Nat
    BY <2>1 DEF ClearSession, SeqInv
  <2> QED
    BY <2>1, <2>2, ClearingKeepsSeqs DEF SeqInv
<1>4. CASE CoreAppends
  <2>1. UNCHANGED <<deletes, deaths>>
    BY <1>4 DEF CoreAppends
  <2> QED
    BY <1>4, <2>1, AppendKeepsSeqs DEF SeqInv
<1>5. CASE OpenHistory
  <2>1. UNCHANGED <<deletes, deaths>>
    BY <1>5 DEF OpenHistory
  <2> QED
    BY <1>5, <2>1, OpeningKeepsSeqs DEF SeqInv
<1>6. CASE TurnSaves \/ CoreSchedules \/ (Compression /\ ~OpenHistory)
  <2>1. UNCHANGED <<deletes, deaths>>
    BY <1>6 DEF TurnSaves, SaveMessage, SaveReply, ScheduleAfterSave, RequestCompression, CoreSchedules,
        Compression, PickJob, LookAtHistory, WriteSummary, ReadLatest, WriteHistory, FinishJob
  <2> QED
    BY <1>6, <2>1, OtherSeqs, SameSeqs DEF SeqInv
<1> QED
  BY <1>1, <1>2, <1>3, <1>4, <1>5, <1>6 DEF HistoryNext, MemoryCore

\* Clients ask for what is newer than a seq (session_store_file.c:106): the highest
\* seq of a chat's lines does not sink and no two share one, however appending,
\* compressing and writing anew interleave. It holds, as ChatIsKept does, while files
\* are short enough to be read as a whole.
THEOREM SeqsAreNew ==
  ASSUME NumberedFromOne, ~Races
  PROVE  HistorySpec /\ []ReadAsAWhole => SeqsStayNew
<1>1. HistoryInit => HistoryInv /\ SeqInv
  <2> SUFFICES ASSUME HistoryInit PROVE HistoryInv /\ SeqInv
    OBVIOUS
  <2>1. ASSUME NEW c \in Chats PROVE SeqRising(Content(c))
    <3>1. Content(c) = files[c]
      BY RestingShape DEF HistoryInit, Content
    <3>2. files[c] = [k \in 1..InitialLength[c] |-> [id |-> k, seq |-> k, size |-> "short"]]
      BY DEF HistoryInit
    <3>3. InitialLength[c] \in Nat
      BY HistoryAssumption
    <3>4. Len(files[c]) = InitialLength[c] /\ \A k \in 1..InitialLength[c] : files[c][k].seq = k
      BY <3>2, <3>3
    <3> QED
      BY <3>1, <3>3, <3>4 DEF SeqRising
  <2> QED
    BY <2>1, InitHolds DEF HistoryInit, SeqInv
<1>2. HistoryInv /\ ReadAsAWhole /\ SeqInv /\ [HistoryNext]_historyVars =>
        HistoryInv' /\ SeqInv' /\ [\A c \in Chats : SeqKept(c)]_historyVars
  BY StepKeeps, SeqStep
<1> QED
  BY <1>1, <1>2, PTL DEF HistorySpec, SeqsStayNew, SeqKept

===============================================================================
