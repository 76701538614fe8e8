--------------------------- MODULE AgentTurnProofs ---------------------------
(***************************************************************************)
(* What AgentTurn keeps for every number of chats, rounds, calls,          *)
(* providers and generations.  Cancellation is sound when no slot of the   *)
(* cancel table has to change hands (EnoughSlots): then the slot of the    *)
(* chat whose turn is under way stays that chat's, and says of the turn    *)
(* what the clients have asked (TokenInv).  The rest follows from that,    *)
(* and what limits a turn: how much it still does once nobody wants it     *)
(* (LateInv), and that a directive is not run again (DirectiveInv).        *)
(***************************************************************************)
EXTENDS AgentTurn, FiniteSetTheorems, WellFoundedInduction, SequenceTheorems, TLAPS

-----------------------------------------------------------------------------
(* The cancel table. *)

\* The least element of a set of numbers is one of its elements.
LEMMA MinIsMember ==
  ASSUME NEW P \in SUBSET Nat, P # {}
  PROVE  Min(P) \in P
<1> DEFINE R == {p \in Nat \X Nat : p[1] < p[2]}
<1>1. OpToRel(<, Nat) = R
  BY DEF OpToRel
<1>2. IsWellFoundedOn(R, Nat)
  BY <1>1, NatLessThanWellFounded
<1> HIDE DEF R
<1>3. PICK x \in P : \A y \in P : ~(<<y, x>> \in R)
  BY <1>2, WFMin
<1>4. ASSUME NEW y \in P PROVE x <= y
  <2>1. x \in Nat /\ y \in Nat
    OBVIOUS
  <2>2. y < x => <<y, x>> \in R
    BY <2>1 DEF R
  <2>3. ~(y < x)
    BY <1>3, <2>2
  <2> QED
    BY <2>1, <2>3
<1> QED
  BY <1>4 DEF Min

SlotsOK ==
  /\ slots \in [Slot -> CancelSlot]
  /\ \A i, j \in Slot : slots[i].chat = slots[j].chat /\ slots[i].chat # None => i = j

\* Whichever slot a chat is given, it is one of the table.
LEMMA SlotForType ==
  ASSUME NEW chat
  PROVE  SlotFor(chat) \in Slot
<1>1. \A P \in SUBSET Slot : P # {} => Min(P) \in P
  BY MinIsMember DEF Slot
<1>2. {i \in Slot : Holds(i, chat)} \in SUBSET Slot /\ {i \in Slot : Holds(i, None)} \in SUBSET Slot
  OBVIOUS
<1>3. 1 \in Slot
  BY CancelAssumption DEF Slot
<1> QED
  BY <1>1, <1>2, <1>3 DEF SlotFor

LEMMA NewTokenType ==
  ASSUME slots \in [Slot -> CancelSlot], NEW chat
  PROVE  NewToken(chat) \in Generation
<1>1. GenerationOf(chat) \in Generation
  BY SlotForType, CancelAssumption DEF GenerationOf, CancelSlot, Generation
<1> QED
  BY <1>1, CancelAssumption DEF NewToken, Successor, Generation

LEMMA RenewType ==
  ASSUME slots \in [Slot -> CancelSlot], NEW chat \in Chat, NEW b \in BOOLEAN, Renew(chat, b)
  PROVE  slots' \in [Slot -> CancelSlot]
<1>1. [chat |-> chat, generation |-> NewToken(chat), cancelled |-> b] \in CancelSlot
  BY NewTokenType DEF CancelSlot
<1> QED
  BY <1>1 DEF Renew

\* With enough slots a chat gets its own slot or a free one: were all taken by
\* others, two of them would hold the same chat.
LEMMA SlotForSound ==
  ASSUME EnoughSlots, SlotsOK, NEW chat \in Chat
  PROVE  \/ slots[SlotFor(chat)].chat = chat
         \/ /\ slots[SlotFor(chat)].chat = None
            /\ \A i \in Slot : slots[i].chat # chat
<1>1. \A P \in SUBSET Slot : P # {} => Min(P) \in P
  BY MinIsMember DEF Slot
<1> DEFINE own  == {i \in Slot : Holds(i, chat)}
           free == {i \in Slot : Holds(i, None)}
<1>2. CASE own # {}
  <2>1. Min(own) \in own
    BY <1>1, <1>2
  <2> QED
    BY <1>2, <2>1 DEF SlotFor, Holds
<1>3. CASE own = {} /\ free # {}
  <2>1. Min(free) \in free
    BY <1>1, <1>3
  <2> QED
    BY <1>3, <2>1 DEF SlotFor, Holds
<1>4. CASE own = {} /\ free = {}
  <2> DEFINE f == [i \in Slot |-> slots[i].chat]
  <2>1. f \in [Slot -> Chat \ {chat}]
    BY <1>4 DEF SlotsOK, CancelSlot, Holds
  <2>2. IsFiniteSet(Slot) /\ Cardinality(Slot) = SlotCount
    BY FS_Interval, CancelAssumption DEF Slot
  <2>3. IsFiniteSet(Chat \ {chat}) /\ Cardinality(Chat \ {chat}) = Cardinality(Chat) - 1
    BY FS_RemoveElement DEF EnoughSlots
  <2>4. Cardinality(Chat \ {chat}) < Cardinality(Slot)
    BY <2>2, <2>3, FS_CardinalityType, CancelAssumption DEF EnoughSlots
  <2> HIDE DEF f
  <2>5. \E x, y \in Slot : x # y /\ f[x] = f[y]
    BY <2>1, <2>2, <2>3, <2>4, FS_PigeonHole
  <2> USE DEF f
  <2>6. PICK i, j \in Slot : i # j /\ f[i] = f[j]
    BY <2>5
  <2>7. slots[i].chat # None
    BY <1>4 DEF Holds
  <2> QED
    BY <2>6, <2>7 DEF SlotsOK
<1> QED
  BY <1>2, <1>3, <1>4

\* Renewing the slot of one chat leaves the slots of the others alone.
LEMMA RenewSound ==
  ASSUME EnoughSlots, SlotsOK, NEW chat \in Chat, NEW b \in BOOLEAN, Renew(chat, b)
  PROVE  /\ SlotsOK'
         /\ \E i \in Slot : slots'[i] = [chat |-> chat, generation |-> NewToken(chat),
                                      cancelled |-> b]
         /\ \A i \in Slot : slots[i].chat \in Chat \ {chat} => slots'[i] = slots[i]
<1> DEFINE s == SlotFor(chat)
           new == [chat |-> chat, generation |-> NewToken(chat), cancelled |-> b]
<1>1. s \in Slot
  BY SlotForType
<1>2. slots' = [slots EXCEPT ![s] = new]
  BY DEF Renew
<1>3. \/ slots[s].chat = chat
      \/ slots[s].chat = None /\ \A i \in Slot : slots[i].chat # chat
  BY SlotForSound
<1>4. slots' \in [Slot -> CancelSlot]
  BY RenewType DEF SlotsOK
<1>5. slots'[s] = new /\ \A i \in Slot \ {s} : slots'[i] = slots[i]
  BY <1>1, <1>2 DEF SlotsOK
<1> HIDE DEF s
<1>6. \A i \in Slot \ {s} : slots[i].chat # chat
  BY <1>1, <1>3, CancelAssumption DEF SlotsOK
<1>7. SlotsOK'
  BY <1>1, <1>4, <1>5, <1>6 DEF SlotsOK
<1>8. \A i \in Slot : slots[i].chat \in Chat \ {chat} => slots'[i] = slots[i]
  BY <1>1, <1>3, <1>5, CancelAssumption
<1> QED
  BY <1>1, <1>5, <1>7, <1>8

-----------------------------------------------------------------------------
(* Types. *)

LEMMA NextMessageType ==
  ASSUME Fresh # {}, NEW chat \in Chat, NEW kind \in Kind
  PROVE  Queued(NextId, chat, kind) \in Message
<1>1. Fresh \in SUBSET Nat /\ Fresh \subseteq MessageId
  BY DEF Fresh, MessageId
<1>2. NextId \in Fresh
  BY <1>1, MinIsMember DEF NextId
<1>3. NextId \in MessageId
  BY <1>1, <1>2
<1> QED
  BY <1>3 DEF Queued, Message

\* The parts of the type invariant.
BoundRecord == [chat : Chat \cup {None, "child session"}, token : Generation]
TurnOK ==
  /\ turn \in TurnRecord
  /\ turn.at = "idle" \/ (turn.chat \in Chat /\ turn.id \in MessageId)
  /\ turn.at \in {"entry", "check", "llm", "llm_failed", "answered", "tools", "child"} =>
       turn.round < RoundsMax
QueuesOK ==
  /\ inbound \in Seq(Message) /\ Len(inbound) <= InboundLen
  /\ socket \in Seq(Message)
RestOK ==
  /\ slots \in [Slot -> CancelSlot]
  /\ QueuesOK
  /\ directive \in [Chat -> 0 .. MaxDirectives]
  /\ outcome \in [MessageId -> Outcome]
  /\ executed \subseteq 0 .. MaxDirectives /\ stops \in 0 .. MaxStops

LEMMA TypeParts == TurnTypeOK <=> TurnOK /\ bound \in BoundRecord /\ RestOK
BY DEF TurnTypeOK, TurnOK, BoundRecord, RestOK, QueuesOK

LEMMA PushType ==
  ASSUME RestOK, NEW m \in Message, Push(m)
  PROVE  /\ inbound' \in Seq(Message) /\ Len(inbound') <= InboundLen
         /\ outcome' \in [MessageId -> Outcome]
<1>1. CASE Len(inbound) < InboundLen
  <2>1. inbound' = Append(inbound, m)
    BY <1>1 DEF Push
  <2>2. inbound' \in Seq(Message) /\ Len(inbound') = Len(inbound) + 1
    BY <2>1, AppendProperties DEF RestOK, QueuesOK
  <2>3. Len(inbound) \in Nat
    BY LenProperties DEF RestOK, QueuesOK
  <2>4. Len(inbound') <= InboundLen
    BY <1>1, <2>2, <2>3, TurnAssumption
  <2>5. outcome' \in [MessageId -> Outcome]
    BY <1>1 DEF RestOK, QueuesOK, Push, Outcome
  <2> QED
    BY <2>2, <2>4, <2>5
<1>2. CASE ~(Len(inbound) < InboundLen)
  BY <1>2 DEF RestOK, QueuesOK, Push, Outcome
<1> QED
  BY <1>1, <1>2

LEMMA IdleType == Idle \in TurnRecord /\ Unbound \in BoundRecord
<1>1. 0 \in Generation
  BY CancelAssumption DEF Generation
<1>2. 0 \in 0 .. MaxMessages /\ 0 \in 0 .. RoundsMax /\ 0 \in 0 .. Providers
  BY TurnAssumption
<1>3. 0 \in 0 .. CallsMax /\ 0 \in 0 .. MaxDirectives
  BY TurnAssumption
<1>4. "idle" \in TurnAt
  BY DEF TurnAt
<1>5. Unbound \in BoundRecord
  BY <1>1 DEF Unbound, BoundRecord
<1> QED
  BY <1>1, <1>2, <1>3, <1>4, <1>5 DEF Idle, TurnRecord

LEMMA TypeInit == TurnInit => TurnTypeOK
<1> SUFFICES ASSUME TurnInit PROVE TurnTypeOK
  OBVIOUS
<1>1. slots \in [Slot -> CancelSlot]
  <2>1. 0 \in Generation
    BY CancelAssumption DEF Generation
  <2>2. FreeSlot \in CancelSlot
    BY <2>1 DEF FreeSlot, CancelSlot
  <2> QED
    BY <2>2 DEF TurnInit, CancelInit
<1>2. TurnOK
  BY IdleType DEF TurnInit, TurnOK, Idle
<1>3. QueuesOK
  <2>1. <<>> \in Seq(Message) /\ Len(<<>>) = 0
    BY EmptySeq
  <2> QED
    BY <2>1, TurnAssumption DEF TurnInit, QueuesOK
<1>4. directive \in [Chat -> 0 .. MaxDirectives] /\ stops \in 0 .. MaxStops
  BY TurnAssumption DEF TurnInit
<1>5. outcome \in [MessageId -> Outcome] /\ executed \subseteq 0 .. MaxDirectives
  BY DEF TurnInit, Outcome
<1>6. bound \in BoundRecord
  BY IdleType DEF TurnInit
<1> QED
  BY <1>1, <1>2, <1>3, <1>4, <1>5, <1>6, TypeParts DEF RestOK

\* What a client asks for changes no more of the turn than whether it is wanted.
LEMMA UnwantedType ==
  ASSUME TurnOK, NEW chat, Unwanted(chat)
  PROVE  TurnOK'
<1>1. turn' \in TurnRecord
  BY DEF TurnOK, Unwanted, TurnRecord
<1> QED
  BY <1>1 DEF TurnOK, Unwanted, TurnRecord

LEMMA ClientTypes ==
  ASSUME TurnOK, bound \in BoundRecord, RestOK, ClientStep \/ SocketPush
  PROVE  TurnOK' /\ bound' \in BoundRecord /\ RestOK'
<1>1. ASSUME NEW chat \in Chat, Say(chat)
      PROVE  TurnOK' /\ bound' \in BoundRecord /\ RestOK'
  <2>1. slots' \in [Slot -> CancelSlot]
    BY <1>1, RenewType DEF Say, CancelRequest, RestOK
  <2>2. Queued(NextId, chat, "user") \in Message
    BY <1>1, NextMessageType DEF Say, Kind
  <2>3. socket' \in Seq(Message)
    BY <1>1, <2>2 DEF Say
  <2>4. TurnOK'
    BY <1>1, UnwantedType DEF Say
  <2> QED
    BY <1>1, <2>1, <2>3, <2>4 DEF Say, RestOK, QueuesOK
<1>2. ASSUME NEW chat \in Chat, Stop(chat)
      PROVE  TurnOK' /\ bound' \in BoundRecord /\ RestOK'
  <2>1. slots' \in [Slot -> CancelSlot]
    BY <1>2, RenewType DEF Stop, CancelRequest, RestOK
  <2>2. stops' \in 0 .. MaxStops
    BY <1>2, TurnAssumption DEF Stop, RestOK
  <2>3. TurnOK'
    BY <1>2, UnwantedType DEF Stop
  <2> QED
    BY <1>2, <2>1, <2>2, <2>3 DEF Stop, RestOK, QueuesOK
<1>3. ASSUME NEW chat \in Chat, StoreDirective(chat)
      PROVE  TurnOK' /\ bound' \in BoundRecord /\ RestOK'
  <2>1. Queued(NextId, chat, "internal") \in Message
    BY <1>3, NextMessageType DEF StoreDirective, Kind
  <2>2. socket' \in Seq(Message)
    BY <1>3, <2>1 DEF StoreDirective
  <2>3. directive' \in [Chat -> 0 .. MaxDirectives]
    <3>1. \A d \in Directive : d \in 0 .. MaxDirectives
      BY TurnAssumption DEF Directive
    <3> QED
      BY <1>3, <3>1 DEF StoreDirective, RestOK
  <2>4. TurnOK' /\ bound' \in BoundRecord
    BY <1>3 DEF StoreDirective, TurnOK
  <2> QED
    BY <1>3, <2>2, <2>3, <2>4 DEF StoreDirective, RestOK, QueuesOK
<1>4. ASSUME NEW chat \in Chat, NEW kind \in {"user", "delegate"}, Arrive(chat, kind)
      PROVE  TurnOK' /\ bound' \in BoundRecord /\ RestOK'
  <2>1. Queued(NextId, chat, kind) \in Message
    BY <1>4, NextMessageType DEF Arrive, Kind
  <2>2. QueuesOK' /\ outcome' \in [MessageId -> Outcome]
    BY <1>4, <2>1, PushType DEF Arrive, QueuesOK, RestOK
  <2> QED
    BY <1>4, <2>2 DEF Arrive, RestOK, TurnOK
<1>5. CASE SocketPush
  <2>1. Head(socket) \in Message
    BY <1>5, HeadTailProperties DEF SocketPush, RestOK, QueuesOK
  <2>2. QueuesOK' /\ outcome' \in [MessageId -> Outcome]
    BY <1>5, <2>1, PushType, EmptySeq DEF SocketPush, RestOK, QueuesOK
  <2> QED
    BY <1>5, <2>2 DEF SocketPush, RestOK, TurnOK
<1> QED
  BY <1>1, <1>2, <1>3, <1>4, <1>5 DEF ClientStep

\* The actions of the loop that keep everything but the turn and its binding.
Quiet ==
  \/ PrepareFails \/ Interview \/ RunDirective \/ CheckBefore \/ ModelAnswers
  \/ ProviderFails \/ CheckAfterFailure \/ CheckAfterAnswer \/ ToolCall \/ ChildBegins
  \/ ChildEnds \/ ToolsEnd \/ CheckAfterTools \/ ForcedEnds \/ VerifyEnds

\* What every step of a turn under way keeps of it, and what it may take next:
\* a turn gives up only when the table says that it is cancelled.
Asking == {"entry", "check", "llm", "llm_failed", "answered", "tools", "child"}
Keeps(t) ==
  /\ t.chat = turn.chat /\ t.id = turn.id /\ t.token = turn.token
  /\ t.wanted = turn.wanted
Follows(t) ==
  /\ t \in TurnRecord /\ Keeps(t)
  /\ t.cancelled => turn.cancelled \/ (Cancelled /\ t.at = "finish")
  /\ t.at \in Asking => t.round < RoundsMax
Advances == turn.at # "idle" /\ (turn'.at \in WithToken => turn.at \in WithToken)

LEMMA Advance ==
  ASSUME TurnOK, turn.at # "idle", Follows(turn')
  PROVE  TurnOK'
BY DEF TurnOK, Follows, Keeps, Asking

LEMMA FollowsEnds ==
  ASSUME NEW t, Follows(t)
  PROVE  Follows(Ends(t))
<1> DEFINE u == [t EXCEPT !.late = @ + 1]
<1>1. u \in TurnRecord
  BY DEF Follows, TurnRecord
<1>2. /\ u.chat = t.chat /\ u.id = t.id /\ u.at = t.at /\ u.round = t.round
      /\ u.token = t.token /\ u.wanted = t.wanted /\ u.cancelled = t.cancelled
  BY DEF Follows, TurnRecord
<1>3. Ends(t) = t \/ Ends(t) = u
  BY DEF Ends
<1> HIDE DEF u
<1> QED
  BY <1>1, <1>2, <1>3 DEF Follows, Keeps

LEMMA FollowsTurn ==
  ASSUME TurnOK
  PROVE  (Cancelled => Follows(GivesUp(turn))) /\ Follows(Forced(turn))
<1>1. GivesUp(turn) \in TurnRecord /\ Forced(turn) \in TurnRecord
  BY DEF TurnOK, TurnRecord, TurnAt, GivesUp, Forced
<1>2. Keeps(GivesUp(turn)) /\ GivesUp(turn).at = "finish"
  BY DEF TurnOK, TurnRecord, GivesUp, Keeps
<1>3. /\ Keeps(Forced(turn)) /\ Forced(turn).at = "forced"
      /\ Forced(turn).cancelled = turn.cancelled
  BY DEF TurnOK, TurnRecord, Forced, Keeps
<1> QED
  BY <1>1, <1>2, <1>3 DEF Follows, Asking

LEMMA QuietFollows ==
  ASSUME TurnOK, RestOK, Quiet
  PROVE  Follows(turn')
<1>0. /\ turn.round \in Nat /\ turn.tries \in Nat /\ turn.calls \in Nat
      /\ 0 \in 0 .. Providers /\ 1 \in 0 .. Providers /\ 0 \in 0 .. CallsMax
  BY TurnAssumption DEF TurnOK, TurnRecord
<1>1. CASE PrepareFails
  <2> DEFINE t == [turn EXCEPT !.at = "finish", !.failed = TRUE]
  <2>1. turn.at # "idle" /\ (turn.at \in Asking => turn.round < RoundsMax)
    BY <1>1 DEF PrepareFails, Step, TurnOK, Asking
  <2>2. t \in TurnRecord
    BY <1>0 DEF TurnOK, TurnRecord, TurnAt
  <2>3. Keeps(t) /\ t.cancelled = turn.cancelled /\ t.at = "finish"
    BY DEF TurnOK, TurnRecord, Keeps
  <2>4. turn' = t
    BY <1>1 DEF PrepareFails, Step
  <2> HIDE DEF t
  <2>6. Follows(t)
    BY <1>1, <2>1, <2>2, <2>3 DEF Follows, Asking, PrepareFails, Step
  <2> QED
    BY <2>1, <2>4, <2>6, FollowsEnds, FollowsTurn
<1>2. CASE Interview
  <2> DEFINE t == [turn EXCEPT !.at = "finish", !.text = TRUE]
  <2>1. turn.at # "idle" /\ (turn.at \in Asking => turn.round < RoundsMax)
    BY <1>2 DEF Interview, Step, TurnOK, Asking
  <2>2. t \in TurnRecord
    BY <1>0 DEF TurnOK, TurnRecord, TurnAt
  <2>3. Keeps(t) /\ t.cancelled = turn.cancelled /\ t.at = "finish"
    BY DEF TurnOK, TurnRecord, Keeps
  <2>4. turn' = t
    BY <1>2 DEF Interview, Step
  <2> HIDE DEF t
  <2>6. Follows(t)
    BY <1>2, <2>1, <2>2, <2>3 DEF Follows, Asking, Interview, Step
  <2> QED
    BY <2>1, <2>4, <2>6, FollowsEnds, FollowsTurn
<1>3. CASE CheckBefore
  <2> DEFINE t == [turn EXCEPT !.at = "llm", !.tries = 1]
  <2>1. turn.at # "idle" /\ (turn.at \in Asking => turn.round < RoundsMax)
    BY <1>3 DEF CheckBefore, TurnOK, Asking
  <2>2. t \in TurnRecord
    BY <1>0 DEF TurnOK, TurnRecord, TurnAt
  <2>3. Keeps(t) /\ t.cancelled = turn.cancelled /\ t.round = turn.round
    BY DEF TurnOK, TurnRecord, Keeps
  <2>4. turn' = t \/ (Cancelled /\ turn' = GivesUp(turn))
    BY <1>3 DEF CheckBefore
  <2> HIDE DEF t
  <2>6. Follows(t)
    BY <1>3, <2>1, <2>2, <2>3 DEF Follows, Asking, CheckBefore, Step
  <2> QED
    BY <2>1, <2>4, <2>6, FollowsEnds, FollowsTurn
<1>4. CASE ModelAnswers
  <2> DEFINE t(got) == [turn EXCEPT !.at = "answered", !.got = got, !.tries = 0]
  <2>1. PICK got \in {{"text"}, {}, {"tools"}} : turn' = Ends(t(got))
    BY <1>4 DEF ModelAnswers, Step
  <2>2. t(got) \in TurnRecord
    BY <1>0, <2>1 DEF TurnOK, TurnRecord, TurnAt
  <2>3. Keeps(t(got)) /\ t(got).cancelled = turn.cancelled /\ t(got).round = turn.round
    BY DEF TurnOK, TurnRecord, Keeps
  <2>4. turn.at # "idle" /\ turn.round < RoundsMax
    BY <1>4 DEF ModelAnswers, Step, TurnOK
  <2> HIDE DEF t
  <2>5. Follows(t(got))
    BY <2>2, <2>3, <2>4 DEF Follows
  <2> QED
    BY <2>1, <2>4, <2>5, FollowsEnds
<1>5. CASE ProviderFails
  <2> DEFINE t == [turn EXCEPT !.tries = @ + 1]
             u == [turn EXCEPT !.at = "llm_failed", !.tries = 0]
  <2>1. turn.at # "idle" /\ turn.round < RoundsMax
    BY <1>5 DEF ProviderFails, Step, TurnOK
  <2>2. turn' = Ends(u) \/ (turn.tries < Providers /\ turn' = Ends(t))
    BY <1>5 DEF ProviderFails, Step
  <2>3. turn.tries < Providers => turn.tries + 1 \in 0 .. Providers
    BY <1>0, TurnAssumption
  <2>4. turn.tries < Providers => t \in TurnRecord
    BY <2>3 DEF TurnOK, TurnRecord
  <2>5. u \in TurnRecord
    BY <1>0 DEF TurnOK, TurnRecord, TurnAt
  <2>6. /\ Keeps(t) /\ t.cancelled = turn.cancelled /\ t.round = turn.round
        /\ Keeps(u) /\ u.cancelled = turn.cancelled /\ u.round = turn.round
    BY DEF TurnOK, TurnRecord, Keeps
  <2> HIDE DEF t, u
  <2>7. Follows(u) /\ (turn.tries < Providers => Follows(t))
    BY <2>1, <2>4, <2>5, <2>6 DEF Follows
  <2> QED
    BY <2>1, <2>2, <2>7, FollowsEnds
<1>6. CASE CheckAfterFailure
  <2> DEFINE t == [turn EXCEPT !.at = "finish", !.failed = TRUE]
  <2>1. turn.at # "idle" /\ (turn.at \in Asking => turn.round < RoundsMax)
    BY <1>6 DEF CheckAfterFailure, Step, TurnOK, Asking
  <2>2. t \in TurnRecord
    BY <1>0 DEF TurnOK, TurnRecord, TurnAt
  <2>3. Keeps(t) /\ t.cancelled = turn.cancelled /\ t.at = "finish"
    BY DEF TurnOK, TurnRecord, Keeps
  <2>4. turn' = t \/ (Cancelled /\ turn' = GivesUp(turn))
    BY <1>6 DEF CheckAfterFailure, Step
  <2> HIDE DEF t
  <2>6. Follows(t)
    BY <1>6, <2>1, <2>2, <2>3 DEF Follows, Asking, CheckAfterFailure, Step
  <2> QED
    BY <2>1, <2>4, <2>6, FollowsEnds, FollowsTurn
<1>7. CASE CheckAfterAnswer
  <2> DEFINE t == [turn EXCEPT !.at = "tools", !.got = {}]
             u(text) == [turn EXCEPT !.at = "verify", !.text = text]
  <2>1. turn.at = "answered" /\ turn.round < RoundsMax
    BY <1>7 DEF CheckAfterAnswer, TurnOK
  <2>2. PICK text \in BOOLEAN : turn' \in {t, u(text)} \/ (Cancelled /\ turn' = GivesUp(turn))
    <3>1. ("text" \in turn.got) \in BOOLEAN
      OBVIOUS
    <3>2. \/ turn' \in {t, u("text" \in turn.got)}
          \/ Cancelled /\ turn' = GivesUp(turn)
      BY <1>7 DEF CheckAfterAnswer
    <3> QED
      BY <3>1, <3>2, Zenon
  <2>3. t \in TurnRecord /\ Keeps(t) /\ t.cancelled = turn.cancelled /\ t.round = turn.round
    BY DEF TurnOK, TurnRecord, TurnAt, Keeps
  <2>4. /\ u(text) \in TurnRecord /\ Keeps(u(text)) /\ u(text).cancelled = turn.cancelled
        /\ u(text).at = "verify"
    BY DEF TurnOK, TurnRecord, TurnAt, Keeps
  <2> HIDE DEF t, u
  <2>5. Follows(t) /\ Follows(u(text))
    BY <2>1, <2>3, <2>4 DEF Follows, Asking
  <2> QED
    BY <2>1, <2>2, <2>5, FollowsTurn
<1>8. CASE ToolCall
  <2> DEFINE t(e) == [turn EXCEPT !.calls = @ + 1, !.got = @ \cup e]
  <2>1. PICK e \in {{}, {"final"}, {"protocol"}} : turn' = Ends(t(e))
    BY <1>8 DEF ToolCall, Step
  <2>2. turn.at = "tools" /\ turn.calls < CallsMax /\ turn.round < RoundsMax
    BY <1>8 DEF ToolCall, Step, TurnOK
  <2>3. turn.calls + 1 \in 0 .. CallsMax
    BY <1>0, <2>2, TurnAssumption
  <2>4. turn.got \cup e \in SUBSET {"text", "tools", "final", "protocol"}
    BY <2>1 DEF TurnOK, TurnRecord
  <2>5. t(e) \in TurnRecord
    BY <2>3, <2>4 DEF TurnOK, TurnRecord
  <2>6. Keeps(t(e)) /\ t(e).cancelled = turn.cancelled /\ t(e).round = turn.round
    BY DEF TurnOK, TurnRecord, Keeps
  <2> HIDE DEF t
  <2>7. Follows(t(e))
    BY <2>2, <2>5, <2>6 DEF Follows
  <2> QED
    BY <2>1, <2>2, <2>7, FollowsEnds
<1>9. CASE ChildBegins
  <2>1. turn.calls + 1 \in 0 .. CallsMax
    <3>1. turn.calls < CallsMax
      BY <1>9 DEF ChildBegins
    <3> QED
      BY <1>0, <3>1, TurnAssumption
  <2> DEFINE t == [turn EXCEPT !.at = "child", !.calls = @ + 1]
  <2>2. turn.at # "idle" /\ (turn.at \in Asking => turn.round < RoundsMax)
    BY <1>9 DEF ChildBegins, Step, TurnOK, Asking
  <2>3. t \in TurnRecord
    BY <1>0, <2>1 DEF TurnOK, TurnRecord, TurnAt
  <2>4. Keeps(t) /\ t.cancelled = turn.cancelled /\ t.round = turn.round
    BY DEF TurnOK, TurnRecord, Keeps
  <2>5. turn' = t
    BY <1>9 DEF ChildBegins, Step
  <2> HIDE DEF t
  <2>7. Follows(t)
    BY <1>9, <2>2, <2>3, <2>4, <2>1 DEF Follows, Asking, ChildBegins, Step
  <2> QED
    BY <2>2, <2>5, <2>7, FollowsEnds, FollowsTurn
<1>10. CASE ChildEnds
  <2> DEFINE t(e) == [turn EXCEPT !.at = "tools", !.got = @ \cup e]
  <2>1. PICK e \in {{}, {"final"}} : turn' = Ends(t(e))
    BY <1>10 DEF ChildEnds, Step
  <2>2. turn.at = "child" /\ turn.round < RoundsMax
    BY <1>10 DEF ChildEnds, Step, TurnOK
  <2>3. turn.got \cup e \in SUBSET {"text", "tools", "final", "protocol"}
    BY <2>1 DEF TurnOK, TurnRecord
  <2>4. t(e) \in TurnRecord
    BY <2>3 DEF TurnOK, TurnRecord, TurnAt
  <2>5. Keeps(t(e)) /\ t(e).cancelled = turn.cancelled /\ t(e).round = turn.round
    BY DEF TurnOK, TurnRecord, Keeps
  <2> HIDE DEF t
  <2>6. Follows(t(e))
    BY <2>2, <2>4, <2>5 DEF Follows
  <2> QED
    BY <2>1, <2>2, <2>6, FollowsEnds
<1>11. CASE ToolsEnd
  <2>1. turn.round + 1 \in 0 .. RoundsMax
    BY <1>0, <1>11, TurnAssumption DEF ToolsEnd, Step, TurnOK
  <2> DEFINE t == [turn EXCEPT !.at = "tools_done", !.round = @ + 1, !.calls = 0]
  <2>2. turn.at # "idle" /\ (turn.at \in Asking => turn.round < RoundsMax)
    BY <1>11 DEF ToolsEnd, Step, TurnOK, Asking
  <2>3. t \in TurnRecord
    BY <1>0, <2>1 DEF TurnOK, TurnRecord, TurnAt
  <2>4. Keeps(t) /\ t.cancelled = turn.cancelled /\ t.at = "tools_done"
    BY DEF TurnOK, TurnRecord, Keeps
  <2>5. turn' = t
    BY <1>11 DEF ToolsEnd, Step
  <2> HIDE DEF t
  <2>7. Follows(t)
    BY <1>11, <2>2, <2>3, <2>4, <2>1 DEF Follows, Asking, ToolsEnd, Step
  <2> QED
    BY <2>2, <2>5, <2>7, FollowsEnds, FollowsTurn
<1>12. CASE CheckAfterTools
  <2> DEFINE t == [turn EXCEPT !.at = "verify", !.text = TRUE]
             u == [turn EXCEPT !.at = "check"]
             v == [turn EXCEPT !.exhausted = TRUE]
  <2>1. turn.at = "tools_done"
    BY <1>12 DEF CheckAfterTools
  <2>2. \/ turn' \in {t, Forced(turn), Forced(v)}
        \/ Cancelled /\ turn' = GivesUp(turn)
        \/ turn.round < RoundsMax /\ turn' = u
    BY <1>12 DEF CheckAfterTools
  <2>3. t \in TurnRecord /\ Keeps(t) /\ t.cancelled = turn.cancelled /\ t.at = "verify"
    BY DEF TurnOK, TurnRecord, TurnAt, Keeps
  <2>4. u \in TurnRecord /\ Keeps(u) /\ u.cancelled = turn.cancelled /\ u.round = turn.round
    BY DEF TurnOK, TurnRecord, TurnAt, Keeps
  <2>5. /\ Forced(v) \in TurnRecord /\ Keeps(Forced(v)) /\ Forced(v).cancelled = turn.cancelled
        /\ Forced(v).at = "forced"
    BY DEF TurnOK, TurnRecord, TurnAt, Forced, Keeps
  <2> HIDE DEF t, u, v
  <2>6. Follows(t) /\ Follows(Forced(v)) /\ (turn.round < RoundsMax => Follows(u))
    BY <2>3, <2>4, <2>5 DEF Follows, Asking
  <2> QED
    BY <2>1, <2>2, <2>6, FollowsTurn
<1>13. CASE ForcedEnds
  <2> DEFINE v == [turn EXCEPT !.exhausted = TRUE]
             t(text) == [turn EXCEPT !.at = "verify", !.text = text]
  <2>1. turn.at = "forced"
    BY <1>13 DEF ForcedEnds
  <2>2. PICK text \in BOOLEAN : turn' = Ends(Forced(v)) \/ turn' = Ends(t(text))
    BY <1>13 DEF ForcedEnds
  <2>3. /\ t(text) \in TurnRecord /\ Keeps(t(text)) /\ t(text).cancelled = turn.cancelled
        /\ t(text).at = "verify"
    BY DEF TurnOK, TurnRecord, TurnAt, Keeps
  <2>4. /\ Forced(v) \in TurnRecord /\ Keeps(Forced(v)) /\ Forced(v).cancelled = turn.cancelled
        /\ Forced(v).at = "forced"
    BY DEF TurnOK, TurnRecord, TurnAt, Forced, Keeps
  <2> HIDE DEF t, v
  <2>5. Follows(t(text)) /\ Follows(Forced(v))
    BY <2>3, <2>4 DEF Follows, Asking
  <2> QED
    BY <2>1, <2>2, <2>5, FollowsEnds
<1>14. CASE VerifyEnds
  <2> DEFINE t == [turn EXCEPT !.at = "finish"]
  <2>1. turn.at # "idle" /\ (turn.at \in Asking => turn.round < RoundsMax)
    BY <1>14 DEF VerifyEnds, Step, TurnOK, Asking
  <2>2. t \in TurnRecord
    BY <1>0 DEF TurnOK, TurnRecord, TurnAt
  <2>3. Keeps(t) /\ t.cancelled = turn.cancelled /\ t.at = "finish"
    BY DEF TurnOK, TurnRecord, Keeps
  <2>4. turn' = t \/ turn' = Ends(t)
    BY <1>14 DEF VerifyEnds, Step
  <2> HIDE DEF t
  <2>6. Follows(t)
    BY <1>14, <2>1, <2>2, <2>3 DEF Follows, Asking, VerifyEnds, Step
  <2> QED
    BY <2>1, <2>4, <2>6, FollowsEnds, FollowsTurn
<1>15. CASE RunDirective
  <2>1. directive[turn.chat] \in 0 .. MaxDirectives
    BY <1>15 DEF RunDirective, TurnOK, RestOK
  <2>2. turn' \in TurnRecord
    BY <1>15, <2>1 DEF RunDirective, TurnOK, TurnRecord, TurnAt
  <2>3. Keeps(turn') /\ turn'.cancelled = turn.cancelled /\ turn'.at = "directive"
    BY <1>15 DEF RunDirective, TurnOK, TurnRecord, Keeps
  <2> QED
    BY <1>15, <2>2, <2>3 DEF RunDirective, Follows, Asking
<1> QED
  BY <1>1, <1>2, <1>3, <1>4, <1>5, <1>6, <1>7, <1>8, <1>9, <1>10, <1>11, <1>12, <1>13, <1>14, <1>15 DEF Quiet

LEMMA QuietTurn ==
  ASSUME TurnOK, RestOK, Quiet
  PROVE  TurnOK' /\ Advances
<1>1. turn.at # "idle"
  BY DEF Quiet, Step, PrepareFails, Interview, RunDirective, CheckBefore, ModelAnswers,
         ProviderFails, CheckAfterFailure, CheckAfterAnswer, ToolCall, ChildBegins,
         ChildEnds, ToolsEnd, CheckAfterTools, ForcedEnds, VerifyEnds
<1>2. CASE turn.at \in WithToken
  BY <1>1, <1>2, QuietFollows, Advance DEF Advances
<1>3. CASE turn.at \notin WithToken
  <2>1. PrepareFails \/ Interview \/ RunDirective
    BY <1>3 DEF WithToken, Quiet, Step, CheckBefore, ModelAnswers, ProviderFails,
                CheckAfterFailure, CheckAfterAnswer, ToolCall, ChildBegins, ChildEnds,
                ToolsEnd, CheckAfterTools, ForcedEnds, VerifyEnds
  <2>2. turn'.at \in {"finish", "directive"}
    BY <2>1 DEF PrepareFails, Interview, RunDirective, Step, TurnOK, TurnRecord
  <2> QED
    BY <1>1, <2>2, QuietFollows, Advance DEF Advances, WithToken
<1> QED
  BY <1>2, <1>3

\* Nothing leads back to the phases before a turn begins.
LEMMA QuietEarly ==
  ASSUME TurnOK, Quiet, turn.at # "entry"
  PROVE  turn'.at \notin {"idle", "entry", "directive"}
<1>1. CASE PrepareFails
  BY <1>1 DEF PrepareFails, Step, TurnOK, TurnRecord
<1>2. CASE Interview
  BY <1>2 DEF Interview, Step, TurnOK, TurnRecord
<1>3. CASE CheckBefore
  BY <1>3 DEF CheckBefore, Step, TurnOK, TurnRecord, GivesUp
<1>4. CASE ModelAnswers
  <2> DEFINE t(got) == [turn EXCEPT !.at = "answered", !.got = got, !.tries = 0]
  <2>1. PICK got \in {{"text"}, {}, {"tools"}} : turn' = Ends(t(got))
    BY <1>4 DEF ModelAnswers, Step
  <2>2. t(got).at = "answered" /\ Ends(t(got)).at = t(got).at
    BY DEF TurnOK, TurnRecord, Ends
  <2> QED
    BY <2>1, <2>2
<1>5. CASE ProviderFails
  <2> DEFINE t == [turn EXCEPT !.tries = @ + 1]
             u == [turn EXCEPT !.at = "llm_failed", !.tries = 0]
  <2>1. turn.at = "llm" /\ turn' \in {Ends(t), Ends(u)}
    BY <1>5 DEF ProviderFails, Step
  <2>2. Ends(t).at = turn.at /\ Ends(u).at = "llm_failed"
    BY DEF TurnOK, TurnRecord, Ends
  <2> QED
    BY <2>1, <2>2
<1>6. CASE CheckAfterFailure
  BY <1>6 DEF CheckAfterFailure, Step, TurnOK, TurnRecord, GivesUp
<1>7. CASE CheckAfterAnswer
  <2>1. \/ turn' = [turn EXCEPT !.at = "finish", !.cancelled = TRUE]
        \/ turn' = [turn EXCEPT !.at = "tools", !.got = {}]
        \/ turn' = [turn EXCEPT !.at = "verify", !.text = "text" \in turn.got]
    BY <1>7 DEF CheckAfterAnswer, GivesUp
  <2> QED
    BY <2>1 DEF TurnOK, TurnRecord
<1>8. CASE ToolCall
  <2> DEFINE t(e) == [turn EXCEPT !.calls = @ + 1, !.got = @ \cup e]
  <2>1. PICK e \in {{}, {"final"}, {"protocol"}} : turn.at = "tools" /\ turn' = Ends(t(e))
    BY <1>8 DEF ToolCall, Step
  <2>2. Ends(t(e)).at = turn.at
    BY DEF TurnOK, TurnRecord, Ends
  <2> QED
    BY <2>1, <2>2
<1>9. CASE ChildBegins
  BY <1>9 DEF ChildBegins, Step, TurnOK, TurnRecord
<1>10. CASE ChildEnds
  <2> DEFINE t(e) == [turn EXCEPT !.at = "tools", !.got = @ \cup e]
  <2>1. PICK e \in {{}, {"final"}} : turn' = Ends(t(e))
    BY <1>10 DEF ChildEnds, Step
  <2>2. Ends(t(e)).at = "tools"
    BY DEF TurnOK, TurnRecord, Ends
  <2> QED
    BY <2>1, <2>2
<1>11. CASE ToolsEnd
  BY <1>11 DEF ToolsEnd, Step, TurnOK, TurnRecord
<1>12. CASE CheckAfterTools
  BY <1>12 DEF CheckAfterTools, Step, TurnOK, TurnRecord, GivesUp, Forced
<1>13. CASE ForcedEnds
  <2> DEFINE v == [turn EXCEPT !.exhausted = TRUE]
             t(text) == [turn EXCEPT !.at = "verify", !.text = text]
  <2>1. PICK text \in BOOLEAN : turn' \in {Ends(Forced(v)), Ends(t(text))}
    BY <1>13 DEF ForcedEnds
  <2>2. Ends(Forced(v)).at = "forced" /\ Ends(t(text)).at = "verify"
    BY DEF TurnOK, TurnRecord, Ends, Forced
  <2> QED
    BY <2>1, <2>2
<1>14. CASE VerifyEnds
  BY <1>14 DEF VerifyEnds, Step, Ends, TurnOK, TurnRecord
<1>15. CASE RunDirective
  BY <1>15 DEF RunDirective
<1> QED
  BY <1>1, <1>2, <1>3, <1>4, <1>5, <1>6, <1>7, <1>8, <1>9, <1>10, <1>11, <1>12, <1>13, <1>14, <1>15 DEF Quiet

LEMMA QuietRest ==
  ASSUME TurnOK, bound \in BoundRecord, RestOK, Quiet
  PROVE  bound' \in BoundRecord /\ RestOK'
<1>1. KeepsRest
  BY DEF Quiet, PrepareFails, Interview, RunDirective, CheckBefore, ModelAnswers,
         ProviderFails, CheckAfterFailure, CheckAfterAnswer, ToolCall, ChildBegins,
         ChildEnds, ToolsEnd, CheckAfterTools, ForcedEnds, VerifyEnds
<1>2. RestOK'
  BY <1>1 DEF KeepsRest, RestOK, QueuesOK
<1>3. [chat |-> turn.chat, token |-> turn.token] \in BoundRecord
  BY DEF TurnOK, TurnRecord, BoundRecord
<1>4. [chat |-> "child session", token |-> 0] \in BoundRecord
  <2>1. 0 \in Generation
    BY CancelAssumption DEF Generation
  <2> QED
    BY <2>1 DEF BoundRecord
<1>5. bound' = bound \/ Binds \/ Leaves \/ bound' = [chat |-> "child session", token |-> 0]
  BY DEF Quiet, PrepareFails, Interview, RunDirective, CheckBefore, ModelAnswers,
         ProviderFails, CheckAfterFailure, CheckAfterAnswer, ToolCall, ChildBegins,
         ChildEnds, ToolsEnd, CheckAfterTools, ForcedEnds, VerifyEnds
<1> QED
  BY <1>2, <1>3, <1>4, <1>5, IdleType DEF Binds, Leaves

LEMMA LoopTypes ==
  ASSUME TurnOK, bound \in BoundRecord, RestOK, LoopStep
  PROVE  TurnOK' /\ bound' \in BoundRecord /\ RestOK'
<1>1. CASE Quiet
  BY <1>1, QuietTurn, QuietRest
<1>2. CASE Take
  <2>1. /\ Head(inbound) \in Message /\ Tail(inbound) \in Seq(Message)
        /\ Len(Tail(inbound)) = Len(inbound) - 1
    BY <1>2, HeadTailProperties DEF Take, RestOK, QueuesOK
  <2>2. Len(inbound) \in Nat
    BY LenProperties DEF RestOK, QueuesOK
  <2>3. QueuesOK'
    BY <1>2, <2>1, <2>2, TurnAssumption DEF Take, RestOK, QueuesOK
  <2>4. outcome' \in [MessageId -> Outcome]
    BY <1>2, <2>1 DEF Take, Outcome, Message, Kind, RestOK
  <2> DEFINE m == Head(inbound)
             finish == [Idle EXCEPT !.at = "finish", !.chat = m.chat, !.id = m.id,
                                    !.text = TRUE]
             entry  == [Idle EXCEPT !.at = "entry", !.chat = m.chat, !.id = m.id]
  <2>5. m.chat \in Chat /\ m.id \in MessageId /\ m.kind \in Kind /\ m.id \in 0 .. MaxMessages
    BY <2>1, TurnAssumption DEF Message, MessageId
  <2>6. finish \in TurnRecord /\ entry \in TurnRecord
    BY <2>5, IdleType DEF TurnRecord, TurnAt
  <2>7. /\ finish.at = "finish" /\ finish.chat = m.chat /\ finish.id = m.id
        /\ entry.at = "entry" /\ entry.chat = m.chat /\ entry.id = m.id /\ entry.round = 0
    BY DEF Idle
  <2>8. turn' \in {turn, finish, entry}
    BY <1>2, <2>5 DEF Take, Kind
  <2> HIDE DEF finish, entry
  <2>9. TurnOK'
    BY <2>5, <2>6, <2>7, <2>8, TurnAssumption DEF TurnOK
  <2> QED
    BY <1>2, <2>3, <2>4, <2>9 DEF Take, RestOK
<1>3. CASE DirectiveEnds
  <2> DEFINE t(failed) == [turn EXCEPT !.at = "finish", !.text = TRUE, !.failed = failed]
  <2>1. PICK failed \in BOOLEAN :
          /\ turn' = t(failed)
          /\ executed' = IF failed THEN executed ELSE executed \cup {turn.directive}
    BY <1>3 DEF DirectiveEnds
  <2>2. turn.at = "directive" /\ turn.directive \in 0 .. MaxDirectives
    BY <1>3 DEF DirectiveEnds, TurnOK, TurnRecord
  <2>3. /\ t(failed) \in TurnRecord /\ t(failed).chat = turn.chat
        /\ t(failed).id = turn.id /\ t(failed).at = "finish"
    BY DEF TurnOK, TurnRecord, TurnAt
  <2> HIDE DEF t
  <2>4. TurnOK'
    BY <2>1, <2>2, <2>3 DEF TurnOK
  <2>5. executed' \subseteq 0 .. MaxDirectives
    BY <2>1, <2>2 DEF RestOK
  <2> QED
    BY <1>3, <2>4, <2>5 DEF DirectiveEnds, RestOK, QueuesOK
<1>4. CASE Begin
  <2>1. slots' \in [Slot -> CancelSlot]
    BY <1>4, RenewType DEF Begin, BeginTurn, RestOK, TurnOK
  <2>2. NewToken(turn.chat) \in Generation
    BY NewTokenType DEF RestOK
  <2>3. turn' \in TurnRecord
    <3>1. turn \in TurnRecord /\ turn' = [turn EXCEPT !.at = "check", !.token = NewToken(turn.chat)]
      BY <1>4 DEF Begin, TurnOK
    <3>2. "check" \in TurnAt
      BY DEF TurnAt
    <3> QED
      BY <2>2, <3>1, <3>2 DEF TurnRecord
  <2>4. TurnOK'
    BY <1>4, <2>3 DEF Begin, TurnOK, TurnRecord
  <2> QED
    BY <1>4, <2>1, <2>4 DEF Begin, RestOK, QueuesOK
<1>5. CASE Finish
  <2>1. TurnOK'
    BY <1>5, IdleType DEF Finish, Step, TurnOK, Idle
  <2>2. outcome' \in [MessageId -> Outcome]
    BY <1>5 DEF Finish, Step, RestOK, TurnOK, Outcome
  <2>3. directive' \in [Chat -> 0 .. MaxDirectives]
    BY <1>5, TurnAssumption DEF Finish, Step, RestOK, TurnOK
  <2> QED
    BY <1>5, <2>1, <2>2, <2>3 DEF Finish, RestOK, QueuesOK
<1> QED
  BY <1>1, <1>2, <1>3, <1>4, <1>5 DEF LoopStep, Quiet

\* Type correctness: queues within their bounds, round and call counters that
\* end the loop of turn_run.c:222, tokens within the generations, a directive
\* for each chat.
THEOREM TurnTypeCorrect == TurnSpec => []TurnTypeOK
<1>1. TurnInit => TurnTypeOK
  BY TypeInit
<1>2. TurnTypeOK /\ [TurnNext]_turnVars => TurnTypeOK'
  <2> SUFFICES ASSUME TurnTypeOK, [TurnNext]_turnVars PROVE TurnTypeOK'
    OBVIOUS
  <2>1. CASE ClientStep \/ SocketPush
    BY <2>1, ClientTypes, TypeParts DEF TurnTypeOK, TurnOK, BoundRecord, RestOK, QueuesOK
  <2>2. CASE LoopStep
    BY <2>2, LoopTypes, TypeParts DEF TurnTypeOK, TurnOK, BoundRecord, RestOK, QueuesOK
  <2>3. CASE UNCHANGED turnVars
    BY <2>3 DEF turnVars, TurnTypeOK
  <2> QED
    BY <2>1, <2>2, <2>3 DEF TurnNext
<1> QED
  BY <1>1, <1>2, PTL DEF TurnSpec

-----------------------------------------------------------------------------
(* Cancellation. *)

\* Once stopped, a turn's slot says cancelled; until then it holds its token.
TokenInv ==
  turn.at \in WithToken =>
    \E i \in Slot :
       /\ slots[i].chat = turn.chat
       /\ IF turn.wanted THEN slots[i].generation = turn.token /\ ~slots[i].cancelled
                         ELSE slots[i].cancelled
SilenceInv == turn.cancelled => turn.at = "finish" /\ ~turn.wanted
EarlyInv == turn.at \in {"idle", "entry", "directive"} => turn.wanted
CancelInv ==
  /\ TurnTypeOK /\ SlotsOK /\ TokenInv /\ SilenceInv /\ EarlyInv

LEMMA CancelledMeans ==
  ASSUME TurnTypeOK, SlotsOK, TokenInv, turn.at \in WithToken
  PROVE  Cancelled <=> ~turn.wanted
<1>1. turn.chat \in Chat /\ turn.chat # None
  BY CancelAssumption DEF TurnTypeOK, WithToken
<1>2. PICK i \in Slot :
        /\ slots[i].chat = turn.chat
        /\ IF turn.wanted THEN slots[i].generation = turn.token /\ ~slots[i].cancelled
                          ELSE slots[i].cancelled
  BY DEF TokenInv
<1>3. \A j \in Slot : slots[j].chat = turn.chat => j = i
  BY <1>1, <1>2 DEF SlotsOK
<1>4. Cancelled <=> (slots[i].generation # turn.token \/ slots[i].cancelled)
  BY <1>2, <1>3 DEF Cancelled, IsCancelled, Holds
<1> QED
  BY <1>2, <1>4

LEMMA CancelInit1 == TurnInit => CancelInv
<1> SUFFICES ASSUME TurnInit PROVE CancelInv
  OBVIOUS
<1>1. SlotsOK
  <2>1. \A i \in Slot : slots[i].chat = None
    BY DEF TurnInit, CancelInit, FreeSlot
  <2> QED
    BY <2>1, TypeInit DEF SlotsOK, TurnTypeOK
<1>2. turn.at = "idle" /\ turn.wanted /\ ~turn.cancelled
  BY DEF TurnInit, Idle
<1> QED
  BY <1>1, <1>2, TypeInit DEF CancelInv, TokenInv, SilenceInv, EarlyInv, WithToken

\* A request of a client marks the slot of its chat, and the turn that it is
\* meant for; the turn of another chat keeps its slot.
LEMMA RequestStep ==
  ASSUME EnoughSlots, CancelInv, NEW chat \in Chat, CancelRequest(chat), Unwanted(chat)
  PROVE  SlotsOK' /\ TokenInv' /\ SilenceInv' /\ EarlyInv'
<1>1. /\ SlotsOK'
      /\ \E i \in Slot : slots'[i] = [chat |-> chat, generation |-> NewToken(chat),
                                      cancelled |-> TRUE]
      /\ \A i \in Slot : slots[i].chat \in Chat \ {chat} => slots'[i] = slots[i]
  BY RenewSound DEF CancelInv, CancelRequest
<1>2. CASE turn.chat = chat /\ turn.at \in WithToken
  <2>1. turn' = [turn EXCEPT !.wanted = FALSE]
    BY <1>2 DEF Unwanted
  <2>2. /\ turn'.chat = chat /\ turn'.at = turn.at /\ ~turn'.wanted
        /\ turn'.cancelled = turn.cancelled
    BY <1>2, <2>1 DEF CancelInv, TurnTypeOK, TurnRecord
  <2>3. \E i \in Slot : slots'[i].chat = turn'.chat /\ slots'[i].cancelled
    BY <1>1, <2>2
  <2>4. TokenInv'
    BY <2>2, <2>3 DEF TokenInv
  <2> QED
    BY <1>1, <1>2, <2>2, <2>4 DEF CancelInv, SilenceInv, EarlyInv, WithToken
<1>3. CASE ~(turn.chat = chat /\ turn.at \in WithToken)
  <2>1. turn' = turn
    BY <1>3 DEF Unwanted
  <2>2. TokenInv'
    <3> SUFFICES ASSUME turn.at \in WithToken PROVE TokenInv'
      BY <2>1 DEF TokenInv
    <3>1. turn.chat \in Chat \ {chat}
      BY <1>3 DEF CancelInv, TurnTypeOK, WithToken
    <3>2. PICK i \in Slot :
            /\ slots[i].chat = turn.chat
            /\ IF turn.wanted THEN slots[i].generation = turn.token /\ ~slots[i].cancelled
                              ELSE slots[i].cancelled
      BY DEF CancelInv, TokenInv
    <3>3. slots'[i] = slots[i]
      BY <1>1, <3>1, <3>2
    <3> QED
      BY <2>1, <3>2, <3>3 DEF TokenInv
  <2> QED
    BY <1>1, <2>1, <2>2 DEF CancelInv, SilenceInv, EarlyInv
<1> QED
  BY <1>2, <1>3

\* A turn that begins takes the token its slot holds from then on.
LEMMA BeginStep ==
  ASSUME EnoughSlots, CancelInv, Begin
  PROVE  SlotsOK' /\ TokenInv' /\ SilenceInv' /\ EarlyInv'
<1>1. turn.chat \in Chat /\ turn.at = "entry" /\ turn.wanted /\ ~turn.cancelled
  BY DEF Begin, CancelInv, TurnTypeOK, EarlyInv, SilenceInv
<1>2. /\ SlotsOK'
      /\ \E i \in Slot : slots'[i] = [chat |-> turn.chat, generation |-> NewToken(turn.chat),
                                      cancelled |-> FALSE]
  BY <1>1, RenewSound DEF CancelInv, Begin, BeginTurn
<1>3. /\ turn'.chat = turn.chat /\ turn'.token = NewToken(turn.chat) /\ turn'.wanted
      /\ ~turn'.cancelled /\ turn'.at = "check"
  BY <1>1 DEF Begin, CancelInv, TurnTypeOK, TurnRecord
<1>4. TokenInv'
  BY <1>2, <1>3 DEF TokenInv
<1> QED
  BY <1>2, <1>3, <1>4 DEF SilenceInv, EarlyInv

LEMMA CancelStep ==
  ASSUME EnoughSlots, CancelInv, TurnNext
  PROVE  SlotsOK' /\ TokenInv' /\ SilenceInv' /\ EarlyInv'
<1>0. TurnOK /\ bound \in BoundRecord /\ RestOK
  BY TypeParts DEF CancelInv
<1>1. ASSUME NEW chat \in Chat, Say(chat) \/ Stop(chat)
      PROVE  SlotsOK' /\ TokenInv' /\ SilenceInv' /\ EarlyInv'
  BY <1>1, RequestStep DEF Say, Stop
<1>2. ASSUME UNCHANGED <<slots, turn>>
      PROVE  SlotsOK' /\ TokenInv' /\ SilenceInv' /\ EarlyInv'
  BY <1>2 DEF CancelInv, SlotsOK, TokenInv, SilenceInv, EarlyInv
<1>3. CASE SocketPush \/ \E chat \in Chat : StoreDirective(chat)
  BY <1>2, <1>3 DEF SocketPush, StoreDirective
<1>4. CASE \E chat \in Chat, kind \in {"user", "delegate"} : Arrive(chat, kind)
  BY <1>2, <1>4 DEF Arrive
<1>5. CASE Quiet
  <2>1. slots' = slots
    BY <1>5 DEF Quiet, KeepsRest, PrepareFails, Interview, RunDirective, CheckBefore,
           ModelAnswers, ProviderFails, CheckAfterFailure, CheckAfterAnswer, ToolCall,
           ChildBegins, ChildEnds, ToolsEnd, CheckAfterTools, ForcedEnds, VerifyEnds
  <2>2. Keeps(turn') /\ Advances
    BY <1>0, <1>5, QuietFollows, QuietTurn DEF Follows
  <2>3. TokenInv'
    BY <2>1, <2>2 DEF CancelInv, TokenInv, Keeps, Advances
  <2>4. turn.at # "finish" /\ turn.at \notin {"idle", "directive"}
    BY <1>5 DEF Quiet, Step, PrepareFails, Interview, RunDirective, CheckBefore, ModelAnswers,
         ProviderFails, CheckAfterFailure, CheckAfterAnswer, ToolCall, ChildBegins,
         ChildEnds, ToolsEnd, CheckAfterTools, ForcedEnds, VerifyEnds
  <2>5. SilenceInv'
    <3> SUFFICES ASSUME turn'.cancelled PROVE turn'.at = "finish" /\ ~turn'.wanted
      BY DEF SilenceInv
    <3>1. Cancelled /\ turn'.at = "finish"
      BY <1>0, <1>5, <2>4, QuietFollows DEF Follows, CancelInv, SilenceInv
    <3>2. CASE turn.at \in WithToken
      BY <2>2, <3>1, <3>2, CancelledMeans DEF CancelInv, Keeps
    <3>3. CASE turn.at \notin WithToken
      <4>1. PrepareFails \/ Interview \/ RunDirective
        BY <1>5, <3>3 DEF WithToken, Quiet, Step, CheckBefore, ModelAnswers, ProviderFails,
                CheckAfterFailure, CheckAfterAnswer, ToolCall, ChildBegins, ChildEnds,
                ToolsEnd, CheckAfterTools, ForcedEnds, VerifyEnds
      <4>2. turn'.cancelled = turn.cancelled
        BY <1>0, <4>1 DEF PrepareFails, Interview, RunDirective, Step, TurnOK, TurnRecord
      <4> QED
        BY <2>4, <4>2 DEF CancelInv, SilenceInv
    <3> QED
      BY <3>2, <3>3
  <2>6. EarlyInv'
    <3>1. CASE turn.at = "entry"
      BY <2>2, <3>1 DEF CancelInv, EarlyInv, Keeps
    <3>2. CASE turn.at # "entry"
      <4>1. turn'.at \notin {"idle", "entry", "directive"}
        BY <1>0, <1>5, <3>2, QuietEarly
      <4> QED
        BY <4>1 DEF EarlyInv
    <3> QED
      BY <3>1, <3>2
  <2>7. SlotsOK'
    BY <2>1 DEF CancelInv, SlotsOK
  <2> QED
    BY <2>3, <2>5, <2>6, <2>7
<1>6. CASE Begin
  BY <1>6, BeginStep
<1>7. CASE Take \/ DirectiveEnds \/ Finish
  <2>1. slots' = slots
    BY <1>7 DEF Take, DirectiveEnds, Finish
  <2>2. turn' = turn \/ (turn'.at \in {"idle", "entry", "finish"} /\ turn'.wanted /\ ~turn'.cancelled)
    <3>1. CASE Take
      <4>0. Head(inbound) \in Message
        BY <1>0, <3>1, HeadTailProperties DEF Take, RestOK, QueuesOK
      <4>1. Head(inbound).kind \in Kind
        BY <4>0 DEF Message
      <4> QED
        BY <3>1, <4>1 DEF Take, Kind, Idle
    <3>2. CASE DirectiveEnds
      BY <1>0, <3>2 DEF DirectiveEnds, TurnOK, TurnRecord, CancelInv, EarlyInv, SilenceInv
    <3>3. CASE Finish
      BY <3>3 DEF Finish, Step, Idle
    <3> QED
      BY <1>7, <3>1, <3>2, <3>3
  <2> QED
    BY <1>2, <2>1, <2>2 DEF CancelInv, SlotsOK, TokenInv, SilenceInv, EarlyInv, WithToken
<1> QED
  BY <1>1, <1>3, <1>4, <1>5, <1>6, <1>7 DEF TurnNext, ClientStep, LoopStep, Quiet

LEMMA CancelInductive == EnoughSlots => (TurnSpec => []CancelInv)
<1> SUFFICES ASSUME EnoughSlots PROVE TurnSpec => []CancelInv
  OBVIOUS
<1>1. TurnInit => CancelInv
  BY CancelInit1
<1>2. CancelInv /\ TurnTypeOK' /\ [TurnNext]_turnVars => CancelInv'
  <2> SUFFICES ASSUME CancelInv, TurnTypeOK', [TurnNext]_turnVars PROVE CancelInv'
    OBVIOUS
  <2>1. CASE TurnNext
    BY <2>1, CancelStep DEF CancelInv
  <2>2. CASE UNCHANGED turnVars
    BY <2>2 DEF turnVars, CancelInv, SlotsOK, TokenInv, SilenceInv, EarlyInv
  <2> QED
    BY <2>1, <2>2
<1> QED
  BY <1>1, <1>2, TurnTypeCorrect, PTL DEF TurnSpec

\* With a slot for every chat, a turn reads as cancelled exactly when a client
\* has stopped it or spoken again since it began (cancel.c:65-119).
THEOREM CancelSound ==
  ASSUME EnoughSlots PROVE TurnSpec => []CancelledIffUnwanted
<1>1. CancelInv => CancelledIffUnwanted
  BY CancelledMeans DEF CancelInv, CancelledIffUnwanted
<1> QED
  BY <1>1, CancelInductive, PTL

\* With a slot for every chat, only a turn that was stopped goes without a
\* reply (turn_reply.c:25-41).
THEOREM SilenceSound ==
  ASSUME EnoughSlots PROVE TurnSpec => []SilenceWasAsked
<1>1. CancelInv => SilenceWasAsked
  BY DEF CancelInv, SilenceInv, SilenceWasAsked
<1> QED
  BY <1>1, CancelInductive, PTL

-----------------------------------------------------------------------------
(* The binding of the thread. *)

LEMMA BoundStep ==
  ASSUME TurnTypeOK, BoundInsideOnly, TurnNext
  PROVE  BoundInsideOnly'
<1>0. TurnOK /\ RestOK
  BY TypeParts
<1>1. ASSUME NEW chat \in Chat, Say(chat) \/ Stop(chat) PROVE BoundInsideOnly'
  <2>1. /\ bound' = bound /\ turn'.at = turn.at /\ turn'.chat = turn.chat
        /\ turn'.token = turn.token
    BY <1>0, <1>1 DEF Say, Stop, Unwanted, TurnOK, TurnRecord
  <2> QED
    BY <2>1 DEF BoundInsideOnly, Unbound
<1>2. CASE \/ SocketPush
           \/ \E chat \in Chat : StoreDirective(chat)
           \/ \E chat \in Chat, kind \in {"user", "delegate"} : Arrive(chat, kind)
  BY <1>2 DEF SocketPush, StoreDirective, Arrive, BoundInsideOnly, Unbound
\* Outside the three phases the thread is free, and stays so.
<1>3. CASE \/ Take \/ PrepareFails \/ Interview \/ RunDirective \/ DirectiveEnds \/ Begin
           \/ CheckAfterFailure \/ CheckAfterTools \/ ForcedEnds \/ VerifyEnds \/ Finish
  <2>1. turn.at \notin {"llm", "tools", "child"} /\ bound' = bound
    BY <1>3 DEF Take, PrepareFails, Interview, RunDirective, DirectiveEnds, Begin, Step,
                CheckAfterFailure, CheckAfterTools, ForcedEnds, VerifyEnds, Finish
  <2> QED
    BY <2>1 DEF BoundInsideOnly, Unbound
<1>4. CASE ModelAnswers \/ ChildEnds \/ ToolsEnd
  BY <1>4 DEF ModelAnswers, ChildEnds, ToolsEnd, Leaves, BoundInsideOnly, Unbound
<1>5. CASE CheckBefore
  <2>1. CASE bound' = bound
    BY <1>5, <2>1 DEF CheckBefore, BoundInsideOnly, Unbound
  <2>2. CASE Binds /\ turn'.at = "llm" /\ Keeps(turn')
    BY <2>2 DEF Binds, BoundInsideOnly, Unbound, Keeps
  <2> QED
    BY <1>0, <1>5, <2>1, <2>2 DEF CheckBefore, Keeps, TurnOK, TurnRecord
<1>6. CASE ProviderFails
  <2>1. turn.at = "llm" /\ (Leaves \/ (bound' = bound /\ turn'.at = "llm" /\ Keeps(turn')))
    <3> DEFINE t == [turn EXCEPT !.tries = @ + 1]
    <3>1. turn.at = "llm" /\ (Leaves \/ (bound' = bound /\ turn' = Ends(t)))
      BY <1>6 DEF ProviderFails, Step
    <3>2. Ends(t).at = turn.at /\ Keeps(Ends(t))
      BY <1>0 DEF Ends, Keeps, TurnOK, TurnRecord
    <3> HIDE DEF t
    <3> QED
      BY <3>1, <3>2 DEF Keeps
  <2> QED
    BY <2>1 DEF Leaves, BoundInsideOnly, Unbound, Keeps
<1>7. CASE CheckAfterAnswer
  <2>1. turn.at = "answered"
    BY <1>7 DEF CheckAfterAnswer
  <2>2. bound' = bound \/ (Binds /\ turn' = [turn EXCEPT !.at = "tools", !.got = {}])
    BY <1>7 DEF CheckAfterAnswer
  <2>3. bound' = bound \/ (Binds /\ turn'.at = "tools" /\ Keeps(turn'))
    BY <1>0, <2>2 DEF Keeps, TurnOK, TurnRecord
  <2> QED
    BY <2>1, <2>3 DEF Binds, BoundInsideOnly, Unbound, Keeps
<1>8. CASE ToolCall
  <2> DEFINE t(e) == [turn EXCEPT !.calls = @ + 1, !.got = @ \cup e]
  <2>1. PICK e \in {{}, {"final"}, {"protocol"}} :
          turn.at = "tools" /\ bound' = bound /\ turn' = Ends(t(e))
    BY <1>8 DEF ToolCall, Step
  <2>2. Ends(t(e)).at = turn.at /\ Keeps(Ends(t(e)))
    BY <1>0 DEF Ends, Keeps, TurnOK, TurnRecord
  <2> HIDE DEF t
  <2> QED
    BY <2>1, <2>2 DEF BoundInsideOnly, Unbound, Keeps
<1>9. CASE ChildBegins
  BY <1>0, <1>9 DEF ChildBegins, Step, BoundInsideOnly, TurnOK, TurnRecord
<1> QED
  BY <1>1, <1>2, <1>3, <1>4, <1>5, <1>6, <1>7, <1>8, <1>9 DEF TurnNext, ClientStep, LoopStep

\* The thread is bound to a turn only inside a request or a tool of it, so a
\* stop can never abort a request of another turn (turn_run.c:128-171).
THEOREM BindingSound == TurnSpec => []BoundInsideOnly
<1>1. TurnInit => BoundInsideOnly
  BY DEF TurnInit, BoundInsideOnly
<1>2. TurnTypeOK /\ BoundInsideOnly /\ [TurnNext]_turnVars => BoundInsideOnly'
  <2> SUFFICES ASSUME TurnTypeOK, BoundInsideOnly, [TurnNext]_turnVars
               PROVE  BoundInsideOnly'
    OBVIOUS
  <2>1. CASE TurnNext
    BY <2>1, BoundStep
  <2>2. CASE UNCHANGED turnVars
    BY <2>2 DEF turnVars, BoundInsideOnly
  <2> QED
    BY <2>1, <2>2
<1> QED
  BY <1>1, <1>2, TurnTypeCorrect, PTL DEF TurnSpec

-----------------------------------------------------------------------------
(* A stopped turn. *)

\* Each place is reached from a look at the token with nothing done late, and
\* left before the next look after so many requests or calls.
LateInv ==
  /\ turn.wanted => turn.late = 0
  /\ turn.at \in {"idle", "entry", "directive", "check"} => turn.late = 0
  /\ turn.at = "llm" => 1 <= turn.tries /\ turn.late < turn.tries
  /\ turn.at \in {"llm_failed", "answered"} => turn.late <= Providers
  /\ turn.at = "tools" => turn.late <= turn.calls
  /\ turn.at = "child" => turn.late < turn.calls
  /\ turn.at = "tools_done" => turn.late <= CallsMax
  /\ turn.at = "forced" => turn.late <= IF turn.exhausted THEN 1 ELSE 0
  /\ turn.at = "verify" => turn.late <= 2
  /\ turn.at = "finish" => turn.late <= LateMax

LEMMA LateMaxBounds ==
  LateMax \in Nat /\ Providers <= LateMax /\ CallsMax <= LateMax /\ 3 <= LateMax
<1> DEFINE S == {Providers, CallsMax, 3}
<1>1. Providers \in Nat /\ CallsMax \in Nat
  BY TurnAssumption
<1>2. \E x \in S : \A y \in S : x >= y
  <2>1. CASE Providers >= CallsMax /\ Providers >= 3
    BY <1>1, <2>1
  <2>2. CASE CallsMax >= Providers /\ CallsMax >= 3
    BY <1>1, <2>2
  <2>3. CASE 3 >= Providers /\ 3 >= CallsMax
    BY <1>1, <2>3
  <2> QED
    BY <1>1, <2>1, <2>2, <2>3
<1>3. LateMax \in S /\ \A y \in S : LateMax >= y
  BY <1>2 DEF LateMax, Max
<1> QED
  BY <1>1, <1>3

\* Whoever looks at the token and goes on is wanted, and has done nothing late.
LEMMA LookedAt ==
  ASSUME CancelInv, LateInv, turn.at \in WithToken, ~Cancelled
  PROVE  turn.late = 0
BY CancelledMeans DEF CancelInv, LateInv

LEMMA EndsLate ==
  ASSUME NEW t \in TurnRecord
  PROVE  /\ Ends(t) \in TurnRecord
         /\ Ends(t).late \in Nat /\ Ends(t).late <= t.late + 1
         /\ t.wanted => Ends(t).late = t.late
         /\ Ends(t).at = t.at /\ Ends(t).wanted = t.wanted /\ Ends(t).tries = t.tries
         /\ Ends(t).calls = t.calls /\ Ends(t).exhausted = t.exhausted
BY DEF Ends, TurnRecord

LEMMA LateTypes ==
  ASSUME turn \in TurnRecord
  PROVE  /\ turn.at \in TurnAt /\ turn.late \in Nat /\ turn.tries \in Nat /\ turn.calls \in Nat
         /\ turn.calls <= CallsMax /\ turn.tries <= Providers /\ Providers \in Nat /\ CallsMax \in Nat
<1>1. Providers \in Nat /\ CallsMax \in Nat
  BY TurnAssumption
<1>2. turn.tries \in 0 .. Providers /\ turn.calls \in 0 .. CallsMax
  BY DEF TurnRecord
<1>3. turn.late \in Nat /\ turn.at \in TurnAt
  BY DEF TurnRecord
<1> QED
  BY <1>1, <1>2, <1>3

LEMMA LateStep ==
  ASSUME CancelInv, LateInv, TurnTypeOK', TurnNext
  PROVE  LateInv'
<1>0. /\ turn \in TurnRecord /\ turn' \in TurnRecord
      /\ turn.late \in Nat /\ turn.tries \in Nat /\ turn.calls \in Nat /\ turn.calls <= CallsMax
      /\ turn.tries <= Providers /\ Providers \in Nat /\ CallsMax \in Nat
  BY LateTypes DEF CancelInv, TurnTypeOK
<1>1. ASSUME NEW chat \in Chat, Say(chat) \/ Stop(chat) PROVE LateInv'
  <2>1. turn' = turn \/ (turn.at \in WithToken /\ turn' = [turn EXCEPT !.wanted = FALSE])
    BY <1>1 DEF Say, Stop, Unwanted
  <2>2. CASE turn' = turn
    BY <2>2 DEF LateInv
  <2>3. CASE turn' = [turn EXCEPT !.wanted = FALSE]
    <3>1. /\ turn'.at = turn.at /\ turn'.late = turn.late /\ turn'.tries = turn.tries
          /\ turn'.calls = turn.calls /\ turn'.exhausted = turn.exhausted /\ ~turn'.wanted
      BY <1>0, <2>3 DEF TurnRecord
    <3> QED
      BY <3>1 DEF LateInv
  <2> QED
    BY <2>1, <2>2, <2>3
<1>2. CASE \/ SocketPush
           \/ \E chat \in Chat : StoreDirective(chat)
           \/ \E chat \in Chat, kind \in {"user", "delegate"} : Arrive(chat, kind)
  BY <1>2 DEF SocketPush, StoreDirective, Arrive, LateInv
<1>3. CASE Take
  <2>0. Head(inbound) \in Message
    BY <1>3, HeadTailProperties DEF Take, CancelInv, TurnTypeOK
  <2>1. turn' = turn \/ (turn'.late = 0 /\ turn'.at \in {"entry", "finish"})
    <3>1. Head(inbound).kind \in Kind
      BY <2>0 DEF Message
    <3> QED
      BY <1>3, <3>1 DEF Take, Idle, Kind
  <2> QED
    BY <1>3, <2>1, LateMaxBounds DEF LateInv
<1>4. CASE PrepareFails \/ Interview \/ RunDirective \/ DirectiveEnds \/ Begin
  <2>1. turn.late = 0
    BY <1>4 DEF PrepareFails, Interview, RunDirective, DirectiveEnds, Begin, Step, LateInv
  <2>2. turn'.late = turn.late /\ turn'.at \in {"finish", "directive", "check"}
    <3>1. CASE PrepareFails \/ Interview
      <4>1. \/ turn' = [turn EXCEPT !.at = "finish", !.failed = TRUE]
            \/ turn' = [turn EXCEPT !.at = "finish", !.text = TRUE]
        BY <3>1 DEF PrepareFails, Interview, Step
      <4> QED
        BY <1>0, <4>1 DEF TurnRecord
    <3>2. CASE RunDirective \/ DirectiveEnds
      <4>1. \/ turn' = [turn EXCEPT !.at = "directive", !.directive = directive[turn.chat]]
            \/ \E failed \in BOOLEAN :
                 turn' = [turn EXCEPT !.at = "finish", !.text = TRUE, !.failed = failed]
        BY <3>2 DEF RunDirective, DirectiveEnds
      <4> QED
        BY <1>0, <4>1 DEF TurnRecord
    <3>3. CASE Begin
      BY <1>0, <3>3 DEF Begin, TurnRecord
    <3> QED
      BY <1>4, <3>1, <3>2, <3>3
  <2> QED
    BY <2>1, <2>2, LateMaxBounds DEF LateInv
<1>5. CASE CheckBefore
  <2>1. turn.late = 0
    BY <1>5 DEF CheckBefore, LateInv
  <2>2. turn'.late = 0 /\ (turn'.at = "finish" \/ (turn'.at = "llm" /\ turn'.tries = 1))
    BY <1>0, <1>5, <2>1 DEF CheckBefore, GivesUp, TurnRecord
  <2> QED
    BY <2>2, LateMaxBounds DEF LateInv
<1>6. CASE ModelAnswers
  <2>1. PICK got \in {{"text"}, {}, {"tools"}} :
          turn.at = "llm" /\ turn' = Ends([turn EXCEPT !.at = "answered", !.got = got, !.tries = 0])
    BY <1>6 DEF ModelAnswers, Step
  <2>2. turn'.at = "answered" /\ turn'.late <= turn.late + 1 /\ turn'.late \in Nat
        /\ (turn'.wanted => turn'.late = 0)
    BY <1>0, <2>1 DEF Ends, TurnRecord, LateInv
  <2> QED
    BY <1>0, <2>1, <2>2 DEF LateInv
<1>7. CASE ProviderFails
  <2>1. CASE turn.tries < Providers
    <3>1. turn.at = "llm" /\ turn' = Ends([turn EXCEPT !.tries = @ + 1])
      BY <1>7, <2>1 DEF ProviderFails, Step
    <3>2. turn'.at = "llm" /\ turn'.tries = turn.tries + 1 /\ turn'.late <= turn.late + 1
          /\ turn'.late \in Nat /\ (turn'.wanted => turn'.late = 0)
      BY <1>0, <3>1 DEF Ends, TurnRecord, LateInv
    <3> QED
      BY <1>0, <3>1, <3>2 DEF LateInv
  <2>2. CASE ~(turn.tries < Providers)
    <3>1. turn.at = "llm" /\ turn' = Ends([turn EXCEPT !.at = "llm_failed", !.tries = 0])
      BY <1>7, <2>2 DEF ProviderFails, Step
    <3>2. turn'.at = "llm_failed" /\ turn'.late <= turn.late + 1 /\ turn'.late \in Nat
          /\ (turn'.wanted => turn'.late = 0)
      BY <1>0, <3>1 DEF Ends, TurnRecord, LateInv
    <3> QED
      BY <1>0, <3>1, <3>2 DEF LateInv
  <2> QED
    BY <2>1, <2>2
<1>8. CASE CheckAfterFailure
  <2>1. turn.late <= Providers /\ turn'.late = turn.late /\ turn'.at = "finish"
        /\ turn'.wanted = turn.wanted
    BY <1>0, <1>8 DEF CheckAfterFailure, Step, GivesUp, TurnRecord, LateInv
  <2> QED
    BY <1>0, <2>1, LateMaxBounds DEF LateInv
<1>9. CASE CheckAfterAnswer
  <2>1. turn.at = "answered" /\ turn.late <= Providers
    BY <1>9 DEF CheckAfterAnswer, LateInv
  <2>2. CASE Cancelled
    <3>1. turn'.late = turn.late /\ turn'.at = "finish" /\ turn'.wanted = turn.wanted
      BY <1>0, <1>9, <2>2 DEF CheckAfterAnswer, GivesUp, TurnRecord
    <3> QED
      BY <1>0, <2>1, <3>1, LateMaxBounds DEF LateInv
  <2>3. CASE ~Cancelled
    <3>1. turn.late = 0
      BY <2>1, <2>3, LookedAt DEF WithToken
    <3>2. turn'.late = turn.late /\ turn'.at \in {"tools", "verify"} /\ turn'.calls = turn.calls
      <4>1. \/ turn' = [turn EXCEPT !.at = "tools", !.got = {}]
            \/ turn' = [turn EXCEPT !.at = "verify", !.text = "text" \in turn.got]
        BY <1>9, <2>3 DEF CheckAfterAnswer
      <4> QED
        BY <1>0, <4>1 DEF TurnRecord
    <3> QED
      BY <1>0, <3>1, <3>2 DEF LateInv
  <2> QED
    BY <2>2, <2>3
<1>10. CASE ToolCall
  <2>1. PICK effect \in {{}, {"final"}, {"protocol"}} :
          turn.at = "tools" /\ turn' = Ends([turn EXCEPT !.calls = @ + 1, !.got = @ \cup effect])
    BY <1>10 DEF ToolCall, Step
  <2>2. turn'.at = "tools" /\ turn'.calls = turn.calls + 1 /\ turn'.late <= turn.late + 1
        /\ turn'.late \in Nat /\ (turn'.wanted => turn'.late = 0)
    BY <1>0, <2>1 DEF Ends, TurnRecord, LateInv
  <2> QED
    BY <1>0, <2>1, <2>2 DEF LateInv
<1>11. CASE ChildBegins
  <2>1. turn.at = "tools" /\ turn'.at = "child" /\ turn'.calls = turn.calls + 1
        /\ turn'.late = turn.late /\ turn'.wanted = turn.wanted
    BY <1>0, <1>11 DEF ChildBegins, Step, TurnRecord
  <2> QED
    BY <1>0, <2>1 DEF LateInv
<1>12. CASE ChildEnds
  <2>1. PICK effect \in {{}, {"final"}} :
          turn.at = "child" /\ turn' = Ends([turn EXCEPT !.at = "tools", !.got = @ \cup effect])
    BY <1>12 DEF ChildEnds, Step
  <2>2. turn'.at = "tools" /\ turn'.calls = turn.calls /\ turn'.late <= turn.late + 1
        /\ turn'.late \in Nat /\ (turn'.wanted => turn'.late = 0)
    BY <1>0, <2>1 DEF Ends, TurnRecord, LateInv
  <2> QED
    BY <1>0, <2>1, <2>2 DEF LateInv
<1>13. CASE ToolsEnd
  <2>1. turn.at = "tools" /\ turn'.at = "tools_done" /\ turn'.late = turn.late
        /\ turn'.wanted = turn.wanted
    BY <1>0, <1>13 DEF ToolsEnd, Step, TurnRecord
  <2> QED
    BY <1>0, <2>1 DEF LateInv
<1>14. CASE CheckAfterTools
  <2>1. turn.at = "tools_done" /\ turn.late <= CallsMax
    BY <1>14 DEF CheckAfterTools, LateInv
  <2>2. CASE Cancelled
    <3>1. turn'.late = turn.late /\ turn'.at = "finish" /\ turn'.wanted = turn.wanted
      BY <1>0, <1>14, <2>2 DEF CheckAfterTools, GivesUp, TurnRecord
    <3> QED
      BY <1>0, <2>1, <3>1, LateMaxBounds DEF LateInv
  <2>3. CASE ~Cancelled
    <3>1. turn.late = 0
      BY <2>1, <2>3, LookedAt DEF WithToken
    <3>2. turn'.late = turn.late /\ turn'.at \in {"verify", "forced", "check"}
      BY <1>0, <1>14, <2>3 DEF CheckAfterTools, Forced, TurnRecord
    <3> QED
      BY <3>1, <3>2 DEF LateInv
  <2> QED
    BY <2>2, <2>3
<1>15. CASE ForcedEnds
  <2>1. turn.at = "forced" /\ (turn.exhausted => turn.late <= 1) /\ (~turn.exhausted => turn.late = 0)
    BY <1>0, <1>15 DEF ForcedEnds, LateInv
  <2>2. PICK text \in BOOLEAN :
          turn' = IF ~text /\ turn.round = RoundsMax /\ ~turn.exhausted
                  THEN Ends(Forced([turn EXCEPT !.exhausted = TRUE]))
                  ELSE Ends([turn EXCEPT !.at = "verify", !.text = text])
    BY <1>15 DEF ForcedEnds
  <2>3. CASE ~text /\ turn.round = RoundsMax /\ ~turn.exhausted
    <3>1. turn'.at = "forced" /\ turn'.exhausted /\ turn'.late <= turn.late + 1
          /\ turn'.late \in Nat /\ (turn'.wanted => turn'.late = 0)
      BY <1>0, <2>2, <2>3 DEF Ends, Forced, TurnRecord, LateInv
    <3> QED
      BY <1>0, <2>1, <2>3, <3>1 DEF LateInv
  <2>4. CASE ~(~text /\ turn.round = RoundsMax /\ ~turn.exhausted)
    <3>1. turn'.at = "verify" /\ turn'.late <= turn.late + 1
          /\ turn'.late \in Nat /\ (turn'.wanted => turn'.late = 0)
      BY <1>0, <2>2, <2>4 DEF Ends, TurnRecord, LateInv
    <3>2. turn'.late <= 2
      BY <1>0, <2>1, <3>1 DEF TurnRecord
    <3> QED
      BY <3>1, <3>2 DEF LateInv
  <2> QED
    BY <2>3, <2>4
<1>16. CASE VerifyEnds
  <2>1. turn.at = "verify" /\ turn.late <= 2
    BY <1>16 DEF VerifyEnds, Step, LateInv
  <2>2. turn'.at = "finish" /\ turn'.late <= turn.late + 1
        /\ turn'.late \in Nat /\ (turn'.wanted => turn'.late = 0)
    BY <1>0, <1>16 DEF VerifyEnds, Step, Ends, TurnRecord, LateInv
  <2> QED
    BY <1>0, <2>1, <2>2, LateMaxBounds DEF LateInv
<1>17. CASE Finish
  BY <1>17 DEF Finish, Step, Idle, LateInv
<1> QED
  BY <1>1, <1>2, <1>3, <1>4, <1>5, <1>6, <1>7, <1>8, <1>9, <1>10, <1>11, <1>12, <1>13, <1>14,
     <1>15, <1>16, <1>17 DEF TurnNext, ClientStep, LoopStep

LEMMA LateMeans ==
  ASSUME TurnTypeOK, LateInv
  PROVE  StopIsNoticed
<1>1. turn.at \in TurnAt /\ turn.late \in Nat /\ turn.tries \in Nat /\ turn.calls \in Nat
      /\ turn.tries <= Providers /\ turn.calls <= CallsMax /\ Providers \in Nat /\ CallsMax \in Nat
  BY LateTypes DEF TurnTypeOK
<1>2. CASE turn.at \in {"idle", "entry", "directive", "check", "llm", "llm_failed", "answered"}
  BY <1>1, <1>2, LateMaxBounds DEF LateInv, StopIsNoticed
<1>3. CASE turn.at \in {"tools", "child", "tools_done", "forced", "verify", "finish"}
  BY <1>1, <1>3, LateMaxBounds DEF LateInv, StopIsNoticed
<1> QED
  BY <1>1, <1>2, <1>3 DEF TurnAt, LateInv

\* With a slot for every chat, a turn nobody wants any more ends at most the
\* fallback chain, or the calls of one answer, or two forced answers and a
\* verification, and never begins a further round (turn_run.c:231-413).
THEOREM StopNoticed ==
  ASSUME EnoughSlots PROVE TurnSpec => []StopIsNoticed
<1>1. TurnInit => LateInv
  BY DEF TurnInit, Idle, LateInv
<1>2. CancelInv /\ TurnTypeOK' /\ LateInv /\ [TurnNext]_turnVars => LateInv'
  <2> SUFFICES ASSUME CancelInv, TurnTypeOK', LateInv, [TurnNext]_turnVars PROVE LateInv'
    OBVIOUS
  <2>1. CASE TurnNext
    BY <2>1, LateStep
  <2>2. CASE UNCHANGED turnVars
    BY <2>2 DEF turnVars, LateInv
  <2> QED
    BY <2>1, <2>2
<1>3. TurnTypeOK /\ LateInv => StopIsNoticed
  BY LateMeans
<1> QED
  BY <1>1, <1>2, <1>3, CancelInductive, TurnTypeCorrect, PTL DEF TurnSpec

-----------------------------------------------------------------------------
(* A directive. *)

\* No two chats have the same directive.  One that has succeeded is still stored
\* only while its turn is about to clear it; one that is being run has not
\* succeeded, and is no other chat's.
DirectiveInv ==
  /\ \A b, c \in Chat : b # c /\ directive[b] # 0 => directive[b] # directive[c]
  /\ \A c \in Chat :
       directive[c] # 0 /\ directive[c] \in executed =>
         turn.at = "finish" /\ turn.chat = c /\ ~turn.failed /\ ~turn.cancelled
  /\ turn.at \in {"idle", "entry", "directive"} => ~turn.cancelled
  /\ turn.at = "directive" =>
       /\ turn.directive # 0 /\ turn.directive \notin executed
       /\ \A c \in Chat : c # turn.chat => directive[c] # turn.directive

\* What no step disturbs as long as it stores, runs and clears no directive.
LEMMA DirectiveKept ==
  ASSUME DirectiveInv, UNCHANGED <<directive, executed>>,
         turn.at # "finish", turn'.at # "directive",
         turn'.at \in {"idle", "entry"} => ~turn'.cancelled
  PROVE  DirectiveInv'
BY DEF DirectiveInv

LEMMA StoreKeeps ==
  ASSUME TurnTypeOK, DirectiveInv, NEW chat \in Chat, StoreDirective(chat)
  PROVE  DirectiveInv'
<1>1. PICK d \in Directive :
        (\A e \in Stored : e < d) /\ directive' = [directive EXCEPT ![chat] = d]
  BY DEF StoreDirective
<1>2. turn' = turn /\ executed' = executed
  BY DEF StoreDirective
<1>3. /\ d \in Nat /\ d # 0
      /\ directive \in [Chat -> Nat] /\ executed \subseteq Nat /\ turn.directive \in Nat
  <2>1. d \in 1 .. MaxDirectives /\ MaxDirectives \in Nat
    BY <1>1, TurnAssumption DEF Directive
  <2>2. directive \in [Chat -> 0 .. MaxDirectives] /\ executed \subseteq 0 .. MaxDirectives
        /\ turn.directive \in 0 .. MaxDirectives
    BY DEF TurnTypeOK, TurnRecord
  <2> QED
    BY <2>1, <2>2
<1>4. /\ \A c \in Chat : directive[c] < d
      /\ \A e \in executed : e < d
      /\ turn.directive < d
  BY <1>1 DEF Stored
<1>5. d \notin executed /\ turn.directive # d /\ \A c \in Chat : directive[c] # d
  BY <1>3, <1>4
<1>6. directive'[chat] = d /\ \A c \in Chat : c # chat => directive'[c] = directive[c]
  BY <1>1, <1>3
<1> QED
  BY <1>2, <1>3, <1>5, <1>6 DEF DirectiveInv

LEMMA DirectiveStep ==
  ASSUME TurnTypeOK, DirectiveInv, TurnNext
  PROVE  /\ DirectiveInv'
         /\ turn'.at = "directive" => turn'.directive \notin executed
<1>0. turn \in TurnRecord
  BY DEF TurnTypeOK
<1>1. ASSUME NEW chat \in Chat, Say(chat) \/ Stop(chat)
      PROVE  DirectiveInv' /\ (turn'.at = "directive" => turn'.directive \notin executed)
  <2>1. UNCHANGED <<directive, executed>>
    BY <1>1 DEF Say, Stop
  <2>2. /\ turn'.at = turn.at /\ turn'.chat = turn.chat /\ turn'.directive = turn.directive
        /\ turn'.failed = turn.failed /\ turn'.cancelled = turn.cancelled
    BY <1>0, <1>1 DEF Say, Stop, Unwanted, TurnRecord
  <2> QED
    BY <2>1, <2>2 DEF DirectiveInv
<1>2. CASE \E chat \in Chat : StoreDirective(chat)
  <2>1. DirectiveInv'
    BY <1>2, StoreKeeps
  <2>2. turn' = turn
    BY <1>2 DEF StoreDirective
  <2> QED
    BY <2>1, <2>2 DEF DirectiveInv
<1>3. CASE SocketPush \/ \E chat \in Chat, kind \in {"user", "delegate"} : Arrive(chat, kind)
  BY <1>3 DEF SocketPush, Arrive, DirectiveInv
<1>4. CASE Take
  <2>0. Head(inbound) \in Message
    BY <1>4, HeadTailProperties DEF Take, TurnTypeOK
  <2>1. turn' = turn \/ (~turn'.cancelled /\ turn'.at \in {"entry", "finish"})
    <3>1. Head(inbound).kind \in Kind
      BY <2>0 DEF Message
    <3> QED
      BY <1>4, <3>1 DEF Take, Idle, Kind
  <2>2. turn.at = "idle" /\ UNCHANGED <<directive, executed>>
    BY <1>4 DEF Take
  <2> QED
    BY <2>1, <2>2, DirectiveKept DEF DirectiveInv
<1>5. CASE RunDirective
  <2>1. /\ turn.at = "entry" /\ directive[turn.chat] # 0 /\ UNCHANGED <<directive, executed>>
        /\ turn.chat \in Chat
    BY <1>5 DEF RunDirective, KeepsRest, TurnTypeOK
  <2>2. /\ turn'.at = "directive" /\ turn'.directive = directive[turn.chat]
        /\ turn'.chat = turn.chat /\ turn'.cancelled = turn.cancelled
    BY <1>0, <1>5 DEF RunDirective, TurnRecord
  <2> QED
    BY <2>1, <2>2 DEF DirectiveInv
<1>6. CASE DirectiveEnds
  <2>1. PICK failed \in BOOLEAN :
          /\ turn.at = "directive"
          /\ turn' = [turn EXCEPT !.at = "finish", !.text = TRUE, !.failed = failed]
          /\ executed' = IF failed THEN executed ELSE executed \cup {turn.directive}
          /\ directive' = directive
    BY <1>6 DEF DirectiveEnds
  <2>2. /\ turn'.at = "finish" /\ turn'.failed = failed /\ turn'.chat = turn.chat
        /\ turn'.cancelled = turn.cancelled
    BY <1>0, <2>1 DEF TurnRecord
  <2> QED
    BY <2>1, <2>2 DEF DirectiveInv
<1>7. CASE Finish
  <2>1. /\ turn.at = "finish" /\ turn' = Idle /\ executed' = executed
        /\ directive' = IF turn.cancelled \/ turn.failed THEN directive
                         ELSE [directive EXCEPT ![turn.chat] = 0]
        /\ turn.chat \in Chat /\ directive \in [Chat -> 0 .. MaxDirectives]
    BY <1>7 DEF Finish, Step, TurnTypeOK
  <2>2. turn'.at = "idle" /\ ~turn'.cancelled
    BY <2>1 DEF Idle
  <2>3. CASE turn.cancelled \/ turn.failed
    BY <2>1, <2>2, <2>3 DEF DirectiveInv
  <2>4. CASE ~(turn.cancelled \/ turn.failed)
    <3>1. directive'[turn.chat] = 0 /\ \A c \in Chat : c # turn.chat => directive'[c] = directive[c]
      BY <2>1, <2>4
    <3> QED
      BY <2>1, <2>2, <3>1 DEF DirectiveInv
  <2> QED
    BY <2>3, <2>4
\* The other steps of the loop neither come from nor lead to the places that count.
<1>8. CASE \/ PrepareFails \/ Interview \/ Begin \/ CheckBefore \/ ModelAnswers
           \/ ProviderFails \/ CheckAfterFailure \/ CheckAfterAnswer \/ ToolCall
           \/ ChildBegins \/ ChildEnds \/ ToolsEnd \/ CheckAfterTools \/ ForcedEnds
           \/ VerifyEnds
  <2>1. UNCHANGED <<directive, executed>> /\ turn.at # "finish"
    BY <1>8 DEF PrepareFails, Interview, Begin, CheckBefore, ModelAnswers, ProviderFails,
                CheckAfterFailure, CheckAfterAnswer, ToolCall, ChildBegins, ChildEnds, ToolsEnd,
                CheckAfterTools, ForcedEnds, VerifyEnds, KeepsRest, Step
  <2>2. turn'.at \notin {"idle", "entry", "directive"}
    <3>1. CASE Begin
      BY <1>0, <3>1 DEF Begin, TurnRecord
    <3>2. CASE PrepareFails \/ Interview \/ CheckBefore \/ CheckAfterFailure
      BY <1>0, <3>2 DEF PrepareFails, Interview, CheckBefore, CheckAfterFailure,
                        Step, GivesUp, TurnRecord
    <3>3. CASE CheckAfterAnswer \/ ChildBegins \/ ToolsEnd \/ CheckAfterTools
      <4>1. CASE CheckAfterAnswer
        <5>1. \/ turn' = [turn EXCEPT !.at = "finish", !.cancelled = TRUE]
              \/ turn' = [turn EXCEPT !.at = "tools", !.got = {}]
              \/ turn' = [turn EXCEPT !.at = "verify", !.text = "text" \in turn.got]
          BY <4>1 DEF CheckAfterAnswer, GivesUp
        <5> QED
          BY <1>0, <5>1 DEF TurnRecord
      <4>2. CASE ChildBegins \/ ToolsEnd
        BY <1>0, <4>2 DEF ChildBegins, ToolsEnd, Step, TurnRecord
      <4>3. CASE CheckAfterTools
        BY <1>0, <4>3 DEF CheckAfterTools, GivesUp, Forced, TurnRecord
      <4> QED
        BY <3>3, <4>1, <4>2, <4>3
    <3>4. CASE ModelAnswers
      BY <1>0, <3>4 DEF ModelAnswers, Step, Ends, TurnRecord
    <3>5. CASE ProviderFails
      BY <1>0, <3>5 DEF ProviderFails, Step, Ends, TurnRecord
    <3>6. CASE ToolCall
      BY <1>0, <3>6 DEF ToolCall, Step, Ends, TurnRecord
    <3>7. CASE ChildEnds
      <4>1. PICK effect \in {{}, {"final"}} :
              turn' = Ends([turn EXCEPT !.at = "tools", !.got = @ \cup effect])
        BY <3>7 DEF ChildEnds, Step
      <4> QED
        BY <1>0, <4>1 DEF Ends, TurnRecord
    <3>8. CASE ForcedEnds
      <4>1. PICK text \in BOOLEAN :
              \/ turn' = Ends(Forced([turn EXCEPT !.exhausted = TRUE]))
              \/ turn' = Ends([turn EXCEPT !.at = "verify", !.text = text])
        BY <3>8 DEF ForcedEnds
      <4>2. CASE turn' = Ends(Forced([turn EXCEPT !.exhausted = TRUE]))
        <5> DEFINE t == Forced([turn EXCEPT !.exhausted = TRUE])
        <5>1. t.at = "forced"
          BY <1>0 DEF Forced, TurnRecord
        <5>2. t \in TurnRecord
          BY <1>0 DEF Forced, TurnRecord, TurnAt
        <5> HIDE DEF t
        <5>3. Ends(t).at = t.at
          BY <5>2 DEF Ends, TurnRecord
        <5> QED
          BY <4>2, <5>1, <5>3 DEF t
      <4>3. CASE turn' = Ends([turn EXCEPT !.at = "verify", !.text = text])
        BY <1>0, <4>3 DEF Ends, TurnRecord
      <4> QED
        BY <4>1, <4>2, <4>3
    <3>9. CASE VerifyEnds
      BY <1>0, <3>9 DEF VerifyEnds, Step, Ends, TurnRecord
    <3> QED
      BY <1>8, <3>1, <3>2, <3>3, <3>4, <3>5, <3>6, <3>7, <3>8, <3>9
  <2> QED
    BY <2>1, <2>2, DirectiveKept
<1> QED
  BY <1>1, <1>2, <1>3, <1>4, <1>5, <1>6, <1>7, <1>8 DEF TurnNext, ClientStep, LoopStep

\* A directive whose turn has succeeded never runs again, however many are stored
\* for however many chats meanwhile, and whatever stops and fails (turn_post.c:105).
THEOREM DirectiveRunsOnce == TurnSpec => DirectiveOnce
<1>1. TurnInit => DirectiveInv
  BY DEF TurnInit, Idle, DirectiveInv
<1>2. TurnTypeOK /\ DirectiveInv /\ [TurnNext]_turnVars =>
        DirectiveInv' /\ [turn'.at = "directive" => turn'.directive \notin executed]_turnVars
  <2> SUFFICES ASSUME TurnTypeOK, DirectiveInv, [TurnNext]_turnVars
               PROVE  DirectiveInv' /\ [turn'.at = "directive" => turn'.directive \notin executed]_turnVars
    OBVIOUS
  <2>1. CASE TurnNext
    BY <2>1, DirectiveStep
  <2>2. CASE UNCHANGED turnVars
    BY <2>2 DEF turnVars, DirectiveInv
  <2> QED
    BY <2>1, <2>2
<1> QED
  BY <1>1, <1>2, TurnTypeCorrect, PTL DEF TurnSpec, DirectiveOnce

==============================================================================
