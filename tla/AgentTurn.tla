------------------------------- MODULE AgentTurn -------------------------------
(***************************************************************************)
(* How the agent loop turns messages into replies (kernel/loop.c and       *)
(* kernel/turn/), and how a client stops it.                               *)
(*                                                                         *)
(* One thread, the agent loop, takes messages off the inbound queue and    *)
(* runs a turn for each: it asks the model, runs the tools the model calls *)
(* and asks again, until it has a text.  Meanwhile the websocket thread    *)
(* takes further messages, stop requests and delegate directives from the  *)
(* clients; both share the inbound queue, the cancel table and the table   *)
(* of directives.                                                          *)
(***************************************************************************)
EXTENDS CancelTokens, Sequences

CONSTANTS
  InboundLen,     \* BUS_QUEUE_LEN
  RoundsMax,      \* AGENT_MAX_TOOL_ITER
  CallsMax,       \* MAX_TOOL_CALLS, the calls of one answer of the model
  Providers,      \* how many providers the fallback chain holds
  MaxMessages,    \* bounds of the model: messages, stop requests and
  MaxStops,       \*   directives of the clients
  MaxDirectives

ASSUME TurnAssumption ==
  /\ InboundLen \in Nat \ {0} /\ RoundsMax \in Nat \ {0}
  /\ CallsMax \in Nat \ {0} /\ Providers \in Nat \ {0}
  /\ MaxMessages \in Nat /\ MaxStops \in Nat /\ MaxDirectives \in Nat

VARIABLES
  inbound,     \* the inbound queue
  socket,      \* what the websocket thread is about to put on it
  turn,        \* the turn of the agent loop, and its local variables
  bound,       \* the turn the agent loop's thread is bound to (thread-local)
  directive,   \* the delegate directive stored for each chat, 0 for none
  outcome,     \* what became of each message
  executed,    \* directives whose turn succeeded
  stops        \* how many stop requests came

turnVars == <<slots, inbound, socket, turn, bound, directive, outcome, executed, stops>>

MessageId == 1 .. MaxMessages
Directive == 1 .. MaxDirectives
Kind == {"user", "delegate", "internal"}
Message == [id : MessageId, chat : Chat, kind : Kind]

Outcome == {"none", "sent", "lost", "ignored", "replied", "silenced"}

TurnAt == {"idle", "entry", "directive", "check", "llm", "llm_failed", "answered",
           "tools", "child", "tools_done", "forced", "verify", "finish"}

\* got: what the model answered, or what its tools have led to.  wanted and
\* late are the model's own: whether the turn is still wanted, and how many
\* requests and calls it has ended since it is not.
Idle == [at |-> "idle", chat |-> None, id |-> 0, token |-> 0, round |-> 0, tries |-> 0,
         calls |-> 0, got |-> {}, directive |-> 0, text |-> FALSE, failed |-> FALSE,
         exhausted |-> FALSE, cancelled |-> FALSE, wanted |-> TRUE, late |-> 0]

\* The phases in which agent_turn_run holds a token.
WithToken == {"check", "llm", "llm_failed", "answered", "tools", "child", "tools_done",
              "forced", "verify"}

TurnRecord ==
  [at : TurnAt, chat : Chat \cup {None}, id : 0 .. MaxMessages, token : Generation,
   round : 0 .. RoundsMax, tries : 0 .. Providers, calls : 0 .. CallsMax,
   got : SUBSET {"text", "tools", "final", "protocol"}, directive : 0 .. MaxDirectives,
   text : BOOLEAN, failed : BOOLEAN, exhausted : BOOLEAN, cancelled : BOOLEAN,
   wanted : BOOLEAN, late : Nat]

Unbound == [chat |-> None, token |-> 0]

-----------------------------------------------------------------------------
(* The clients. *)

Fresh == {i \in MessageId : /\ outcome[i] = "none"
                            /\ \A k \in 1 .. Len(socket) : socket[k].id # i}
NextId == Min(Fresh)

Queued(id, chat, kind) == [id |-> id, chat |-> chat, kind |-> kind]

\* Faulty: the queue takes whatever comes.
\* message_bus_push_inbound: a full queue drops the message after a second.
Push(m) ==
  IF Len(inbound) < InboundLen
  THEN inbound' = Append(inbound, m) /\ outcome' = [outcome EXCEPT ![m.id] = "sent"]
  ELSE UNCHANGED inbound /\ outcome' = [outcome EXCEPT ![m.id] = "lost"]

\* A request is meant for the turn of the chat that is under way, if any.
Unwanted(chat) ==
  turn' = IF turn.chat = chat /\ turn.at \in WithToken
          THEN [turn EXCEPT !.wanted = FALSE] ELSE turn

\* ws_handle_chat_message: first whatever runs for the chat is cancelled
Say(chat) ==
  /\ socket = <<>> /\ Fresh # {}
  /\ CancelRequest(chat) /\ Unwanted(chat)
  /\ socket' = <<Queued(NextId, chat, "user")>>
  /\ UNCHANGED <<inbound, bound, directive, outcome, executed, stops>>

\* ... then the message is queued.
SocketPush ==
  /\ socket # <<>>
  /\ Push(Head(socket)) /\ socket' = <<>>
  /\ UNCHANGED <<slots, turn, bound, directive, executed, stops>>

\* ws_handle_stop
Stop(chat) ==
  /\ socket = <<>> /\ stops < MaxStops
  /\ CancelRequest(chat) /\ Unwanted(chat)
  /\ stops' = stops + 1
  /\ UNCHANGED <<inbound, socket, bound, directive, outcome, executed>>

Stored == {directive[c] : c \in Chat} \cup executed \cup {turn.directive}

\* ws_handle_interactive_reply with a delegate_directive: it is stored for the
\* chat, then the reply itself is queued as an internal message.
StoreDirective(chat) ==
  /\ socket = <<>> /\ Fresh # {}
  /\ \E d \in Directive :
        /\ \A e \in Stored : e < d
        /\ directive' = [directive EXCEPT ![chat] = d]
  /\ socket' = <<Queued(NextId, chat, "internal")>>
  /\ UNCHANGED <<slots, inbound, turn, bound, outcome, executed, stops>>

\* Feishu, voice, cron and the wake manager put messages on the queue without
\* cancelling anything.
Arrive(chat, kind) ==
  /\ Fresh # {}
  /\ Push(Queued(NextId, chat, kind))
  /\ UNCHANGED <<slots, socket, turn, bound, directive, executed, stops>>

-----------------------------------------------------------------------------
(* The turn: agent_turn_process_new_message and what it calls.             *)

Step(from, t) == turn.at = from /\ turn' = t
KeepsRest == UNCHANGED <<slots, inbound, socket, directive, outcome, executed, stops>>

\* A request or a call that ends when nobody wants it any more.
Ends(t) == IF t.wanted THEN t ELSE [t EXCEPT !.late = @ + 1]

Take ==
  /\ turn.at = "idle" /\ inbound # <<>>
  /\ inbound' = Tail(inbound)
  /\ LET m == Head(inbound)
     IN  CASE m.kind = "internal" ->
                /\ outcome' = [outcome EXCEPT ![m.id] = "ignored"]
                /\ UNCHANGED turn
           [] m.kind = "delegate" ->
                \* agent_turn_try_finish_delegate_completion
                /\ turn' = [Idle EXCEPT !.at = "finish", !.chat = m.chat, !.id = m.id,
                                        !.text = TRUE]
                /\ UNCHANGED outcome
           [] m.kind = "user" ->
                /\ turn' = [Idle EXCEPT !.at = "entry", !.chat = m.chat, !.id = m.id]
                /\ UNCHANGED outcome
  /\ UNCHANGED <<slots, socket, bound, directive, executed, stops>>

\* agent_turn_finish_prepare_error
PrepareFails ==
  /\ Step("entry", [turn EXCEPT !.at = "finish", !.failed = TRUE])
  /\ KeepsRest /\ UNCHANGED bound

\* agent_turn_try_interview: the questions are the reply
Interview ==
  /\ Step("entry", [turn EXCEPT !.at = "finish", !.text = TRUE])
  /\ KeepsRest /\ UNCHANGED bound

\* The shortcut: a stored directive is run in place of the turn, under no token.
RunDirective ==
  /\ turn.at = "entry" /\ directive[turn.chat] # 0
  /\ turn' = [turn EXCEPT !.at = "directive", !.directive = directive[turn.chat]]
  /\ KeepsRest /\ UNCHANGED bound

DirectiveEnds ==
  /\ turn.at = "directive"
  /\ \E failed \in BOOLEAN :
        /\ turn' = [turn EXCEPT !.at = "finish", !.text = TRUE, !.failed = failed]
        /\ executed' = IF failed THEN executed ELSE executed \cup {turn.directive}
  /\ UNCHANGED <<slots, inbound, socket, bound, directive, outcome, stops>>

Begin ==
  /\ turn.at = "entry" /\ directive[turn.chat] = 0
  /\ turn' = [turn EXCEPT !.at = "check", !.token = NewToken(turn.chat)]
  /\ BeginTurn(turn.chat)
  /\ UNCHANGED <<inbound, socket, bound, directive, outcome, executed, stops>>

Cancelled == IsCancelled(turn.chat, turn.token)
GivesUp(t) == [t EXCEPT !.at = "finish", !.cancelled = TRUE]
Binds  == bound' = [chat |-> turn.chat, token |-> turn.token]
Leaves == bound' = Unbound

\* Before the model is asked
CheckBefore ==
  /\ turn.at = "check"
  /\ IF Cancelled
     THEN turn' = GivesUp(turn) /\ UNCHANGED bound
     ELSE turn' = [turn EXCEPT !.at = "llm", !.tries = 1] /\ Binds
  /\ KeepsRest

ModelAnswers ==
  /\ \E got \in {{"text"}, {}, {"tools"}} :
        Step("llm", Ends([turn EXCEPT !.at = "answered", !.got = got, !.tries = 0]))
  /\ Leaves /\ KeepsRest

\* Faulty: the thread stays bound when the last provider has failed.
ProviderFails_StaysBound ==
  /\ IF turn.tries < Providers
     THEN Step("llm", Ends([turn EXCEPT !.tries = @ + 1]))
     ELSE Step("llm", Ends([turn EXCEPT !.at = "llm_failed", !.tries = 0]))
  /\ KeepsRest /\ UNCHANGED bound

\* model_fallback_chat_with_fallback: an error, the abort of a request that
\* was cancelled among them, moves on to the next provider.
ProviderFails ==
  /\ IF turn.tries < Providers
     THEN Step("llm", Ends([turn EXCEPT !.tries = @ + 1])) /\ UNCHANGED bound
     ELSE Step("llm", Ends([turn EXCEPT !.at = "llm_failed", !.tries = 0])) /\ Leaves
  /\ KeepsRest

CheckAfterFailure ==
  /\ Step("llm_failed", IF Cancelled THEN GivesUp(turn)
                        ELSE [turn EXCEPT !.at = "finish", !.failed = TRUE])
  /\ KeepsRest /\ UNCHANGED bound

\* Faulty: the answer of the model is acted upon without another look.
CheckAfterAnswer_Unchecked ==
  /\ turn.at = "answered"
  /\ IF "tools" \in turn.got
     THEN turn' = [turn EXCEPT !.at = "tools", !.got = {}] /\ Binds
     ELSE /\ turn' = [turn EXCEPT !.at = "verify", !.text = "text" \in turn.got]
          /\ UNCHANGED bound
  /\ KeepsRest

\* After the model has answered: with tool calls, with a text, or with an
\* empty one, which ends the turn without a reply of its own.
CheckAfterAnswer ==
  /\ turn.at = "answered"
  /\ CASE Cancelled -> turn' = GivesUp(turn) /\ UNCHANGED bound
       [] ~Cancelled /\ "tools" \in turn.got ->
            /\ turn' = [turn EXCEPT !.at = "tools", !.got = {}]
            /\ Binds
       [] ~Cancelled /\ "tools" \notin turn.got ->
            /\ turn' = [turn EXCEPT !.at = "verify", !.text = "text" \in turn.got]
            /\ UNCHANGED bound
  /\ KeepsRest

\* One call of the answer.  It may have started background tasks or finished
\* a delegated one ("final"), or broken the tool protocol.
ToolCall ==
  /\ turn.calls < CallsMax
  /\ \E effect \in {{}, {"final"}, {"protocol"}} :
        Step("tools", Ends([turn EXCEPT !.calls = @ + 1, !.got = @ \cup effect]))
  /\ KeepsRest /\ UNCHANGED bound

\* A call that runs a subagent in this very thread: agent_turn_run binds the
\* thread to the subagent's own session, and unbinds it when it is done.
ChildBegins ==
  /\ turn.calls < CallsMax
  /\ Step("tools", [turn EXCEPT !.at = "child", !.calls = @ + 1])
  /\ bound' = [chat |-> "child session", token |-> 0]
  /\ KeepsRest

ChildEnds ==
  /\ \E effect \in {{}, {"final"}} :
        Step("child", Ends([turn EXCEPT !.at = "tools", !.got = @ \cup effect]))
  /\ Leaves /\ KeepsRest

\* Faulty: the round is not counted.
ToolsEnd_NotCounted ==
  /\ turn.calls > 0
  /\ Step("tools", [turn EXCEPT !.at = "tools_done", !.calls = 0])
  /\ Leaves /\ KeepsRest

ToolsEnd ==
  /\ turn.calls > 0
  /\ Step("tools", [turn EXCEPT !.at = "tools_done", !.round = @ + 1, !.calls = 0])
  /\ Leaves /\ KeepsRest

\* A last answer without tools, which no stop request can abort
Forced(t) == [t EXCEPT !.at = "forced"]

CheckAfterTools ==
  /\ turn.at = "tools_done"
  /\ turn' =
       IF Cancelled THEN GivesUp(turn)
       ELSE IF "final" \in turn.got THEN [turn EXCEPT !.at = "verify", !.text = TRUE]
       ELSE IF "protocol" \in turn.got THEN Forced(turn)
       ELSE IF turn.round < RoundsMax THEN [turn EXCEPT !.at = "check"]
       ELSE Forced([turn EXCEPT !.exhausted = TRUE])
  /\ KeepsRest /\ UNCHANGED bound

\* agent_turn_generate_forced_final_response.  When it fails on the last
\* round, the exhausted budget asks for it once more.
ForcedEnds ==
  /\ turn.at = "forced"
  /\ \E text \in BOOLEAN :
        turn' = IF ~text /\ turn.round = RoundsMax /\ ~turn.exhausted
                THEN Ends(Forced([turn EXCEPT !.exhausted = TRUE]))
                ELSE Ends([turn EXCEPT !.at = "verify", !.text = text])
  /\ KeepsRest /\ UNCHANGED bound

\* agent_turn_maybe_run_auto_verification: a command, if there is a text to
\* add its result to and code was changed
VerifyEnds ==
  /\ \E runs \in {FALSE, turn.text} :
        Step("verify", IF runs THEN Ends([turn EXCEPT !.at = "finish"])
                       ELSE [turn EXCEPT !.at = "finish"])
  /\ KeepsRest /\ UNCHANGED bound

\* Faulty: the directive is kept, as after an error.
Finish_KeepsDirective ==
  /\ Step("finish", Idle)
  /\ outcome' = [outcome EXCEPT ![turn.id] = IF turn.cancelled THEN "silenced" ELSE "replied"]
  /\ UNCHANGED <<slots, inbound, socket, bound, directive, executed, stops>>

\* agent_turn_finish: a cancelled turn says nothing, any other replies, if
\* only that it failed; a turn without an error clears the chat's directive.
Finish ==
  /\ Step("finish", Idle)
  /\ outcome' = [outcome EXCEPT ![turn.id] = IF turn.cancelled THEN "silenced" ELSE "replied"]
  /\ directive' = IF turn.cancelled \/ turn.failed THEN directive
                  ELSE [directive EXCEPT ![turn.chat] = 0]
  /\ UNCHANGED <<slots, inbound, socket, bound, executed, stops>>

-----------------------------------------------------------------------------

TurnInit ==
  /\ CancelInit
  /\ inbound = <<>> /\ socket = <<>> /\ turn = Idle /\ bound = Unbound
  /\ directive = [c \in Chat |-> 0]
  /\ outcome = [i \in MessageId |-> "none"]
  /\ executed = {} /\ stops = 0

ClientStep ==
  \/ \E c \in Chat : Say(c)
  \/ \E c \in Chat : Stop(c)
  \/ \E c \in Chat : StoreDirective(c)
  \/ \E c \in Chat, kind \in {"user", "delegate"} : Arrive(c, kind)

LoopStep ==
  \/ Take \/ PrepareFails \/ Interview \/ RunDirective \/ DirectiveEnds \/ Begin
  \/ CheckBefore \/ ModelAnswers \/ ProviderFails \/ CheckAfterFailure
  \/ CheckAfterAnswer \/ ToolCall \/ ChildBegins \/ ChildEnds \/ ToolsEnd
  \/ CheckAfterTools \/ ForcedEnds \/ VerifyEnds \/ Finish

TurnNext == ClientStep \/ SocketPush \/ LoopStep

TurnSpec == TurnInit /\ [][TurnNext]_turnVars

\* The agent loop is a thread that never stops, every request it makes has a
\* timeout and so has every tool; the websocket thread waits a second at most
\* for the queue.  What clients do is up to them.
FairTurnSpec == TurnSpec /\ WF_turnVars(LoopStep) /\ WF_turnVars(SocketPush)

-----------------------------------------------------------------------------
(* Properties *)

\* Every variable has its type: the queue its bound, the rounds, the calls and
\* the providers of a turn theirs, so a new round is only begun below the
\* limit (turn_run.c:231).
TurnTypeOK ==
  /\ slots \in [Slot -> CancelSlot]
  /\ inbound \in Seq(Message) /\ Len(inbound) <= InboundLen
  /\ socket \in Seq(Message)
  /\ turn \in TurnRecord
  /\ turn.at = "idle" \/ (turn.chat \in Chat /\ turn.id \in MessageId)
  /\ turn.at \in {"entry", "check", "llm", "llm_failed", "answered", "tools", "child"} =>
       turn.round < RoundsMax
  /\ bound \in [chat : Chat \cup {None, "child session"}, token : Generation]
  /\ directive \in [Chat -> 0 .. MaxDirectives]
  /\ outcome \in [MessageId -> Outcome]
  /\ executed \subseteq 0 .. MaxDirectives /\ stops \in 0 .. MaxStops

\* While a chat has a slot for each of its turns, a turn reads as cancelled
\* exactly when a client has stopped it or spoken again since it began:
\* whatever other chats do to the table, however often its generation wraps,
\* and even if what arrived was meant for an earlier turn (cancel.c:79-123).
CancelledIffUnwanted ==
  turn.at \in WithToken => (Cancelled <=> ~turn.wanted)

\* A turn nobody wants any more is wound up soon: what it still does is at
\* most the fallback chain, or the calls of one answer, or two forced answers
\* and a verification, never a further round (turn_run.c:231-413).
LateMax == Max({Providers, CallsMax, 3})
StopIsNoticed == turn.late <= LateMax

\* Only a turn that was stopped goes without a reply (turn_reply.c:26-40).
SilenceWasAsked == turn.cancelled => ~turn.wanted

\* The thread is bound to a turn only inside a request or a tool of it, so a
\* stop can never abort a request of another turn (turn_run.c:119-173).
BoundInsideOnly ==
  bound # Unbound =>
    \/ turn.at \in {"llm", "tools"} /\ bound = [chat |-> turn.chat, token |-> turn.token]
    \/ turn.at = "child" /\ bound.chat = "child session"

\* A directive whose turn has succeeded never runs again (turn_post.c:105).
DirectiveOnce == [][turn'.at = "directive" => turn'.directive \notin executed]_turnVars

\* Clients can only say so much here, and so there comes a time when every
\* message that got onto the queue has been replied to, or deliberately left
\* without a reply, whatever the model answers (turn_run.c:231, :399).
EveryMessageSettled == <>[](\A i \in MessageId : outcome[i] # "sent")
==============================================================================
