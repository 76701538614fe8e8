----------------------------- MODULE CancelTokens -----------------------------
(***************************************************************************)
(* The table by which a turn learns that it is no longer wanted            *)
(* (kernel/cancel.c).  A slot holds one chat, the generation of its turn   *)
(* and whether a cancellation came; a turn keeps the generation it began   *)
(* with as its token.  Every function locks s_mutex for its whole body,    *)
(* so each is an operator on the table here, used in one step.             *)
(***************************************************************************)
EXTENDS Naturals, FiniteSetsExt

CONSTANTS
  Chat,             \* ids of chats
  SlotCount,        \* CANCEL_SLOT_MAX
  GenerationLimit,  \* one more than the largest generation, 2^64 in the code
  None              \* the empty chat id

ASSUME CancelAssumption ==
  /\ SlotCount \in Nat \ {0}
  /\ GenerationLimit \in Nat /\ GenerationLimit > 1
  /\ None \notin Chat

VARIABLE slots      \* s_slots

Slot == 1 .. SlotCount
Generation == 0 .. GenerationLimit - 1
CancelSlot == [chat : Chat \cup {None}, generation : Generation, cancelled : BOOLEAN]
FreeSlot == [chat |-> None, generation |-> 0, cancelled |-> FALSE]

CancelInit == slots = [i \in Slot |-> FreeSlot]

\* find_slot_locked
Holds(i, chat) == slots[i].chat = chat

\* find_or_create_slot_locked: the chat's own slot, else the first free one,
\* else the first slot of all, whoever it belongs to.
SlotFor(chat) ==
  LET own  == {i \in Slot : Holds(i, chat)}
      free == {i \in Slot : Holds(i, None)}
  IN  IF own # {} THEN Min(own) ELSE IF free # {} THEN Min(free) ELSE 1

\* A slot that changes hands starts from generation zero.
GenerationOf(chat) ==
  IF Holds(SlotFor(chat), chat) THEN slots[SlotFor(chat)].generation ELSE 0

\* Zero is skipped when the counter wraps: it means "no token".
Successor(g) == IF g + 1 = GenerationLimit THEN 1 ELSE g + 1

\* What agent_cancel_begin_turn returns.
NewToken(chat) == Successor(GenerationOf(chat))

Renew(chat, cancelled) ==
  slots' = [slots EXCEPT ![SlotFor(chat)] =
              [chat |-> chat, generation |-> NewToken(chat), cancelled |-> cancelled]]

\* Faulty: a turn that begins leaves an earlier request in force.
BeginTurn_KeepsFlag(chat) ==
  Renew(chat, Holds(SlotFor(chat), chat) /\ slots[SlotFor(chat)].cancelled)

\* agent_cancel_begin_turn
BeginTurn(chat) == Renew(chat, FALSE)

\* Faulty: a request only moves the generation on, which may come round again.
CancelRequest_NoFlag(chat) == Renew(chat, FALSE)

\* agent_cancel_request
CancelRequest(chat) == Renew(chat, TRUE)

\* agent_cancel_is_cancelled
IsCancelled(chat, token) ==
  \E i \in Slot : /\ Holds(i, chat)
                  /\ slots[i].generation # token \/ slots[i].cancelled

-----------------------------------------------------------------------------

\* What agent_cancel_is_cancelled needs to be sound: no slot has to change
\* hands.
EnoughSlots == IsFiniteSet(Chat) /\ Cardinality(Chat) <= SlotCount
==============================================================================
