---------------------------- MODULE ChatMessages ----------------------------
(* What the history a chat is promised and the one the files hold speak of. *)
EXTENDS Integers, Sequences

CONSTANTS
    Chats,
    Messages,        \* numbers for messages, in the order they are sent
    ProtectFirst,    \* COMPRESS_PROTECT_FIRST: never compressed, at the start
    ProtectLast      \* compress_keep_msgs: and at the end

ASSUME ChatAssumption ==
    /\ Messages \subseteq Nat \ {0}
    /\ ProtectFirst \in Nat \ {0}
    /\ ProtectLast \in Nat \ {0, 1}

=============================================================================
