SPECIFICATION FairWsSpec
CONSTANTS
    Chats = {x}
    Fds = {1, 2, 3}
    MaxClients = 2
    Outbound = out
    Senders = {out}
    MaxReplies = 0
CHECK_DEADLOCK FALSE
PROPERTIES KeepaliveGoesOn
