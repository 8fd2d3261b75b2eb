\* One client at a time beside resumeSaved and discovery, a saved session to
\* resume, one conversation to be begun, three claudes.
SPECIFICATION Spec
CONSTANTS
    Sessions = {s1, s2}
    Known = {s1}
    Children = {c1, c2, c3}
    Clients = {q1}
    Overlap = FALSE
    MaxStarts = 1
    None = None
SYMMETRY MCSymmetry
INVARIANTS
    TypeOK
    OneClaudePerConversation
    EveryClaudeIsReachable
    KeysNameTheirConversations
CHECK_DEADLOCK FALSE
