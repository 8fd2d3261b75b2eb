\* Two clients whose requests overlap.
SPECIFICATION Spec
CONSTANTS
    Sessions = {s1, s2}
    Known = {s1}
    Children = {c1, c2, c3}
    Clients = {q1, q2}
    Overlap = TRUE
    MaxStarts = 1
    None = None
INVARIANTS
    OneClaudePerConversation
CHECK_DEADLOCK FALSE
