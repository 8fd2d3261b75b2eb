\* Two sessions in two tabs, named by the operator or by their repositories.  One
\* call of the operator, which may archive a tab, and one change by others; of
\* two lists under way one may be older, or for the other view.
CONSTANTS
    s1 = s1
    s2 = s2
    g1 = g1
    g2 = g2
    Sessions = {s1, s2}
    Groups = {g1, g2}
    All = All
    Home <- MCHome
    None = None
    MaxLists = 2
    MaxCalls = 1
    MaxChanges = 1
SPECIFICATION TuiSpec
INVARIANTS TuiTypeOK TabIsNotEmpty
PROPERTIES CursorStays ListCatchesUp
