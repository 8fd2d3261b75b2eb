\* Two dialogs with different texts; everything else is unbounded.
CONSTANTS
    Texts = {t1, t2}
    None = None
SPECIFICATION FairSpec
INVARIANTS
    DialogStaysMarked
PROPERTIES
    ScreenMarksEnd
    TurnEndsAsDeclared
