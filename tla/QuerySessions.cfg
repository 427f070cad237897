CONSTANTS
    Texts = {t0, t1, t2}
    FirstText = t0
    None = None
    Closed = Closed
    Drafts = {t0, t1}
    MaxVersion = 3
    MaxSerial = 1
    MaxTrouble = 2
SPECIFICATION Spec
INVARIANTS
    IntentCovers
    Reconcilable
PROPERTIES
    ReplacesKnown
    DraftKept
