\* Tables of up to four columns, fixed and variable widths mixed, two of the
\* fixed widths irregular; with eight slots dropped before, the null bitmap
\* takes a second byte.
SPECIFICATION Spec
CONSTANTS
    Kinds <- MCKinds
    DroppedBefore = {0, 8}
    MaxColumns = 4
    MaxDropped = 1
INVARIANTS ExactIsOptimal DropsDoNotMoveAdvice SuggestionConsistent
