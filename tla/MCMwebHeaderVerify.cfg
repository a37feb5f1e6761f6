CONSTANTS
    Fillers = 2
    Junk = Junk
    Nil = Nil
SPECIFICATION Spec
\* One call of a pure function: nothing follows the verdict.
CHECK_DEADLOCK FALSE
INVARIANT HonestHeaderAccepted
INVARIANT AcceptedHeaderIsBound
