\* Five nodes and three Ctrl-C presses, every spawn and shutdown may fail.
\* spawn_network ends (returns, panics, or the process is killed), so the
\* end states have no successor and deadlock is not checked.
CONSTANTS
    NumNodes = 5
    MaxSignals = 3
SPECIFICATION Spec
CHECK_DEADLOCK FALSE
INVARIANT TypeOK
PROPERTY ImplementsLifecycle
