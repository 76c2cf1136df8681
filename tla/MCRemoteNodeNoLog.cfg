\* from_config of a node config whose log section names no file, then a
\* send_fragment the node rejects.
CONSTANTS
    Configs <- MCConfigsNoLog
SPECIFICATION Spec
CHECK_DEADLOCK FALSE
INVARIANT ErrorsAreReported
