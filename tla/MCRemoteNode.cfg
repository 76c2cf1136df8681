\* Every builder sequence over every kind of config file, then any node
\* method.  A panic ends the test process, so deadlock is not checked.
CONSTANTS
    Configs <- MCConfigs
SPECIFICATION Spec
CHECK_DEADLOCK FALSE
INVARIANT TypeOK
