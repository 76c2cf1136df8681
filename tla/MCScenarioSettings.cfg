\* Settings::prepare over every combination of the templates below: trusted
\* peers, leaders and up to three wallets with distinct aliases.  prepare
\* returns (or panics) after its three loops, so the final state has no
\* successor and deadlock is not checked.
CONSTANTS
    n1 = n1  n2 = n2  x1 = x1  a1 = a1  a2 = a2  a3 = a3
    NoDelegate = NoDelegate
    Nodes <- MCNodes
    ExternalAliases <- MCExternal
    WalletAliases <- MCWalletAliases
    PeerChoices <- MCPeerChoices
    LeaderChoices <- MCLeaderChoices
    TemplateChoices <- MCTemplateChoices
SPECIFICATION Spec
CHECK_DEADLOCK FALSE
INVARIANT TypeOK
INVARIANT DelegationAfterRegistration
INVARIANT PoolsMatchSecrets
INVARIANT LeaderIdsHeld
