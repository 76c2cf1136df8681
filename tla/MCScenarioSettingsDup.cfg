\* Two wallet templates under one alias: the second wallet replaces the
\* first in settings.wallets while block0 still funds the first.
CONSTANTS
    n1 = n1  n2 = n2  x1 = x1  a1 = a1  a2 = a2  a3 = a3
    NoDelegate = NoDelegate
    Nodes <- MCNodes
    ExternalAliases <- MCExternal
    WalletAliases <- MCWalletAliases
    PeerChoices <- MCPeerChoices
    LeaderChoices <- MCLeaderChoices
    TemplateChoices <- MCTemplateChoicesDup
SPECIFICATION Spec
CHECK_DEADLOCK FALSE
INVARIANT WalletsCoverFunds
