\* block0 also pays the account address, which retrieve_funds never shows
\* to the account wallet.
CONSTANTS
    u1 = u1  u2 = u2  u3 = u3  u4 = u4  u5 = u5  p1 = p1  p2 = p2
    Utxo <- MCUtxoAcc
    Owner <- MCOwnerAcc
    Val <- MCValAcc
    FeeConst = 1
    FeeCoef = 1
    MaxInputs = 1
    Mnemonics = {"valid", "invalid"}
    Passwords = {"empty"}
    Blocks = {"block0", "undecodable"}
    Proposals <- MCProposals
    MaxVotes = 2
    MaxSent = 4
SPECIFICATION Spec
\* pending_transactions panics and ends the process, so deadlock is not checked.
CHECK_DEADLOCK FALSE
INVARIANT RetrieveConservation
