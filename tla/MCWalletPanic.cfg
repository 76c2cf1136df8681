\* retrieve_funds is given a decodable block that is not a genesis block.
CONSTANTS
    u1 = u1  u2 = u2  u3 = u3  u4 = u4  u5 = u5  p1 = p1  p2 = p2
    Utxo <- MCUtxo
    Owner <- MCOwner
    Val <- MCVal
    FeeConst = 1
    FeeCoef = 1
    MaxInputs = 1
    Mnemonics = {"valid", "invalid"}
    Passwords = {"empty"}
    Blocks = {"block0", "undecodable", "later"}
    Proposals <- MCProposals
    MaxVotes = 2
    MaxSent = 4
SPECIFICATION Spec
\* pending_transactions panics and ends the process, so deadlock is not checked.
CHECK_DEADLOCK FALSE
INVARIANT NoPanic
