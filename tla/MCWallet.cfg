\* Main run: recover, retrieve block0, convert, vote, confirm, set_state and
\* the ledger interleaved, with the calls that panic (a password, a block
\* without genesis parameters, the pending-transaction calls).  The daedalus
\* store holds two convertible outputs and dust, so its loop takes two
\* passes.  A panic ends the process, so deadlock is not checked.
CONSTANTS
    u1 = u1  u2 = u2  u3 = u3  u4 = u4  u5 = u5  p1 = p1  p2 = p2
    Utxo <- MCUtxoTwoPass
    Owner <- MCOwnerTwoPass
    Val <- MCValTwoPass
    FeeConst = 1
    FeeCoef = 1
    MaxInputs = 1
    Mnemonics = {"valid", "invalid"}
    Passwords = {"empty", "nonempty"}
    Blocks = {"block0", "undecodable", "later"}
    Proposals <- MCProposals
    MaxVotes = 1
    MaxSent = 4
SPECIFICATION Spec
CHECK_DEADLOCK FALSE
INVARIANT TypeOK
INVARIANT SettledAgreement
INVARIANT RetrieveConservation
PROPERTY ConvertTerminates
PROPERTY ImplementsFunds
