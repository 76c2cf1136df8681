\* All ten certificate tests, 4-slot epochs, at most 2 slots of clock drift
\* between waits.  A test ends (passed or failed), so terminal states are
\* expected: deadlock is not checked.
CONSTANTS
    Tests = {"stake_pool_registration", "owner_delegation", "full_delegation",
             "split_delegation", "pool_update", "pool_retire", "vote_plan",
             "vote_cast", "vote_tally", "update_proposal"}
    Wallets = {"owner1", "owner2", "delegator", "alice", "bob"}
    Fragments = {"reg", "reg2", "odeleg", "deleg", "split", "update", "retire",
                 "vote_plan", "cast", "tally", "proposal", "vote_alice", "vote_bob"}
    SlotsPerEpoch = 4
    MaxDrift = 2
    Expiration = 20
SPECIFICATION Spec
INVARIANTS TypeOK NoLedgerRejection WalletsInSync
CHECK_DEADLOCK FALSE
