------------------------------ MODULE MCWallet ------------------------------
(* Model values and bounds for Wallet. *)
EXTENDS Wallet

CONSTANTS u1, u2, u3, u4, u5, p1, p2

\* two daedalus outputs, one of them dust, and one icarus output
MCUtxo == {u1, u2, u3}
MCOwner == (u1 :> "daedalus" @@ u2 :> "daedalus" @@ u3 :> "icarus")
MCVal == (u1 :> 4 @@ u2 :> 1 @@ u3 :> 5)

\* the same, with a second convertible daedalus output: the daedalus loop
\* takes two passes and reports the dust in each
MCUtxoTwoPass == MCUtxo \cup {u5}
MCOwnerTwoPass == MCOwner @@ (u5 :> "daedalus")
MCValTwoPass == MCVal @@ (u5 :> 3)

\* the same, with one more block0 output paid to the account address
MCUtxoAcc == {u1, u2, u3, u4}
MCOwnerAcc == MCOwner @@ (u4 :> "account")
MCValAcc == MCVal @@ (u4 :> 3)


MCProposals == {p1, p2}
=============================================================================
