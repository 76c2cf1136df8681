----------------------------- MODULE WalletFunds -----------------------------
(***************************************************************************)
(* What the wallet facade of chain-wallet-libs/bindings/wallet-core/src/  *)
(* wallet.rs promises about the funds it tracks, without schemes, seen    *)
(* sets or loops: the owned outputs it knows, the outputs it has spent,   *)
(* and the account's balance and spending counter.                        *)
(*   Discover    a block shows owned outputs; a spent one never returns;  *)
(*   Consolidate known outputs are spent into the account, which is       *)
(*               credited their value less the transaction's fee;         *)
(*   Cast        a vote the balance covers is paid and takes the next     *)
(*               spending counter;                                        *)
(*   Resync      the caller overwrites balance and counter.               *)
(***************************************************************************)
EXTENDS Naturals, FiniteSetsExt

CONSTANTS
    Outputs,     \* the outputs whose address the wallet's schemes own
    Val,         \* Val[u]: the value of output u
    TxFee(_),    \* the fee of a transaction spending a set of outputs
    VoteValue    \* what a vote cast costs the account

VARIABLES
    known,       \* owned unspent outputs the wallet holds
    spent,       \* outputs the wallet has spent
    balance,     \* the account's value
    counter      \* the account's spending counter

vars == <<known, spent, balance, counter>>

ValueOf(S) == MapThenSumSet(LAMBDA u : Val[u], S)

Init ==
    /\ known = {}
    /\ spent = {}
    /\ balance = 0
    /\ counter = 0

Discover(S) ==
    /\ S \subseteq Outputs \ spent
    /\ known' = known \cup S
    /\ UNCHANGED <<spent, balance, counter>>

Consolidate(ins) ==
    /\ ins # {} /\ ins \subseteq known
    /\ ValueOf(ins) >= TxFee(ins)
    /\ known' = known \ ins
    /\ spent' = spent \cup ins
    /\ balance' = balance + ValueOf(ins) - TxFee(ins)
    /\ UNCHANGED counter

Cast ==
    /\ balance >= VoteValue
    /\ balance' = balance - VoteValue
    /\ counter' = counter + 1
    /\ UNCHANGED <<known, spent>>

Resync ==
    /\ balance' \in Nat /\ counter' \in Nat
    /\ UNCHANGED <<known, spent>>

Next ==
    \/ \E S \in SUBSET Outputs : Discover(S)
    \/ \E ins \in SUBSET Outputs : Consolidate(ins)
    \/ Cast
    \/ Resync

Spec == Init /\ [][Next]_vars

=============================================================================
