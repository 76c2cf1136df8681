------------------------------- MODULE Wallet -------------------------------
(***************************************************************************)
(* The wallet facade of chain-wallet-libs/bindings/wallet-core/src/       *)
(* wallet.rs: `Wallet` owns an account wallet and two UTXO schemes         *)
(* (daedalus = rindex, icarus = bip44) and exposes recover,                *)
(* retrieve_funds, convert, confirm_transaction, total_value, set_state    *)
(* and vote.  Each facade method is one action (convert is one action per  *)
(* loop iteration, with `cpc` naming the loop the call is in; the wallet   *)
(* has a single owner, so no other call runs while a convert is under      *)
(* way).                                                                   *)
(*                                                                         *)
(* The ledger the caller submits fragments to is the environment: it       *)
(* includes an emitted fragment when it is valid on chain, and it is what  *)
(* set_state's caller reads the account state from.                        *)
(***************************************************************************)
EXTENDS WalletLib

CONSTANTS
    Mnemonics,   \* mnemonic phrases offered to recover: "valid", "invalid"
    Passwords,   \* "empty", "nonempty"
    Blocks,      \* blocks given to retrieve_funds: "block0", "undecodable", "later"
    Proposals,   \* proposals a vote may be cast on (model values)
    MaxVotes,    \* bound on vote casts
    MaxSent      \* bound on fragments emitted by the wallet

ASSUME /\ Mnemonics \subseteq {"valid", "invalid"}
       /\ Passwords \subseteq {"empty", "nonempty"}
       /\ Blocks \subseteq {"block0", "undecodable", "later"}
       /\ MaxVotes \in Nat /\ MaxSent \in Nat

VARIABLES
    phase,        \* "none" before recover, "ready" after, "panicked" after a panic
    result,       \* the outcome of the last facade call
    scheme,       \* scheme[s]: the daedalus / icarus field of Wallet
    account,      \* the account field of Wallet
    cpc,          \* "idle", or the scheme whose while-let loop convert is in
    conv,         \* the Conversion convert is building / has returned
    sent,         \* every fragment the wallet emitted, in order
    chainUnspent, \* ledger: unspent UTXOs
    chainBalance, \* ledger: account balance
    chainCounter, \* ledger: account spending counter
    included,     \* ledger: fragments in blocks
    stale         \* set_state was given a ledger state that lagged the wallet

wallet == <<phase, result, scheme, account, cpc, conv, sent>>
ledger == <<chainUnspent, chainBalance, chainCounter, included>>
vars == <<wallet, ledger, stale>>

Results == {"none", "ok", "InvalidMnemonic", "WalletRecovering", "InvalidBlock",
            "VoteRangeError", "TransactionBuildError"}

\* value of a vote: builder.estimate_fee_with(1, 0)
VoteValue == EstimateFee(1, 0)

NumVotes == Len(SelectSeq(sent, LAMBDA f : f.kind = "vote"))

\* the single-owner facade accepts a call only between calls
Ready == phase = "ready" /\ cpc = "idle"

-----------------------------------------------------------------------------
(* total_value: icarus + daedalus + account (no u64 saturation is reached  *)
(* with the model's values)                                                *)
TotalValue ==
    SchemeTotalValue(scheme["icarus"]) + SchemeTotalValue(scheme["daedalus"])
        + account.value

(* recover: mnemonics checked first (lines 61-63) *)
RecoverInvalidMnemonic ==
    /\ phase = "none"
    /\ "invalid" \in Mnemonics
    /\ result' = "InvalidMnemonic"
    /\ UNCHANGED <<phase, scheme, account, cpc, conv, sent, ledger, stale>>

(* recover: build_daedalus or build_yoroi fails after the mnemonics were   *)
(* accepted, and the error is mapped to WalletRecovering (lines 71-76)    *)
RecoverBuildError ==
    /\ phase = "none"
    /\ "valid" \in Mnemonics /\ "empty" \in Passwords
    /\ result' = "WalletRecovering"
    /\ UNCHANGED <<phase, scheme, account, cpc, conv, sent, ledger, stale>>

(* recover with a password: `todo!()` panics (line 66) *)
RecoverPassword ==
    /\ phase = "none"
    /\ "valid" \in Mnemonics /\ "nonempty" \in Passwords
    /\ phase' = "panicked"
    /\ UNCHANGED <<result, scheme, account, cpc, conv, sent, ledger, stale>>

(* recover: the three builders; build_wallet cannot fail (line 81) *)
Recover ==
    /\ phase = "none"
    /\ "valid" \in Mnemonics /\ "empty" \in Passwords
    /\ phase' = "ready"
    /\ scheme' = [s \in Schemes |-> NewScheme]
    /\ account' = NewAccount
    /\ result' = "ok"
    /\ UNCHANGED <<cpc, conv, sent, ledger, stale>>

(* retrieve_funds: Block::read fails, state unchanged (line 106) *)
RetrieveFundsInvalid ==
    /\ Ready
    /\ "undecodable" \in Blocks
    /\ result' = "InvalidBlock"
    /\ UNCHANGED <<phase, scheme, account, cpc, conv, sent, ledger, stale>>

(* retrieve_funds of a decodable block that does not carry the genesis    *)
(* parameters: Settings::new fails and `.unwrap()` panics (line 108)       *)
RetrieveFundsPanic ==
    /\ Ready
    /\ "later" \in Blocks
    /\ phase' = "panicked"
    /\ UNCHANGED <<result, scheme, account, cpc, conv, sent, ledger, stale>>

\* mutant: the icarus check_fragment call (line 112) is missing
RetrieveFundsDaedalusOnly ==
    /\ Ready
    /\ "block0" \in Blocks
    /\ scheme' = [scheme EXCEPT !["daedalus"] =
                    FoldSet(LAMBDA f, st : SchemeCheckFragment(st, f, "daedalus"),
                            @, Block0)]
    /\ result' = "ok"
    /\ UNCHANGED <<phase, account, cpc, conv, sent, ledger, stale>>

(* retrieve_funds of block0: every fragment goes to daedalus and icarus,   *)
(* and to nothing else (lines 109-113)                                     *)
RetrieveFunds ==
    /\ Ready
    /\ "block0" \in Blocks
    /\ scheme' = [s \in Schemes |->
                    FoldSet(LAMBDA f, st : SchemeCheckFragment(st, f, s),
                            scheme[s], Block0)]
    /\ result' = "ok"
    /\ UNCHANGED <<phase, account, cpc, conv, sent, ledger, stale>>

(* convert: computes the address, empties raws and ignored (lines 134-137) *)
ConvertStart ==
    /\ Ready
    /\ cpc' = "daedalus"
    /\ conv' = [transactions |-> <<>>, ignored |-> <<>>]
    /\ UNCHANGED <<phase, result, scheme, account, sent, ledger, stale>>

\* mutant: the account.check_fragment call (lines 147/158) is missing
ConvertStepNoAccount(s) ==
    /\ cpc = s
    /\ Len(sent) < MaxSent
    /\ \E ins \in Packs(scheme[s].utxos) :
        /\ Payable(ins)
        /\ LET f == ConversionTx(ins) IN
           /\ conv' = [transactions |-> Append(conv.transactions, f),
                       ignored |-> conv.ignored \o SetToSeq(Ignored(scheme[s].utxos, ins))]
           /\ sent' = Append(sent, f)
           /\ scheme' = [scheme EXCEPT ![s] = SchemeCheckFragment(@, f, s)]
    /\ UNCHANGED <<phase, result, account, cpc, ledger, stale>>

\* mutant: the scheme's check_fragment call (lines 146/157) is missing
ConvertStepNoScheme(s) ==
    /\ cpc = s
    /\ Len(sent) < MaxSent
    /\ \E ins \in Packs(scheme[s].utxos) :
        /\ Payable(ins)
        /\ LET f == ConversionTx(ins) IN
           /\ conv' = [transactions |-> Append(conv.transactions, f),
                       ignored |-> conv.ignored \o SetToSeq(Ignored(scheme[s].utxos, ins))]
           /\ sent' = Append(sent, f)
           /\ account' = AccountCheckFragment(account, f)
    /\ UNCHANGED <<phase, result, scheme, cpc, ledger, stale>>

(* one iteration of a while-let loop: send_to_one_address returned a      *)
(* transaction; it is recorded and applied to the scheme and the account  *)
(* (lines 139-148 for daedalus, 150-159 for icarus)                        *)
ConvertStep(s) ==
    /\ cpc = s
    /\ Len(sent) < MaxSent
    /\ \E ins \in Packs(scheme[s].utxos) :
        /\ Payable(ins)
        /\ LET f == ConversionTx(ins) IN
           /\ conv' = [transactions |-> Append(conv.transactions, f),
                       ignored |-> conv.ignored \o SetToSeq(Ignored(scheme[s].utxos, ins))]
           /\ sent' = Append(sent, f)
           /\ scheme' = [scheme EXCEPT ![s] = SchemeCheckFragment(@, f, s)]
           /\ account' = AccountCheckFragment(account, f)
    /\ UNCHANGED <<phase, result, cpc, ledger, stale>>

\* mutant: the end of the icarus loop goes back to the daedalus loop
ConvertFinishRestart(s) ==
    /\ cpc = s
    /\ \/ Packs(scheme[s].utxos) = {}
       \/ \E ins \in Packs(scheme[s].utxos) : ~Payable(ins)
    /\ cpc' = IF s = "daedalus" THEN "icarus" ELSE "daedalus"
    /\ result' = IF s = "icarus" THEN "ok" ELSE result
    /\ UNCHANGED <<phase, scheme, account, conv, sent, ledger, stale>>

(* send_to_one_address returned None: the loop ends; after icarus the     *)
(* Conversion is returned (lines 161-164)                                  *)
ConvertFinish(s) ==
    /\ cpc = s
    /\ \/ Packs(scheme[s].utxos) = {}
       \/ \E ins \in Packs(scheme[s].utxos) : ~Payable(ins)
    /\ cpc' = IF s = "daedalus" THEN "icarus" ELSE "idle"
    /\ result' = IF s = "icarus" THEN "ok" ELSE result
    /\ UNCHANGED <<phase, scheme, account, conv, sent, ledger, stale>>

(* pending_transactions and remove_pending_transaction are todo!() and     *)
(* abort the process (lines 180-188)                                       *)
PendingTransactions ==
    /\ Ready
    /\ phase' = "panicked"
    /\ UNCHANGED <<result, scheme, account, cpc, conv, sent, ledger, stale>>

RemovePendingTransaction(f) ==
    /\ Ready
    /\ phase' = "panicked"
    /\ UNCHANGED <<result, scheme, account, cpc, conv, sent, ledger, stale>>

(* confirm_transaction: icarus, daedalus, account (lines 171-173); the     *)
(* caller confirms a fragment it has seen in a block                       *)
ConfirmTransaction(f) ==
    /\ Ready
    /\ scheme' = [s \in Schemes |-> SchemeConfirm(scheme[s], f)]
    /\ account' = AccountConfirm(account, f)
    /\ result' = "ok"
    /\ UNCHANGED <<phase, cpc, conv, sent, ledger, stale>>

(* set_state(value, counter) with the state the caller read from a node    *)
(* (line 217)                                                              *)
SetState ==
    /\ Ready
    /\ account' = AccountUpdateState(account, chainBalance, chainCounter)
    /\ stale' = (stale \/ ToSet(sent) \ included # {})
    /\ result' = "ok"
    /\ UNCHANGED <<phase, scheme, cpc, conv, sent, ledger>>

(* vote: proposal.vote(choice) is None, early return (lines 241-245) *)
VoteRangeError ==
    /\ Ready
    /\ result' = "VoteRangeError"
    /\ UNCHANGED <<phase, scheme, account, cpc, conv, sent, ledger, stale>>

(* vote: finalize_tx fails, the account builder is dropped without        *)
(* add_fragment_id (lines 247-259)                                         *)
VoteBuildError(p) ==
    /\ Ready
    /\ NumVotes < MaxVotes
    /\ account.value < VoteValue
    /\ result' = "TransactionBuildError"
    /\ UNCHANGED <<phase, scheme, account, cpc, conv, sent, ledger, stale>>

\* mutant: no balance check before the fragment id is registered
VoteUnchecked(p) ==
    /\ Ready
    /\ NumVotes < MaxVotes
    /\ LET f == VoteFragment(account.counter, p, VoteValue) IN
       /\ sent' = Append(sent, f)
       /\ account' = AccountAddFragmentId(account, f)
    /\ result' = "ok"
    /\ UNCHANGED <<phase, scheme, cpc, conv, ledger, stale>>

(* vote: the VoteCast fragment at the captured counter is emitted and its *)
(* id registered with the account (lines 247-267)                         *)
Vote(p) ==
    /\ Ready
    /\ NumVotes < MaxVotes
    /\ account.value >= VoteValue
    /\ LET f == VoteFragment(account.counter, p, VoteValue) IN
       /\ sent' = Append(sent, f)
       /\ account' = AccountAddFragmentId(account, f)
    /\ result' = "ok"
    /\ UNCHANGED <<phase, scheme, cpc, conv, ledger, stale>>

-----------------------------------------------------------------------------
(* The ledger includes a submitted fragment that is valid on chain. *)
IncludeTx(f) ==
    /\ f.kind = "tx"
    /\ f.inputs \subseteq chainUnspent
    /\ chainUnspent' = chainUnspent \ f.inputs
    /\ chainBalance' = chainBalance + f.out
    /\ UNCHANGED chainCounter

IncludeVote(f) ==
    /\ f.kind = "vote"
    /\ f.counter = chainCounter
    /\ chainBalance >= f.value
    /\ chainBalance' = chainBalance - f.value
    /\ chainCounter' = chainCounter + 1
    /\ UNCHANGED chainUnspent

Include ==
    \E f \in ToSet(sent) \ included :
        /\ IncludeTx(f) \/ IncludeVote(f)
        /\ included' = included \cup {f}
        /\ UNCHANGED <<wallet, stale>>

-----------------------------------------------------------------------------
Init ==
    /\ phase = "none"
    /\ result = "none"
    /\ scheme = [s \in Schemes |-> NewScheme]
    /\ account = NewAccount
    /\ cpc = "idle"
    /\ conv = [transactions |-> <<>>, ignored |-> <<>>]
    /\ sent = <<>>
    /\ chainUnspent = {u \in Utxo : Owner[u] \in Schemes}
    /\ chainBalance = SumVal({u \in Utxo : Owner[u] = "account"})
    /\ chainCounter = 0
    /\ included = Block0
    /\ stale = FALSE

Next ==
    \/ RecoverInvalidMnemonic
    \/ RecoverBuildError
    \/ RecoverPassword
    \/ Recover
    \/ RetrieveFundsInvalid
    \/ RetrieveFundsPanic
    \/ RetrieveFunds
    \/ ConvertStart
    \/ \E s \in Schemes : ConvertStep(s) \/ ConvertFinish(s)
    \/ \E f \in included : ConfirmTransaction(f)
    \/ PendingTransactions
    \/ \E f \in ToSet(sent) : RemovePendingTransaction(f)
    \/ SetState
    \/ VoteRangeError
    \/ \E p \in Proposals : VoteBuildError(p) \/ Vote(p)
    \/ Include

\* convert runs its loops to completion synchronously: its iterations are
\* weakly fair.  Nothing else is: the caller and the ledger may stop.
Fairness == \A s \in Schemes : WF_vars(ConvertStep(s) \/ ConvertFinish(s))

Spec == Init /\ [][Next]_vars /\ Fairness

-----------------------------------------------------------------------------
Fragments ==
    Block0 \cup {ConversionTx(S) : S \in SUBSET Utxo}
           \cup {VoteFragment(c, p, VoteValue) : c \in 0..MaxVotes, p \in Proposals}

TypeOK ==
    /\ phase \in {"none", "ready", "panicked"}
    /\ result \in Results
    /\ scheme \in [Schemes -> [utxos : SUBSET Utxo,
                               applied : SUBSET Fragments,
                               confirmed : SUBSET Fragments]]
    /\ account \in [value : Nat, counter : Nat,
                    applied : SUBSET Fragments, confirmed : SUBSET Fragments]
    /\ cpc \in {"idle"} \cup Schemes
    /\ sent \in Seq(Fragments)
    /\ chainUnspent \subseteq Utxo /\ chainBalance \in Nat /\ chainCounter \in Nat
    /\ included \subseteq Fragments
    /\ stale \in BOOLEAN

-----------------------------------------------------------------------------
(***************************************************************************)
(* Properties.                                                             *)
(***************************************************************************)

\* Once every fragment the wallet emitted is in a block, and set_state was
\* never fed a ledger state that lagged the wallet, the wallet's optimistic
\* account state (convert's account.check_fragment, vote's add_fragment_id)
\* equals the ledger's, and its schemes hold exactly the unspent UTXOs.
SettledAgreement ==
    (Ready /\ ~stale /\ ToSet(sent) \subseteq included)
        => /\ account.value = chainBalance
           /\ account.counter = chainCounter
           /\ Block0 \subseteq scheme["daedalus"].applied
                => scheme["daedalus"].utxos \cup scheme["icarus"].utxos = chainUnspent

\* Spec section 8 (conservation): after retrieve_funds(block0) and before
\* the wallet has emitted anything, total_value is the sum of the block's
\* outputs owned by the wallet.
RetrieveConservation ==
    (phase = "ready" /\ Block0 \subseteq scheme["daedalus"].applied /\ sent = <<>>)
        => TotalValue = SumVal(Utxo)

\* A convert call returns: each while-let loop ends (spec 4.4: every
\* iteration consumes an unspent output).
ConvertTerminates == cpc # "idle" ~> cpc = "idle"

\* The spending counter prevents replay: no two vote casts the wallet
\* emitted carry the same counter (spec glossary, "Spending counter").
CounterUnique ==
    \A i, j \in DOMAIN sent :
        (i # j /\ sent[i].kind = "vote" /\ sent[j].kind = "vote")
            => sent[i].counter # sent[j].counter

-----------------------------------------------------------------------------
(* The refinement: the facade implements WalletFunds.  The known outputs  *)
(* are the two schemes' stores, the spent ones the inputs of every        *)
(* transaction the wallet emitted, balance and counter the account's.     *)
OwnedOutputs == {u \in Utxo : Owner[u] \in Schemes}

SpentInputs == UNION {sent[i].inputs : i \in {j \in DOMAIN sent : sent[j].kind = "tx"}}

Funds == INSTANCE WalletFunds
             WITH Outputs <- OwnedOutputs,
                  known <- scheme["daedalus"].utxos \cup scheme["icarus"].utxos,
                  spent <- SpentInputs,
                  balance <- account.value, counter <- account.counter

(* Every facade call changes the funds only as WalletFunds allows:         *)
(* retrieve_funds (also of a block delivered again) shows only outputs    *)
(* not yet spent; each convert iteration spends outputs the wallet holds  *)
(* and credits the account with their value less the fee, in one step;    *)
(* a vote is paid from a balance that covers it and takes the next       *)
(* counter; only set_state overwrites balance and counter (lines 90-268). *)
ImplementsFunds == Funds!Spec

\* retrieve_funds returns an error rather than aborting the process
\* (spec 6: retrieve_funds -> Settings | DecodeError | InvalidGenesis).
NoPanic == phase # "panicked"

=============================================================================
