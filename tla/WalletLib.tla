----------------------------- MODULE WalletLib -----------------------------
(***************************************************************************)
(* The wallet-crate collaborators that the facade in                       *)
(* chain-wallet-libs/bindings/wallet-core/src/wallet.rs composes.  Their   *)
(* code is not part of this repository's src/, so every operator here is  *)
(* written from spec.md (sections 4.2, 4.3 and 4.4) and is marked          *)
(* spec_modelled in PROJECT.json.                                          *)
(*                                                                         *)
(* A component's state is a record and each of its operations is an       *)
(* operator from state to state, so the facade can compose the three      *)
(* balance trackers the way `Wallet` does with its three fields.           *)
(*                                                                         *)
(* Data abstraction: an address is reduced to the component that owns it  *)
(* (Owner), a fragment id to the fragment itself (ids are content hashes),  *)
(* and a value to a small natural number.                                  *)
(***************************************************************************)
EXTENDS Naturals, FiniteSets, Sequences, FiniteSetsExt, SequencesExt

CONSTANTS
    Utxo,       \* the outputs declared by block0 (model values)
    Owner,      \* Owner[u]: which derivation space u's address falls in
    Val,        \* Val[u]: the value of output u
    FeeConst,   \* LinearFee constant part
    FeeCoef,    \* LinearFee per input/output coefficient
    MaxInputs   \* the per-transaction input budget of send_to_one_address

Schemes == {"daedalus", "icarus"}

ASSUME /\ Owner \in [Utxo -> Schemes \cup {"account"}]
       /\ Val \in [Utxo -> Nat]
       /\ FeeConst \in Nat /\ FeeCoef \in Nat /\ MaxInputs \in Nat \ {0}

SumVal(S) == MapThenSumSet(LAMBDA u : Val[u], S)

(***************************************************************************)
(* Fragments.  block0 declares one initial output per fragment; the       *)
(* consolidation transaction spends UTXOs into the account address; the    *)
(* vote cast spends `value` from the account at spending counter `counter`.*)
(***************************************************************************)
InitFragment(u) == [kind |-> "init", utxo |-> u]
TxFragment(ins, out) == [kind |-> "tx", inputs |-> ins, out |-> out]
VoteFragment(c, p, v) == [kind |-> "vote", counter |-> c, proposal |-> p, value |-> v]

Block0 == {InitFragment(u) : u \in Utxo}

\* fee algorithm: estimate_fee_with(inputs, outputs) of a LinearFee
EstimateFee(nIn, nOut) == FeeConst + FeeCoef * (nIn + nOut)

-----------------------------------------------------------------------------
(***************************************************************************)
(* UtxoWalletScheme (spec 4.3): unspent outputs owned by one scheme, the   *)
(* ids already applied, and the ids confirmed.                             *)
(***************************************************************************)
NewScheme == [utxos |-> {}, applied |-> {}, confirmed |-> {}]

Consumed(f) == IF f.kind = "tx" THEN f.inputs ELSE {}
Produced(f, s) == IF f.kind = "init" /\ Owner[f.utxo] = s THEN {f.utxo} ELSE {}

\* check_fragment: idempotent per fragment id; spends owned inputs and adds
\* the outputs whose address lies in the scheme's derivation space
SchemeCheckFragment(st, f, s) ==
    IF f \in st.applied THEN st
    ELSE [st EXCEPT !.utxos   = (@ \ Consumed(f)) \cup Produced(f, s),
                    !.applied = @ \cup {f}]

\* confirm: SEEN -> CONFIRMED; the id stays applied
SchemeConfirm(st, f) ==
    IF f \in st.applied THEN [st EXCEPT !.confirmed = @ \cup {f}] ELSE st

SchemeTotalValue(st) == SumVal(st.utxos)

-----------------------------------------------------------------------------
(***************************************************************************)
(* AccountWallet (spec 4.2): balance, spending counter, applied and        *)
(* confirmed ids.                                                          *)
(***************************************************************************)
NewAccount == [value |-> 0, counter |-> 0, applied |-> {}, confirmed |-> {}]

Credit(f) == CASE f.kind = "tx"   -> f.out
               [] f.kind = "init" -> IF Owner[f.utxo] = "account" THEN Val[f.utxo] ELSE 0
               [] OTHER           -> 0
Debit(f) == IF f.kind = "vote" THEN f.value ELSE 0

AccountCheckFragment(acc, f) ==
    IF f \in acc.applied THEN acc
    ELSE [acc EXCEPT !.value   = @ + Credit(f) - Debit(f),
                     !.counter = @ + (IF f.kind = "vote" THEN 1 ELSE 0),
                     !.applied = @ \cup {f}]

AccountConfirm(acc, f) ==
    IF f \in acc.applied THEN [acc EXCEPT !.confirmed = @ \cup {f}] ELSE acc

\* update_state: authoritative overwrite of balance and counter
AccountUpdateState(acc, v, c) == [acc EXCEPT !.value = v, !.counter = c]

\* new_transaction(value) captures acc.counter; add_fragment_id(id) is the
\* single point where the counter advances and the value is spent
AccountAddFragmentId(acc, f) ==
    [acc EXCEPT !.value   = @ - f.value,
                !.counter = @ + 1,
                !.applied = @ \cup {f}]

-----------------------------------------------------------------------------
(***************************************************************************)
(* send_to_one_address (spec 4.4): pack as many unspent outputs as the     *)
(* input budget allows into one transaction paying the account address.   *)
(* Every entry a pass does not pack is returned as ignored: dust that      *)
(* cannot cover its own marginal fee, and entries beyond the budget.       *)
(* Which packable outputs are taken is the store's iteration order, left  *)
(* open here.  The call returns nothing when there is nothing to pack or  *)
(* the packed inputs cannot pay the transaction's fee.                     *)
(***************************************************************************)
Packable(store) == {u \in store : Val[u] > FeeCoef}
(* the ignored inputs of a pass that packs `ins`: the entries it cannot    *)
(* pack, the dust and those beyond the input budget                       *)
Ignored(store, ins) == store \ ins

PackSize(store) ==
    IF Cardinality(Packable(store)) < MaxInputs
    THEN Cardinality(Packable(store)) ELSE MaxInputs

\* the input sets one pass may choose (empty when nothing is packable)
Packs(store) == {S \in kSubset(PackSize(store), Packable(store)) : S # {}}

TxFee(ins) == EstimateFee(Cardinality(ins), 1)
Payable(ins) == SumVal(ins) >= TxFee(ins)
ConversionTx(ins) == TxFragment(ins, SumVal(ins) - TxFee(ins))

=============================================================================
