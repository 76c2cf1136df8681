# TLA+ models of catalyst-core components

This directory holds TLA+ models of the programs under `src/`, and TLC checks them. The main subject is the wallet recovery and fund-consolidation engine described in `spec.md`. Its facade is `chain-wallet-libs/bindings/wallet-core/src/wallet.rs`. Its collaborators live in the `wallet` crate, which is not part of `src/`. They are modelled from `spec.md` and marked `spec_modelled` in `PROJECT.json`.

Five other programs of the monorepo that have state and control flow worth checking are modelled from their code:
- the scenario block0 builder;
- the event-db objective query;
- the vitup network spawn monitor;
- the remote node handle;
- the explorer certificate integration tests.

`PROJECT.json` lists every source file with its status, the runs, the mutants, the map from each definition to the lines it translates, the findings and the hazards.

## 1. Inventory

| component | state | operations | source | module |
|---|---|---|---|---|
| Wallet facade | the fields `account`, `daedalus`, `icarus` | `recover`, `retrieve_funds`, `convert`, `confirm_transaction`, `total_value`, `set_state`, `vote` | wallet.rs | `Wallet`, refining `WalletFunds` |
| UtxoWalletScheme ×2, AccountWallet, Consolidator, RecoveryBuilder | a scheme's store and seen-sets; the account's balance, counter and seen-sets | `check_fragment`, `confirm`, `update_state`, `send_to_one_address` | wallet crate (spec 4.1–4.4) | `WalletFunds` | The abstract specification of the facade's funds: `known` owned outputs, `spent` outputs, the account's `balance` and `counter`. `Discover(S)`, `Consolidate(ins)`, `Cast`, `Resync`. `Wallet` maps onto it: `known` is the two schemes' stores, `spent` the inputs of every emitted transaction, `balance` and `counter` the account's. |
| `WalletLib` |
| Ledger node | unspent outputs, account balance and counter, included fragments | includes fragments, answers the account-state query | not in the repository | `Wallet` (environment) |
| Scenario block0 builder | node configs, trusted peers, secrets, leader ids, wallets map, `block0.initial`, the RNG | `NodeSetting::prepare`, `make_trusted_peer_setting`, `populate_trusted_peers`, `populate_block0_blockchain_configuration`, `populate_block0_blockchain_initials` | scenario/settings.rs | `ScenarioSettings` |
| Objective query | the objective rows, a paging client, and the module's test | `get_objectives(event, limit, offset)`, `get_objectives_test` | event-db/.../objective.rs | `ObjectivePaging` |
| Spawn monitor | spawned nodes, station and proxy, the Ctrl-C channel | `spawn_network`, and the Ctrl-C handler thread | vitup/.../monitor.rs | `SpawnMonitor`, refining `NetworkLifecycle` |
| Remote node | the builder's four `Option` fields | `with_*`, `from_config`, `build`, the node's getters and REST/gRPC calls | remote/node.rs | `RemoteNode` |
| Explorer certificate tests | a node's ledger, the thor wallets' counters, the explorer's index | ten tests: build, send, wait and query steps | explorer/certificates.rs | `CertificateTests` |

The remaining files are type declarations, database schemas, thin CLI wrappers and one-shot sanity tests. They are listed `not_modelled` in `PROJECT.json`, with the reason.

### How the parts interact, and what is hard

**Wallet.** The facade is the only entry point, and one owner calls it synchronously (spec 5).
- `retrieve_funds` passes each fragment of a block to the daedalus and icarus schemes. It does not pass them to the account.
- `convert` loops `send_to_one_address` over one scheme, then the other. It applies each transaction at once to the scheme and to the account.
- `vote` builds a transaction at the account's counter and registers its id.
- `set_state` overwrites the account with what the caller read from a node.

The ledger includes emitted fragments later, in any order, or never. The hazards:
- the wallet's optimistic state runs ahead of the ledger;
- `set_state` can be fed a lagging state;
- a block can be delivered again;
- the convert loop terminates only because each pass consumes an output;
- some error paths panic.

**Scenario block0 builder.** Each topology node is prepared in the HashMap's order, drawing its addresses and p2p id from the context. Then three loops run one after the other.
- Trusted peer entries copy the id and address of nodes prepared earlier.
- A stake pool is created on the first delegation to a node, stored in the node's secret, and reused after.
- Keys come from one RNG.
- Wallets are stored by alias.
- `unwrap`s and `unimplemented!`s end the run.

**Objective query.** A single `SELECT … LIMIT $2 OFFSET $3` with no `ORDER BY`. A client that pages through it sees each call's rows in an order the database may choose afresh.

**Spawn monitor.** Two threads: the main thread, and the Ctrl-C handler that sends on a channel.
- Spawning stops at the first error.
- The main thread blocks on the channel, then shuts down in order. A failed node shutdown panics.

**Remote node.** Every method reads a field through a getter that unwraps it, so a method panics when the builder never set that field.

**Certificate tests.** Each test races the node's clock: certificates have validity dates and vote windows. Each test reads the explorer, which indexes the node's blocks asynchronously.

## 2. Modules

| module | state ↔ code |
|---|---|
| `WalletFunds` | The abstract specification of the facade's funds: `known` owned outputs, `spent` outputs, the account's `balance` and `counter`. `Discover(S)`, `Consolidate(ins)`, `Cast`, `Resync`. `Wallet` maps onto it: `known` is the two schemes' stores, `spent` the inputs of every emitted transaction, `balance` and `counter` the account's. |
| `WalletLib` | Pure operators on a component's state record, all `spec_modelled`: `scheme[s]` is a store plus seen-sets, `account` is balance, counter and seen-sets. |
| `Wallet` | `scheme`, `account` are the struct's fields. `cpc` is which `while let` loop `convert` is in. `conv` is the `Conversion` being built, `sent` every fragment returned, `result` the last `Result`, `phase` before/after `recover` or panicked. One action per method outcome and per loop iteration. `Include*` is the ledger; `stale` is a ghost recording a lagging `set_state`. |
| `ScenarioSettings` | `pc` is the loop being run, `pending` its remaining items. `config` is each node's `NodeConfig` (rest address, p2p address, id), set by `NodeSettingPrepare`. `secret`, `trusted`, `leaderIds`, `wallets`, `initial` are `Settings` fields. `rng` is the RNG, modelled as a counter so that every key is fresh. The templates are chosen in `Init`. |
| `ObjectivePaging` | `table` holds the rows. `last` is one call's arguments and result. The client's `offset`, `collected`, `status`, `errors` are the environment. `GetObjectives` takes any order of the matching rows, applies LIMIT/OFFSET and maps each row (`ToObjective`). `GetObjectivesError` is a failed pool/query/`try_get`. `GetObjectivesTest` is the test's four calls with the objectives each asserts, and `TestCall` makes one of them beside the client. |
| `SpawnMonitor` | `pc` is the main thread's position, `i` the loop index, `node`/`station`/`proxy` the spawned processes, `chan` the unreceived messages. `CtrlC` is the handler thread, or SIGINT's default before the handler is installed. |
| `NetworkLifecycle` | The abstract specification of `spawn_network`: `phase` (starting, up, stopping, done, failed, killed), the `running` and `stopped` components, and whether a stop was `requested`. `Start`, `Stop(S)`, `BeginStop`, `Fail`, `Request`, `Kill`. `SpawnMonitor` maps onto it: each node, the station and the proxy are components, the phase is read off `pc` and `result`, and `requested` is `signalled`. |
| `RemoteNode` | The four `Option` fields as booleans. `origin` is the config `from_config` read. `panicAt` is the method that panicked. `result` is the last `Result`. |
| `CertificateTests` | Each test is a script operator (`VoteTallyTest`, …) of steps. `DoBuild`, `DoSend`, `DoJcliSend`, `DoConfirm`, `DoStartExplorer`, `DoQuery`, `DoWait` and `DoUpdateValidUntil` run the step at `pc`. `Accepted`/`Apply` are the node's ledger rules, `Tick` its clock, `Index` the explorer. |

The `MC*` modules supply model values and the records a cfg cannot write.

Data is abstracted to what the properties tell apart:
- addresses become their owner, and fragment ids the fragment itself;
- values are small naturals;
- keys are fresh numbers, and rows and configs are records of the flags the code branches on;
- dates are slots, with 4-slot epochs standing for the tests' 20.

## 3. Runs

| run | expect | shows |
|---|---|---|
| wallet_main | pass | With every call interleaved with inclusion and the panicking inputs, the properties below hold. 471k states. Deadlock is not checked, because a panic ends the process. |
| wallet_account_funds | violation | block0 also pays the account address; `total_value` after `retrieve_funds` misses it (wallet.rs:109). |
| wallet_stale_state | violation | vote, then `set_state` from a node that has not included it, then vote: both votes carry counter 0 (wallet.rs:217). |
| wallet_panic | violation | `retrieve_funds` of a non-genesis block panics instead of returning `InvalidGenesis` (wallet.rs:108). |
| settings_main | pass | Over all the template combinations, the properties below hold. 320k states. |
| settings_duplicate_alias | violation | Two templates with one alias: the first wallet's fund stays in block0, but `settings.wallets` no longer holds that wallet (settings.rs:152). |
| objective_calls | pass | A call without limit or offset returns each objective of the event whose category is known, once, whatever the row order. |
| objective_paging_limit1 | violation | On the seed data `get_objectives_test` expects, its call with limit 1 returns objective 2 instead of objective 1, because the query has no ORDER BY (objective.rs:33). |
| spawn_main | pass | Ctrl-C may come at any point, and any spawn or shutdown may fail. Still, `spawn_network` implements `NetworkLifecycle`. |
| remote_node_main | pass | Every way of building a node and every call on it reach only the states the code allows (`TypeOK`). Its interest is in firing every action for the violation run beside it. |
| remote_node_send_error | violation | A failing `send_fragment` on a node built by `from_config` from a config without a log file panics instead of returning `CannotSendFragment` (node.rs:111). |
| certificate_tests | pass | The node may run up to 2 of an epoch's 4 slots between the tests' waits. Under that bound, every certificate fragment the ten tests send is accepted, and a passing test leaves every wallet's counter equal to the ledger's. |

Properties of the passing runs:
- **Wallet:**
  - `ImplementsFunds`, the refinement `Funds!Spec` of `WalletFunds`. `retrieve_funds`, also of a block delivered again, shows only unspent owned outputs. A spent output is never spent again. Each convert iteration credits the account with its inputs' value less the fee. A vote is covered by the balance and takes the next counter. Only `set_state` overwrites balance and counter.
  - `SettledAgreement`: once settled, the account equals the ledger.
  - `RetrieveConservation`: block0's scheme outputs are all counted.
  - `ConvertTerminates`.
- **ScenarioSettings:**
  - `DelegationAfterRegistration`: each delegation follows its wallet's fund and its pool's registration.
  - `PoolsMatchSecrets`: registered pools are the nodes' genesis secrets, each registered once.
  - `LeaderIdsHeld`: a topology leader's id is the key that node holds.
- **ObjectivePaging:** `UnpagedCallReturnsEvent`: a successful call without limit or offset returns exactly the event's objectives whose category row exists, each once. The INNER JOIN, the WHERE and the per-row mapping must all be right, over every table and both events.
- **SpawnMonitor:** `ImplementsLifecycle`, the refinement `Life!Spec`. It says the network is up only when everything runs, and is torn down only after a Ctrl-C reached the handler. It returns `Ok` only when nothing it started still runs, and a requested stop goes on to an end. The abstract `WF` on the network's own steps follows from `WF` on the main thread.
- **CertificateTests:**
  - `NoLedgerRejection`: no test fails because the node rejected what it sent. This means no stale counter, no expired `valid_until`, no vote outside its window, and no update vote on a missing proposal.
  - `WalletsInSync`: the pool update, sent through jcli, is confirmed by hand.
- **Every module:** a `TypeOK`.

Every property of a passing run has a mutant in `PROJECT.json`. A mutant is a plausible bug in a mapped definition (a dropped call, an off-by-one, a missing step), and TLC finds the property violated under the run's own cfg. Two examples:
- `VoteTallyTestNoValidUntil` drops the `update_valid_until` before the tally.
- `RecvNoWait` lets the main thread go past `rx.recv()` without a message, so the network is torn down with no stop requested.

### Bounds, and why they are enough

- **Wallet.** The main run has three daedalus outputs (4, 3, and a dust 1), one icarus output (5), a fee of 1 + 1 per input/output, and one input per transaction.
  - Convert takes two passes on daedalus and one on icarus. Each daedalus pass reports the dust again, and the first also lists the output beyond its one-input budget, which the second pass spends (spec 4.4 counts such entries as ignored); the account is credited.
  - There are two proposals. `MaxVotes = 1` and `MaxSent = 4` cover the three conversion fragments plus a vote, or a vote cast before converting.
  - With `MaxVotes = 2` the run reaches 1.1M states and takes over two minutes. Two successive votes are still checked, by `wallet_stale_state`.
  - The violation runs use the smaller store: two daedalus outputs (4, and a dust 1) and the icarus output.
- **ScenarioSettings.** Two nodes, prepared in both orders, and one external alias. Peer lists that are empty, point to self, point to the other node, or point outside. Leader lists that are empty, single, or contain a repeat with an external alias. Up to three wallet templates of both types, delegating to nothing, a node or an external alias. This reaches pool reuse, external keys and every panic.
- **ObjectivePaging.** Every table of up to four rows over two events. One row has a missing category (dropped by the INNER JOIN), one a bad column. Limits are none and 2, with one retry, and the property is about the calls without limit and offset, which the test makes on every table. The test's four calls are made on both events and every table; `MCObjectivePagingLimit1.cfg` uses limit 1.
- **SpawnMonitor.** Five nodes, so a failure can strike at the first, a middle or the last node. Three Ctrl-C presses.
- **RemoteNode.** Configs that fail to parse, have a bad p2p address, or have and lack a log file.
- **CertificateTests.** 4-slot epochs with a drift of 2 slots between waits. With a drift of a whole epoch, TLC finds `vote_plan` rejected, so the bound is what the tests assume of the machine they run on.

### Fairness

- **Wallet.** Only the convert loop is weakly fair: it runs inside one synchronous call. The caller and the ledger get no fairness.
- **SpawnMonitor.** `WF` on the main thread only. Ctrl-C is up to the user. `NetworkLifecycle` likewise has `WF` on the network's steps and none on requests.
- **ScenarioSettings, ObjectivePaging, RemoteNode, CertificateTests.** These check only safety, so they assume no fairness.

## 4. Not modelled, and why

- Key derivation, signatures and serialization. Addresses are reduced to their owner, and fragments to their content.
- `total_value` saturation (`saturating_add`, wallet.rs:202). It needs values near 2^64, which no real ledger supply reaches and TLC's integers cannot hold. `TotalValue` is an exact sum.
- `pending_transactions` and `remove_pending_transaction` (wallet.rs:180-188), and the remote node's `is_running` (node.rs:91-93), are `todo!()`. They are modelled as actions that abort, but they are not listed as hazards, because any test that calls them finds the panic.
- The scenario `Context`'s address and id generators, which are not under `src/`. They are modelled as fresh draws.
- The event-db seed data, which is not in the repository. `get_objectives_test`'s expectations stand for it.
- The wallet crate's internals beyond spec 4.2–4.4.
- The node's ledger beyond the rules the certificate tests meet.
- The explorer's GraphQL payloads: `ExplorerVerifier` is reduced to the query finding the transaction.
- Whether the explorer has indexed a block when a test queries it. The model allows the race, and no property claims either way (see hazards).
- The REST routes of cat-data-service, which only forward to event-db queries whose code is not under `src/`.
- Data types, schemas and CLI wrappers, which hold no state.

## 5. Plan

Done:
- `Wallet` with its library and ledger.
- `ScenarioSettings` (with node preparation), `ObjectivePaging` (with its test), `SpawnMonitor`, `RemoteNode`, `CertificateTests`.
- `NetworkLifecycle`, the abstract specification that `SpawnMonitor` refines.
- `WalletFunds`, the abstract specification that `Wallet` refines.

Next:
1. A refinement of `ObjectivePaging`'s single call to an abstract "some LIMIT/OFFSET slice of some order" specification.
2. A violation run for spec 4.4's "ignored inputs are never dropped silently". In `wallet_main`, TLC reaches a second `convert` that returns `ignored = <<>>` while the dust is still held, because the loops take ignored inputs only from calls that return a transaction (wallet.rs:139-159). The first convert reports the dust once per pass, and also names the over-budget output its second pass spends.
3. A violation run for the explorer race in `CertificateTests`: a query sent before the explorer has indexed the block fails the test. Each run the project can hold already checks another question, so items 2 and 3 are left out for now.
