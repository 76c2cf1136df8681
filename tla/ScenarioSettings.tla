-------------------------- MODULE ScenarioSettings --------------------------
(***************************************************************************)
(* Settings::prepare of jormungandr-scenario-tests/src/scenario/settings.rs *)
(* builds the block0 of a test scenario from a topology and a blockchain   *)
(* template: it prepares each topology node, then runs three loops, one    *)
(* after the other:                                                        *)
(*   populate_trusted_peers          (one step per topology node, in the   *)
(*                                    HashMap's iteration order),          *)
(*   populate_block0_blockchain_configuration (one step per BFT leader),   *)
(*   populate_block0_blockchain_initials      (one step per wallet).       *)
(* The templates are inputs: Init chooses them from small sets.            *)
(*                                                                         *)
(* Keys, node ids and the addresses the Context hands out are drawn from  *)
(* the context; the model draws them from a counter `rng`, so every        *)
(* generated value is fresh.  A wallet, a stake pool, a BFT key, a node id *)
(* and an address are each one such number.                                *)
(***************************************************************************)
EXTENDS Naturals, Sequences, FiniteSets, SequencesExt, Functions

CONSTANTS
    Nodes,            \* the topology's node aliases
    ExternalAliases,  \* aliases a template may name that are no topology node
    WalletAliases,    \* wallet template aliases
    NoDelegate,       \* a template without `delegate`
    PeerChoices,      \* candidate trusted_peers lists of a node template
    LeaderChoices,    \* candidate `leaders` lists of the blockchain template
    TemplateChoices   \* candidate `wallets` lists of the blockchain template

Aliases == Nodes \cup ExternalAliases

\* a template: alias, wallet_type() and delegate()
Template == [alias : WalletAliases, type : {"utxo", "account"},
             delegate : Aliases \cup {NoDelegate}]

ASSUME /\ PeerChoices \subseteq Seq(Aliases)
       /\ LeaderChoices \subseteq Seq(Aliases)
       /\ TemplateChoices \subseteq Seq(Template)

\* the absence of a key (Option::None)
None == 0

\* the entries of block0.initial
Fund(w) == [kind |-> "fund", wallet |-> w]
Registration(p) == [kind |-> "reg", pool |-> p]
Delegation(w, p) == [kind |-> "deleg", wallet |-> w, pool |-> p]

VARIABLES
    peersOf,    \* input: node_template.trusted_peers() of each node
    leaders,    \* input: blockchain.leaders()
    templates,  \* input: blockchain.wallets()
    pc,         \* "nodes", "peers", "config", "initials", "done", "panicked"
    pending,    \* nodes the current loop has not visited yet
    config,     \* config[n]: node n's NodeConfig (rest, p2p address and id)
    k,          \* position in the leaders / templates loop
    secret,     \* secret[n]: NodeSecret {bft, genesis} of node n
    trusted,    \* trusted[n]: node n's config.p2p.trusted_peers
    leaderIds,  \* block0 consensus_leader_ids
    wallets,    \* settings.wallets: alias -> generated wallet
    initial,    \* block0.initial
    rng         \* the last value drawn from context.rng_mut()

inputs == <<peersOf, leaders, templates>>
vars == <<inputs, pc, pending, config, k, secret, trusted, leaderIds, wallets,
          initial, rng>>

NoConfig == [rest |-> None, address |-> None, id |-> None]

(* Settings { nodes, wallets: empty, block0 with no initials } (lines      *)
(* 104-118), the nodes prepared by the steps below; NodeSecret::prepare    *)
(* sets neither key (lines 317-327)                                        *)
Init ==
    /\ peersOf \in [Nodes -> PeerChoices]
    /\ leaders \in LeaderChoices
    /\ templates \in TemplateChoices
    /\ pc = "nodes"
    /\ pending = Nodes
    /\ config = [n \in Nodes |-> NoConfig]
    /\ k = 1
    /\ secret = [n \in Nodes |-> [bft |-> None, genesis |-> None]]
    /\ trusted = [n \in Nodes |-> <<>>]
    /\ leaderIds = <<>>
    /\ wallets = <<>>
    /\ initial = <<>>
    /\ rng = 0

-----------------------------------------------------------------------------
(* NodeSetting::prepare of one alias of topology.aliases(), in the         *)
(* HashMap's order (lines 106-108, 297-306): NodeConfig::prepare draws the *)
(* rest listen address, then the grpc public address, then               *)
(* poldercast::Id::generate (lines 329-362); trusted_peers is empty        *)
NodeSettingPrepare(n) ==
    /\ pc = "nodes"
    /\ n \in pending
    /\ config' = [config EXCEPT ![n] = [rest |-> rng + 1, address |-> rng + 2,
                                        id |-> rng + 3]]
    /\ rng' = rng + 3
    /\ pending' = pending \ {n}
    /\ UNCHANGED <<inputs, pc, k, secret, trusted, leaderIds, wallets, initial>>

\* the nodes are collected; populate_trusted_peers starts (line 120)
NodesDone ==
    /\ pc = "nodes"
    /\ pending = {}
    /\ pc' = "peers"
    /\ pending' = Nodes
    /\ UNCHANGED <<inputs, config, k, secret, trusted, leaderIds, wallets,
                   initial, rng>>

\* P2pConfig::make_trusted_peer_setting (lines 364-369)
MakeTrustedPeerSetting(p2p) == [id |-> p2p.id, address |-> p2p.address]

\* the trusted_peers list built for node n (lines 283-290)
TrustedPeersOf(n) ==
    [i \in 1..Len(peersOf[n]) |-> MakeTrustedPeerSetting(config[peersOf[n][i]])]

(* populate_trusted_peers, one node: each trusted peer alias is looked up  *)
(* and its p2p id and address copied (lines 282-292)                      *)
PopulateTrustedPeers(n) ==
    /\ pc = "peers"
    /\ n \in pending
    /\ ToSet(peersOf[n]) \subseteq Nodes
    /\ trusted' = [trusted EXCEPT ![n] = TrustedPeersOf(n)]
    /\ pending' = pending \ {n}
    /\ UNCHANGED <<inputs, pc, config, k, secret, leaderIds, wallets, initial, rng>>

(* a trusted peer that is not a node: `self.nodes.get(..).unwrap()`        *)
(* panics (line 286)                                                       *)
PopulateTrustedPeersPanic(n) ==
    /\ pc = "peers"
    /\ n \in pending
    /\ ~ ToSet(peersOf[n]) \subseteq Nodes
    /\ pc' = "panicked"
    /\ UNCHANGED <<inputs, pending, config, k, secret, trusted, leaderIds, wallets,
                   initial, rng>>

\* prepare moves on to populate_block0_blockchain_configuration (line 121)
TrustedPeersDone ==
    /\ pc = "peers"
    /\ pending = {}
    /\ pc' = "config"
    /\ UNCHANGED <<inputs, pending, config, k, secret, trusted, leaderIds, wallets,
                   initial, rng>>

\* mutant: the node's key is read before the new one is stored in it
LeaderStepStaleKey ==
    /\ pc = "config"
    /\ k <= Len(leaders)
    /\ LET a == leaders[k] IN
       \/ /\ a \in Nodes
          /\ leaderIds' = Append(leaderIds, secret[a].bft)
          /\ rng' = IF secret[a].bft = None THEN rng + 1 ELSE rng
          /\ secret' = [secret EXCEPT ![a].bft = IF @ = None THEN rng + 1 ELSE @]
       \/ /\ a \notin Nodes
          /\ rng' = rng + 1
          /\ leaderIds' = Append(leaderIds, rng + 1)
          /\ UNCHANGED secret
    /\ k' = k + 1
    /\ UNCHANGED <<inputs, pc, pending, config, trusted, wallets, initial>>

\* mutant: a new BFT key is generated but not stored in the node's secret
LeaderStepNotStored ==
    /\ pc = "config"
    /\ k <= Len(leaders)
    /\ LET a == leaders[k] IN
       \/ /\ a \in Nodes /\ secret[a].bft # None
          /\ leaderIds' = Append(leaderIds, secret[a].bft)
          /\ UNCHANGED <<secret, rng>>
       \/ /\ rng' = rng + 1
          /\ leaderIds' = Append(leaderIds, rng + 1)
          /\ UNCHANGED secret
    /\ k' = k + 1
    /\ UNCHANGED <<inputs, pc, pending, config, trusted, wallets, initial>>

(* one leader of blockchain.leaders() (lines 252-266): a node's existing   *)
(* BFT key is reused; a node without one gets a new key stored in its     *)
(* secret; an alias that is no node gets a key nobody keeps               *)
LeaderStep ==
    /\ pc = "config"
    /\ k <= Len(leaders)
    /\ LET a == leaders[k] IN
       \/ /\ a \in Nodes /\ secret[a].bft # None
          /\ leaderIds' = Append(leaderIds, secret[a].bft)
          /\ UNCHANGED <<secret, rng>>
       \/ /\ a \in Nodes /\ secret[a].bft = None
          /\ rng' = rng + 1
          /\ secret' = [secret EXCEPT ![a].bft = rng + 1]
          /\ leaderIds' = Append(leaderIds, rng + 1)
       \/ /\ a \notin Nodes
          /\ rng' = rng + 1
          /\ leaderIds' = Append(leaderIds, rng + 1)
          /\ UNCHANGED secret
    /\ k' = k + 1
    /\ UNCHANGED <<inputs, pc, pending, config, trusted, wallets, initial>>

\* the leader list is assigned; prepare moves on to the initials (line 122)
LeadersDone ==
    /\ pc = "config"
    /\ k > Len(leaders)
    /\ pc' = "initials"
    /\ k' = 1
    /\ UNCHANGED <<inputs, pending, config, secret, trusted, leaderIds, wallets,
                   initial, rng>>

\* mutant: the delegation certificate is pushed before the registration
WalletStepDelegationFirst ==
    /\ pc = "initials"
    /\ k <= Len(templates)
    /\ LET t == templates[k]
           w == rng + 1
           d == t.delegate
       IN /\ wallets' = (t.alias :> w) @@ wallets
          /\ \/ /\ d = NoDelegate
                /\ initial' = Append(initial, Fund(w))
                /\ rng' = w
                /\ UNCHANGED secret
             \/ /\ d \in Nodes /\ secret[d].genesis # None /\ t.type = "account"
                /\ initial' = initial \o <<Fund(w), Delegation(w, secret[d].genesis)>>
                /\ rng' = w
                /\ UNCHANGED secret
             \/ /\ d \in Nodes /\ secret[d].genesis = None /\ t.type = "account"
                /\ rng' = w + 1
                /\ secret' = [secret EXCEPT ![d].genesis = w + 1]
                /\ initial' = initial \o <<Fund(w), Delegation(w, w + 1),
                                           Registration(w + 1)>>
    /\ k' = k + 1
    /\ UNCHANGED <<inputs, pc, pending, config, trusted, leaderIds>>

\* mutant: the new genesis secret is not stored in the node (line 186)
WalletStepGenesisNotStored ==
    /\ pc = "initials"
    /\ k <= Len(templates)
    /\ LET t == templates[k]
           w == rng + 1
           d == t.delegate
       IN /\ wallets' = (t.alias :> w) @@ wallets
          /\ \/ /\ d = NoDelegate
                /\ initial' = Append(initial, Fund(w))
                /\ rng' = w
             \/ /\ d \in Nodes /\ secret[d].genesis # None /\ t.type = "account"
                /\ initial' = initial \o <<Fund(w), Delegation(w, secret[d].genesis)>>
                /\ rng' = w
             \/ /\ d \in Nodes /\ secret[d].genesis = None /\ t.type = "account"
                /\ rng' = w + 1
                /\ initial' = initial \o <<Fund(w), Registration(w + 1),
                                           Delegation(w, w + 1)>>
    /\ k' = k + 1
    /\ UNCHANGED <<inputs, pc, pending, config, secret, trusted, leaderIds>>

(* one wallet template of populate_block0_blockchain_initials (lines       *)
(* 137-234): a new wallet is generated, inserted under its alias (an       *)
(* existing entry is overwritten, line 152) and funded in block0.  If it   *)
(* delegates to a node, the node's stake pool is reused, or created,       *)
(* stored as the node's genesis secret and registered in block0 (lines     *)
(* 164-205); then the delegation certificate is pushed (lines 223-233).    *)
WalletStep ==
    /\ pc = "initials"
    /\ k <= Len(templates)
    /\ LET t == templates[k]
           w == rng + 1
           d == t.delegate
       IN /\ wallets' = (t.alias :> w) @@ wallets
          /\ \/ /\ d = NoDelegate
                /\ initial' = Append(initial, Fund(w))
                /\ rng' = w
                /\ UNCHANGED secret
             \/ /\ d \in Nodes /\ secret[d].genesis # None /\ t.type = "account"
                /\ initial' = initial \o <<Fund(w), Delegation(w, secret[d].genesis)>>
                /\ rng' = w
                /\ UNCHANGED secret
             \/ /\ d \in Nodes /\ secret[d].genesis = None /\ t.type = "account"
                /\ rng' = w + 1
                /\ secret' = [secret EXCEPT ![d].genesis = w + 1]
                /\ initial' = initial \o <<Fund(w), Registration(w + 1),
                                           Delegation(w, w + 1)>>
    /\ k' = k + 1
    /\ UNCHANGED <<inputs, pc, pending, config, trusted, leaderIds>>

(* delegation to an alias that is no topology node: `unimplemented!`       *)
(* (line 210)                                                              *)
DelegateToExternalPanic ==
    /\ pc = "initials"
    /\ k <= Len(templates)
    /\ templates[k].delegate \in ExternalAliases
    /\ pc' = "panicked"
    /\ UNCHANGED <<inputs, pending, config, k, secret, trusted, leaderIds, wallets,
                   initial, rng>>

(* delegation from a UTxO wallet, which has no stake key: `unimplemented!` *)
(* (lines 214-220), reached after the pool was created and registered      *)
UtxoDelegationPanic ==
    /\ pc = "initials"
    /\ k <= Len(templates)
    /\ templates[k].delegate \in Nodes
    /\ templates[k].type = "utxo"
    /\ pc' = "panicked"
    /\ UNCHANGED <<inputs, pending, config, k, secret, trusted, leaderIds, wallets,
                   initial, rng>>

\* prepare returns the settings (line 124)
InitialsDone ==
    /\ pc = "initials"
    /\ k > Len(templates)
    /\ pc' = "done"
    /\ UNCHANGED <<inputs, pending, config, k, secret, trusted, leaderIds, wallets,
                   initial, rng>>

Next ==
    \/ \E n \in Nodes : NodeSettingPrepare(n)
    \/ NodesDone
    \/ \E n \in Nodes : PopulateTrustedPeers(n) \/ PopulateTrustedPeersPanic(n)
    \/ TrustedPeersDone
    \/ LeaderStep
    \/ LeadersDone
    \/ WalletStep
    \/ DelegateToExternalPanic
    \/ UtxoDelegationPanic
    \/ InitialsDone

Spec == Init /\ [][Next]_vars

-----------------------------------------------------------------------------
TypeOK ==
    /\ pc \in {"nodes", "peers", "config", "initials", "done", "panicked"}
    /\ pending \subseteq Nodes
    /\ config \in [Nodes -> [rest : Nat, address : Nat, id : Nat]]
    /\ secret \in [Nodes -> [bft : Nat, genesis : Nat]]
    /\ trusted \in [Nodes -> Seq([id : Nat, address : Nat])]
    /\ leaderIds \in Seq(Nat \ {None})
    /\ DOMAIN wallets \subseteq WalletAliases
    /\ Range(wallets) \subseteq Nat \ {None}
    /\ \A i \in 1..Len(initial) : initial[i].kind \in {"fund", "reg", "deleg"}

(* Block0's initials are applied in order, so each delegation certificate  *)
(* must come after the fund of the delegating wallet and after the         *)
(* registration of the pool it names: the order of the pushes at lines     *)
(* 154, 200-202 and 231-233.                                               *)
DelegationAfterRegistration ==
    \A i \in 1..Len(initial) :
        initial[i].kind = "deleg" =>
            \E j, l \in 1..(i - 1) :
                /\ initial[j] = Fund(initial[i].wallet)
                /\ initial[l] = Registration(initial[i].pool)

(* The stake pools block0 registers are exactly the genesis secrets the    *)
(* nodes hold, each registered once, however many wallets delegate to the *)
(* node: the pool is created on the first delegation and reused after     *)
(* (lines 164-205).                                                        *)
PoolsMatchSecrets ==
    LET regs == SelectSeq(initial, LAMBDA e : e.kind = "reg")
        holders == {n \in Nodes : secret[n].genesis # None}
    IN /\ IsInjective(regs)
       /\ {e.pool : e \in ToSet(regs)} = {secret[n].genesis : n \in holders}

(* Each consensus leader id of a topology node is the BFT key that node    *)
(* holds, so the node can sign as the leader block0 names, also when it   *)
(* is listed twice (lines 252-266).                                        *)
LeaderIdsHeld ==
    \A i \in 1..Len(leaderIds) :
        leaders[i] \in Nodes => leaderIds[i] = secret[leaders[i]].bft

(* Every wallet funded in block0 can be reached through settings.wallets   *)
(* (lines 152-154).                                                        *)
WalletsCoverFunds ==
    \A i \in 1..Len(initial) :
        initial[i].kind = "fund" => initial[i].wallet \in Range(wallets)

=============================================================================
