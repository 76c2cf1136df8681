-------------------------- MODULE CertificateTests --------------------------
(***************************************************************************)
(* The explorer certificate tests of jormungandr-integration-tests,        *)
(* src/jormungandr/explorer/certificates.rs.  Each test starts one BFT     *)
(* node, builds certificate fragments with a FragmentBuilder, sends them   *)
(* with a FragmentSender (which returns once the fragment is in a block or *)
(* rejected, and then confirms the sender's spending counter), waits for   *)
(* block dates, and asks a separately started explorer for the            *)
(* transaction.  Every `unwrap`, `expect` and `assert` ends the test.      *)
(*                                                                         *)
(* A test is a script of steps (one operator per test, below); the        *)
(* interpreter runs it against an environment made of the node's ledger   *)
(* (date, accounts' spending counters, pools, vote plans, update          *)
(* proposals) and the explorer, which indexes blocks asynchronously.  The *)
(* ledger rules are those the tests rely on; they belong to the node, not *)
(* to this repository.  Dates are slot numbers, Date(e, s) of an epoch and *)
(* slot, with SlotsPerEpoch scaled down; slot 10 of the 20-slot epoch     *)
(* waited for in the update proposal test is the middle slot.             *)
(***************************************************************************)
EXTENDS Integers, Sequences, FiniteSets, TLC

CONSTANTS
    Tests,          \* the tests to run (names, see Scripts)
    Wallets,        \* thor wallets
    Fragments,      \* fragment names the scripts use
    SlotsPerEpoch,  \* slots of an epoch
    MaxDrift,       \* slots the clock may advance between two waits
    Expiration      \* with_proposal_expiration, in epochs

ASSUME SlotsPerEpoch \in Nat \ {0} /\ MaxDrift \in Nat /\ Expiration \in Nat

Date(e, s) == e * SlotsPerEpoch + s

None == -1

VARIABLES
    test,        \* the test being run
    pc,          \* index of its next step
    status,      \* "running", "passed" or "failed"
    failedAt,    \* "none", or what failed: "ledger" or "explorer"
    clock,       \* the node's current slot
    drift,       \* slots since the test last finished waiting
    counter,     \* counter[w]: the ledger's spending counter of w's account
    local,       \* local[w]: the counter w's thor wallet signs with
    validUntil,  \* the builder's (and sender's) valid_until date
    built,       \* built[f]: the fragment f as built, or NotBuilt
    blockOf,     \* blockOf[f]: date of the block holding f, or None
    pools, plans, proposals,   \* ledger state the certificates change
    explorerUp,  \* the explorer process was started
    indexed      \* last date the explorer has indexed, or None

vars == <<test, pc, status, failedAt, clock, drift, counter, local, validUntil,
          built, blockOf, pools, plans, proposals, explorerUp, indexed>>

-----------------------------------------------------------------------------
(* Certificates: a kind and the pools, vote plan, BFT leader and update    *)
(* proposal it names.                                                      *)
Cert(k, ps, plan, leader, prop) ==
    [kind |-> k, pools |-> ps, plan |-> plan, leader |-> leader, proposal |-> prop]
\* a fragment the test has not built yet
NotBuilt == [who |-> "none", counter |-> None, validUntil |-> None,
             cert |-> Cert("none", {}, "", "", "")]
PoolCert(k, ps) == Cert(k, ps, "", "", "")
PlanCert(k, plan) == Cert(k, {}, plan, "", "")
UpdateCert(k, leader, prop) == Cert(k, {}, "", leader, prop)

\* the vote plans the tests build: vote start, tally start, tally end
PlanWindow ==
    [offchain |-> [start |-> Date(1, 0), tally |-> Date(20, 0), end |-> Date(30, 0)],
     public   |-> [start |-> Date(0, 0), tally |-> Date(1, 0), end |-> Date(2, 0)]]

(* What block0 holds and which defaults the builder has, per test: the    *)
(* vote plans certified in block0, the committee, the BFT leaders that    *)
(* can vote on update proposals, and the valid_until the FragmentBuilder  *)
(* (and the FragmentSender) are created with.                              *)
Setup(t) ==
    CASE t \in {"vote_cast", "vote_tally"} ->
            [plans |-> {"public"}, committee |-> {"alice"}, leaders |-> {},
             validUntil |-> Date(1, 0)]
      [] t = "update_proposal" ->
            [plans |-> {}, committee |-> {}, leaders |-> {"alice_bft", "bob_bft"},
             validUntil |-> Date(10, 0)]
      [] OTHER ->
            [plans |-> {}, committee |-> {}, leaders |-> {}, validUntil |-> Date(1, 0)]

(* The ledger's check of a fragment b landing in the block of date d: not  *)
(* expired, signed with the account's current spending counter, and the   *)
(* certificate's own rule.                                                 *)
CertValid(c, who, d) ==
    CASE c.kind = "pool_registration" -> c.pools \cap pools = {}
      [] c.kind \in {"owner_delegation", "delegation", "pool_update", "pool_retire"} ->
            c.pools \subseteq pools
      [] c.kind = "vote_plan" -> d < PlanWindow[c.plan].start
      [] c.kind = "vote_cast" ->
            c.plan \in plans /\ PlanWindow[c.plan].start <= d /\ d < PlanWindow[c.plan].tally
      [] c.kind = "vote_tally" ->
            /\ c.plan \in plans /\ who \in Setup(test).committee
            /\ PlanWindow[c.plan].tally <= d /\ d < PlanWindow[c.plan].end
      [] c.kind = "update_proposal" -> c.leader \in Setup(test).leaders
      [] c.kind = "update_vote" ->
            /\ c.leader \in Setup(test).leaders
            /\ c.proposal \in DOMAIN proposals
            /\ d < proposals[c.proposal] + Expiration * SlotsPerEpoch

Accepted(b, d) ==
    /\ d <= b.validUntil
    /\ b.counter = counter[b.who]
    /\ CertValid(b.cert, b.who, d)

\* the ledger applies an accepted fragment f at date d
Apply(f, b, d) ==
    /\ counter' = [counter EXCEPT ![b.who] = @ + 1]
    /\ blockOf' = [blockOf EXCEPT ![f] = d]
    /\ pools' = CASE b.cert.kind = "pool_registration" -> pools \cup b.cert.pools
                  [] b.cert.kind = "pool_retire" -> pools \ b.cert.pools
                  [] OTHER -> pools
    /\ plans' = IF b.cert.kind = "vote_plan" THEN plans \cup {b.cert.plan} ELSE plans
    /\ proposals' = IF b.cert.kind = "update_proposal"
                    THEN proposals @@ (f :> d) ELSE proposals

-----------------------------------------------------------------------------
(* The steps of a test script                                              *)
NoCert == Cert("none", {}, "", "", "")
StepRec(op, f, w, c, d) == [op |-> op, frag |-> f, who |-> w, cert |-> c, date |-> d]
Build(f, w, c) == StepRec("build", f, w, c, 0)
Send(f) == StepRec("send", f, "", NoCert, 0)
JcliSend(f) == StepRec("jcli_send", f, "", NoCert, 0)
Confirm(w) == StepRec("confirm", "", w, NoCert, 0)
StartExplorer == StepRec("explorer", "", "", NoCert, 0)
Query(f) == StepRec("query", f, "", NoCert, 0)
WaitDate(d) == StepRec("wait", "", "", NoCert, d)
UpdateValidUntil(d) == StepRec("valid_until", "", "", NoCert, d)

\* build a fragment and send it with fragment_sender.send_fragment
BuildSend(f, w, c) == <<Build(f, w, c), Send(f)>>

RegisterPool(f, w, p) == BuildSend(f, w, PoolCert("pool_registration", {p}))

\* explorer_stake_pool_registration_test
StakePoolRegistrationTest ==
    <<StartExplorer>> \o RegisterPool("reg", "owner1", "p1") \o <<Query("reg")>>

\* explorer_owner_delegation_test
OwnerDelegationTest ==
    RegisterPool("reg", "owner1", "p1") \o <<StartExplorer>>
    \o BuildSend("odeleg", "owner1", PoolCert("owner_delegation", {"p1"}))
    \o <<Query("odeleg")>>

\* explorer_full_delegation_test
FullDelegationTest ==
    RegisterPool("reg", "owner1", "p1") \o <<StartExplorer>>
    \o BuildSend("deleg", "delegator", PoolCert("delegation", {"p1"}))
    \o <<Query("deleg")>>

\* explorer_split_delegation_test
SplitDelegationTest ==
    RegisterPool("reg", "owner1", "p1") \o RegisterPool("reg2", "owner2", "p2")
    \o <<StartExplorer>>
    \o BuildSend("split", "delegator", PoolCert("delegation", {"p1", "p2"}))
    \o <<Query("split")>>

\* mutant: the wallet is not confirmed after the jcli send
PoolUpdateTestNoConfirm ==
    <<StartExplorer>> \o RegisterPool("reg", "owner1", "p1")
    \o <<Build("update", "owner1", PoolCert("pool_update", {"p1"})),
         JcliSend("update"), Query("update")>>

(* explorer_pool_update_test: the update goes through jcli's fragment     *)
(* sender, so the owner's wallet is confirmed by hand afterwards           *)
PoolUpdateTest ==
    <<StartExplorer>> \o RegisterPool("reg", "owner1", "p1")
    \o <<Build("update", "owner1", PoolCert("pool_update", {"p1"})),
         JcliSend("update"), Confirm("owner1"), Query("update")>>

\* explorer_pool_retire_test
PoolRetireTest ==
    <<StartExplorer>> \o RegisterPool("reg", "owner1", "p1")
    \o BuildSend("retire", "owner1", PoolCert("pool_retire", {"p1"}))
    \o <<Query("retire")>>

\* explorer_vote_plan_certificates_test: an off-chain plan voting from epoch 1
VotePlanTest ==
    <<StartExplorer>> \o BuildSend("vote_plan", "owner1", PlanCert("vote_plan", "offchain"))
    \o <<Query("vote_plan")>>

\* explorer_vote_cast_certificates_test: the public plan is in block0
VoteCastTest ==
    <<StartExplorer>> \o BuildSend("cast", "alice", PlanCert("vote_cast", "public"))
    \o <<Query("cast")>>

\* mutant: the tally keeps the builder's valid_until of epoch 1
VoteTallyTestNoValidUntil ==
    <<StartExplorer>> \o BuildSend("cast", "alice", PlanCert("vote_cast", "public"))
    \o <<WaitDate(Date(1, 0))>>
    \o BuildSend("tally", "alice", PlanCert("vote_tally", "public"))
    \o <<Query("tally")>>

(* explorer_vote_tally_certificate_test: cast, wait for epoch 1, move the *)
(* builder's valid_until to epoch 2, tally                                 *)
VoteTallyTest ==
    <<StartExplorer>> \o BuildSend("cast", "alice", PlanCert("vote_cast", "public"))
    \o <<WaitDate(Date(1, 0)), UpdateValidUntil(Date(2, 0))>>
    \o BuildSend("tally", "alice", PlanCert("vote_tally", "public"))
    \o <<Query("tally")>>

(* explorer_update_proposal_and_vote_certificate_test: alice proposes,    *)
(* both leaders vote in the middle of epoch 0 (alice through              *)
(* send_update_vote, which builds and sends), and the test queries both   *)
(* fragments once epoch 1 has begun                                        *)
UpdateProposalTest ==
    <<StartExplorer>>
    \o BuildSend("proposal", "alice", UpdateCert("update_proposal", "alice_bft", ""))
    \o <<WaitDate(Date(0, SlotsPerEpoch \div 2))>>
    \o BuildSend("vote_alice", "alice", UpdateCert("update_vote", "alice_bft", "proposal"))
    \o BuildSend("vote_bob", "bob", UpdateCert("update_vote", "bob_bft", "proposal"))
    \o <<WaitDate(Date(1, 0)), Query("vote_bob"), Query("proposal")>>

Script(t) ==
    CASE t = "stake_pool_registration" -> StakePoolRegistrationTest
      [] t = "owner_delegation" -> OwnerDelegationTest
      [] t = "full_delegation" -> FullDelegationTest
      [] t = "split_delegation" -> SplitDelegationTest
      [] t = "pool_update" -> PoolUpdateTest
      [] t = "pool_retire" -> PoolRetireTest
      [] t = "vote_plan" -> VotePlanTest
      [] t = "vote_cast" -> VoteCastTest
      [] t = "vote_tally" -> VoteTallyTest
      [] t = "update_proposal" -> UpdateProposalTest

-----------------------------------------------------------------------------
Init ==
    /\ test \in Tests
    /\ pc = 1
    /\ status = "running"
    /\ failedAt = "none"
    /\ clock = 0
    /\ drift = 0
    /\ counter = [w \in Wallets |-> 0]
    /\ local = [w \in Wallets |-> 0]
    /\ validUntil = Setup(test).validUntil
    /\ built = [f \in Fragments |-> NotBuilt]
    /\ blockOf = [f \in Fragments |-> None]
    /\ pools = {}
    /\ plans = Setup(test).plans
    /\ proposals = <<>>
    /\ explorerUp = FALSE
    /\ indexed = None

step == Script(test)[pc]

\* the step ran; the test passes after its last step
Advance ==
    /\ pc' = pc + 1
    /\ status' = IF pc = Len(Script(test)) THEN "passed" ELSE "running"
    /\ UNCHANGED failedAt

\* an unwrap, expect or assert fails and ends the test
Fail(what) == status' = "failed" /\ failedAt' = what /\ UNCHANGED pc

Running(op) == status = "running" /\ step.op = op

(* fragment_builder.<certificate>(&wallet, ..): signs with the wallet's    *)
(* current counter and the builder's valid_until (e.g. lines 68-69)        *)
DoBuild ==
    /\ Running("build")
    /\ built' = [built EXCEPT ![step.frag] =
                    [who |-> step.who, counter |-> local[step.who],
                     validUntil |-> validUntil, cert |-> step.cert]]
    /\ Advance
    /\ UNCHANGED <<test, clock, drift, counter, local, validUntil, blockOf,
                   pools, plans, proposals, explorerUp, indexed>>

(* fragment_sender.send_fragment(&mut wallet, fragment, &node).expect(..) *)
(* (lines 71-78): returns once the fragment is in a block, confirming the *)
(* wallet's counter, or fails when the node rejects it                     *)
DoSend ==
    /\ Running("send")
    /\ LET b == built[step.frag] IN
       IF Accepted(b, clock)
       THEN /\ Apply(step.frag, b, clock)
            /\ local' = [local EXCEPT ![b.who] = @ + 1]
            /\ Advance
       ELSE /\ Fail("ledger")
            /\ UNCHANGED <<counter, local, blockOf, pools, plans, proposals>>
    /\ UNCHANGED <<test, clock, drift, validUntil, built, explorerUp, indexed>>

(* jcli.fragment_sender(&node).send(..).assert_in_block() (lines 366-372): *)
(* the same, but no wallet is confirmed                                    *)
DoJcliSend ==
    /\ Running("jcli_send")
    /\ LET b == built[step.frag] IN
       IF Accepted(b, clock)
       THEN Apply(step.frag, b, clock) /\ Advance
       ELSE /\ Fail("ledger")
            /\ UNCHANGED <<counter, blockOf, pools, plans, proposals>>
    /\ UNCHANGED <<test, clock, drift, local, validUntil, built, explorerUp, indexed>>

\* wallet.confirm_transaction() (line 373)
DoConfirm ==
    /\ Running("confirm")
    /\ local' = [local EXCEPT ![step.who] = @ + 1]
    /\ Advance
    /\ UNCHANGED <<test, clock, drift, counter, validUntil, built, blockOf,
                   pools, plans, proposals, explorerUp, indexed>>

\* jormungandr.explorer(params).unwrap() (lines 62-67)
DoStartExplorer ==
    /\ Running("explorer")
    /\ explorerUp' = TRUE
    /\ Advance
    /\ UNCHANGED <<test, clock, drift, counter, local, validUntil, built, blockOf,
                   pools, plans, proposals, indexed>>

\* mutant: a found transaction also skips the step after the query
DoQuerySkipNext ==
    /\ Running("query")
    /\ IF blockOf[step.frag] # None /\ blockOf[step.frag] <= indexed
       THEN /\ pc' = pc + 2
            /\ status' = IF pc + 1 >= Len(Script(test)) THEN "passed" ELSE "running"
            /\ UNCHANGED failedAt
       ELSE Fail("explorer")
    /\ UNCHANGED <<test, clock, drift, counter, local, validUntil, built, blockOf,
                   pools, plans, proposals, explorerUp, indexed>>

(* explorer.transaction_certificates(hash).expect(..) and the assert that *)
(* it has no errors (lines 80-84): the explorer knows the fragment only   *)
(* once it has indexed its block                                           *)
DoQuery ==
    /\ Running("query")
    /\ IF blockOf[step.frag] # None /\ blockOf[step.frag] <= indexed
       THEN Advance
       ELSE Fail("explorer")
    /\ UNCHANGED <<test, clock, drift, counter, local, validUntil, built, blockOf,
                   pools, plans, proposals, explorerUp, indexed>>

\* wait_for_date / wait_for_epoch poll the node until its date is reached (lines 764-771)
DoWait ==
    /\ Running("wait")
    /\ clock >= step.date
    /\ drift' = 0
    /\ Advance
    /\ UNCHANGED <<test, clock, counter, local, validUntil, built, blockOf,
                   pools, plans, proposals, explorerUp, indexed>>

\* fragment_builder.update_valid_until(..) (line 669)
DoUpdateValidUntil ==
    /\ Running("valid_until")
    /\ validUntil' = step.date
    /\ Advance
    /\ UNCHANGED <<test, clock, drift, counter, local, built, blockOf,
                   pools, plans, proposals, explorerUp, indexed>>

-----------------------------------------------------------------------------
(* The environment.  The node's clock advances a slot at a time, at most  *)
(* MaxDrift slots while the test is busy, and freely while it waits.      *)
Waiting == Running("wait") /\ clock < step.date

Tick ==
    /\ status = "running"
    /\ Waiting \/ drift < MaxDrift
    /\ clock' = clock + 1
    /\ drift' = drift + 1
    /\ UNCHANGED <<test, pc, status, failedAt, counter, local, validUntil, built,
                   blockOf, pools, plans, proposals, explorerUp, indexed>>

\* the explorer indexes the blocks the node has produced
Index ==
    /\ explorerUp
    /\ indexed < clock
    /\ indexed' = clock
    /\ UNCHANGED <<test, pc, status, failedAt, clock, drift, counter, local,
                   validUntil, built, blockOf, pools, plans, proposals, explorerUp>>

TestStep ==
    DoBuild \/ DoSend \/ DoJcliSend \/ DoConfirm \/ DoStartExplorer \/ DoQuery
    \/ DoWait \/ DoUpdateValidUntil

Next == TestStep \/ Tick \/ Index

Spec == Init /\ [][Next]_vars

-----------------------------------------------------------------------------
TypeOK ==
    /\ test \in Tests
    /\ pc \in 1..(Len(Script(test)) + 1)
    /\ status \in {"running", "passed", "failed"}
    /\ failedAt \in {"none", "ledger", "explorer"}
    /\ counter \in [Wallets -> Nat] /\ local \in [Wallets -> Nat]
    /\ pools \subseteq {"p1", "p2"} /\ plans \subseteq DOMAIN PlanWindow
    /\ indexed \in {None} \cup 0..clock

(* As long as no step takes the node a whole epoch, the node accepts every *)
(* certificate fragment a test sends: each is signed with its account's    *)
(* current counter, lands before its valid_until, and meets its ledger     *)
(* rule (the pool exists, the vote is cast or tallied in its window, the   *)
(* proposal is voted on before it expires).  Only the explorer can fail a *)
(* test.                                                                   *)
NoLedgerRejection == failedAt # "ledger"

(* A test that passes leaves every thor wallet's counter equal to the      *)
(* ledger's, so a later fragment of the same wallet would be accepted:    *)
(* fragments sent outside the FragmentSender are confirmed by hand.        *)
WalletsInSync == status = "passed" => local = counter

=============================================================================
