---------------------------- MODULE SpawnMonitor ----------------------------
(***************************************************************************)
(* spawn_network of vit-testing/vitup/src/scenario/spawn/monitor.rs: build *)
(* the backend, install a Ctrl-C handler that sends on a channel, spawn    *)
(* the nodes one by one, then the vit station and the wallet proxy, block *)
(* on the channel, and shut everything down in order.  Every `?` returns  *)
(* Err at once; every `unwrap`/`expect` that fails panics.                 *)
(*                                                                         *)
(* Two threads: the main thread running spawn_network (`pc`), and the     *)
(* Ctrl-C handler, which the environment triggers at any time (CtrlC).    *)
(***************************************************************************)
EXTENDS Naturals

CONSTANTS
    NumNodes,    \* network_spawn_params.nodes_params() has this many entries
    MaxSignals   \* bound on Ctrl-C presses

ASSUME NumNodes \in Nat /\ MaxSignals \in Nat

Nodes == 1..NumNodes

\* a spawned process: never spawned, running, or shut down
Proc == {"none", "running", "stopped"}

VARIABLES
    pc,          \* where the main thread is
    handlerSet,  \* ctrlc::set_handler has run
    chan,        \* unreceived () messages in the channel
    signalled,   \* ghost: a Ctrl-C reached the handler
    node,        \* node[i]: the i-th spawned node
    station,     \* the vit station
    proxy,       \* the wallet proxy
    i,           \* position in the spawn / shutdown loop over nodes
    result       \* "none", "ok" or "err"

vars == <<pc, handlerSet, chan, signalled, node, station, proxy, i, result>>

Init ==
    /\ pc = "build"
    /\ handlerSet = FALSE
    /\ chan = 0
    /\ signalled = FALSE
    /\ node = [n \in Nodes |-> "none"]
    /\ station = "none"
    /\ proxy = "none"
    /\ i = 1
    /\ result = "none"

\* a `?` returns the error to the caller; what was spawned stays as it is
ReturnErr ==
    /\ pc' = "returned"
    /\ result' = "err"

-----------------------------------------------------------------------------
(* quick_setup.build and hersir's MonitorController::new, each with `?`     *)
(* (lines 15-21)                                                           *)
Build ==
    /\ pc = "build"
    /\ \/ pc' = "handler" /\ UNCHANGED result
       \/ ReturnErr
    /\ UNCHANGED <<handlerSet, chan, signalled, node, station, proxy, i>>

(* ctrlc::set_handler (lines 23-25): installed once per process, so its    *)
(* `expect` does not fire; then monitor_nodes (line 27)                    *)
SetHandler ==
    /\ pc = "handler"
    /\ handlerSet' = TRUE
    /\ pc' = "spawn"
    /\ UNCHANGED <<chan, signalled, node, station, proxy, i, result>>

\* mutant: the loop runs once past the last node parameter
SpawnNodePastEnd ==
    /\ pc = "spawn"
    /\ i <= NumNodes + 1
    /\ \/ /\ node' = [node EXCEPT ![i] = "running"]
          /\ i' = i + 1
          /\ UNCHANGED <<pc, result>>
       \/ ReturnErr /\ UNCHANGED <<node, i>>
    /\ UNCHANGED <<handlerSet, chan, signalled, station, proxy>>

(* one node of the spawn loop (lines 30-32): pushed when spawned, or the   *)
(* loop returns the error with the earlier nodes running                   *)
SpawnNode ==
    /\ pc = "spawn"
    /\ i \in Nodes
    /\ \/ /\ node' = [node EXCEPT ![i] = "running"]
          /\ i' = i + 1
          /\ UNCHANGED <<pc, result>>
       \/ ReturnErr /\ UNCHANGED <<node, i>>
    /\ UNCHANGED <<handlerSet, chan, signalled, station, proxy>>

(* spawn_vit_station then spawn_wallet_proxy_custom, each with `?`         *)
(* (lines 34-37)                                                           *)
SpawnStation ==
    /\ pc = "spawn"
    /\ i = NumNodes + 1
    /\ \/ station' = "running" /\ pc' = "proxy" /\ UNCHANGED result
       \/ ReturnErr /\ UNCHANGED station
    /\ UNCHANGED <<handlerSet, chan, signalled, node, proxy, i>>

SpawnProxy ==
    /\ pc = "proxy"
    /\ \/ proxy' = "running" /\ pc' = "wait" /\ UNCHANGED result
       \/ ReturnErr /\ UNCHANGED proxy
    /\ UNCHANGED <<handlerSet, chan, signalled, node, station, i>>

\* mutant: the main thread goes on without a message, as with try_recv
RecvNoWait ==
    /\ pc = "wait"
    /\ chan' = IF chan > 0 THEN chan - 1 ELSE 0
    /\ pc' = "shutdown"
    /\ i' = 1
    /\ UNCHANGED <<handlerSet, signalled, node, station, proxy, result>>

\* rx.recv() blocks until the handler has sent (line 39)
Recv ==
    /\ pc = "wait"
    /\ chan > 0
    /\ chan' = chan - 1
    /\ pc' = "shutdown"
    /\ i' = 1
    /\ UNCHANGED <<handlerSet, signalled, node, station, proxy, result>>

(* node.shutdown().unwrap() for each node in turn (lines 40-42): a failed  *)
(* shutdown panics with the later nodes, the station and the proxy still  *)
(* running                                                                 *)
ShutdownNode ==
    /\ pc = "shutdown"
    /\ i \in Nodes
    /\ \/ node' = [node EXCEPT ![i] = "stopped"] /\ i' = i + 1 /\ UNCHANGED pc
       \/ pc' = "panicked" /\ UNCHANGED <<node, i>>
    /\ UNCHANGED <<handlerSet, chan, signalled, station, proxy, result>>

(* vit_station.shutdown(), wallet_proxy.shutdown(), finalize, Ok(())       *)
(* (lines 43-47)                                                           *)
ShutdownRest ==
    /\ pc = "shutdown"
    /\ i = NumNodes + 1
    /\ station' = "stopped"
    /\ proxy' = "stopped"
    /\ pc' = "returned"
    /\ result' = "ok"
    /\ UNCHANGED <<handlerSet, chan, signalled, node, i>>

(* The environment presses Ctrl-C.  Once the handler is installed it sends *)
(* () on the channel (line 24), while the receiver is alive; before that, *)
(* SIGINT's default action ends the process.  After spawn_network has     *)
(* returned the process exits, so presses then are not modelled.          *)
CtrlC ==
    /\ chan < MaxSignals
    /\ pc \notin {"returned", "panicked", "killed"}
    /\ IF handlerSet
       THEN /\ chan' = chan + 1
            /\ signalled' = TRUE
            /\ UNCHANGED pc
       ELSE /\ pc' = "killed"
            /\ UNCHANGED <<chan, signalled>>
    /\ UNCHANGED <<handlerSet, node, station, proxy, i, result>>

Main == Build \/ SetHandler \/ SpawnNode \/ SpawnStation \/ SpawnProxy
            \/ Recv \/ ShutdownNode \/ ShutdownRest

Next == Main \/ CtrlC

\* the main thread runs whenever it can; Ctrl-C is up to the user
Spec == Init /\ [][Next]_vars /\ WF_vars(Main)

-----------------------------------------------------------------------------
TypeOK ==
    /\ pc \in {"build", "handler", "spawn", "proxy", "wait", "shutdown",
               "returned", "panicked", "killed"}
    /\ handlerSet \in BOOLEAN /\ signalled \in BOOLEAN
    /\ chan \in 0..MaxSignals
    /\ node \in [Nodes -> Proc] /\ station \in Proc /\ proxy \in Proc
    /\ i \in 1..(NumNodes + 1)
    /\ result \in {"none", "ok", "err"}

-----------------------------------------------------------------------------
(* The refinement: spawn_network implements NetworkLifecycle.  A component *)
(* is a node by position, the station or the proxy; the phase is read off *)
(* the main thread's pc and result, and a stop request is a Ctrl-C that   *)
(* reached the handler.                                                   *)
Component == {<<"node", n>> : n \in Nodes} \cup {<<"station", 0>>, <<"proxy", 0>>}

InState(st) ==
    {<<"node", n>> : n \in {m \in Nodes : node[m] = st}}
    \cup (IF station = st THEN {<<"station", 0>>} ELSE {})
    \cup (IF proxy = st THEN {<<"proxy", 0>>} ELSE {})

Phase ==
    CASE pc \in {"build", "handler", "spawn", "proxy"} -> "starting"
      [] pc = "wait"                                  -> "up"
      [] pc = "shutdown"                              -> "stopping"
      [] pc = "returned" /\ result = "ok"             -> "done"
      [] pc \in {"returned", "panicked"}              -> "failed"
      [] pc = "killed"                                -> "killed"

Life == INSTANCE NetworkLifecycle
            WITH Components <- Component, phase <- Phase,
                 running <- InState("running"), stopped <- InState("stopped"),
                 requested <- signalled

(* spawn_network keeps NetworkLifecycle's promise: the network is up only  *)
(* when every node, the station and the proxy run; it is torn down only   *)
(* after a Ctrl-C reached the handler; Ok comes only when nothing it      *)
(* started still runs; and once a stop is requested while it is up, the   *)
(* teardown goes on to an end (lines 13-47).                              *)
ImplementsLifecycle == Life!Spec

=============================================================================
