-------------------------- MODULE NetworkLifecycle --------------------------
(***************************************************************************)
(* What spawn_network of vit-testing/vitup/src/scenario/spawn/monitor.rs   *)
(* promises its caller, with no loops, channels or handlers: components   *)
(* are started in some order until all of them run; the network is then  *)
(* up until a stop is requested; it is torn down and reports success only *)
(* when nothing it started is still running.  Starting or stopping may    *)
(* fail and leave what was started as it is; a stop request that comes   *)
(* before anything was started ends the process.                          *)
(***************************************************************************)
EXTENDS FiniteSets

CONSTANT Components   \* the nodes, the vit station and the wallet proxy

VARIABLES
    phase,      \* "starting", "up", "stopping", "done", "failed", "killed"
    running,    \* components started and not stopped
    stopped,    \* components stopped
    requested   \* a stop was requested

vars == <<phase, running, stopped, requested>>

Init ==
    /\ phase = "starting"
    /\ running = {}
    /\ stopped = {}
    /\ requested = FALSE

(* start one component; the network is up when all of them run            *)
(* (monitor.rs lines 29-37)                                               *)
Start(c) ==
    /\ phase = "starting"
    /\ c \notin running
    /\ running' = running \cup {c}
    /\ phase' = IF running' = Components THEN "up" ELSE "starting"
    /\ UNCHANGED <<stopped, requested>>

\* a start or a stop fails: an error is returned or the thread panics
Fail ==
    /\ phase \in {"starting", "stopping"}
    /\ phase' = "failed"
    /\ UNCHANGED <<running, stopped, requested>>

\* the user asks for the network to stop (line 24)
Request ==
    /\ phase \in {"starting", "up", "stopping"}
    /\ ~ requested
    /\ requested' = TRUE
    /\ UNCHANGED <<phase, running, stopped>>

\* a request before anything was started ends the process
Kill ==
    /\ phase = "starting"
    /\ running = {}
    /\ ~ requested
    /\ phase' = "killed"
    /\ UNCHANGED <<running, stopped, requested>>

\* the network is up and the stop was requested: teardown begins (line 39)
BeginStop ==
    /\ phase = "up"
    /\ requested
    /\ phase' = "stopping"
    /\ UNCHANGED <<running, stopped, requested>>

(* stop some of the running components; success is reported with the     *)
(* last of them (lines 40-47)                                              *)
Stop(S) ==
    /\ phase = "stopping"
    /\ S # {} /\ S \subseteq running
    /\ running' = running \ S
    /\ stopped' = stopped \cup S
    /\ phase' = IF running' = {} THEN "done" ELSE "stopping"
    /\ UNCHANGED requested

Progress == (\E c \in Components : Start(c)) \/ Fail \/ BeginStop
                \/ (\E S \in SUBSET Components : Stop(S))

Next == Progress \/ Request \/ Kill

\* the network's own steps are taken; requests are up to the user
Spec == Init /\ [][Next]_vars /\ WF_vars(Progress)

=============================================================================
