----------------------------- MODULE RemoteNode -----------------------------
(***************************************************************************)
(* RemoteJormungandrBuilder and RemoteJormungandr of                       *)
(* jormungandr-testing-utils/src/testing/remote/node.rs.  The builder sets *)
(* four Option fields (rest, grpc, logger, node_config); build copies      *)
(* them into the node, whose getters unwrap them.  Every node method goes  *)
(* through a getter, so a method panics when the field it needs is unset.  *)
(*                                                                         *)
(* A field is TRUE when it is Some.  A node config is reduced to whether   *)
(* it parses, whether its p2p listen address makes a gRPC client, and      *)
(* whether its log section names a file.  A REST call to the node either  *)
(* answers or fails.                                                       *)
(***************************************************************************)
EXTENDS Naturals

CONSTANTS
    Configs   \* node config files from_config / with_node_config may read

ASSUME Configs \subseteq [parses : BOOLEAN, grpcOk : BOOLEAN, logFile : BOOLEAN]

VARIABLES
    phase,    \* "building", "built", or "panicked"
    rest, grpc, logger, nodeConfig,   \* the Option fields
    origin,   \* ghost: {c} once from_config read c, {} for a manual build
    panicAt,  \* ghost: the method that panicked, or "none"
    result    \* the last node call's Result: "none", "ok" or "err"

vars == <<phase, rest, grpc, logger, nodeConfig, origin, panicAt, result>>

fields == <<rest, grpc, logger, nodeConfig>>

\* RemoteJormungandrBuilder::new: every field None (lines 153-161)
Init ==
    /\ phase = "building"
    /\ rest = FALSE /\ grpc = FALSE /\ logger = FALSE /\ nodeConfig = FALSE
    /\ origin = {}
    /\ panicAt = "none"
    /\ result = "none"

Panic(at) == phase' = "panicked" /\ panicAt' = at

-----------------------------------------------------------------------------
\* with_rest: JormungandrRest::new of the address cannot fail (lines 181-184)
WithRest ==
    /\ phase = "building"
    /\ rest' = TRUE
    /\ UNCHANGED <<phase, grpc, logger, nodeConfig, origin, panicAt, result>>

\* with_grpc: JormungandrClient::from_address(..).unwrap() (lines 186-189)
WithGrpc ==
    /\ phase = "building"
    /\ \/ grpc' = TRUE /\ UNCHANGED <<phase, panicAt>>
       \/ Panic("with_grpc") /\ UNCHANGED grpc
    /\ UNCHANGED <<rest, logger, nodeConfig, origin, result>>

\* with_logger (lines 191-194)
WithLogger ==
    /\ phase = "building"
    /\ logger' = TRUE
    /\ UNCHANGED <<phase, rest, grpc, nodeConfig, origin, panicAt, result>>

\* with_node_config: serde_yaml::from_str(..).unwrap() (lines 196-200)
WithNodeConfig(c) ==
    /\ phase = "building"
    /\ \/ c.parses /\ nodeConfig' = TRUE /\ UNCHANGED <<phase, panicAt>>
       \/ ~c.parses /\ Panic("with_node_config") /\ UNCHANGED nodeConfig
    /\ UNCHANGED <<rest, grpc, logger, origin, result>>

(* from_config (lines 163-179): with_node_config, then rest from           *)
(* rest.listen, grpc from the p2p listen address, and a logger only if the *)
(* log section names a file                                                *)
FromConfig(c) ==
    /\ phase = "building"
    /\ \/ ~c.parses /\ Panic("with_node_config")
                    /\ UNCHANGED <<rest, grpc, logger, nodeConfig, origin>>
       \/ /\ c.parses /\ ~c.grpcOk
          /\ Panic("with_grpc")
          /\ nodeConfig' = TRUE /\ rest' = TRUE
          /\ UNCHANGED <<grpc, logger, origin>>
       \/ /\ c.parses /\ c.grpcOk
          /\ nodeConfig' = TRUE /\ rest' = TRUE /\ grpc' = TRUE
          /\ logger' = (logger \/ c.logFile)
          /\ origin' = {c}
          /\ UNCHANGED <<phase, panicAt>>
    /\ UNCHANGED result

\* build moves the fields into a RemoteJormungandr (lines 202-210)
Build ==
    /\ phase = "building"
    /\ phase' = "built"
    /\ UNCHANGED <<rest, grpc, logger, nodeConfig, origin, panicAt, result>>

-----------------------------------------------------------------------------
(* A node method that reads only through `getter`: it panics when that     *)
(* field is None (lines 43-57), and otherwise returns `outcome`.           *)
Call(name, set, outcome) ==
    /\ phase = "built"
    /\ \/ ~set /\ Panic(name) /\ UNCHANGED result
       \/ set /\ result' = outcome /\ UNCHANGED <<phase, panicAt>>
    /\ UNCHANGED <<rest, grpc, logger, nodeConfig, origin>>

(* last_block_height and tip (lines 65-81): the REST answer is unwrapped, *)
(* so a failing call panics too; log_stats only prints it                  *)
RestQuery(name) ==
    /\ phase = "built"
    /\ \/ Call(name, rest, "ok")
       \/ rest /\ Panic(name) /\ UNCHANGED <<rest, grpc, logger, nodeConfig, origin, result>>

LogStats == Call("log_stats", rest, "ok")

\* log_content and get_lines_with_error_and_invalid (lines 83-89, 139-141)
LogContent == Call("log_content", logger, "ok")

\* is_running is todo!() (lines 91-93)
IsRunning ==
    /\ phase = "built"
    /\ Panic("is_running")
    /\ UNCHANGED <<rest, grpc, logger, nodeConfig, origin, result>>

\* the grpc() and node_config() getters (lines 47-57)
GetGrpc == Call("grpc", grpc, "ok")
GetNodeConfig == Call("node_config", nodeConfig, "ok")

\* mutant: the REST error is passed on without map_err
FragmentLogsUnmapped ==
    \/ Call("fragment_logs", rest, "ok")
    \/ Call("fragment_logs", rest, "rest_error")

\* fragment_logs maps a REST error to ListFragmentError (lines 100-104)
FragmentLogs ==
    \/ Call("fragment_logs", rest, "ok")
    \/ Call("fragment_logs", rest, "err")

(* send_fragment and send_batch_fragments (lines 105-128): a REST error is *)
(* mapped to CannotSendFragment(Batch), whose `logs` field is built with  *)
(* FragmentNode::log_content, which unwraps the logger                     *)
SendFragment(name) ==
    /\ phase = "built"
    /\ rest
    /\ \/ result' = "ok" /\ UNCHANGED <<phase, panicAt>>
       \/ logger /\ result' = "err" /\ UNCHANGED <<phase, panicAt>>
       \/ ~logger /\ Panic(name) /\ UNCHANGED result
    /\ UNCHANGED <<rest, grpc, logger, nodeConfig, origin>>

SendFragmentNoRest(name) == ~rest /\ Call(name, rest, "ok")

Next ==
    \/ WithRest \/ WithGrpc \/ WithLogger \/ Build
    \/ \E c \in Configs : WithNodeConfig(c) \/ FromConfig(c)
    \/ RestQuery("last_block_height") \/ RestQuery("tip")
    \/ LogStats \/ LogContent \/ IsRunning \/ GetGrpc \/ GetNodeConfig
    \/ FragmentLogs
    \/ \E n \in {"send_fragment", "send_batch_fragments"} :
           SendFragment(n) \/ SendFragmentNoRest(n)

Spec == Init /\ [][Next]_vars

-----------------------------------------------------------------------------
TypeOK ==
    /\ phase \in {"building", "built", "panicked"}
    /\ \A f \in 1..4 : fields[f] \in BOOLEAN
    /\ origin \subseteq Configs
    /\ result \in {"none", "ok", "err"}

(* A failing send_fragment or send_batch_fragments on a node that         *)
(* from_config built from a config file returns CannotSendFragment(Batch), *)
(* as its signature and error type say, rather than panicking (lines      *)
(* 105-128, 163-179).                                                      *)
ErrorsAreReported ==
    (origin # {} /\ rest) => panicAt \notin {"send_fragment", "send_batch_fragments"}

=============================================================================
