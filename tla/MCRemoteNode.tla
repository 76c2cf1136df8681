---------------------------- MODULE MCRemoteNode ----------------------------
(* Config files for RemoteNode. *)
EXTENDS RemoteNode

Cfg(p, g, l) == [parses |-> p, grpcOk |-> g, logFile |-> l]

\* a complete config, one without a log file, one with a bad p2p listen
\* address, and one that does not parse
MCConfigs == {Cfg(TRUE, TRUE, TRUE), Cfg(TRUE, TRUE, FALSE),
              Cfg(TRUE, FALSE, TRUE), Cfg(FALSE, TRUE, TRUE)}

\* a config whose log section names no file
MCConfigsNoLog == {Cfg(TRUE, TRUE, FALSE)}
=============================================================================
