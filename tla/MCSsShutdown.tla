---------------------------- MODULE MCSsShutdown ----------------------------
(***************************************************************************)
(* The life and the end of connections: a behaviour is about the shutdown  *)
(* of the socket layer on two CPUs with a client and a server connection   *)
(* (side "stop", module SsShutdown) or about one server connection that    *)
(* fails, connects again and is removed (side "conn", module SrvConn).     *)
(***************************************************************************)
EXTENDS SrvConn, SsShutdown

VARIABLE side

MCDeath == -10

SidesInit == Init /\ StopInit /\ side \in {"stop", "conn"}
SidesNext ==
    /\ UNCHANGED side
    /\ \/ side = "stop" /\ StopNext /\ UNCHANGED vars
       \/ side = "conn" /\ Next /\ UNCHANGED stopVars
ConnFairness ==
    /\ WF_vars(side = "conn" /\ Timer) /\ WF_vars(side = "conn" /\ Drop)
    /\ WF_vars(side = "conn" /\ Release) /\ WF_vars(side = "conn" /\ Disconnect)
    /\ \A s \in Sock : WF_vars(side = "conn" /\ ss_tx_action(s))
    /\ \A u \in User : WF_vars(side = "conn" /\ tfw_srv_conn_put(u))
\* A softirq handler runs to its end, queued closes are executed, the
\* stopping process is scheduled and time passes.  Peers owe nothing.
StopFairness ==
    /\ \A c \in CPU : WF_stopVars(side = "stop" /\ JobStep(c))
    /\ \A c \in CPU, k \in Conn : WF_stopVars(side = "stop" /\ TxClose(c, k))
    /\ WF_stopVars(side = "stop" /\ StopStep) /\ WF_stopVars(side = "stop" /\ Timeout)
SidesSpec == SidesInit /\ [][SidesNext]_<<side, vars, stopVars>> /\ ConnFairness /\ StopFairness
ConnSpec == side = "conn" /\ SidesInit /\ [][SidesNext]_<<side, vars, stopVars>> /\ ConnFairness
=============================================================================
