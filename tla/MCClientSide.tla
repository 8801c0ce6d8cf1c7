---------------------------- MODULE MCClientSide ----------------------------
(***************************************************************************)
(* The client side: a behaviour is about client connections and their      *)
(* accounting (side "conn", module ClientConn), about the pipelined        *)
(* requests of an HTTP/1 connection (side "h1", module RespOrder) or about *)
(* the streams of an HTTP/2 connection (side "h2", module H2Conn).         *)
(***************************************************************************)
EXTENDS ClientConn, RespOrder, H2Conn

VARIABLE side

ClientInit == Init /\ H1Init /\ H2Init /\ side \in {"conn", "h1", "h2"}
ClientNext ==
    /\ UNCHANGED side
    /\ \/ side = "conn" /\ Next /\ UNCHANGED <<h1Vars, h2Vars>>
       \/ side = "h1" /\ H1Next /\ UNCHANGED <<vars, h2Vars>>
       \/ side = "h2" /\ H2Next /\ UNCHANGED <<vars, h1Vars>>
ClientSpec ==
    /\ ClientInit /\ [][ClientNext]_<<side, vars, h1Vars, h2Vars>>
    /\ \A k \in Conn :
         /\ WF_vars(side = "conn" /\ TimerFires(k))
         /\ SF_vars(side = "conn" /\ tfw_sock_cli_keepalive_timer_cb(k) /\ closing' # closing)
         /\ WF_vars(side = "conn" /\ tfw_sock_cli_keepalive_timer_cb(k))
         /\ SF_vars(side = "conn" /\ k \in closing /\ tfw_sock_clnt_drop(k))
         /\ WF_vars(side = "conn" /\ ClntDropped(k)) /\ WF_vars(side = "conn" /\ SendModTimer(k))
         /\ WF_vars(side = "conn" /\ tfw_client_put(k))
    /\ \A k \in Cpu : WF_h1Vars(side = "h1" /\ Forward(k))
    /\ \A r \in Req : WF_h1Vars(side = "h1" /\ \E k \in Cpu : Respond(k, r))
    /\ WF_h1Vars(side = "h1" /\ tfw_http_conn_cli_drop) /\ WF_h1Vars(side = "h1" /\ SockWork)
    /\ WF_h2Vars(side = "h2" /\ Receive)
    /\ WF_h2Vars(side = "h2" /\ tfw_h2_conn_streams_cleanup)
    /\ \A r \in H2Req : WF_h2Vars(side = "h2" /\ Process(r))
=============================================================================
