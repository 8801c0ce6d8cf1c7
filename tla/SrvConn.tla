------------------------------- MODULE SrvConn -------------------------------
(***************************************************************************)
(* The life of one server connection (fw/sock_srv.c, the reference         *)
(* counting of fw/connection.h): connect attempts from the retry timer,    *)
(* failover, and the disconnect of a server that leaves the configuration. *)
(*                                                                         *)
(* The instance is reused by every connect attempt.  Its reference counter *)
(* has DEATHCNT added while the connection is in failover, so that the     *)
(* schedulers do not take it, and the destructor tfw_srv_conn_release runs *)
(* in whichever context puts the last reference.                           *)
(***************************************************************************)
EXTENDS Integers, FiniteSets

CONSTANTS
    User,       \* contexts that schedule a request to the connection
    MaxSock,    \* bound on the sockets created, one per connect attempt
    DEATHCNT    \* TFW_CONN_DEATHCNT

\* TFW_CONN_DEATHCNT (INT_MIN / 2) stays negative whoever uses the connection.
ASSUME SrvConnAssumption ==
    /\ IsFiniteSet(User) /\ MaxSock \in Nat
    /\ DEATHCNT \in Int /\ DEATHCNT + 1 + Cardinality(User) < 0

VARIABLES
    refcnt,   \* srv_conn->refcnt
    bits,     \* TFW_CONN_B_ACTIVE, TFW_CONN_B_DEL, TFW_CONN_B_STOPPED
    sk,       \* srv_conn->sk, NoSock when unlinked
    tcp,      \* state of each socket: none, fresh, syn, est, dead
    closing,  \* sockets with an SS_CLOSE work queued
    pending,  \* the retry timer is pending
    timer,    \* the timer callback: no, try, connect, nested
    drop,     \* tfw_sock_srv_connect_drop: idle, mark, put
    rel,      \* tfw_srv_conn_release: idle, unlink, test, arm, stop, put
    using,    \* users that hold a reference
    dpc,      \* tfw_sock_srv_disconnect, and its caller's server reference
    dsk,      \* the socket the disconnect passes to ss_close
    srvRef,   \* srv->refcnt
    freed     \* the server and its connections are freed

vars == <<refcnt, bits, sk, tcp, closing, pending, timer, drop, rel, using,
          dpc, dsk, srvRef, freed>>

Sock == 1..MaxSock
NoSock == 0

\* tfw_srv_conn_alloc; the configuration holds the server
Init ==
    /\ refcnt = DEATHCNT
    /\ bits = {}
    /\ sk = NoSock
    /\ tcp = [s \in Sock |-> "none"]
    /\ closing = {}
    /\ pending = FALSE
    /\ timer = "no"
    /\ drop = "idle"
    /\ rel = "idle"
    /\ using = {}
    /\ dpc = "idle"
    /\ dsk = NoSock
    /\ srvRef = 1
    /\ freed = FALSE

-----------------------------------------------------------------------------
(* Shared steps                                                             *)

\* tfw_connection_live
Live == refcnt > 0

\* (mutation: any counter that is not live is taken for the last put)
LastPutDead(rc) == rc <= 0

\* tfw_connection_put calls the destructor
LastPut(rc) == rc \in {0, DEATHCNT}

\* tfw_connection_put
ConnPut ==
    /\ refcnt' = refcnt - 1
    /\ rel' = IF LastPut(refcnt - 1) THEN "unlink" ELSE rel

\* tfw_server_put and tfw_server_destroy
SrvPut ==
    /\ srvRef' = srvRef - 1
    /\ freed' = (freed \/ srvRef = 1)

\* The socket is closed and connection_drop is called: the test of
\* TFW_CONN_B_DEL in tfw_sock_srv_connect_drop.
DropSock(s) ==
    /\ tcp' = [tcp EXCEPT ![s] = "dead"]
    /\ drop' = IF "del" \in bits THEN "put" ELSE "mark"

-----------------------------------------------------------------------------
(* Start and connect attempts                                               *)

\* tfw_sock_srv_conn_activate and the first tfw_sock_srv_connect_try_later
tfw_sock_srv_connect_srv ==
    /\ bits = {} /\ dpc = "idle"
    /\ bits' = {"active"}
    /\ srvRef' = srvRef + 1
    /\ pending' = TRUE
    /\ UNCHANGED <<refcnt, sk, tcp, closing, timer, drop, rel, using, dpc, dsk, freed>>

\* the timer fires: tfw_sock_srv_connect_retry_timer_cb
tfw_sock_srv_connect_retry_timer_cb ==
    /\ pending /\ timer = "no"
    /\ pending' = FALSE
    /\ timer' = "try"
    /\ UNCHANGED <<refcnt, bits, sk, tcp, closing, drop, rel, using, dpc, dsk, srvRef, freed>>

\* tfw_sock_srv_connect_try, a socket is created and linked
tfw_sock_srv_connect_try ==
    /\ timer = "try"
    /\ \E s \in Sock :
          /\ tcp[s] = "none" /\ \A t \in Sock : t < s => tcp[t] # "none"
          /\ tcp' = [tcp EXCEPT ![s] = "fresh"]
          /\ sk' = s
    /\ refcnt' = DEATHCNT + 1
    /\ timer' = "connect"
    /\ UNCHANGED <<bits, closing, pending, drop, rel, using, dpc, dsk, srvRef, freed>>

\* tfw_sock_srv_connect_try, the socket cannot be created: -ENOBUFS calls
\* the destructor, any other error stops the connection for good.
ConnectTryFailed ==
    /\ timer = "try"
    /\ timer' = "nested"
    /\ rel' \in {"unlink", "stop"}
    /\ UNCHANGED <<refcnt, bits, sk, tcp, closing, pending, drop, using, dpc, dsk, srvRef, freed>>

\* ss_connect, and connection_drop when it fails
ConnectIssued ==
    /\ timer = "connect"
    /\ \/ /\ tcp' = [tcp EXCEPT ![sk] = "syn"]
          /\ timer' = "no"
          /\ UNCHANGED drop
       \/ /\ DropSock(sk)
          /\ timer' = "nested"
    /\ UNCHANGED <<refcnt, bits, sk, closing, pending, rel, using, dpc, dsk, srvRef, freed>>

\* the callback returns from the destructor it has run
TimerReturn ==
    /\ timer = "nested" /\ drop = "idle" /\ rel = "idle"
    /\ timer' = "no"
    /\ UNCHANGED <<refcnt, bits, sk, tcp, closing, pending, drop, rel, using, dpc, dsk, srvRef, freed>>

-----------------------------------------------------------------------------
(* Upcalls of the socket layer                                              *)

\* tfw_sock_srv_connect_complete
tfw_sock_srv_connect_complete(s) ==
    /\ tcp[s] = "syn"
    /\ tcp' = [tcp EXCEPT ![s] = "est"]
    /\ refcnt' = 1
    /\ UNCHANGED <<bits, sk, closing, pending, timer, drop, rel, using, dpc, dsk, srvRef, freed>>

\* an error, a reset or a close by the peer, a refused connect or a failed
\* connection_new hook
SockError(s) ==
    /\ tcp[s] \in {"syn", "est"}
    /\ DropSock(s)
    /\ UNCHANGED <<refcnt, bits, sk, closing, pending, timer, rel, using, dpc, dsk, srvRef, freed>>

\* the SS_CLOSE branch of ss_tx_action
ss_tx_action(s) ==
    /\ s \in closing
    /\ closing' = closing \ {s}
    /\ \/ /\ tcp[s] \in {"syn", "est"}
          /\ DropSock(s)
       \/ /\ tcp[s] \notin {"syn", "est"}
          /\ UNCHANGED <<tcp, drop>>
    /\ UNCHANGED <<refcnt, bits, sk, pending, timer, rel, using, dpc, dsk, srvRef, freed>>

\* tfw_sock_srv_connect_drop: an established connection goes to failover
\* (tfw_connection_put_to_death)
DropMark ==
    /\ drop = "mark"
    /\ refcnt' = IF Live THEN refcnt + DEATHCNT ELSE refcnt
    /\ drop' = "put"
    /\ UNCHANGED <<bits, sk, tcp, closing, pending, timer, rel, using, dpc, dsk, srvRef, freed>>

\* tfw_sock_srv_connect_drop: tfw_connection_put
DropPut ==
    /\ drop = "put"
    /\ ConnPut
    /\ drop' = "idle"
    /\ UNCHANGED <<bits, sk, tcp, closing, pending, timer, using, dpc, dsk, srvRef, freed>>

-----------------------------------------------------------------------------
(* The destructor                                                           *)

\* tfw_srv_conn_release: tfw_connection_unlink_to_sk
Unlink ==
    /\ rel = "unlink"
    /\ sk' = NoSock
    /\ rel' = "test"
    /\ UNCHANGED <<refcnt, bits, tcp, closing, pending, timer, drop, using, dpc, dsk, srvRef, freed>>

\* tfw_srv_conn_release: test_bit(TFW_CONN_B_DEL)
TestDel ==
    /\ rel = "test"
    /\ rel' = IF "del" \in bits THEN "stop" ELSE "arm"
    /\ UNCHANGED <<refcnt, bits, sk, tcp, closing, pending, timer, drop, using, dpc, dsk, srvRef, freed>>

\* (mutation: the timer is left for the next failover)
TryLaterLost ==
    /\ rel = "arm"
    /\ rel' = "idle"
    /\ UNCHANGED <<refcnt, bits, sk, tcp, closing, pending, timer, drop, using, dpc, dsk, srvRef, freed>>

\* tfw_sock_srv_connect_try_later: mod_timer
tfw_sock_srv_connect_try_later ==
    /\ rel = "arm"
    /\ pending' = TRUE
    /\ rel' = "idle"
    /\ UNCHANGED <<refcnt, bits, sk, tcp, closing, timer, drop, using, dpc, dsk, srvRef, freed>>

\* tfw_srv_conn_stop: set_bit(TFW_CONN_B_STOPPED)
StopBit ==
    /\ rel = "stop"
    /\ bits' = bits \cup {"stopped"}
    /\ rel' = "put"
    /\ UNCHANGED <<refcnt, sk, tcp, closing, pending, timer, drop, using, dpc, dsk, srvRef, freed>>

\* tfw_srv_conn_stop: tfw_server_put
StopPut ==
    /\ rel = "put"
    /\ SrvPut
    /\ rel' = "idle"
    /\ UNCHANGED <<refcnt, bits, sk, tcp, closing, pending, timer, drop, using, dpc, dsk>>

-----------------------------------------------------------------------------
(* Schedulers and requests                                                  *)

\* tfw_srv_conn_get_if_live
tfw_srv_conn_get_if_live(u) ==
    /\ u \notin using /\ ~freed
    /\ Live
    /\ refcnt' = refcnt + 1
    /\ using' = using \cup {u}
    /\ UNCHANGED <<bits, sk, tcp, closing, pending, timer, drop, rel, dpc, dsk, srvRef, freed>>

\* tfw_srv_conn_put
tfw_srv_conn_put(u) ==
    /\ u \in using
    /\ using' = using \ {u}
    /\ ConnPut
    /\ UNCHANGED <<bits, sk, tcp, closing, pending, timer, drop, dpc, dsk, srvRef, freed>>

-----------------------------------------------------------------------------
(* tfw_sock_srv_disconnect                                                  *)

\* a connection that was never activated is left alone
DisconnectStart ==
    /\ dpc = "idle"
    /\ \/ /\ "active" \notin bits
          /\ dpc' = "return"
          /\ UNCHANGED bits
       \/ /\ "active" \in bits
          /\ bits' = bits \cup {"del"}
          /\ dpc' = "timer"
    /\ UNCHANGED <<refcnt, sk, tcp, closing, pending, timer, drop, rel, using, dsk, srvRef, freed>>

\* (mutation: timer_pending instead of del_timer_sync)
DelTimerPending ==
    /\ dpc = "timer"
    /\ timer = "no"
    /\ dpc' = IF pending THEN "stop" ELSE "read"
    /\ UNCHANGED <<refcnt, bits, sk, tcp, closing, pending, timer, drop, rel, using, dsk, srvRef, freed>>

\* del_timer_sync: waits for a running callback
DelTimer ==
    /\ dpc = "timer"
    /\ timer = "no"
    /\ pending' = FALSE
    /\ dpc' = IF pending THEN "stop" ELSE "read"
    /\ UNCHANGED <<refcnt, bits, sk, tcp, closing, timer, drop, rel, using, dsk, srvRef, freed>>

\* the refcnt test
DisconnectRead ==
    /\ dpc = "read"
    /\ dpc' = IF refcnt # DEATHCNT THEN "close" ELSE "test"
    /\ UNCHANGED <<refcnt, bits, sk, tcp, closing, pending, timer, drop, rel, using, dsk, srvRef, freed>>

\* (mutation: the test of TFW_CONN_B_STOPPED does not end the loop)
DisconnectTestForever ==
    /\ dpc = "test"
    /\ dpc' = "timer"
    /\ UNCHANGED <<refcnt, bits, sk, tcp, closing, pending, timer, drop, rel, using, dsk, srvRef, freed>>

\* the loop condition
DisconnectTest ==
    /\ dpc = "test"
    /\ dpc' = IF "stopped" \in bits THEN "return" ELSE "timer"
    /\ UNCHANGED <<refcnt, bits, sk, tcp, closing, pending, timer, drop, rel, using, dsk, srvRef, freed>>

\* tfw_connection_close: conn->sk is read and passed to ss_close
tfw_connection_close ==
    /\ dpc = "close"
    /\ dsk' = sk
    /\ dpc' = IF sk = NoSock THEN "return" ELSE "push"
    /\ UNCHANGED <<refcnt, bits, sk, tcp, closing, pending, timer, drop, rel, using, srvRef, freed>>

\* ss_close: the socket is held and the work is queued
ss_close ==
    /\ dpc = "push"
    /\ closing' = closing \cup {dsk}
    /\ dpc' = "return"
    /\ UNCHANGED <<refcnt, bits, sk, tcp, pending, timer, drop, rel, using, dsk, srvRef, freed>>

\* tfw_srv_conn_stop by the disconnect itself: set_bit
DisconnectStop ==
    /\ dpc = "stop"
    /\ bits' = bits \cup {"stopped"}
    /\ dpc' = "put"
    /\ UNCHANGED <<refcnt, sk, tcp, closing, pending, timer, drop, rel, using, dsk, srvRef, freed>>

\* (mutation: the server is left to the destructor)
DisconnectPutNone ==
    /\ dpc = "put"
    /\ dpc' = "return"
    /\ UNCHANGED <<refcnt, bits, sk, tcp, closing, pending, timer, drop, rel, using, dsk, srvRef, freed>>

\* tfw_srv_conn_stop by the disconnect itself: tfw_server_put
DisconnectPut ==
    /\ dpc = "put"
    /\ SrvPut
    /\ dpc' = "return"
    /\ UNCHANGED <<refcnt, bits, sk, tcp, closing, pending, timer, drop, rel, using, dsk>>

\* tfw_sock_srv_grace_shutdown_srv puts the server it has disconnected
DisconnectReturn ==
    /\ dpc = "return"
    /\ SrvPut
    /\ dpc' = "done"
    /\ UNCHANGED <<refcnt, bits, sk, tcp, closing, pending, timer, drop, rel, using, dsk>>

-----------------------------------------------------------------------------
Timer == \/ tfw_sock_srv_connect_retry_timer_cb \/ tfw_sock_srv_connect_try
         \/ ConnectTryFailed \/ ConnectIssued \/ TimerReturn
Upcall == \/ \E s \in Sock : tfw_sock_srv_connect_complete(s)
          \/ \E s \in Sock : SockError(s)
Drop == DropMark \/ DropPut
Release == \/ Unlink \/ TestDel \/ tfw_sock_srv_connect_try_later
           \/ StopBit \/ StopPut
Disconnect == \/ DelTimer \/ DisconnectRead \/ DisconnectTest
              \/ tfw_connection_close \/ ss_close
              \/ DisconnectStop \/ DisconnectPut \/ DisconnectReturn

Next ==
    \/ tfw_sock_srv_connect_srv
    \/ Timer \/ Upcall \/ Drop \/ Release
    \/ \E s \in Sock : ss_tx_action(s)
    \/ \E u \in User : tfw_srv_conn_get_if_live(u)
    \/ \E u \in User : tfw_srv_conn_put(u)
    \/ DisconnectStart \/ Disconnect

Spec == Init /\ [][Next]_vars

\* The contexts run to their end; nothing makes the peer, a configuration
\* change or a new request come.
FairSpec ==
    /\ Spec
    /\ WF_vars(Timer) /\ WF_vars(Drop) /\ WF_vars(Release) /\ WF_vars(Disconnect)
    /\ \A s \in Sock : WF_vars(ss_tx_action(s))
    /\ \A u \in User : WF_vars(tfw_srv_conn_put(u))

-----------------------------------------------------------------------------
(* Properties                                                               *)

\* Types of the state; the counters stay within what DEATHCNT leaves room for.
TypeOK ==
    /\ refcnt \in (DEATHCNT .. DEATHCNT + 1 + Cardinality(User))
                  \cup (0 .. 1 + Cardinality(User))
    /\ bits \subseteq {"active", "del", "stopped"}
    /\ sk \in Sock \cup {NoSock}
    /\ tcp \in [Sock -> {"none", "fresh", "syn", "est", "dead"}]
    /\ closing \subseteq Sock
    /\ pending \in BOOLEAN
    /\ timer \in {"no", "try", "connect", "nested"}
    /\ drop \in {"idle", "mark", "put"}
    /\ rel \in {"idle", "unlink", "test", "arm", "stop", "put"}
    /\ using \subseteq User
    /\ dpc \in {"idle", "timer", "read", "test", "close", "push", "stop", "put",
                "return", "done"}
    /\ dsk \in Sock \cup {NoSock}
    /\ srvRef \in 0..2
    /\ freed \in BOOLEAN

\* "The condition for reuse of an instance is that there're no more users":
\* while the destructor runs, and until the timer callback has linked a new
\* socket, no request holds the connection and no scheduler can take it.
ReuseUnused ==
    (rel # "idle" \/ pending \/ timer = "try") => using = {} /\ ~Live

\* The BUG_ONs of tfw_srv_conn_free and tfw_connection_validate_cleanup: when
\* the last server reference is put, neither the retry timer nor a user nor
\* the destructor can touch the connection any more.
FreedIsQuiet ==
    freed => /\ ~pending /\ timer \in {"no", "nested"}
             /\ refcnt \in {0, DEATHCNT}
             /\ using = {} /\ rel = "idle" /\ drop = "idle"

\* "Server must be put during connection release procedure": the reference
\* an activated connection holds is put by exactly one of the destructor,
\* the failed attempt and the disconnect.
ServerPutOnce ==
    srvRef = (IF dpc = "done" THEN 0 ELSE 1)
             + (IF /\ "active" \in bits
                   /\ "stopped" \in bits => rel = "put" \/ dpc = "put"
                THEN 1 ELSE 0)

\* The wait of tfw_sock_srv_disconnect for the destructor ends.
DisconnectReturns == dpc = "timer" ~> dpc = "done"

\* A connection that is neither deleted nor stopped does not stay in
\* failover: there is always an attempt under way or a timer for the next
\* one, until the attempts of the model are used up.
FailoverGoesOn ==
    (("active" \in bits /\ ~Live /\ dpc = "idle")
       ~> (Live \/ pending \/ timer # "no" \/ "stopped" \in bits \/ dpc # "idle"
           \/ \E s \in Sock : tcp[s] = "syn"))

\* "Every activated connection must pass through its destructor ... either
\* during failovering procedure or after it had been intentionally closed":
\* a deleted connection gets stopped.
DeletedIsStopped == "del" \in bits ~> "stopped" \in bits

(* A server connection is reused, released and freed by one side at a time, *)
(* and its reference to the server is put once.                             *)
ReleasedOnce == TypeOK /\ ReuseUnused /\ FreedIsQuiet /\ ServerPutOnce

(* The disconnect returns and failover never stalls.                        *)
SrvConnGoesOn == DisconnectReturns /\ FailoverGoesOn
=============================================================================
