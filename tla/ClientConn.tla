----------------------------- MODULE ClientConn -----------------------------
(***************************************************************************)
(* Client descriptors (fw/client.c) and client connections                 *)
(* (fw/sock_clnt.c, the reference counting of fw/connection.h).            *)
(*                                                                         *)
(* A client descriptor lives in TDB for ever; it is counted by its users   *)
(* and, once unused, keeps its security accounting (class_prvt) until it   *)
(* expires.  tfw_client_put() decrements the users without the lock that   *)
(* tfw_client_obtain() holds.  A connection is dropped by the socket layer *)
(* while requests, responses and its keep-alive timer may still use it.    *)
(***************************************************************************)
EXTENDS Integers, FiniteSets

CONSTANTS
    Client,     \* client addresses
    Conn,       \* connections
    MaxRefs,    \* bound on the references requests hold on a connection
    MaxSend     \* bound on the responses sent

ASSUME ClientConnAssumption == IsFiniteSet(Conn)

VARIABLES
    ent,     \* client entry: [users, expires, acct]
    online,  \* clnt.online
    peer,    \* the client a connection is linked to
    st,      \* life of a connection: none, up, dropping, dropped, freed
    refs,    \* conn->refcnt
    listed,  \* connection is in the peer's conn_list
    timer,   \* keep-alive timer: off, armed, running
    tlock,   \* timer_lock is held by a sender that saw the timer pending
    closing, \* connections with a close queued in the socket layer
    putting, \* connections whose tfw_client_put has brought users to zero
    nsend    \* responses sent so far

vars == <<ent, online, peer, st, refs, listed, timer, tlock, closing, putting, nsend>>
connVars == <<st, refs, listed, timer, tlock, closing, nsend>>

NoClient == "none"

Init ==
    /\ ent = [a \in Client |-> [users |-> 0, expires |-> "absent", acct |-> 0]]
    /\ online = 0
    /\ peer = [k \in Conn |-> NoClient]
    /\ st = [k \in Conn |-> "none"]
    /\ refs = [k \in Conn |-> 0]
    /\ listed = {} /\ closing = {} /\ tlock = {} /\ putting = {}
    /\ timer = [k \in Conn |-> "off"]
    /\ nsend = 0

-----------------------------------------------------------------------------
(* client.c                                                                 *)

\* (mutation: the time of expiry is left as it was)
ObtainedStale(e) ==
    [users   |-> e.users + 1,
     expires |-> e.expires,
     acct    |-> IF e.expires \in {"past", "absent"} THEN 0 ELSE e.acct]

\* tfw_client_obtain: tfw_client_ent_init for a new entry,
\* tfw_client_addr_eq for one that is found.  An entry that has expired
\* loses its accounting.
Obtained(e) ==
    [users   |-> e.users + 1,
     expires |-> "never",
     acct    |-> IF e.expires \in {"past", "absent"} THEN 0 ELSE e.acct]

\* TFW_INC_STAT_BH(clnt.online) when the entry is created or users becomes 1
BecameOnline(e) == e.users = 0

\* tfw_client_put, the part under ent->lock
tfw_client_put(k) ==
    /\ k \in putting
    /\ putting' = putting \ {k}
    /\ \/ /\ ent[peer[k]].users # 0
          /\ UNCHANGED <<ent, online>>
       \/ /\ ent[peer[k]].users = 0
          /\ ent' = [ent EXCEPT ![peer[k]].expires = "set"]
          /\ online' = online - 1
    /\ UNCHANGED <<peer, connVars>>

\* the expiration time passes
Expire(a) ==
    /\ ent[a].expires = "set"
    /\ ent' = [ent EXCEPT ![a].expires = "past"]
    /\ UNCHANGED <<online, peer, connVars, putting>>

\* the unlocked part of tfw_client_put: atomic_dec_and_test
Dec(a) == [ent EXCEPT ![a].users = @ - 1]

-----------------------------------------------------------------------------
(* sock_clnt.c                                                              *)

\* tfw_sock_clnt_new: the connection is linked with its socket and its
\* peer and the keep-alive timer is started; the accounting of the client
\* is charged.
tfw_sock_clnt_new(k, a) ==
    /\ st[k] = "none"
    /\ LET e == Obtained(ent[a]) IN
       ent' = [ent EXCEPT ![a] = [users |-> e.users, expires |-> e.expires, acct |-> 1]]
    /\ online' = IF BecameOnline(ent[a]) THEN online + 1 ELSE online
    /\ peer' = [peer EXCEPT ![k] = a]
    /\ st' = [st EXCEPT ![k] = "up"]
    /\ refs' = [refs EXCEPT ![k] = 1]
    /\ listed' = listed \cup {k}
    /\ timer' = [timer EXCEPT ![k] = "armed"]
    /\ UNCHANGED <<tlock, closing, putting, nsend>>

\* its error paths: no memory for the connection, or conn_init refused it
ClntNewFailed(k, a) ==
    /\ st[k] = "none"
    /\ LET e == Obtained(ent[a]) IN
       ent' = [ent EXCEPT ![a] = [users |-> e.users - 1, expires |-> e.expires, acct |-> e.acct]]
    /\ online' = IF BecameOnline(ent[a]) THEN online + 1 ELSE online
    /\ peer' = [peer EXCEPT ![k] = a]
    /\ st' = [st EXCEPT ![k] = "freed"]
    /\ putting' = IF ent'[a].users = 0 THEN putting \cup {k} ELSE putting
    /\ UNCHANGED <<refs, listed, timer, tlock, closing, nsend>>

\* tfw_sock_clnt_drop up to del_timer_sync: wait for timer_lock and for a
\* running callback, stop the timer
tfw_sock_clnt_drop(k) ==
    /\ st[k] = "up" /\ k \notin tlock /\ timer[k] # "running"
    /\ timer' = [timer EXCEPT ![k] = "off"]
    /\ st' = [st EXCEPT ![k] = "dropping"]
    /\ UNCHANGED <<ent, online, peer, refs, listed, tlock, closing, putting, nsend>>

\* tfw_cli_conn_release, called by the last tfw_connection_put
Released(k) ==
    /\ st' = [st EXCEPT ![k] = "freed"]
    /\ ent' = Dec(peer[k])
    /\ putting' = IF ent'[peer[k]].users = 0 THEN putting \cup {k} ELSE putting

\* s is the state of a connection that others still use
tfw_connection_put(k, s) ==
    /\ refs' = [refs EXCEPT ![k] = @ - 1]
    /\ \/ refs[k] = 1 /\ Released(k)
       \/ /\ refs[k] # 1
          /\ st' = [st EXCEPT ![k] = s]
          /\ UNCHANGED <<ent, putting>>

\* the rest of tfw_sock_clnt_drop
ClntDropped(k) ==
    /\ st[k] = "dropping"
    /\ listed' = listed \ {k}
    /\ closing' = closing \ {k}
    /\ tfw_connection_put(k, "dropped")
    /\ UNCHANGED <<online, peer, timer, tlock, nsend>>

\* a request or a response on the fly takes and releases a reference
ConnGet(k) ==
    /\ st[k] = "up" /\ refs[k] < MaxRefs
    /\ refs' = [refs EXCEPT ![k] = @ + 1]
    /\ UNCHANGED <<ent, online, peer, st, listed, timer, tlock, closing, putting, nsend>>

Held(k) == refs[k] > (IF st[k] \in {"up", "dropping"} THEN 1 ELSE 0)

ConnPut(k) ==
    /\ Held(k) /\ k \notin tlock
    /\ tfw_connection_put(k, st[k])
    /\ UNCHANGED <<online, peer, listed, timer, tlock, closing, nsend>>

\* (mutation: the timer is restarted whether or not it is pending)
CliConnSendAlways(k) ==
    /\ Held(k) /\ k \notin tlock /\ nsend < MaxSend
    /\ nsend' = nsend + 1
    /\ tlock' = tlock \cup {k}
    /\ UNCHANGED <<ent, online, peer, st, refs, listed, timer, closing, putting>>

\* tfw_cli_conn_send: after the data, timer_lock is taken and the timer
\* looked at ...
tfw_cli_conn_send(k) ==
    /\ Held(k) /\ k \notin tlock /\ nsend < MaxSend
    /\ nsend' = nsend + 1
    /\ tlock' = IF timer[k] = "armed" THEN tlock \cup {k} ELSE tlock
    /\ UNCHANGED <<ent, online, peer, st, refs, listed, timer, closing, putting>>

\* ... and restarted if it was pending
SendModTimer(k) ==
    /\ k \in tlock
    /\ tlock' = tlock \ {k}
    /\ timer' = [timer EXCEPT ![k] = IF @ = "off" THEN "armed" ELSE @]
    /\ UNCHANGED <<ent, online, peer, st, refs, listed, closing, putting, nsend>>

\* the timer fires, unless a sender postpones it
TimerFires(k) ==
    /\ timer[k] = "armed"
    /\ timer' = [timer EXCEPT ![k] = "running"]
    /\ UNCHANGED <<ent, online, peer, st, refs, listed, tlock, closing, putting, nsend>>

\* (mutation: a refused close is not tried again)
KeepaliveOnce(k) ==
    /\ timer[k] = "running"
    /\ \/ closing' = closing \cup {k}
       \/ UNCHANGED closing
    /\ timer' = [timer EXCEPT ![k] = "off"]
    /\ UNCHANGED <<ent, online, peer, st, refs, listed, tlock, putting, nsend>>

\* tfw_sock_cli_keepalive_timer_cb: close asynchronously, try again a
\* second later if the work queue is full
tfw_sock_cli_keepalive_timer_cb(k) ==
    /\ timer[k] = "running"
    /\ \/ /\ closing' = closing \cup {k}
          /\ timer' = [timer EXCEPT ![k] = "off"]
       \/ /\ timer' = [timer EXCEPT ![k] = "armed"]
          /\ UNCHANGED closing
    /\ UNCHANGED <<ent, online, peer, st, refs, listed, tlock, putting, nsend>>

\* tfw_cli_conn_close_all(_sync): walk the peer's list
CloseAll(a) ==
    /\ \E k \in listed : peer[k] = a
    /\ closing' = closing \cup {k \in listed : peer[k] = a}
    /\ UNCHANGED <<ent, online, peer, st, refs, listed, timer, tlock, putting, nsend>>

Next ==
    \/ \E k \in Conn, a \in Client : tfw_sock_clnt_new(k, a) \/ ClntNewFailed(k, a)
    \/ \E a \in Client : Expire(a) \/ CloseAll(a)
    \/ \E k \in Conn :
          \/ tfw_client_put(k) \/ tfw_sock_clnt_drop(k) \/ ClntDropped(k)
          \/ ConnGet(k) \/ ConnPut(k)
          \/ tfw_cli_conn_send(k) \/ SendModTimer(k)
          \/ TimerFires(k) \/ tfw_sock_cli_keepalive_timer_cb(k)

(* Timers fire, a queued close is executed (a drop), lock holders go on,    *)
(* and work is not refused for ever.                                        *)
Fairness ==
    \A k \in Conn :
        /\ WF_vars(TimerFires(k))
        /\ SF_vars(tfw_sock_cli_keepalive_timer_cb(k) /\ closing' # closing)
        /\ WF_vars(tfw_sock_cli_keepalive_timer_cb(k))
        /\ SF_vars(k \in closing /\ tfw_sock_clnt_drop(k)) /\ WF_vars(ClntDropped(k))
        /\ WF_vars(SendModTimer(k)) /\ WF_vars(tfw_client_put(k))

Spec == Init /\ [][Next]_vars
FairSpec == Spec /\ Fairness

-----------------------------------------------------------------------------
(* Properties *)

(* BUG_ON(timer_pending(&cli_conn->timer)) of tfw_cli_conn_free: when a     *)
(* connection is freed its keep-alive timer is neither pending nor running, *)
(* although senders restart it and its callback restarts itself.            *)
NoTimerAfterFree ==
    \A k \in Conn : st[k] \in {"dropped", "freed"} => timer[k] = "off" /\ k \notin tlock

(* The security accounting of a client is wiped only when nobody uses the   *)
(* client: an unlocked decrement of users racing with a new connection      *)
(* must not let the entry expire under it.                                  *)
AccountKept ==
    [][\A a \in Client : ent[a].acct = 1 /\ ent'[a].acct = 0 => ent[a].users = 0]_vars

(* An idle connection does not stay: once senders are silent the keep-alive *)
(* timer closes it.                                                         *)
IdleIsClosed == \A k \in Conn : st[k] = "up" ~> st[k] \in {"dropped", "freed"}

=============================================================================
