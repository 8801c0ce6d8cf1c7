------------------------------- MODULE HttpFwd -------------------------------
(***************************************************************************)
(* Forwarding of requests to server connections (fw/http.c).               *)
(*                                                                         *)
(* A server connection keeps the requests it has not got a response for in *)
(* fwd_queue; msg_sent points to the last one that was sent.  A request    *)
(* leaves the queue with its response, by eviction (time out, client gone, *)
(* too many retries), by a forwarding error, or when the queue is cut off  *)
(* and its requests are rescheduled to other connections.  After a         *)
(* reconnect the sent requests are sent again: the first one at once, the  *)
(* others when its response has come.                                      *)
(*                                                                         *)
(* Everything done under fwd_qlock is a run of steps of the lock holder    *)
(* (ctx), one per loop iteration, because the flag of a non-idempotent     *)
(* request is cleared under another lock.  A time-out, a disconnected      *)
(* client and a health monitor request take the same way out of a queue.   *)
(***************************************************************************)
EXTENDS Integers, Sequences, SequencesExt, FiniteSets

CONSTANTS
    Req,         \* requests
    NonIdemp,    \* those marked TFW_HTTP_B_NON_IDEMP when received
    Conn,        \* server connections
    RetryNip,    \* TFW_SRV_RETRY_NIP of the server group
    MaxRefwd,    \* max_refwd of the server group
    MaxDrop,     \* bound on the connection drops
    StaleCheck   \* a scheduler may look at a connection long before it takes it

ASSUME FwdAssumption ==
    /\ NonIdemp \subseteq Req /\ "none" \notin Req /\ "none" \notin Conn
    /\ RetryNip \in BOOLEAN /\ StaleCheck \in BOOLEAN
    /\ MaxRefwd \in Nat /\ MaxDrop \in Nat

NoReq == "none"
NoConn == "none"

VARIABLES
    queue,    \* fwd_queue
    msgSent,  \* msg_sent
    nipq,     \* nip_queue; TFW_CONN_B_HASNIP is nipq # {}
    flags,    \* TFW_CONN_B_RESEND and TFW_CONN_B_QFORWD
    up,       \* up, closing (the socket is closed), down (put to death),
              \* idle (released), revived (tfw_http_conn_repair is due)
    wire,     \* sent on the current socket and not answered by the server
    ctx,      \* the holder of fwd_qlock
    nip,      \* requests with TFW_HTTP_B_NON_IDEMP
    retries,  \* req->retries
    sent,     \* how many times a request has got to a server
    fresh,    \* requests to be scheduled
    pick,     \* the connection a scheduler has found for a request
    held,     \* requests whose picked connection is held
    limbo,    \* requests cut off a queue, to be rescheduled
    errq,     \* requests to be answered with an error
    got,      \* the request whose response a request has been answered with
    drops     \* connection drops so far

qVars == <<queue, msgSent, nipq, flags>>
reqVars == <<fresh, pick, held, limbo, errq, got>>
vars == <<qVars, up, wire, ctx, nip, retries, sent, reqVars, drops>>

Idle == [pc |-> "idle", i |-> 0, left |-> 0, resent |-> NoReq,
         by |-> "none", req |-> NoReq]

Init ==
    /\ queue = [c \in Conn |-> <<>>]
    /\ msgSent = [c \in Conn |-> NoReq]
    /\ nipq = [c \in Conn |-> {}]
    /\ flags = [c \in Conn |-> {}]
    /\ up = [c \in Conn |-> "up"]
    /\ wire = [c \in Conn |-> <<>>]
    /\ ctx = [c \in Conn |-> Idle]
    /\ nip = NonIdemp
    /\ retries = [r \in Req |-> 0]
    /\ sent = [r \in Req |-> 0]
    /\ fresh = Req
    /\ pick = [r \in Req |-> NoConn]
    /\ held = {} /\ limbo = {} /\ errq = {}
    /\ got = [r \in Req |-> NoReq]
    /\ drops = 0

-----------------------------------------------------------------------------
(* Queue helpers                                                            *)

Unlocked(c) == ctx[c].pc = "idle"
Active(c) == up[c] \in {"up", "revived"}
Live(c) == Active(c) \/ up[c] = "closing"
Restricted(c) == "resend" \in flags[c]

IndexOf(r, q) == CHOOSE i \in 1..Len(q) : q[i] = r

\* tfw_http_conn_on_hold
OnHold(m) == m \in nip

\* tfw_http_conn_drained
Drained(q, m) == q = <<>> \/ (m # NoReq /\ m = Last(q))

\* tfw_http_conn_need_fwd
NeedFwd(q, m) == ~OnHold(m) /\ ~Drained(q, m)

\* __tfw_http_conn_msg_sent_prev
MsgSentPrev(q, m) == IF Head(q) = m THEN NoReq ELSE q[IndexOf(m, q) - 1]

\* tfw_http_req_delist
Delisted(c, r) ==
    /\ queue' = [queue EXCEPT ![c] = RemoveAt(@, IndexOf(r, @))]
    /\ nipq' = [nipq EXCEPT ![c] = @ \ {r}]

\* tfw_http_fwdq_reset, tfw_http_conn_snip_fwd_queue
QueueReset(c) ==
    /\ queue' = [queue EXCEPT ![c] = <<>>]
    /\ msgSent' = [msgSent EXCEPT ![c] = NoReq]
    /\ nipq' = [nipq EXCEPT ![c] = {}]

\* the start of the loop of tfw_http_conn_fwd_unsent: the request that
\* follows msg_sent in the queue q
Unsent(q, m, by, r) ==
    [pc |-> "unsent", i |-> IF m = NoReq THEN 1 ELSE IndexOf(m, q) + 1, left |-> 0,
     resent |-> NoReq, by |-> by, req |-> r]

\* the start of the loop of tfw_http_conn_resend
Resend(q, m, by) ==
    [pc |-> "resend", i |-> 1, left |-> IndexOf(m, q), resent |-> NoReq,
     by |-> by, req |-> NoReq]

\* tfw_connection_send succeeds
Transmit(c, r) ==
    /\ Active(c)
    /\ wire' = [wire EXCEPT ![c] = Append(@, r)]
    /\ sent' = [sent EXCEPT ![r] = IF @ < 2 THEN @ + 1 ELSE @]

-----------------------------------------------------------------------------
(* Scheduling                                                               *)

\* the scheduler's look at TFW_CONN_B_RESEND
tfw_srv_conn_restricted(r, c) ==
    /\ StaleCheck
    /\ r \in fresh /\ pick[r] = NoConn
    /\ ~Restricted(c)
    /\ pick' = [pick EXCEPT ![r] = c]
    /\ UNCHANGED <<qVars, up, wire, ctx, nip, retries, sent, fresh, held, limbo, errq, got, drops>>

\* tfw_srv_conn_get_if_live on the connection that was looked at before
GetIfLiveLate(r) ==
    /\ r \in fresh \ held /\ pick[r] # NoConn
    /\ \/ Live(pick[r]) /\ held' = held \cup {r} /\ UNCHANGED pick
       \/ ~Live(pick[r]) /\ pick' = [pick EXCEPT ![r] = NoConn] /\ UNCHANGED held
    /\ UNCHANGED <<qVars, up, wire, ctx, nip, retries, sent, fresh, limbo, errq, got, drops>>

\* tfw_http_get_srv_conn: the look and tfw_srv_conn_get_if_live
tfw_http_get_srv_conn(r, c) ==
    /\ r \in fresh /\ pick[r] = NoConn
    /\ ~Restricted(c) /\ Live(c)
    /\ pick' = [pick EXCEPT ![r] = c]
    /\ held' = held \cup {r}
    /\ UNCHANGED <<qVars, up, wire, ctx, nip, retries, sent, fresh, limbo, errq, got, drops>>

\* no connection: 502, or 500 when the request cannot be adjusted
NoSrvConn(r) ==
    /\ r \in fresh /\ pick[r] = NoConn
    /\ fresh' = fresh \ {r}
    /\ errq' = errq \cup {r}
    /\ UNCHANGED <<qVars, up, wire, ctx, nip, retries, sent, pick, held, limbo, got, drops>>

\* tfw_http_req_enlist
tfw_http_req_enlist(c, r) ==
    /\ queue' = [queue EXCEPT ![c] = Append(@, r)]
    /\ nipq' = [nipq EXCEPT ![c] = IF r \in nip THEN @ \cup {r} ELSE @]

\* tfw_http_req_fwd_resched, and tfw_http_req_fwd with resched: the request
\* is enlisted and, unless the queue is on hold, the unsent requests are
\* forwarded.  A request that is being rescheduled (it has been retried)
\* does not wait on hold.
tfw_http_req_fwd(r, c) ==
    /\ r \in held /\ pick[r] = c /\ Unlocked(c)
    /\ \/ /\ OnHold(msgSent[c]) /\ retries[r] = 0
          /\ tfw_http_req_enlist(c, r)
          /\ fresh' = fresh \ {r}
          /\ held' = held \ {r} /\ pick' = [pick EXCEPT ![r] = NoConn]
          /\ UNCHANGED <<ctx, limbo>>
       \/ /\ OnHold(msgSent[c]) /\ retries[r] > 0
          /\ fresh' = fresh \ {r} /\ limbo' = limbo \cup {r}
          /\ held' = held \ {r} /\ pick' = [pick EXCEPT ![r] = NoConn]
          /\ UNCHANGED <<queue, nipq, ctx>>
       \/ /\ ~OnHold(msgSent[c])
          /\ tfw_http_req_enlist(c, r)
          /\ fresh' = fresh \ {r}
          /\ ctx' = [ctx EXCEPT ![c] =
                        Unsent(queue'[c], msgSent[c], IF retries[r] > 0 THEN "resched" ELSE "fwd", r)]
          /\ UNCHANGED <<pick, held, limbo>>
    /\ UNCHANGED <<msgSent, flags, up, wire, nip, retries, sent, errq, got, drops>>

\* tfw_http_fwdq_resched and tfw_http_req_resched: a request of a queue
\* that was cut off is evicted, or scheduled again
tfw_http_fwdq_resched(r) ==
    /\ r \in limbo
    /\ limbo' = limbo \ {r}
    /\ \/ /\ errq' = errq \cup {r}   \* stale, or no connection
          /\ UNCHANGED <<fresh, retries>>
       \/ /\ r \in nip /\ ~RetryNip
          /\ errq' = errq \cup {r}
          /\ UNCHANGED <<fresh, retries>>
       \/ /\ r \notin nip \/ RetryNip
          /\ retries' = [retries EXCEPT ![r] = @ + 1]
          /\ \/ /\ retries[r] >= MaxRefwd
                /\ errq' = errq \cup {r}
                /\ UNCHANGED fresh
             \/ /\ retries[r] < MaxRefwd
                /\ fresh' = fresh \cup {r}
                /\ UNCHANGED errq
    /\ UNCHANGED <<qVars, up, wire, ctx, nip, sent, pick, held, got, drops>>

\* tfw_http_req_zap_error
tfw_http_req_zap_error(r) ==
    /\ r \in errq
    /\ errq' = errq \ {r}
    /\ got' = [got EXCEPT ![r] = "error"]
    /\ UNCHANGED <<qVars, up, wire, ctx, nip, retries, sent, fresh, pick, held, limbo, drops>>

\* tfw_http_req_add_seq_queue of the next request of the same client
ClearNip(r) ==
    /\ r \in nip /\ got[r] = NoReq
    /\ nip' = nip \ {r}
    /\ UNCHANGED <<qVars, up, wire, ctx, retries, sent, reqVars, drops>>

-----------------------------------------------------------------------------
(* The loops under fwd_qlock                                                *)

\* the lock is released and the connection is put
Unlock(c) ==
    /\ ctx' = [ctx EXCEPT ![c] = Idle]
    /\ held' = held \ {ctx[c].req}
    /\ pick' = [r \in Req |-> IF r = ctx[c].req THEN NoConn ELSE pick[r]]

\* (mutation: the restriction stays)
ReenabledNever(c, q) == flags[c]

\* tfw_srv_conn_reenable_if_done
Reenabled(c, q) == IF q = <<>> THEN {} ELSE flags[c]

\* the request at the cursor
Cur(c) == queue[c][ctx[c].i]

\* tfw_http_conn_fwd_unsent returns 0
UnsentDone(c) ==
    /\ Unlock(c)
    /\ flags' = [flags EXCEPT ![c] = IF ctx[c].by \in {"popr", "repair"}
                                     THEN Reenabled(c, queue[c]) ELSE @]

\* the end of the queue
UnsentEnd(c) ==
    /\ ctx[c].pc = "unsent" /\ ctx[c].i > Len(queue[c])
    /\ UnsentDone(c)
    /\ UNCHANGED <<queue, msgSent, nipq, up, wire, nip, retries, sent, fresh, limbo, errq, got, drops>>

\* tfw_http_req_fwd_single: the request is stale, or it cannot be sent for
\* a reason of its own; it leaves the queue
UnsentEvict(c) ==
    /\ ctx[c].pc = "unsent" /\ ctx[c].i <= Len(queue[c])
    /\ Delisted(c, Cur(c))
    /\ errq' = errq \cup {Cur(c)}
    /\ UNCHANGED <<msgSent, flags, up, wire, ctx, nip, retries, sent, fresh, pick, held, limbo, got, drops>>

\* tfw_http_req_fwd_single: the request is sent; a non-idempotent request
\* ends the loop
UnsentSend(c) ==
    LET r == Cur(c) IN
    /\ ctx[c].pc = "unsent" /\ ctx[c].i <= Len(queue[c])
    /\ Transmit(c, r)
    /\ msgSent' = [msgSent EXCEPT ![c] = r]
    /\ \/ /\ r \in nip
          /\ UnsentDone(c)
          /\ UNCHANGED nipq
       \/ /\ r \notin nip
          /\ nipq' = [nipq EXCEPT ![c] = @ \ {r}]
          /\ ctx' = [ctx EXCEPT ![c].i = @ + 1]
          /\ UNCHANGED <<flags, pick, held>>
    /\ UNCHANGED <<queue, up, nip, retries, fresh, limbo, errq, got, drops>>

\* -EBADF, or -EBUSY while a response is awaited: the request is left
UnsentBroken(c) ==
    /\ ctx[c].pc = "unsent" /\ ctx[c].i <= Len(queue[c])
    /\ ~Active(c) \/ msgSent[c] # NoReq
    /\ UnsentDone(c)
    /\ UNCHANGED <<queue, msgSent, nipq, up, wire, nip, retries, sent, fresh, limbo, errq, got, drops>>

\* (mutation: -EBUSY leaves the requests in the queue in every case)
UnsentBusyLeft(c) ==
    /\ ctx[c].pc = "unsent" /\ ctx[c].i <= Len(queue[c])
    /\ Active(c) /\ msgSent[c] = NoReq
    /\ UnsentDone(c)
    /\ UNCHANGED <<queue, msgSent, nipq, up, wire, nip, retries, sent, fresh, limbo, errq, got, drops>>

\* (mutation: the request is not removed before it tries the next one)
UnsentBusyKept(c) ==
    /\ ctx[c].pc = "unsent" /\ ctx[c].i <= Len(queue[c])
    /\ Active(c) /\ msgSent[c] = NoReq
    /\ Unlock(c)
    /\ limbo' = limbo \cup ({ctx[c].req} \cap Req)
    /\ UNCHANGED <<qVars, up, wire, nip, retries, sent, fresh, errq, got, drops>>

\* -EBUSY and no response is awaited: a request that is being rescheduled
\* tries the next connection; otherwise all the queue is cut off
UnsentBusy(c) ==
    /\ ctx[c].pc = "unsent" /\ ctx[c].i <= Len(queue[c])
    /\ Active(c) /\ msgSent[c] = NoReq
    /\ Unlock(c)
    /\ \/ /\ ctx[c].by = "resched"
          /\ Delisted(c, ctx[c].req)
          /\ limbo' = limbo \cup {ctx[c].req}
          /\ UNCHANGED <<msgSent, flags>>
       \/ /\ ctx[c].by # "resched"
          /\ QueueReset(c)
          /\ limbo' = limbo \cup Range(queue[c])
          /\ flags' = [flags EXCEPT ![c] = IF ctx[c].by = "fwd" THEN @ ELSE {}]
    /\ UNCHANGED <<up, wire, nip, retries, sent, fresh, errq, got, drops>>

\* tfw_http_conn_resend: the request at the cursor leaves the queue
ResendEvict(c) ==
    /\ ctx[c].pc = "resend" /\ ctx[c].left > 0
    /\ Delisted(c, Cur(c))
    /\ errq' = errq \cup {Cur(c)}
    /\ ctx' = [ctx EXCEPT ![c].left = @ - 1]
    /\ UNCHANGED <<msgSent, flags, up, wire, nip, retries, sent, fresh, pick, held, limbo, got, drops>>

\* it is sent again; the first one is enough for tfw_http_conn_repair
ResendSend(c) ==
    LET r == Cur(c) IN
    /\ ctx[c].pc = "resend" /\ ctx[c].left > 0
    /\ retries[r] < MaxRefwd
    /\ retries' = [retries EXCEPT ![r] = @ + 1]
    /\ Transmit(c, r)
    /\ ctx' = [ctx EXCEPT ![c].resent = r, ![c].i = @ + 1,
                          ![c].left = IF ctx[c].by = "repair" THEN 0 ELSE @ - 1]
    /\ UNCHANGED <<queue, msgSent, nipq, flags, up, nip, fresh, pick, held, limbo, errq, got, drops>>

\* -EBADF: everything is left for the next repair
ResendBroken(c) ==
    /\ ctx[c].pc = "resend" /\ ctx[c].left > 0
    /\ ~Active(c)
    /\ retries[Cur(c)] < MaxRefwd
    /\ retries' = [retries EXCEPT ![Cur(c)] = @ + 1]
    /\ Unlock(c)
    /\ UNCHANGED <<qVars, up, wire, nip, sent, fresh, limbo, errq, got, drops>>

\* tfw_http_conn_repair after an error, with fwd_qlock
RepairFailed(c) ==
    /\ Unlock(c)
    /\ QueueReset(c)
    /\ limbo' = limbo \cup Range(queue[c])
    /\ flags' = [flags EXCEPT ![c] = {}]

\* what tfw_http_conn_repair and tfw_http_conn_fwd_repair do after
\* tfw_http_conn_resend has left msg_sent at m
AfterResend(c, m) ==
    \/ /\ ctx[c].by = "repair" /\ m # NoReq
       /\ Unlock(c)
       /\ UNCHANGED flags
    \/ /\ ctx[c].by = "popr" \/ m = NoReq
       /\ NeedFwd(queue[c], m)
       /\ ctx' = [ctx EXCEPT ![c] = Unsent(queue[c], m, ctx[c].by, NoReq)]
       /\ flags' = [flags EXCEPT ![c] = @ \cup {"qforwd"}]
       /\ UNCHANGED <<pick, held>>
    \/ /\ ctx[c].by = "popr" \/ m = NoReq
       /\ ~NeedFwd(queue[c], m)
       /\ Unlock(c)
       /\ flags' = [flags EXCEPT ![c] = IF queue[c] = <<>> THEN {} ELSE @ \cup {"qforwd"}]

\* -EBUSY: msg_sent is shifted back to the last request sent again
ResendBusy(c) ==
    /\ ctx[c].pc = "resend" /\ ctx[c].left > 0
    /\ Active(c)
    /\ retries[Cur(c)] < MaxRefwd
    /\ retries' = [retries EXCEPT ![Cur(c)] = @ + 1]
    /\ \/ /\ ctx[c].by = "repair"
          /\ RepairFailed(c)
       \/ /\ ctx[c].by = "popr"
          /\ msgSent' = [msgSent EXCEPT ![c] = ctx[c].resent]
          /\ AfterResend(c, ctx[c].resent)
          /\ UNCHANGED <<queue, nipq, limbo>>
    /\ UNCHANGED <<up, wire, nip, sent, fresh, errq, got, drops>>

\* the end of the loop
ResendEnd(c) ==
    /\ ctx[c].pc = "resend" /\ ctx[c].left = 0
    /\ LET m == IF ctx[c].by = "popr" \/ ctx[c].resent = NoReq
                THEN ctx[c].resent ELSE msgSent[c]
       IN  /\ msgSent' = [msgSent EXCEPT ![c] = m]
           /\ AfterResend(c, m)
    /\ UNCHANGED <<queue, nipq, up, wire, nip, retries, sent, fresh, limbo, errq, got, drops>>

-----------------------------------------------------------------------------
(* Responses                                                                *)

\* (mutation: the requests that were sent before the drop are not sent again)
AfterPopNoResend(c, q, m) ==
    \/ /\ Restricted(c) /\ q = <<>>
       /\ flags' = [flags EXCEPT ![c] = {}]
       /\ UNCHANGED ctx
    \/ /\ ~Restricted(c) \/ q # <<>>
       /\ ctx' = IF NeedFwd(q, m) THEN
                 [ctx EXCEPT ![c] = Unsent(q, m, IF Restricted(c) THEN "popr" ELSE "pop", NoReq)]
              ELSE ctx
       /\ flags' = [flags EXCEPT ![c] = IF Restricted(c) THEN @ \cup {"qforwd"} ELSE @]

\* tfw_http_popreq, what follows the removal of the answered request:
\* tfw_http_conn_fwd_repair in a restricted connection, otherwise the
\* unsent requests are forwarded if that is possible
AfterPop(c, q, m) ==
    \/ /\ Restricted(c) /\ q = <<>>
       /\ flags' = [flags EXCEPT ![c] = {}]
       /\ UNCHANGED ctx
    \/ /\ Restricted(c) /\ q # <<>> /\ "qforwd" \notin flags[c] /\ m # NoReq
       /\ ctx' = [ctx EXCEPT ![c] = Resend(q, m, "popr")]
       /\ UNCHANGED flags
    \/ /\ Restricted(c) /\ q # <<>> /\ ("qforwd" \in flags[c] \/ m = NoReq)
       /\ flags' = [flags EXCEPT ![c] = @ \cup {"qforwd"}]
       /\ ctx' = IF NeedFwd(q, m) THEN [ctx EXCEPT ![c] = Unsent(q, m, "popr", NoReq)] ELSE ctx
    \/ /\ ~Restricted(c)
       /\ ctx' = IF NeedFwd(q, m) THEN [ctx EXCEPT ![c] = Unsent(q, m, "pop", NoReq)] ELSE ctx
       /\ UNCHANGED flags

\* tfw_http_resp_pair and tfw_http_popreq for the first request in the queue
Popped(c, r) ==
    /\ queue' = [queue EXCEPT ![c] = Tail(@)]
    /\ msgSent' = [msgSent EXCEPT ![c] = IF @ = r THEN NoReq ELSE @]
    /\ nipq' = [nipq EXCEPT ![c] = (@ \ {r}) \cap nip]

\* tfw_http_resp_cache: a response to the first request on the wire
tfw_http_resp_cache(c) ==
    /\ up[c] = "up" /\ Unlocked(c)
    /\ wire[c] # <<>> /\ queue[c] # <<>>
    /\ Popped(c, Head(queue[c]))
    /\ got' = [got EXCEPT ![Head(queue[c])] = Head(wire[c])]
    /\ wire' = [wire EXCEPT ![c] = Tail(@)]
    /\ AfterPop(c, queue'[c], msgSent'[c])
    /\ UNCHANGED <<up, nip, retries, sent, fresh, pick, held, limbo, errq, drops>>

\* the response is invalid or blocked: the request gets an error and the
\* connection is closed
BadResponse(c) ==
    /\ up[c] = "up" /\ Unlocked(c) /\ drops < MaxDrop
    /\ wire[c] # <<>> /\ queue[c] # <<>>
    /\ Popped(c, Head(queue[c]))
    /\ errq' = errq \cup {Head(queue[c])}
    /\ wire' = [wire EXCEPT ![c] = <<>>]
    /\ up' = [up EXCEPT ![c] = "closing"]
    /\ drops' = drops + 1
    /\ UNCHANGED <<flags, ctx, nip, retries, sent, fresh, pick, held, limbo, got>>

-----------------------------------------------------------------------------
(* Connection events                                                        *)

\* the socket is closed, what was sent is lost
SockClose(c) ==
    /\ up[c] = "up" /\ drops < MaxDrop
    /\ up' = [up EXCEPT ![c] = "closing"]
    /\ wire' = [wire EXCEPT ![c] = <<>>]
    /\ drops' = drops + 1
    /\ UNCHANGED <<qVars, ctx, nip, retries, sent, reqVars>>

\* tfw_connection_put_to_death
PutToDeath(c) ==
    /\ up[c] = "closing"
    /\ up' = [up EXCEPT ![c] = "down"]
    /\ UNCHANGED <<qVars, wire, ctx, nip, retries, sent, reqVars, drops>>

\* tfw_http_conn_release, when the last user has put the connection
tfw_http_conn_release(c) ==
    /\ up[c] = "down" /\ Unlocked(c)
    /\ \A r \in held : pick[r] # c
    /\ up' = [up EXCEPT ![c] = "idle"]
    /\ flags' = [flags EXCEPT ![c] = {}]
    /\ UNCHANGED <<queue, msgSent, nipq, wire, ctx, nip, retries, sent, reqVars, drops>>

\* a stale request found by tfw_http_conn_shrink_fwdq
tfw_http_conn_shrink_fwdq(c) ==
    /\ up[c] = "idle"
    /\ \E r \in Range(queue[c]) :
          /\ Delisted(c, r)
          /\ errq' = errq \cup {r}
          /\ msgSent' = [msgSent EXCEPT ![c] =
                            IF @ = r THEN MsgSentPrev(queue[c], r) ELSE @]
    /\ UNCHANGED <<flags, up, wire, ctx, nip, retries, sent, fresh, pick, held, limbo, got, drops>>

\* the reconnect attempts have been too many, or the server is removed
tfw_http_conn_shrink_fwdq_resched(c) ==
    /\ up[c] = "idle" /\ queue[c] # <<>>
    /\ QueueReset(c)
    /\ limbo' = limbo \cup Range(queue[c])
    /\ UNCHANGED <<flags, up, wire, ctx, nip, retries, sent, fresh, pick, held, errq, got, drops>>

\* tfw_sock_srv_connect_complete: tfw_http_conn_init and the revival
tfw_http_conn_init(c) ==
    /\ up[c] = "idle"
    /\ \/ /\ queue[c] = <<>>
          /\ up' = [up EXCEPT ![c] = "up"]
          /\ UNCHANGED flags
       \/ /\ queue[c] # <<>>
          /\ up' = [up EXCEPT ![c] = "revived"]
          /\ flags' = [flags EXCEPT ![c] = {"resend"}]
    /\ UNCHANGED <<queue, msgSent, nipq, wire, ctx, nip, retries, sent, reqVars, drops>>

\* what tfw_http_conn_repair does with the queue q and msg_sent at m
RepairStart(c, q, m) ==
    \/ /\ m # NoReq
       /\ ctx' = [ctx EXCEPT ![c] = Resend(q, m, "repair")]
       /\ UNCHANGED flags
    \/ /\ m = NoReq /\ q # <<>>
       /\ ctx' = [ctx EXCEPT ![c] = Unsent(q, m, "repair", NoReq)]
       /\ flags' = [flags EXCEPT ![c] = @ \cup {"qforwd"}]
    \/ /\ q = <<>>
       /\ flags' = [flags EXCEPT ![c] = {}]
       /\ UNCHANGED ctx

\* (mutation: tfw_http_conn_treatnip is not called)
RepairWithoutTreatnip(c) ==
    /\ up[c] = "revived" /\ Unlocked(c)
    /\ up' = [up EXCEPT ![c] = "up"]
    /\ RepairStart(c, queue[c], msgSent[c])
    /\ UNCHANGED <<queue, msgSent, nipq, wire, nip, retries, sent, reqVars, drops>>

\* tfw_http_conn_repair: tfw_http_conn_treatnip, then the first request
\* that was sent is sent again
tfw_http_conn_repair(c) ==
    /\ up[c] = "revived" /\ Unlocked(c)
    /\ up' = [up EXCEPT ![c] = "up"]
    /\ \/ /\ OnHold(msgSent[c]) /\ ~RetryNip
          /\ Delisted(c, msgSent[c])
          /\ errq' = errq \cup {msgSent[c]}
          /\ msgSent' = [msgSent EXCEPT ![c] = MsgSentPrev(queue[c], @)]
          /\ RepairStart(c, queue'[c], msgSent'[c])
       \/ /\ ~OnHold(msgSent[c]) \/ RetryNip
          /\ RepairStart(c, queue[c], msgSent[c])
          /\ UNCHANGED <<queue, msgSent, nipq, errq>>
    /\ UNCHANGED <<wire, nip, retries, sent, fresh, pick, held, limbo, got, drops>>

-----------------------------------------------------------------------------
Schedule(r) ==
    \/ \E c \in Conn : tfw_srv_conn_restricted(r, c)
    \/ GetIfLiveLate(r)
    \/ \E c \in Conn : tfw_http_get_srv_conn(r, c)
    \/ NoSrvConn(r)
    \/ \E c \in Conn : tfw_http_req_fwd(r, c)
    \/ tfw_http_fwdq_resched(r)
    \/ tfw_http_req_zap_error(r)

LockHolder(c) ==
    \/ UnsentEnd(c) \/ UnsentEvict(c) \/ UnsentSend(c) \/ UnsentBroken(c) \/ UnsentBusy(c)
    \/ ResendEvict(c) \/ ResendSend(c) \/ ResendBroken(c) \/ ResendBusy(c) \/ ResendEnd(c)

Failover(c) ==
    \/ PutToDeath(c) \/ tfw_http_conn_release(c)
    \/ tfw_http_conn_init(c) \/ tfw_http_conn_repair(c)
    \/ tfw_http_conn_shrink_fwdq(c) \/ tfw_http_conn_shrink_fwdq_resched(c)

Next ==
    \/ \E r \in Req : Schedule(r) \/ ClearNip(r)
    \/ \E c \in Conn : LockHolder(c) \/ Failover(c)
    \/ \E c \in Conn : tfw_http_resp_cache(c) \/ BadResponse(c) \/ SockClose(c)

Spec == Init /\ [][Next]_vars

\* Softirqs run, a connection in failover is retried by its timer, and a
\* server that has got a request answers it.
FairSpec ==
    /\ Spec
    /\ \A r \in Req : WF_vars(Schedule(r))
    /\ \A c \in Conn : /\ WF_vars(LockHolder(c)) /\ WF_vars(Failover(c))
                      /\ WF_vars(tfw_http_resp_cache(c))

-----------------------------------------------------------------------------
(* Properties                                                               *)

\* Types of the state; the cursor of a loop stays within the queue.
TypeOK ==
    /\ \A c \in Conn :
          /\ \A k \in 1..Len(queue[c]) : queue[c][k] \in Req
          /\ \A k \in 1..Len(wire[c]) : wire[c][k] \in Req
          /\ msgSent[c] \in Range(queue[c]) \cup {NoReq} \/ ctx[c].pc = "resend"
          /\ nipq[c] \subseteq Range(queue[c])
          /\ flags[c] \subseteq {"resend", "qforwd"}
          /\ up[c] \in {"up", "closing", "down", "idle", "revived"}
          /\ ctx[c].pc \in {"idle", "unsent", "resend"}
          /\ ctx[c].i \in 0 .. Len(queue[c]) + 1
          /\ ctx[c].left \in 0 .. Len(queue[c])
    /\ nip \subseteq NonIdemp
    /\ \A r \in Req : retries[r] \in 0 .. MaxRefwd + 1 /\ sent[r] \in 0..2
    /\ fresh \subseteq Req /\ held \subseteq Req /\ limbo \subseteq Req /\ errq \subseteq Req
    /\ \A r \in Req : pick[r] \in Conn \cup {NoConn}
    /\ drops \in 0..MaxDrop

\* A request is in exactly one place: about to be scheduled, in one
\* forwarding queue, cut off to be rescheduled, on the way to an error
\* response, or answered.  Nothing is lost or answered twice.
Places == {"fresh", "queued", "limbo", "error", "answered"}
IsAt(r, p) ==
    \/ p = "fresh" /\ r \in fresh
    \/ p = "queued" /\ \E c \in Conn : r \in Range(queue[c])
    \/ p = "limbo" /\ r \in limbo
    \/ p = "error" /\ r \in errq
    \/ p = "answered" /\ got[r] # NoReq
OneHome ==
    /\ \A c, d \in Conn : \A j \in 1..Len(queue[c]), k \in 1..Len(queue[d]) :
          queue[c][j] = queue[d][k] => c = d /\ j = k
    /\ \A r \in Req : \E p \in Places : \A o \in Places : IsAt(r, o) <=> o = p

\* "Requests must be forwarded in the same order they are put in the queue
\* ... otherwise pairing of requests with responses may get broken": what is
\* on the wire is how the queue begins, up to msg_sent when nothing has to be
\* sent again, whatever was evicted, re-sent, cut off or enlisted meanwhile.
WireMatchesQueue ==
    \A c \in Conn :
        /\ Active(c) => IsPrefix(wire[c], queue[c])
        /\ up[c] = "up" /\ Unlocked(c) /\ (~Restricted(c) \/ "qforwd" \in flags[c])
           => Len(wire[c]) = IF msgSent[c] = NoReq THEN 0 ELSE IndexOf(msgSent[c], queue[c])

\* The requests of an established connection are never left without a
\* response under way that will move the queue on.
QueueIsDriven ==
    \A c \in Conn :
        up[c] = "up" /\ Unlocked(c) /\ queue[c] # <<>> => wire[c] # <<>>

\* "The connection is not scheduled until all requests in it are re-sent",
\* and is scheduled again afterwards: an established connection with an
\* empty queue is not restricted.
NotRestrictedForever ==
    \A c \in Conn : up[c] = "up" /\ Unlocked(c) /\ queue[c] = <<>> => ~Restricted(c)

\* "A non-idempotent request that was forwarded but not responded to is not
\* re-sent or re-scheduled by default."
NipSentOnce == RetryNip \/ \A r \in nip : sent[r] <= 1

\* A request that gets a server's response gets its own.
OwnResponse == \A r \in Req : got[r] \in {NoReq, "error", r}

\* Every request is answered.
EveryRequestAnswered == \A r \in Req : <>(got[r] # NoReq)

\* No request is lost, doubled or stuck in a queue that nothing moves on.
NoneLost == TypeOK /\ OneHome /\ QueueIsDriven /\ NotRestrictedForever
=============================================================================
