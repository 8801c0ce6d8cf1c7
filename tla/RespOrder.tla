------------------------------ MODULE RespOrder ------------------------------
(***************************************************************************)
(* Responses to the pipelined requests of one client (fw/http.c).          *)
(*                                                                         *)
(* The requests of an HTTP/1 client connection are kept in seq_queue in    *)
(* the order they came.  Their responses get ready on any CPU and in any   *)
(* order; the CPU that makes the head of the queue ready cuts the ready    *)
(* prefix off under seq_qlock and sends it under ret_qlock, which it takes *)
(* before it lets seq_qlock go.  The connection may be dropped meanwhile.  *)
(***************************************************************************)
EXTENDS Integers, Sequences, SequencesExt, FiniteSets

CONSTANTS
    MaxReq,   \* bound on the requests of the client
    Cpu       \* CPUs responses come to

ASSUME RespOrderAssumption == MaxReq \in Nat /\ IsFiniteSet(Cpu)

Req == 1..MaxReq
NoReq == 0
Close == 0    \* a close in the work queue of the socket

VARIABLES
    received,   \* requests received so far
    seqq,       \* seq_queue
    flight,     \* requests whose response has not come
    ready,      \* requests whose response has TFW_HTTP_B_RESP_READY
    ctx,        \* a CPU: [pc, req, ret]
    work,       \* sends and closes queued in the socket layer
    alive,      \* the socket is alive
    dropped,    \* tfw_http_conn_cli_drop has run
    delivered,  \* responses the client has got
    reqRefs,    \* cli_conn->refcnt
    freed       \* how many times a request has been freed

h1Vars == <<received, seqq, flight, ready, ctx, work, alive, dropped, delivered, reqRefs, freed>>

Idle == [pc |-> "idle", req |-> NoReq, ret |-> <<>>]

H1Init ==
    /\ received = 0
    /\ seqq = <<>> /\ work = <<>> /\ delivered = <<>>
    /\ flight = {} /\ ready = {}
    /\ ctx = [k \in Cpu |-> Idle]
    /\ alive = TRUE /\ dropped = FALSE
    /\ reqRefs = 1
    /\ freed = [r \in Req |-> 0]

-----------------------------------------------------------------------------
\* (mutation: seq_qlock is released before ret_qlock is taken)
SeqUnlockedEarly == TRUE

\* seq_qlock is held by a CPU that waits for ret_qlock
SeqUnlocked == \A k \in Cpu : ctx[k].pc # "wait"

\* ret_qlock
RetUnlocked == \A k \in Cpu : ctx[k].pc # "send"

\* tfw_http_conn_msg_free of the requests in S, each puts the connection
Free(S) ==
    /\ freed' = [r \in Req |-> IF r \in S THEN freed[r] + 1 ELSE freed[r]]
    /\ reqRefs' = reqRefs - Cardinality(S)

\* (mutation: the first request that is not ready is cut off too)
ReadyPrefixPlus(q, rd) ==
    LET n == CHOOSE n \in 0..Len(q) :
                 /\ \A i \in 1..n : q[i] \in rd
                 /\ n < Len(q) => q[n + 1] \notin rd
    IN  IF n > 0 /\ n < Len(q) THEN SubSeq(q, 1, n + 1) ELSE SubSeq(q, 1, n)

\* (mutation: one response at a time)
ReadyPrefixHead(q, rd) == IF q # <<>> /\ q[1] \in rd THEN <<q[1]>> ELSE <<>>

\* the requests at the head of the queue q with a ready response
ReadyPrefix(q, rd) ==
    LET n == CHOOSE n \in 0..Len(q) :
                 /\ \A i \in 1..n : q[i] \in rd
                 /\ n < Len(q) => q[n + 1] \notin rd
    IN  SubSeq(q, 1, n)

-----------------------------------------------------------------------------
\* tfw_http_req_add_seq_queue
tfw_http_req_add_seq_queue ==
    /\ alive /\ received < MaxReq /\ SeqUnlocked
    /\ received' = received + 1
    /\ seqq' = Append(seqq, received + 1)
    /\ flight' = flight \cup {received + 1}
    /\ reqRefs' = reqRefs + 1
    /\ UNCHANGED <<ready, ctx, work, alive, dropped, delivered, freed>>

\* a response has come from a server or from the cache, or an error
\* response has been made
Respond(k, r) ==
    /\ ctx[k].pc = "idle" /\ r \in flight
    /\ flight' = flight \ {r}
    /\ ctx' = [ctx EXCEPT ![k] = [Idle EXCEPT !.pc = "adjust", !.req = r]]
    /\ UNCHANGED <<received, seqq, ready, work, alive, dropped, delivered, reqRefs, freed>>

\* tfw_h1_resp_adjust_fwd: a request with TFW_HTTP_B_REQ_DROP, which the drop
\* has set, is freed with its response.  The flag is read without seq_qlock.
tfw_h1_resp_adjust_fwd(k) ==
    /\ ctx[k].pc = "adjust"
    /\ \/ /\ dropped
          /\ Free({ctx[k].req})
          /\ ctx' = [ctx EXCEPT ![k] = Idle]
       \/ /\ ~dropped
          /\ ctx' = [ctx EXCEPT ![k].pc = "fwd"]
          /\ UNCHANGED <<reqRefs, freed>>
    /\ UNCHANGED <<received, seqq, flight, ready, work, alive, dropped, delivered>>

\* tfw_http_resp_build_error: no response can be made; the close is queued
tfw_http_resp_build_error(k, r) ==
    /\ ctx[k].pc = "idle" /\ r \in flight
    /\ flight' = flight \ {r}
    /\ work' = Append(work, Close)
    /\ ctx' = [ctx EXCEPT ![k] = [Idle EXCEPT !.pc = "clean", !.req = r]]
    /\ UNCHANGED <<received, seqq, ready, alive, dropped, delivered, reqRefs, freed>>

\* tfw_http_conn_req_clean
tfw_http_conn_req_clean(k) ==
    /\ ctx[k].pc = "clean" /\ SeqUnlocked
    /\ seqq' = IF ctx[k].req \in Range(seqq)
               THEN RemoveAt(seqq, CHOOSE i \in 1..Len(seqq) : seqq[i] = ctx[k].req) ELSE seqq
    /\ Free({ctx[k].req})
    /\ ctx' = [ctx EXCEPT ![k] = Idle]
    /\ UNCHANGED <<received, flight, ready, work, alive, dropped, delivered>>

\* tfw_http_resp_fwd, the client has gone
RespFwdDropped(k) ==
    /\ ctx[k].pc = "fwd" /\ SeqUnlocked
    /\ seqq = <<>>
    /\ work' = Append(work, Close)
    /\ Free({ctx[k].req})
    /\ ctx' = [ctx EXCEPT ![k] = Idle]
    /\ UNCHANGED <<received, seqq, flight, ready, alive, dropped, delivered>>

\* tfw_http_resp_fwd: the ready prefix is cut off and the connection held
tfw_http_resp_fwd(k) ==
    /\ ctx[k].pc = "fwd" /\ SeqUnlocked
    /\ seqq # <<>>
    /\ ready' = ready \cup {ctx[k].req}
    /\ LET ret == ReadyPrefix(seqq, ready') IN
       /\ seqq' = SubSeq(seqq, Len(ret) + 1, Len(seqq))
       /\ ctx' = [ctx EXCEPT ![k] = IF ret = <<>> THEN Idle
                                    ELSE [Idle EXCEPT !.pc = "wait", !.ret = ret]]
       /\ reqRefs' = IF ret = <<>> THEN reqRefs ELSE reqRefs + 1
    /\ UNCHANGED <<received, flight, work, alive, dropped, delivered, freed>>

\* ret_qlock is taken, then seq_qlock is released
TakeRet(k) ==
    /\ ctx[k].pc = "wait" /\ RetUnlocked
    /\ ctx' = [ctx EXCEPT ![k].pc = "send"]
    /\ UNCHANGED <<received, seqq, flight, ready, work, alive, dropped, delivered, reqRefs, freed>>

\* __tfw_http_resp_fwd: one response is queued in the socket layer
SendResp(k) ==
    /\ ctx[k].pc = "send" /\ ctx[k].ret # <<>> /\ alive
    /\ work' = Append(work, Head(ctx[k].ret))
    /\ Free({Head(ctx[k].ret)})
    /\ ctx' = [ctx EXCEPT ![k].ret = Tail(@)]
    /\ UNCHANGED <<received, seqq, flight, ready, alive, dropped, delivered>>

\* __tfw_http_resp_fwd: a send fails, the connection is closed; ret_qlock is
\* released with responses left in ret_queue
SendFailed(k) ==
    /\ ctx[k].pc = "send" /\ ctx[k].ret # <<>>
    /\ work' = Append(work, Close)
    /\ ctx' = [ctx EXCEPT ![k].pc = "put"]
    /\ UNCHANGED <<received, seqq, flight, ready, alive, dropped, delivered, reqRefs, freed>>

\* all are sent, ret_qlock is released
SendDone(k) ==
    /\ ctx[k].pc = "send" /\ ctx[k].ret = <<>>
    /\ ctx' = [ctx EXCEPT ![k].pc = "put"]
    /\ UNCHANGED <<received, seqq, flight, ready, work, alive, dropped, delivered, reqRefs, freed>>

\* (mutation: the responses that were not sent are forgotten)
PutNoZap(k) ==
    /\ ctx[k].pc = "put"
    /\ reqRefs' = reqRefs - 1
    /\ ctx' = [ctx EXCEPT ![k] = Idle]
    /\ UNCHANGED <<received, seqq, flight, ready, work, alive, dropped, delivered, freed>>

\* tfw_connection_put, then the responses that were not sent are zapped
PutAndZap(k) ==
    /\ ctx[k].pc = "put"
    /\ freed' = [r \in Req |-> IF r \in Range(ctx[k].ret) THEN freed[r] + 1 ELSE freed[r]]
    /\ reqRefs' = reqRefs - 1 - Len(ctx[k].ret)
    /\ ctx' = [ctx EXCEPT ![k] = Idle]
    /\ UNCHANGED <<received, seqq, flight, ready, work, alive, dropped, delivered>>

\* (mutation: every request of the queue is freed)
CliDropAll ==
    /\ ~alive /\ ~dropped /\ SeqUnlocked
    /\ dropped' = TRUE
    /\ seqq' = <<>>
    /\ freed' = [r \in Req |-> IF r \in Range(seqq) THEN freed[r] + 1 ELSE freed[r]]
    /\ reqRefs' = reqRefs - 1 - Cardinality(Range(seqq))
    /\ UNCHANGED <<received, flight, ready, ctx, work, alive, delivered>>

\* tfw_http_conn_cli_drop and the put of the socket's reference: requests
\* with a ready response are freed, the others are left to their responses
tfw_http_conn_cli_drop ==
    /\ ~alive /\ ~dropped /\ SeqUnlocked
    /\ dropped' = TRUE
    /\ seqq' = <<>>
    /\ LET unused == Range(seqq) \cap ready IN
       /\ freed' = [r \in Req |-> IF r \in unused THEN freed[r] + 1 ELSE freed[r]]
       /\ reqRefs' = reqRefs - 1 - Cardinality(unused)
    /\ UNCHANGED <<received, flight, ready, ctx, work, alive, delivered>>

\* tfw_http_req_evict_dropped: a forwarding queue meets TFW_HTTP_B_REQ_DROP
tfw_http_req_evict_dropped(r) ==
    /\ dropped /\ r \in flight
    /\ flight' = flight \ {r}
    /\ Free({r})
    /\ UNCHANGED <<received, seqq, ready, ctx, work, alive, dropped, delivered>>

\* the socket layer does the works in order, a dead socket ignores them
SockWork ==
    /\ work # <<>>
    /\ work' = Tail(work)
    /\ delivered' = IF alive /\ Head(work) # Close THEN Append(delivered, Head(work))
                    ELSE delivered
    /\ alive' = (alive /\ Head(work) # Close)
    /\ UNCHANGED <<received, seqq, flight, ready, ctx, dropped, reqRefs, freed>>

\* the client closes the connection
ClientClose ==
    /\ alive
    /\ alive' = FALSE
    /\ UNCHANGED <<received, seqq, flight, ready, ctx, work, dropped, delivered, reqRefs, freed>>

-----------------------------------------------------------------------------
Forward(k) ==
    \/ tfw_h1_resp_adjust_fwd(k)
    \/ tfw_http_conn_req_clean(k) \/ RespFwdDropped(k) \/ tfw_http_resp_fwd(k)
    \/ TakeRet(k) \/ SendResp(k) \/ SendFailed(k) \/ SendDone(k) \/ PutAndZap(k)

H1Next ==
    \/ tfw_http_req_add_seq_queue
    \/ \E k \in Cpu, r \in Req : Respond(k, r)
    \/ \E k \in Cpu, r \in Req : tfw_http_resp_build_error(k, r)
    \/ \E k \in Cpu : Forward(k)
    \/ tfw_http_conn_cli_drop
    \/ \E r \in Req : tfw_http_req_evict_dropped(r)
    \/ SockWork \/ ClientClose

H1Spec == H1Init /\ [][H1Next]_h1Vars

\* CPUs finish what they have begun, and a response or an error comes for
\* every request.
H1FairSpec ==
    /\ H1Spec
    /\ \A k \in Cpu : WF_h1Vars(Forward(k))
    /\ \A r \in Req : WF_h1Vars(\E k \in Cpu : Respond(k, r))
    /\ WF_h1Vars(tfw_http_conn_cli_drop) /\ WF_h1Vars(SockWork)

-----------------------------------------------------------------------------
(* Properties                                                               *)

\* Types of the state.
TypeOK ==
    /\ received \in 0..MaxReq
    /\ Range(seqq) \subseteq Req
    /\ flight \subseteq Req /\ ready \subseteq Req
    /\ \A k \in Cpu : /\ ctx[k].pc \in {"idle", "adjust", "fwd", "clean", "wait", "send", "put"}
                      /\ ctx[k].req \in Req \cup {NoReq}
                      /\ Range(ctx[k].ret) \subseteq Req
    /\ Range(work) \subseteq Req \cup {Close}
    /\ alive \in BOOLEAN /\ dropped \in BOOLEAN
    /\ reqRefs \in 0 .. MaxReq + 1 + Cardinality(Cpu)
    /\ freed \in [Req -> 0..1]

\* The client gets the responses in the order of its requests and without a
\* gap, whichever CPUs make them ready and whatever fails.
InRequestOrder == \A i \in 1..Len(delivered) : delivered[i] = i

\* The BUG_ON of tfw_http_resp_fwd: a request whose response is to be
\* forwarded is in the queue, or the queue is empty because of the drop.
LinkedUntilForwarded ==
    \A k \in Cpu :
        ctx[k].pc = "fwd" => IF seqq = <<>> THEN dropped ELSE ctx[k].req \in Range(seqq)

\* Nothing is freed under anyone: the connection outlives everyone who takes
\* its locks, and a request that is freed is in no list and in nobody's hands,
\* whether the drop, a sender or its error path freed it.
NoUseAfterFree ==
    /\ \A k \in Cpu : ctx[k].pc # "idle" => reqRefs > 0
    /\ \A r \in Req : freed[r] > 0 =>
          /\ r \notin Range(seqq) /\ r \notin flight
          /\ \A k \in Cpu : ctx[k].req # r /\ r \notin Range(ctx[k].ret)

\* Every response is delivered, or the connection goes down; no ready
\* response is left in the queue for ever.
ResponsesGoOut ==
    \A r \in Req : received >= r ~> (~alive \/ r \in Range(delivered))

\* Once the client has gone every request of it is freed in the end, by the
\* drop, by the CPU that has its response or by the error path of the sender,
\* and with the last of them the connection is released.
ReleasedAfterDrop == ~alive ~> (reqRefs = 0 /\ \A r \in 1..received : freed[r] = 1)

\* Responses go out in order, from requests that nobody has freed.
ServedInOrder == TypeOK /\ InRequestOrder /\ LinkedUntilForwarded /\ NoUseAfterFree
=============================================================================
