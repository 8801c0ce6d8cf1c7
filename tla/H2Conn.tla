-------------------------------- MODULE H2Conn --------------------------------
(***************************************************************************)
(* Streams and frames of one HTTP/2 client connection (fw/http_stream.c,   *)
(* fw/http_frame.c and the HTTP/2 paths of fw/http.c).                     *)
(*                                                                         *)
(* The receive flow runs on the CPU of the connection and owns the storage *)
(* of streams; responses are made on other CPUs, which reach a stream      *)
(* through req->stream under ctx->lock and move it to the queue of closed  *)
(* streams.  Only the receive flow frees streams: when the client resets   *)
(* one, when the closed queue is too long, and when the connection drops.  *)
(*                                                                         *)
(* A frame is received in one piece; its header and its payload are steps  *)
(* of their own, because a response may come in between.                   *)
(***************************************************************************)
EXTENDS Integers, Sequences, SequencesExt, FiniteSets

CONSTANTS
    MaxId,       \* bound on the stream identifiers
    H2MaxReq,    \* bound on the requests
    MaxClosed,   \* TFW_MAX_CLOSED_STREAMS
    MaxStreams   \* lsettings.max_streams

ASSUME H2Assumption == MaxId \in Nat /\ H2MaxReq \in Nat /\ MaxClosed \in Nat

StreamId == 1..MaxId
H2Req == 1..H2MaxReq
NoId == 0
NoMsg == 0

VARIABLES
    stream,   \* stream->state, "none" when the stream is not in the storage
    msg,      \* stream->msg
    snum,     \* ctx->streams_num
    hclosed,  \* ctx->hclosed_streams.list
    hnum,     \* ctx->hclosed_streams.num
    lstream,  \* ctx->lstream_id
    rx,       \* the frame being received and ctx->cur_stream
    conn,     \* up, stop (to be closed), drop (streams are cleaned up), gone
    life,     \* a request: none, parsing, ready (fully parsed), sending, freed,
              \* lost (fully parsed, and its processing gave up)
    rstream,  \* req->stream
    term      \* how many times a stream was ended with END_STREAM or RST_STREAM

strVars == <<stream, msg, snum, hclosed, hnum, lstream>>
h2ReqVars == <<life, rstream, term>>
h2Vars == <<strVars, rx, conn, h2ReqVars>>

\* self: the stream depends on itself; zero: a window increment of zero
Frame ==
    [type : {"DATA"}, id : StreamId, es : BOOLEAN, eh : {FALSE}, empty : BOOLEAN, self : {FALSE}, zero : {FALSE}]
    \cup [type : {"HEADERS"}, id : StreamId, es : BOOLEAN, eh : BOOLEAN, empty : {FALSE}, self : BOOLEAN, zero : {FALSE}]
    \cup [type : {"CONTINUATION"}, id : StreamId, es : {FALSE}, eh : BOOLEAN, empty : BOOLEAN, self : {FALSE}, zero : {FALSE}]
    \cup [type : {"PRIORITY"}, id : StreamId, es : {FALSE}, eh : {FALSE}, empty : {FALSE}, self : BOOLEAN, zero : {FALSE}]
    \cup [type : {"WINDOW_UPDATE"}, id : StreamId \cup {NoId}, es : {FALSE}, eh : {FALSE}, empty : {FALSE}, self : {FALSE}, zero : BOOLEAN]
    \cup [type : {"RST_STREAM"}, id : StreamId, es : {FALSE}, eh : {FALSE}, empty : {FALSE}, self : {FALSE}, zero : {FALSE}]

NoFrame == [type |-> "none", id |-> NoId, es |-> FALSE, eh |-> FALSE,
            empty |-> FALSE, self |-> FALSE, zero |-> FALSE]
App(f) == f.type \in {"DATA", "HEADERS", "CONTINUATION"}

At(pc, f, cur) == [pc |-> pc, f |-> f, cur |-> cur]
NextFrame == At("header", NoFrame, NoId)

\* tfw_h2_context_init
H2Init ==
    /\ stream = [i \in StreamId |-> "none"]
    /\ msg = [i \in StreamId |-> NoMsg]
    /\ snum = 0 /\ hclosed = <<>> /\ hnum = 0 /\ lstream = 0
    /\ rx = At("preface", NoFrame, NoId)
    /\ conn = "up"
    /\ life = [r \in H2Req |-> "none"]
    /\ rstream = [r \in H2Req |-> NoId]
    /\ term = [i \in StreamId |-> 0]

-----------------------------------------------------------------------------
(* The stream FSM, tfw_h2_stream_fsm                                        *)

Res(s, res) == [st |-> s, res |-> res]

\* a frame is received
FsmRecv(s, f) ==
    CASE s = "OPENED" ->
           (CASE f.type = "HEADERS" ->
                   Res(CASE f.eh /\ f.es -> "REM_HALF_CLOSED"
                         [] f.eh /\ ~f.es -> "OPENED"
                         [] ~f.eh /\ f.es -> "CONT_CLOSED"
                         [] OTHER -> "CONT", "OK")
              [] f.type = "DATA" /\ f.es -> Res("REM_HALF_CLOSED", "OK")
              [] f.type = "RST_STREAM" -> Res("CLOSED", "OK")
              [] f.type = "CONTINUATION" -> Res(s, "TERM_CONN")
              [] OTHER -> Res(s, "OK"))
      [] s \in {"CONT", "CONT_CLOSED"} ->
           IF f.type # "CONTINUATION" THEN Res(s, "TERM_CONN")
           ELSE Res(CASE ~f.eh -> s
                      [] f.eh /\ s = "CONT" -> "OPENED"
                      [] OTHER -> "REM_HALF_CLOSED", "OK")
      [] s = "LOC_CLOSED" -> Res(IF f.type = "RST_STREAM" THEN "CLOSED" ELSE s, "OK")
      [] s = "REM_HALF_CLOSED" ->
           (CASE f.type = "CONTINUATION" -> Res(s, "TERM_CONN")
              [] f.type = "RST_STREAM" -> Res("CLOSED", "OK")
              [] f.type \in {"PRIORITY", "WINDOW_UPDATE"} -> Res(s, "OK")
              [] OTHER -> Res("REM_CLOSED", "TERM_STREAM"))
      [] s = "REM_CLOSED" ->
           (CASE f.type = "PRIORITY" -> Res(s, "OK")
              [] f.type = "CONTINUATION" -> Res(s, "TERM_CONN")
              [] OTHER -> Res(s, "IGNORE"))

\* (mutation: a stream that is closed already is answered again)
FsmSendAgain(s, t) ==
    CASE t = "END_STREAM" /\ s \notin {"REM_HALF_CLOSED", "REM_CLOSED", "CLOSED"} -> Res(s, "IGNORE")
      [] s \in {"OPENED", "CONT", "CONT_CLOSED"} -> Res("LOC_CLOSED", "OK")
      [] s \in {"REM_HALF_CLOSED", "REM_CLOSED"} -> Res("REM_CLOSED", "OK")
      [] OTHER -> Res(s, "IGNORE")

\* HEADERS or DATA with END_STREAM, or RST_STREAM is sent
FsmSend(s, t) ==
    CASE t = "END_STREAM" /\ s \notin {"REM_HALF_CLOSED", "REM_CLOSED", "CLOSED"} -> Res(s, "IGNORE")
      [] s \in {"OPENED", "CONT", "CONT_CLOSED"} -> Res("LOC_CLOSED", "OK")
      [] s = "REM_HALF_CLOSED" -> Res("REM_CLOSED", "OK")
      [] OTHER -> Res(s, "IGNORE")

-----------------------------------------------------------------------------
(* Storage of streams and the queue of closed ones                          *)

Found(i) == i \in StreamId /\ stream[i] # "none"

\* (mutation: list_empty is not looked at)
AddClosedAgain(i) ==
    /\ hclosed' = Append(hclosed, i)
    /\ hnum' = hnum + 1

\* __tfw_h2_stream_add_closed
AddClosed(i) ==
    \/ /\ i \in Range(hclosed)
       /\ UNCHANGED <<hclosed, hnum>>
    \/ /\ i \notin Range(hclosed)
       /\ hclosed' = Append(hclosed, i)
       /\ hnum' = hnum + 1

\* list_del_init of a stream that may be in no list
ListDel(q, i) ==
    IF i \in Range(q) THEN RemoveAt(q, CHOOSE k \in 1..Len(q) : q[k] = i) ELSE q

\* (mutation: the request keeps its pointer to the stream)
UnlinkKeepStream(i) ==
    /\ hclosed' = ListDel(hclosed, i)
    /\ hnum' = IF i \in Range(hclosed) THEN hnum - 1 ELSE hnum
    /\ rstream' = rstream
    /\ life' = [r \in H2Req |-> IF r = msg[i] /\ life[r] = "parsing" THEN "freed" ELSE life[r]]

\* (mutation: a request that is not complete is left to others)
UnlinkKeepMsg(i) ==
    /\ hclosed' = ListDel(hclosed, i)
    /\ hnum' = IF i \in Range(hclosed) THEN hnum - 1 ELSE hnum
    /\ rstream' = [r \in H2Req |-> IF r = msg[i] THEN NoId ELSE rstream[r]]
    /\ life' = life

\* __tfw_h2_stream_unlink: a request that is not complete is freed
Unlink(i) ==
    /\ hclosed' = ListDel(hclosed, i)
    /\ hnum' = IF i \in Range(hclosed) THEN hnum - 1 ELSE hnum
    /\ rstream' = [r \in H2Req |-> IF r = msg[i] THEN NoId ELSE rstream[r]]
    /\ life' = [r \in H2Req |-> IF r = msg[i] /\ life[r] = "parsing" THEN "freed" ELSE life[r]]

\* tfw_h2_stream_unlink and tfw_h2_stream_clean: nobody can reach the stream
\* once it is unlinked
RemoveStream(i) ==
    /\ Unlink(i)
    /\ stream' = [stream EXCEPT ![i] = "none"]
    /\ msg' = [msg EXCEPT ![i] = NoMsg]
    /\ snum' = snum - 1

\* a frame that ends a stream is sent
Sent(i) == term' = [term EXCEPT ![i] = IF @ < 2 THEN @ + 1 ELSE @]

\* T_DROP, or GOAWAY with Conn_Stop: no more data is received
Stop == conn' = "stop" /\ rx' = NextFrame

-----------------------------------------------------------------------------
(* Frame headers, tfw_h2_frame_type_process                                 *)

Receiving(pc) == conn = "up" /\ rx.pc = pc

\* HTTP2_RECV_CLI_START_SEQ: the client magic, our SETTINGS and the window
Preface ==
    /\ Receiving("preface")
    /\ \/ rx' = At("settings", NoFrame, NoId) /\ UNCHANGED conn
       \/ Stop
    /\ UNCHANGED <<strVars, h2ReqVars>>

\* HTTP2_RECV_FIRST_SETTINGS
tfw_h2_first_settings_verify ==
    /\ Receiving("settings")
    /\ \/ rx' = NextFrame /\ UNCHANGED conn
       \/ Stop
    /\ UNCHANGED <<strVars, h2ReqVars>>

\* a frame with a wrong size, a wrong zero or non-zero stream id, a wrong
\* setting, PUSH_PROMISE, or an error while PING or SETTINGS are answered
FrameError ==
    /\ Receiving("header")
    /\ Stop
    /\ UNCHANGED <<strVars, h2ReqVars>>

\* the next state of the frame FSM when the header of f is done: an empty
\* application frame ends here
Payload(f, cur) == IF f.empty THEN NextFrame ELSE At(IF App(f) THEN "app" ELSE "payload", f, cur)

\* DATA and CONTINUATION: an idle stream or a removed one is an error of the
\* connection
RecvData(f) ==
    /\ Receiving("header") /\ f.type \in {"DATA", "CONTINUATION"}
    /\ \/ /\ f.id > lstream \/ ~Found(f.id)
          /\ Stop
       \/ /\ f.id <= lstream /\ Found(f.id)
          /\ rx' = Payload(f, f.id)
          /\ UNCHANGED conn
    /\ UNCHANGED <<strVars, h2ReqVars>>

\* HEADERS, tfw_h2_stream_id_verify
RecvHeaders(f) ==
    /\ Receiving("header") /\ f.type = "HEADERS"
    /\ \/ /\ Found(f.id)
          /\ rx' = Payload(f, f.id)
          /\ UNCHANGED conn
       \/ /\ ~Found(f.id)
          /\ lstream >= f.id \/ f.id % 2 = 0
          /\ Stop
       \/ /\ ~Found(f.id)
          /\ lstream < f.id /\ f.id % 2 = 1
          /\ rx' = At("shrink", f, NoId)
          /\ UNCHANGED conn
    /\ UNCHANGED <<strVars, h2ReqVars>>

ShrinkDone == hnum <= MaxClosed \/ (MaxStreams = snum /\ hnum > 0)

\* tfw_h2_closed_streams_shrink: one iteration
tfw_h2_closed_streams_shrink ==
    /\ Receiving("shrink") /\ ~ShrinkDone
    /\ RemoveStream(Head(hclosed))
    /\ UNCHANGED <<lstream, rx, conn, term>>

\* its end; a stream too many is refused
ShrinkEnd ==
    /\ Receiving("shrink") /\ ShrinkDone
    /\ \/ MaxStreams # snum /\ rx' = Payload(rx.f, NoId) /\ UNCHANGED conn
       \/ MaxStreams = snum /\ rx' = NextFrame /\ UNCHANGED conn
       \/ MaxStreams = snum /\ Stop
    /\ UNCHANGED <<strVars, h2ReqVars>>

\* STREAM_RECV_PROCESS in the header of PRIORITY, WINDOW_UPDATE, RST_STREAM
RecvService(f) ==
    /\ Receiving("header") /\ f.type \in {"PRIORITY", "WINDOW_UPDATE", "RST_STREAM"}
    /\ \/ /\ f.type # "PRIORITY"
          /\ f.id > lstream \/ (f.id # NoId /\ ~Found(f.id))
          /\ Stop /\ UNCHANGED stream
       \/ /\ f.id = NoId \/ (f.type = "PRIORITY" /\ ~Found(f.id))
          /\ rx' = At("payload", f, NoId)
          /\ UNCHANGED <<stream, conn>>
       \/ /\ Found(f.id)
          /\ LET x == FsmRecv(stream[f.id], f) IN
             /\ stream' = [stream EXCEPT ![f.id] = x.st]
             /\ \/ x.res = "TERM_CONN" /\ Stop
                \/ x.res = "IGNORE" /\ rx' = NextFrame /\ UNCHANGED conn
                \/ x.res = "OK" /\ rx' = At("payload", f, f.id) /\ UNCHANGED conn
    /\ UNCHANGED <<msg, snum, hclosed, hnum, lstream, h2ReqVars>>

-----------------------------------------------------------------------------
(* Payloads                                                                 *)

\* (mutation: the stream is left for the closed queue)
RstStreamKeep ==
    /\ Receiving("payload") /\ rx.f.type = "RST_STREAM"
    /\ rx' = NextFrame
    /\ UNCHANGED <<strVars, conn, h2ReqVars>>

\* tfw_h2_rst_stream_process
tfw_h2_rst_stream_process ==
    /\ Receiving("payload") /\ rx.f.type = "RST_STREAM"
    /\ RemoveStream(rx.cur)
    /\ rx' = NextFrame
    /\ UNCHANGED <<lstream, conn, term>>

\* STREAM_SEND_PROCESS(RST_STREAM) for a frame that breaks the rules: the
\* stream is to be closed, or there is nothing to close
ResetStream(done) ==
    IF Found(rx.cur) /\ FsmSend(stream[rx.cur], "RST").res = "OK"
    THEN /\ stream' = [stream EXCEPT ![rx.cur] = FsmSend(@, "RST").st]
         /\ rx' = [rx EXCEPT !.pc = "close"]
    ELSE rx' = done /\ UNCHANGED stream

\* tfw_h2_priority_process and tfw_h2_wnd_update_process
ServicePayload ==
    /\ Receiving("payload") /\ rx.f.type \in {"PRIORITY", "WINDOW_UPDATE"}
    /\ \/ /\ ~rx.f.self /\ ~rx.f.zero
          /\ rx' = NextFrame
          /\ UNCHANGED <<stream, conn>>
       \/ /\ rx.f.zero /\ rx.cur = NoId
          /\ Stop /\ UNCHANGED stream
       \/ /\ rx.f.self \/ (rx.f.zero /\ rx.cur # NoId)
          /\ ResetStream(NextFrame)
          /\ UNCHANGED conn
    /\ UNCHANGED <<msg, snum, hclosed, hnum, lstream, h2ReqVars>>

\* tfw_h2_stream_state_process, when T_FSM_FINISH has set the state of the
\* frame FSM back to the application frame
StateProcess(i) ==
    LET x == FsmRecv(stream[i], rx.f) IN
    /\ stream' = [stream EXCEPT ![i] = x.st]
    /\ \/ x.res = "TERM_CONN" /\ Stop
       \/ x.res = "TERM_STREAM" /\ rx' = At("close", rx.f, i) /\ UNCHANGED conn
       \/ x.res \in {"OK", "IGNORE"} /\ rx' = At("up", rx.f, i) /\ UNCHANGED conn

\* tfw_h2_headers_process, tfw_h2_stream_create
tfw_h2_headers_process ==
    /\ Receiving("app") /\ rx.f.type = "HEADERS"
    /\ \/ /\ rx.f.self
          /\ ResetStream([rx EXCEPT !.pc = "up"])
          /\ UNCHANGED <<snum, lstream, conn>>
       \/ /\ ~rx.f.self /\ rx.cur # NoId
          /\ StateProcess(rx.cur)
          /\ UNCHANGED <<snum, lstream>>
       \/ /\ ~rx.f.self /\ rx.cur = NoId
          /\ stream' = [stream EXCEPT ![rx.f.id] = FsmRecv("OPENED", rx.f).st]
          /\ snum' = snum + 1
          /\ lstream' = rx.f.id
          /\ rx' = At("up", rx.f, rx.f.id)
          /\ UNCHANGED conn
       \/ /\ ~rx.f.self /\ rx.cur = NoId    \* no memory
          /\ Stop /\ UNCHANGED <<stream, snum, lstream>>
    /\ UNCHANGED <<msg, hclosed, hnum, h2ReqVars>>

\* HTTP2_RECV_DATA and HTTP2_RECV_CONT
tfw_h2_stream_state_process ==
    /\ Receiving("app") /\ rx.f.type \in {"DATA", "CONTINUATION"}
    /\ StateProcess(rx.cur)
    /\ UNCHANGED <<msg, snum, hclosed, hnum, lstream, h2ReqVars>>

\* tfw_h2_stream_close: the stream goes to the closed queue and RST_STREAM
\* is sent, unless that fails
tfw_h2_stream_close ==
    /\ Receiving("close")
    /\ AddClosed(rx.cur)
    /\ \/ /\ Sent(rx.cur)
          /\ rx' = IF App(rx.f) THEN At("up", rx.f, NoId) ELSE NextFrame
          /\ UNCHANGED conn
       \/ Stop /\ UNCHANGED term
    /\ UNCHANGED <<stream, msg, snum, lstream, life, rstream>>

-----------------------------------------------------------------------------
(* Requests                                                                 *)

\* tfw_h2_stream_id_close; t is END_STREAM, RST or NONE
StreamIdClose(r, t) ==
    LET i == rstream[r] IN
    \/ /\ i = NoId
       /\ UNCHANGED <<stream, msg, hclosed, hnum, rstream, term>>
    \/ /\ i # NoId
       /\ rstream' = [rstream EXCEPT ![r] = NoId]
       /\ msg' = [msg EXCEPT ![i] = NoMsg]
       /\ AddClosed(i)
       /\ IF t # "NONE" /\ FsmSend(stream[i], t).res = "OK"
          THEN /\ stream' = [stream EXCEPT ![i] = FsmSend(@, t).st]
               /\ Sent(i)
          ELSE UNCHANGED <<stream, term>>

\* tfw_http_msg_process_generic without a stream: its error is returned only
\* when no frame follows in the same skb; or without memory for a new request
UpFailed ==
    /\ Receiving("up")
    /\ \/ rx.cur = NoId /\ rx' = NextFrame /\ UNCHANGED conn
       \/ rx.cur = NoId /\ Stop
       \/ rx.cur # NoId /\ msg[rx.cur] = NoMsg /\ Stop
    /\ UNCHANGED <<strVars, h2ReqVars>>

\* tfw_http_conn_msg_alloc
UpAlloc ==
    /\ Receiving("up") /\ rx.cur # NoId /\ msg[rx.cur] = NoMsg
    /\ \E r \in H2Req :
          /\ life[r] = "none" /\ \A q \in 1 .. r - 1 : life[q] # "none"
          /\ msg' = [msg EXCEPT ![rx.cur] = r]
          /\ life' = [life EXCEPT ![r] = "parsing"]
          /\ rstream' = [rstream EXCEPT ![r] = rx.cur]
    /\ UNCHANGED <<stream, snum, hclosed, hnum, lstream, rx, conn, term>>

\* tfw_http_req_process: the parser wants more, or the request is complete
\* (tfw_h2_parse_req_finish) and is handed over
UpParsed ==
    /\ Receiving("up") /\ rx.cur # NoId /\ msg[rx.cur] # NoMsg
    /\ life' = IF stream[rx.cur] = "REM_HALF_CLOSED"
               THEN [life EXCEPT ![msg[rx.cur]] = "ready"] ELSE life
    /\ rx' = NextFrame
    /\ UNCHANGED <<strVars, conn, rstream, term>>

\* the request is blocked: tfw_h2_error_resp, with a reply or a reset
UpBlocked ==
    /\ Receiving("up") /\ rx.cur # NoId /\ msg[rx.cur] # NoMsg
    /\ \E t \in {"END_STREAM", "RST"} : StreamIdClose(msg[rx.cur], t)
    /\ life' = [life EXCEPT ![msg[rx.cur]] = "freed"]
    /\ Stop
    /\ UNCHANGED <<snum, lstream>>

\* tfw_http_req_client_link fails: the error is returned, the request stays
UpLinkFailed ==
    /\ Receiving("up") /\ rx.cur # NoId /\ msg[rx.cur] # NoMsg
    /\ stream[rx.cur] = "REM_HALF_CLOSED"
    /\ life' = [life EXCEPT ![msg[rx.cur]] = "lost"]
    /\ Stop
    /\ UNCHANGED <<strVars, rstream, term>>

\* tfw_h2_resp_adjust_fwd, tfw_h2_send_resp: a response on another CPU
H2Respond(r) ==
    /\ life[r] = "ready"
    /\ StreamIdClose(r, "END_STREAM")
    /\ life' = [life EXCEPT ![r] = IF term' # term THEN "sending" ELSE "freed"]
    /\ UNCHANGED <<snum, lstream, rx, conn>>

\* tfw_h2_error_resp without a reply, tfw_http_conn_req_clean
RespondNone(r) ==
    /\ life[r] = "ready"
    /\ \E t \in {"RST", "NONE"} : StreamIdClose(r, t)
    /\ life' = [life EXCEPT ![r] = "freed"]
    /\ UNCHANGED <<snum, lstream, rx, conn>>

\* tfw_h2_resp_fwd; the connection is closed when it cannot send
tfw_h2_resp_fwd(r) ==
    /\ life[r] = "sending"
    /\ life' = [life EXCEPT ![r] = "freed"]
    /\ \/ UNCHANGED <<rx, conn>>
       \/ conn = "up" /\ rx.pc = "header" /\ Stop
    /\ UNCHANGED <<strVars, rstream, term>>

-----------------------------------------------------------------------------
(* The connection is dropped                                                *)

\* by the client, or after a Stop; never while a frame is being processed
Drop ==
    /\ conn = "stop" \/ (conn = "up" /\ rx.pc \in {"preface", "settings", "header"})
    /\ conn' = "drop" /\ rx' = NextFrame
    /\ UNCHANGED <<strVars, h2ReqVars>>

\* tfw_h2_conn_streams_cleanup
tfw_h2_conn_streams_cleanup ==
    /\ conn = "drop"
    /\ \/ \E i \in StreamId :
             /\ Found(i)
             /\ RemoveStream(i)
             /\ UNCHANGED conn
       \/ /\ \A i \in StreamId : ~Found(i)
          /\ conn' = "gone"
          /\ UNCHANGED <<stream, msg, snum, hclosed, hnum, life, rstream>>
    /\ UNCHANGED <<lstream, rx, term>>

-----------------------------------------------------------------------------
Receive ==
    \/ tfw_h2_closed_streams_shrink \/ ShrinkEnd
    \/ tfw_h2_rst_stream_process \/ ServicePayload
    \/ tfw_h2_headers_process \/ tfw_h2_stream_state_process \/ tfw_h2_stream_close
    \/ UpFailed \/ UpAlloc \/ UpParsed \/ UpBlocked \/ UpLinkFailed

Process(r) == H2Respond(r) \/ RespondNone(r) \/ tfw_h2_resp_fwd(r)

H2Next ==
    \/ Preface \/ tfw_h2_first_settings_verify \/ FrameError
    \/ \E f \in Frame : RecvData(f) \/ RecvHeaders(f) \/ RecvService(f)
    \/ Receive
    \/ \E r \in H2Req : Process(r)
    \/ Drop \/ tfw_h2_conn_streams_cleanup

H2Spec == H2Init /\ [][H2Next]_h2Vars

\* Softirqs run to their end and every complete request is processed; the
\* client owes nothing.
H2FairSpec ==
    /\ H2Spec
    /\ WF_h2Vars(Receive) /\ WF_h2Vars(tfw_h2_conn_streams_cleanup)
    /\ \A r \in H2Req : WF_h2Vars(Process(r))

-----------------------------------------------------------------------------
(* Properties                                                               *)

\* The counters are the sizes of what they count and the queue of closed
\* streams holds streams of the storage, each once, although two CPUs close
\* streams and a third cause removes them.
StreamsCounted ==
    /\ snum = Cardinality({i \in StreamId : Found(i)})
    /\ hnum = Len(hclosed)
    /\ Cardinality(Range(hclosed)) = Len(hclosed)
    /\ \A i \in Range(hclosed) : Found(i)
    /\ conn = "up" /\ rx.cur # NoId => Found(rx.cur)

\* A request and its stream point to each other or neither to the other: no
\* CPU follows req->stream to a freed stream or stream->msg to a freed request.
LinkedBothWays ==
    /\ \A r \in H2Req : rstream[r] # NoId => Found(rstream[r]) /\ msg[rstream[r]] = r
    /\ \A i \in StreamId : msg[i] # NoMsg =>
          rstream[msg[i]] = i /\ life[msg[i]] \in {"parsing", "ready", "lost"}

\* "In moment when the final 'closed' state is achieved, stream actually must
\* be removed ... thus the receive execution flow must not reach this point"
\* (the BUG of tfw_h2_stream_fsm).
ClosedNotFound ==
    conn = "up" => \A i \in StreamId :
        stream[i] = "CLOSED" => /\ rx.pc = "payload" /\ rx.f.type = "RST_STREAM"
                            /\ rx.cur = i

\* A stream is ended from our side at most once, by a response or by a reset,
\* whichever of the receive flow and the responding CPU comes first.
EndedOnce == \A i \in StreamId : term[i] <= 1

\* Once the connection is dropped every request is freed that its stream or
\* some CPU still owns, whatever state the stream was in and whoever held it.
RequestsReleased == conn = "drop" ~> \A r \in H2Req : life[r] \in {"none", "freed", "lost"}

\* The storage of streams is sound under the receive flow, the responding
\* CPUs and the clean-up.
StreamsSound == StreamsCounted /\ LinkedBothWays /\ ClosedNotFound /\ EndedOnce
=============================================================================
