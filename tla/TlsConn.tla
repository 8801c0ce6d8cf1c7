------------------------------ MODULE TlsConn ------------------------------
(***************************************************************************)
(* One TLS connection: the record layer and the server handshake of        *)
(* tls/ttls.c and tls/tls_srv.c under the message loop of fw/tls.c.  The   *)
(* client sends records; their bytes reach tfw_tls_msg_process() in skbs   *)
(* cut anywhere, with several records in one skb or one in several.        *)
(*                                                                         *)
(* A byte is <<record number, offset>>; the lengths of headers are scaled  *)
(* down.  A hash is the sequence of what was hashed, a client's byte or    *)
(* <<"S", name>> for a message of the server.  Encryption is what it must  *)
(* be: a record opens if it was sealed with the keys and the sequence      *)
(* number the receiver has.                                                *)
(***************************************************************************)
EXTENDS Integers, Sequences, FiniteSets

CONSTANTS MaxRec,     \* bound: records a client sends
          MaxRogue,   \* the same of a client that does not follow the protocol
          MaxFail     \* bound: failures of the server while it makes a flight

TLS_HEADER_SIZE == 2
TTLS_HS_HDR_LEN == 2
IvLen == 1                    \* ttls_expiv_len()
AlertLen == 2                 \* TTLS_ALERT_LEN

CLIENT_HELLO == 0
SERVER_HELLO == 1
SERVER_CERTIFICATE == 2
SERVER_KEY_EXCHANGE == 3
CLIENT_KEY_EXCHANGE == 7
CLIENT_CCS == 9
CLIENT_FINISHED == 10
SERVER_CCS == 11
SERVER_FINISHED == 12
OVER == 14

VARIABLES recs,     \* what the client sent: [type, hst, body, enc, ctr, view, want]
          net,      \* bytes on their way
          skb,      \* the rest of the skb in tfw_tls_msg_process()
          t,        \* TlsCtx
          out,      \* records of the server in the order they go to TCP
          conn,     \* "up" | "dropped" | "closed" | "gone"
          cbs,      \* results told by tfw_tls_hs_over()
          up,       \* records passed to the HTTP layer
          honest,   \* the client follows the protocol
          fails
cvars == <<recs, net, skb, t, out, conn, cbs, up, honest, fails>>

(* tfw_tls_conn_init(), ttls_ctx_init() *)
ConnInit ==
  /\ recs = <<>> /\ net = <<>> /\ skb = <<>> /\ out = <<>> /\ cbs = <<>> /\ up = <<>>
  /\ conn = "up" /\ fails = 0
  /\ honest \in BOOLEAN
  /\ t = [state |-> CLIENT_HELLO, hs |-> TRUE, resume |-> FALSE, ticket |-> FALSE,
          keys |-> FALSE, xsum |-> <<>>, cpsz |-> 0, hdriv |-> FALSE, rec |-> 0,
          rlen |-> 0, inctr |-> 0, outctr |-> 0, zero |-> 0]

Rec(x) == recs[x.rec]
msglen(r) == IF r.type = "ccs" THEN 1
             ELSE IF r.enc THEN IvLen + r.body
             ELSE IF r.type = "hs" THEN TTLS_HS_HDR_LEN + r.body
             ELSE r.body
Bytes(i, from, len) == [j \in 1 .. len |-> <<i, from + j - 1>>]

ttls_hs_done(x) == x.state = OVER
ttls_xfrm_ready(x) == x.state >= CLIENT_FINISHED /\ x.state # SERVER_CCS
ttls_xfrm_need_encrypt(x) == ttls_xfrm_ready(x) /\ x.state # SERVER_FINISHED
ttls_hs_checksumable(x) == x.state \notin {OVER, CLIENT_FINISHED}
ttls_update_checksum(x, bytes) == [x EXCEPT !.xsum = @ \o bytes]

(* A step of the receive path: the new context, the result, the number of
   bytes read and the records sent. *)
Res(x, r, n, o) == [t |-> x, r |-> r, n |-> n, out |-> o]
Drop(x) == Res(x, "drop", 0, <<>>)

(* tfw_tls_send(): records made ready now are sealed when TCP sends them,
   Finished is sealed here. *)
Unsent == 0 - 1
Plain(name) == [name |-> name, enc |-> FALSE, ctr |-> Unsent, view |-> <<>>]
ttls_send_alert(x, name) == <<[name |-> name, enc |-> ttls_xfrm_need_encrypt(x),
                               ctr |-> Unsent, view |-> <<>>]>>
Alert(x, name) == Res(x, "drop", 0, ttls_send_alert(x, name))
-----------------------------------------------------------------------------
(* The record header, with the handshake header, the IV, the alert or the
   CCS byte after it. *)
ttls_hdr_check(x, r) ==
  /\ r.type = "ccs" => x.state \in {CLIENT_CCS, SERVER_CCS}
  /\ ttls_xfrm_ready(x) => msglen(r) >= IvLen

Ivahs(x, r) ==
  IF r.type = "ccs" THEN 1
  ELSE IF r.type = "alert" /\ ~ttls_xfrm_ready(x) THEN AlertLen
  ELSE IF r.type = "hs" /\ ~ttls_xfrm_ready(x) THEN TTLS_HS_HDR_LEN
  ELSE IvLen
HdrRefused(x, r) ==
  \/ r.type = "app" /\ ~ttls_xfrm_ready(x)
  \/ r.type = "alert" /\ ~ttls_xfrm_ready(x) /\ msglen(r) # AlertLen
  \/ r.type = "hs" /\ ~ttls_xfrm_ready(x) /\ msglen(r) < TTLS_HS_HDR_LEN

ttls_parse_record_hdr(x0, buf) ==
  LET len == Len(buf)
      x == [x0 EXCEPT !.rec = IF len > 0 THEN buf[1][1] ELSE @]
      n == IF x.cpsz < TLS_HEADER_SIZE THEN TLS_HEADER_SIZE - x.cpsz ELSE 0
      r == Rec(x)
      all == TLS_HEADER_SIZE + Ivahs(x, r)
      got == x.cpsz + len
  IN IF got < TLS_HEADER_SIZE THEN Res([x EXCEPT !.cpsz = got], "postpone", len, <<>>)
     ELSE IF ~ttls_hdr_check(x, r) \/ HdrRefused(x, r) THEN Drop(x)
     ELSE IF got < all THEN Res([x EXCEPT !.cpsz = got], "postpone", len, <<>>)
     ELSE Res([x EXCEPT !.cpsz = 0, !.hdriv = TRUE,
                        !.rlen = IF r.type = "app" \/ (r.type = "alert" /\ ttls_xfrm_ready(x))
                                 THEN IvLen ELSE @],
              "ok", all - x.cpsz, <<>>)

(* __ttls_decrypt(): opens a record sealed for this key and sequence number;
   the number goes on either way. *)
__ttls_decrypt(x) ==
  [x |-> [x EXCEPT !.inctr = @ + 1], ok |-> x.keys /\ Rec(x).enc /\ Rec(x).ctr = x.inctr]
ttls_decrypt(x) ==
  LET d == __ttls_decrypt(x)
      empty == msglen(Rec(x)) = 0
  IN IF ~d.ok THEN Alert(d.x, "bad_mac")
     ELSE IF empty /\ d.x.zero + 1 > 3 THEN Drop([d.x EXCEPT !.zero = @ + 1])
     ELSE Res([d.x EXCEPT !.zero = 0], "ok", 0, <<>>)

ttls_close_notify(x) ==
  IF ttls_hs_done(x) THEN ttls_send_alert(x, "close_notify") ELSE <<>>
ttls_handle_alert(x) ==
  CASE Rec(x).hst = "fatal" -> Drop(x)
    [] Rec(x).hst = "close_notify" -> Res(x, "drop", 0, ttls_close_notify(x))
    [] OTHER -> Res(x, "ok", 0, <<>>)
-----------------------------------------------------------------------------
(* The server's messages. *)
ttls_derive_keys(x) == [x EXCEPT !.keys = TRUE]
__ttls_add_record(x, name) == ttls_update_checksum(x, <<<<"S", name>>>>)

ttls_write_server_hello(x) ==
  LET y == __ttls_add_record(x, "SH")
  IN IF x.resume THEN [ttls_derive_keys(y) EXCEPT !.state = SERVER_CCS]
     ELSE [y EXCEPT !.state = SERVER_CERTIFICATE]
ttls_write_certificate(x) == __ttls_add_record(x, "CRT")
ttls_write_server_key_exchange(x) == __ttls_add_record(x, "SKE")
ttls_write_server_hello_done(x) == __ttls_add_record(x, "SHD")
ttls_write_new_session_ticket(x) == [__ttls_add_record(x, "NST") EXCEPT !.ticket = FALSE]
(* mutant: the sequence number of the Finished is used again *)
WriteFinishedAgain(x) ==
  IF x.resume THEN ttls_update_checksum(x, <<<<"S", "FIN">>>>) ELSE x
ttls_write_finished(x) ==
  LET y == [x EXCEPT !.outctr = 1]
  IN IF x.resume THEN ttls_update_checksum(y, <<<<"S", "FIN">>>>) ELSE y

(* ttls_handshake_finished() and what ttls_handshake_server_step() does
   after it; view is what the server's Finished vouches for. *)
ttls_handshake_finished(x) ==
  LET y == IF x.ticket THEN ttls_write_new_session_ticket(x) ELSE x
      fin == [name |-> "FIN", enc |-> TRUE, ctr |-> 0, view |-> y.xsum]
  IN [x |-> ttls_write_finished(y),
      out |-> (IF x.ticket THEN <<Plain("NST")>> ELSE <<>>) \o <<Plain("CCS"), fin>>]

(* ttls_handshake_wrapup() frees the handshake *)
ttls_handshake_wrapup(x) == [x EXCEPT !.hs = FALSE, !.xsum = <<>>, !.state = OVER]

(* mutant: a full handshake ends without the server's Finished *)
ServerFinishSilent(x, n) ==
  LET f == ttls_handshake_finished(x)
  IN IF x.resume THEN Res([f.x EXCEPT !.state = CLIENT_CCS], "ok", n, f.out)
     ELSE Res(ttls_handshake_wrapup(x), "ok", n, <<>>)
ServerFinish(x, n) ==
  LET f == ttls_handshake_finished(x)
  IN IF x.resume THEN Res([f.x EXCEPT !.state = CLIENT_CCS], "ok", n, f.out)
     ELSE Res(ttls_handshake_wrapup(f.x), "ok", n, f.out)

(* The flight of the server.  When a message cannot be made (fail) the state
   stays at that message, what was made before it is sent and its result is
   returned: the error of the flight is not. *)
ttls_handshake_server_hello(x, fail, n) ==
  LET sh == ttls_write_server_hello(x)
      crt == ttls_write_certificate(sh)
      ske == ttls_write_server_key_exchange(crt)
      shd == ttls_write_server_hello_done(ske)
      sent(s) == [i \in DOMAIN s |-> Plain(s[i])]
  IN CASE fail = "SH" -> Res([x EXCEPT !.state = SERVER_HELLO], "ok", n, <<>>)
       [] fail # "SH" /\ x.resume ->
            LET f == ServerFinish(sh, n) IN [f EXCEPT !.out = sent(<<"SH">>) \o @]
       [] fail = "CRT" /\ ~x.resume ->
            Res([sh EXCEPT !.state = SERVER_CERTIFICATE], "ok", n, sent(<<"SH">>))
       [] fail = "SKE" /\ ~x.resume ->
            Res([crt EXCEPT !.state = SERVER_KEY_EXCHANGE], "ok", n, sent(<<"SH", "CRT">>))
       [] OTHER -> Res([shd EXCEPT !.state = CLIENT_KEY_EXCHANGE], "ok", n,
                       sent(<<"SH", "CRT", "SKE", "SHD">>))
-----------------------------------------------------------------------------
(* The client's messages; pre are the bytes of the handshake header when it
   lies in front of buf in the same piece of data. *)
Hst(x) == IF Rec(x).enc THEN "none" ELSE Rec(x).hst
Part(x, buf) == SubSeq(buf, 1, IF Rec(x).body - x.rlen < Len(buf)
                               THEN Rec(x).body - x.rlen ELSE Len(buf))
Whole(x, got) == x.rlen + Len(got) >= Rec(x).body

ttls_parse_client_hello(x, buf, pre, fail) ==
  LET got == Part(x, buf)  n == Len(got)
      y == ttls_update_checksum([x EXCEPT !.resume = Rec(x).want = "resume",
                                          !.ticket = Rec(x).want = "ticket"], pre \o got)
  IN IF Hst(x) # "CH" THEN Drop(x)
     ELSE IF ~Whole(x, got) THEN Res([x EXCEPT !.rlen = @ + n], "postpone", n, <<>>)
     ELSE ttls_handshake_server_hello(y, fail, n)

ttls_parse_client_key_exchange(x, buf, pre) ==
  LET got == Part(x, buf)  n == Len(got)
      y == ttls_derive_keys(ttls_update_checksum(x, pre \o got))
  IN IF Hst(x) # "CKE" THEN Drop(x)
     ELSE IF ~Whole(x, got) THEN Res([x EXCEPT !.rlen = @ + n], "postpone", n, <<>>)
     ELSE Res([y EXCEPT !.state = CLIENT_CCS], "ok", n, <<>>)

ttls_parse_change_cipher_spec(x) ==
  IF Rec(x).type # "ccs" THEN Alert(x, "unexpected")
  ELSE Res([x EXCEPT !.inctr = 0, !.state = CLIENT_FINISHED], "ok", 0, <<>>)

(* mutant: what the Finished vouches for is not compared *)
ParseFinishedUnverified(x, buf) ==
  LET got == Part(x, buf)  n == Len(got)
      d == ttls_decrypt(x)
      y == ttls_update_checksum(d.t, <<<<"C", "FIN">>>>)
  IN IF msglen(Rec(x)) # IvLen + 2 THEN Drop(x)
     ELSE IF ~Whole(x, got) THEN Res([x EXCEPT !.rlen = @ + n], "postpone", n, <<>>)
     ELSE IF d.r # "ok" THEN d
     ELSE IF Rec(x).hst # "FIN" THEN Alert(d.t, "decode")
     ELSE IF x.resume THEN Res(ttls_handshake_wrapup(y), "ok", n, <<>>)
     ELSE ServerFinish([y EXCEPT !.state = SERVER_CCS], n)

ttls_parse_finished(x, buf) ==
  LET got == Part(x, buf)  n == Len(got)
      d == ttls_decrypt(x)
      y == ttls_update_checksum(d.t, <<<<"C", "FIN">>>>)
  IN IF msglen(Rec(x)) # IvLen + 2 THEN Drop(x)
     ELSE IF ~Whole(x, got) THEN Res([x EXCEPT !.rlen = @ + n], "postpone", n, <<>>)
     ELSE IF d.r # "ok" THEN d
     ELSE IF Rec(x).hst # "FIN" THEN Alert(d.t, "decode")
     ELSE IF Rec(x).view # x.xsum THEN Alert(d.t, "decode")
     ELSE IF x.resume THEN Res(ttls_handshake_wrapup(y), "ok", n, <<>>)
     ELSE ServerFinish([y EXCEPT !.state = SERVER_CCS], n)

ttls_handshake_server_step(x, buf, pre, fail) ==
  CASE x.state = CLIENT_HELLO -> ttls_parse_client_hello(x, buf, pre, fail)
    [] x.state = SERVER_HELLO -> ttls_handshake_server_hello(x, fail, 0)
    [] x.state = CLIENT_KEY_EXCHANGE -> ttls_parse_client_key_exchange(x, buf, pre)
    [] x.state = CLIENT_CCS -> ttls_parse_change_cipher_spec(x)
    [] x.state = CLIENT_FINISHED -> ttls_parse_finished(x, buf)
    [] OTHER -> Res(x, "ok", 0, <<>>)

(* mutant: the part of a message that comes with the next skb is not hashed *)
HandshakeUnhashed(x, buf, pre, fail) ==
  LET s == ttls_handshake_server_step(x, buf, pre, fail)
  IN IF buf = <<>> THEN Res(x, "postpone", 0, <<>>)
     ELSE IF x.state = OVER THEN Alert(x, "no_renegotiation")
     ELSE s

Handshake(x, buf, pre, fail) ==
  LET s == ttls_handshake_server_step(x, buf, pre, fail)
  IN IF buf = <<>> THEN Res(x, "postpone", 0, <<>>)
     ELSE IF x.state = OVER THEN Alert(x, "no_renegotiation")
     ELSE IF s.r = "postpone" /\ ttls_hs_checksumable(s.t)
          THEN [s EXCEPT !.t = ttls_update_checksum(@, pre \o SubSeq(buf, 1, s.n))]
     ELSE s

(* application data, or an alert under encryption *)
Sealed(x, buf) ==
  LET left == msglen(Rec(x)) - x.rlen
      d == ttls_decrypt(x)
  IN IF Rec(x).type = "app" /\ x.state # OVER THEN Drop(x)
     ELSE IF buf = <<>> THEN Res(x, "postpone", 0, <<>>)
     ELSE IF left > Len(buf)
          THEN Res([x EXCEPT !.rlen = @ + Len(buf)], "postpone", Len(buf), <<>>)
     ELSE IF d.r # "ok" \/ Rec(x).type = "app" THEN [d EXCEPT !.n = left]
     ELSE [ttls_handle_alert(d.t) EXCEPT !.n = left]

ttls_recv(x, buf, fail) ==
  LET h == ttls_parse_record_hdr(x, buf)
      rest == SubSeq(buf, h.n + 1, Len(buf))
      hashed == Rec(h.t).type = "hs" /\ ttls_hs_checksumable(h.t)
      inline == h.n >= TTLS_HS_HDR_LEN /\ rest # <<>>
      hh == Bytes(h.t.rec, TLS_HEADER_SIZE, TTLS_HS_HDR_LEN)
      y == IF ~x.hdriv /\ hashed /\ ~inline THEN ttls_update_checksum(h.t, hh) ELSE
           IF x.hdriv THEN x ELSE h.t
      b == IF x.hdriv THEN buf ELSE rest
      pre == IF ~x.hdriv /\ hashed /\ inline THEN hh ELSE <<>>
      body == CASE Rec(y).type = "alert" /\ ~ttls_xfrm_ready(y) -> ttls_handle_alert(y)
                [] Rec(y).type \in {"ccs", "hs"} -> Handshake(y, b, pre, fail)
                [] OTHER -> Sealed(y, b)
  IN IF ~x.hdriv /\ h.r # "ok" THEN h
     ELSE [body EXCEPT !.n = @ + (IF x.hdriv THEN 0 ELSE h.n)]
-----------------------------------------------------------------------------
ttls_reset_io_ctx(x) == [x EXCEPT !.hdriv = FALSE, !.rlen = 0, !.cpsz = 0]
Told(x, y) == x.state # OVER /\ y.state = OVER
tfw_tls_hs_over(c) == cbs' = Append(cbs, c)

(* One turn of the loop of tfw_tls_msg_process(). *)
tfw_tls_msg_process(fail) ==
  /\ conn = "up" /\ skb # <<>>
  /\ \E s \in {ttls_recv(t, skb, fail)} :
     /\ out' = out \o s.out
     /\ \/ /\ s.r = "drop"
           /\ conn' = "dropped" /\ skb' = <<>> /\ t' = s.t
           /\ IF ttls_hs_done(s.t) THEN cbs' = cbs ELSE tfw_tls_hs_over("incomplete")
           /\ UNCHANGED up
        \/ /\ s.r = "postpone"
           /\ t' = s.t /\ skb' = <<>>
           /\ UNCHANGED <<conn, cbs, up>>
        \/ /\ s.r = "ok"
           /\ t' = ttls_reset_io_ctx(s.t)
           /\ skb' = SubSeq(skb, s.n + 1, Len(skb))
           /\ IF Told(t, s.t) THEN tfw_tls_hs_over(IF s.t.resume THEN "resumed" ELSE "new")
              ELSE cbs' = cbs
           /\ up' = IF Rec(s.t).type = "app" THEN Append(up, s.t.rec) ELSE up
           /\ UNCHANGED conn
     /\ UNCHANGED <<recs, net, honest>>

Process ==
  \/ /\ \E f \in {"SH", "CRT", "SKE"} : tfw_tls_msg_process(f)
     /\ fails < MaxFail /\ fails' = fails + 1
     /\ t.state \in {CLIENT_HELLO, SERVER_HELLO} /\ t'.state \in SERVER_HELLO .. SERVER_KEY_EXCHANGE
  \/ tfw_tls_msg_process("no") /\ UNCHANGED fails

(* An skb: any first part of the bytes on their way. *)
Deliver ==
  /\ conn = "up" /\ skb = <<>> /\ net # <<>>
  /\ \E n \in IF honest THEN 1 .. Len(net) ELSE {Len(net)} : skb' = SubSeq(net, 1, n) /\ net' = SubSeq(net, n + 1, Len(net))
  /\ UNCHANGED <<recs, t, out, conn, cbs, up, honest, fails>>

(* tfw_tls_encrypt(): TCP sends the first record made ready but not sealed;
   the alert that ends the connection closes the socket.  Without a context
   (sk_user_data is NULL) the write queue is purged and nothing is sealed. *)
Unsealed == {i \in DOMAIN out : out[i].enc /\ out[i].ctr = Unsent}
tfw_tls_encrypt ==
  /\ Unsealed # {} /\ conn \notin {"closed", "gone"}
  /\ LET i == CHOOSE k \in Unsealed : \A j \in Unsealed : k <= j
     IN /\ out' = [out EXCEPT ![i].ctr = t.outctr]
        /\ conn' = IF out[i].name # "DATA" THEN "closed" ELSE conn
  /\ t' = [t EXCEPT !.outctr = @ + 1]
  /\ UNCHANGED <<recs, net, skb, cbs, up, honest, fails>>

(* tfw_tls_conn_send(): a response to a request that came up *)
tfw_tls_conn_send(close) ==
  /\ conn = "up" /\ Cardinality({i \in DOMAIN out : out[i].name = "DATA"}) < Len(up)
  /\ out' = out \o <<[name |-> "DATA", enc |-> ttls_xfrm_ready(t), ctr |-> Unsent, view |-> <<>>]>>
                \o (IF close THEN ttls_close_notify(t) ELSE <<>>)
  /\ UNCHANGED <<recs, net, skb, t, conn, cbs, up, honest, fails>>

(* tfw_tls_conn_close() by a timer or a shutdown: an alert when the handshake
   is over, else the socket is closed at once. *)
tfw_tls_conn_close ==
  /\ conn = "up" /\ skb = <<>> /\ ~honest
  /\ out' = out \o ttls_close_notify(t)
  /\ conn' = IF ttls_hs_done(t) THEN conn ELSE "closed"
  /\ \A i \in DOMAIN out : out[i].name # "close_notify"
  /\ UNCHANGED <<recs, net, skb, t, cbs, up, honest, fails>>

(* tfw_tls_connection_lost() and the destructor: the context is cleared. *)
(* mutant: every lost connection is reported as an incomplete handshake *)
ConnDtorAlways ==
  /\ conn \in {"dropped", "closed"}
  /\ cbs' = Append(cbs, "incomplete")
  /\ conn' = "gone" /\ net' = <<>> /\ skb' = <<>>
  /\ t' = [t EXCEPT !.hs = FALSE, !.keys = FALSE, !.xsum = <<>>]
  /\ UNCHANGED <<recs, out, up, honest, fails>>
tfw_tls_conn_dtor ==
  /\ conn \in {"dropped", "closed"}
  /\ cbs' = IF ttls_hs_done(t) THEN cbs ELSE Append(cbs, "incomplete")
  /\ conn' = "gone" /\ net' = <<>> /\ skb' = <<>>
  /\ t' = [t EXCEPT !.hs = FALSE, !.keys = FALSE, !.xsum = <<>>]
  /\ UNCHANGED <<recs, out, up, honest, fails>>
-----------------------------------------------------------------------------
(* The client: external, as the protocol has it. *)
Idx(h) == {i \in DOMAIN recs : recs[i].hst = h}
Sent(h) == Idx(h) # {}
Said(name) == \E i \in DOMAIN out : out[i].name = name
Resumes == \E i \in Idx("CH") : recs[i].want = "resume"
HsBytes(h) == IF Sent(h) THEN LET i == CHOOSE x \in Idx(h) : TRUE
                              IN Bytes(i, TLS_HEADER_SIZE, TTLS_HS_HDR_LEN + recs[i].body)
              ELSE <<>>
S(name) == <<<<"S", name>>>>
ClientView == IF Resumes THEN HsBytes("CH") \o S("SH") \o S("FIN")
              ELSE HsBytes("CH") \o S("SH") \o S("CRT") \o S("SKE") \o S("SHD") \o HsBytes("CKE")
ServerView == IF Resumes THEN HsBytes("CH") \o S("SH")
              ELSE ClientView \o <<<<"C", "FIN">>>> \o (IF Said("NST") THEN S("NST") ELSE <<>>)

R(type, hst, body, enc, want) ==
  [type |-> type, hst |-> hst, body |-> body, enc |-> enc, want |-> want,
   view |-> IF hst = "FIN" THEN ClientView ELSE <<>>,
   ctr |-> Cardinality({i \in DOMAIN recs : recs[i].enc})]
Hello == {R("hs", "CH", 2, FALSE, w) : w \in {"none", "ticket", "resume"}}
Key == R("hs", "CKE", 2, FALSE, "none")
Ccs == R("ccs", "CCS", 1, FALSE, "none")
Fin == R("hs", "FIN", 2, TRUE, "none")
Data(n) == R("app", "DATA", n, TRUE, "none")
Bye == R("alert", "close_notify", 2, TRUE, "none")

HonestRecords ==
  IF ~Sent("CH") THEN Hello
  ELSE IF ~Resumes /\ ~Sent("CKE") THEN IF Said("SHD") THEN {Key} ELSE {}
  ELSE IF ~Sent("CCS") THEN IF Resumes => Said("FIN") THEN {Ccs} ELSE {}
  ELSE IF ~Sent("FIN") THEN {Fin}
  ELSE IF ~Resumes /\ ~Said("FIN") THEN {}
  ELSE IF Sent("close_notify") THEN {}
  ELSE IF ~Sent("DATA") THEN {Data(1), Data(0)} ELSE {Bye}
RogueRecords ==
  Hello \cup {Key, Ccs, Fin, Data(1), Bye, [Fin EXCEPT !.view = <<>>], [Fin EXCEPT !.enc = FALSE],
     [Data(1) EXCEPT !.enc = FALSE], [Data(1) EXCEPT !.ctr = @ + 1]}
     \cup {[Bye EXCEPT !.hst = h, !.enc = FALSE] : h \in {"fatal", "other", "close_notify"}}

ClientSend ==
  /\ conn = "up" /\ Len(recs) < IF honest THEN MaxRec ELSE MaxRogue
  /\ honest \/ (net = <<>> /\ skb = <<>>)
  /\ \E r \in IF honest THEN HonestRecords ELSE RogueRecords :
       /\ recs' = Append(recs, r)
       /\ net' = net \o Bytes(Len(recs) + 1, 0, TLS_HEADER_SIZE + msglen(r))
  /\ UNCHANGED <<skb, t, out, conn, cbs, up, honest, fails>>

ConnNext == \/ ClientSend \/ Deliver \/ Process \/ tfw_tls_encrypt
            \/ tfw_tls_conn_send(TRUE) \/ tfw_tls_conn_send(FALSE)
            \/ tfw_tls_conn_close \/ tfw_tls_conn_dtor
ConnSpec == ConnInit /\ [][ConnNext]_cvars
(* TCP delivers and sends, softirqs run, a closed socket is released, and an
   honest client goes on with the protocol. *)
Progress == honest /\ (Deliver \/ Process \/ tfw_tls_encrypt \/ tfw_tls_conn_dtor \/ ClientSend)
ConnFair == WF_cvars(Progress)
-----------------------------------------------------------------------------
(* A client that follows the protocol is never refused, wherever TCP cuts its *)
(* bytes: each of its handshake bytes is hashed once and in order, so that    *)
(* both Finished messages agree, and each of its sealed records meets the     *)
(* sequence number the server expects.                                        *)
HonestAgrees ==
  honest /\ fails = 0 =>
    /\ conn = "dropped" => Sent("close_notify") /\ net = <<>>
    /\ \A i \in DOMAIN out : out[i].name = "FIN" => out[i].view = ServerView

(* Whatever a client sends, data reaches the HTTP layer only after its        *)
(* Finished was verified, sealed by the keys of the handshake, in the order   *)
(* it was sealed and once; the end of the handshake was told before.          *)
DataAfterFinished ==
  up # <<>> =>
    /\ ~t.hs /\ cbs \in {<<"new">>, <<"resumed">>}
    /\ \A i \in DOMAIN up : /\ recs[up[i]].enc /\ recs[up[i]].type = "app"
                             /\ i > 1 => up[i - 1] < up[i]
                             /\ \E f \in 1 .. up[i] - 1 : recs[f].hst = "FIN" /\ recs[f].enc
                                                       /\ recs[f].view # <<>>

(* What the server seals goes out under consecutive sequence numbers, in the  *)
(* order of the bytes on the wire: the Finished sealed in the handshake and   *)
(* the records sealed later by tfw_tls_encrypt() never use a number twice.    *)
SealedInOrder ==
  LET sealed == {i \in DOMAIN out : out[i].ctr # Unsent}
  IN \A i \in sealed : out[i].ctr = Cardinality({j \in sealed : j < i})

(* Frang is told once that a handshake is over, and never that it is          *)
(* incomplete after that; a connection that goes away without is reported.    *)
HandshakeTold ==
  /\ \A i \in DOMAIN cbs : cbs[i] \in {"new", "resumed"} => Len(cbs) = 1
  /\ conn = "gone" => cbs # <<>>

(* An honest client is served and its connection is released. *)
HonestServed == honest => <>(fails > 0 \/ (conn = "gone" /\ up # <<>>))

(* The record layer around a handshake: data only after Finished, records
   sealed in order, the end of the handshake reported. *)
RecordsSafe == DataAfterFinished /\ SealedInOrder /\ HandshakeTold
=============================================================================
