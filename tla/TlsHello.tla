------------------------------ MODULE TlsHello ------------------------------
(***************************************************************************)
(* The ClientHello parser of tls/tls_srv.c.  A ClientHello arrives in      *)
(* chunks of any size; ttls_parse_client_hello() is re-entered with every  *)
(* chunk in the substate it stopped in, with io->rlen bytes of that        *)
(* substate read already.  One action is one substate of the parser.  The  *)
(* sizes of the fixed fields are CONSTANTS, smaller than the code's.       *)
(***************************************************************************)
EXTENDS Integers, Sequences, FiniteSets

CONSTANTS Inputs,    \* [msg, tail]: the message body and what follows it
          RndLen,    \* sizeof(randbytes) / 2
          SessMax,   \* sizeof(sess.id)
          CssMax,    \* bytes of hs->css
          ExtMax,    \* sizeof(hs->ext)
          DpMax,     \* TTLS_ECP_DP_MAX
          Vhosts,    \* the configured virtual hosts: name -> [cert, dflt]
          AnySni,    \* tfw_tls.allow_any_sni
          Tickets,   \* peer_conf->sess_tickets
          OurSuites, \* peer_conf->ciphersuite_list: [id, ec, sig] records
          OurCerts,  \* peer_conf->key_cert: [pk, curve] records
          NoVhost    \* a null pointer to a virtual host
ASSUME HelloSizes == RndLen > 0 /\ SessMax >= 0 /\ CssMax > 0 /\ ExtMax > 0

VARIABLES in, st, p, sp, lim, io, hs, ret
hvars == <<in, st, p, sp, lim, io, hs, ret>>

(* TTLS_TLS_EXT_*: the model's numbers of the extensions *)
EXT_SNI == 1
EXT_SIG == 2
EXT_CURVES == 3
EXT_POINTS == 4
EXT_EMS == 5
EXT_TICKET == 6
EXT_ALPN == 7
EXT_RENEG == 8
EMPTY_RENEG == 255          \* TTLS_EMPTY_RENEGOTIATION_INFO

U16(hi, lo) == 256 * hi + lo
Buf == in.msg \o in.tail
At(i) == Buf[i + 1]
Least(a, b) == IF a < b THEN a ELSE b

HelloInit ==
  /\ in \in Inputs
  /\ st = "VER" /\ p = 0 /\ sp = 0 /\ lim = 0 /\ ret = "postpone"
  /\ io = [rlen |-> 0, hslen |-> Len(in.msg)]
  /\ hs = [id_len |-> 0, sess |-> <<>>, cs_total |-> 0, cs_cur |-> 0, css |-> <<>>,
           compr_n |-> 0, has_null |-> FALSE, rem |-> 0, type |-> 0, sz |-> 0,
           ext |-> [i \in 0 .. 2 * ExtMax |-> 0], seen |-> <<>>,
           algs |-> {}, curves_ext |-> FALSE, curves |-> <<>>, ems |-> FALSE,
           points |-> FALSE, reneg |-> FALSE, t_len |-> 0, new_ticket |-> FALSE,
           alpn |-> 0, bad |-> FALSE, peer |-> NoVhost, refs |-> [v \in DOMAIN Vhosts |-> 0],
           resume |-> FALSE, suite |-> 0, cert |-> 0]

FailWith(h) == ret' = "err" /\ hs' = h /\ UNCHANGED <<in, st, p, sp, lim, io>>
Fail == FailWith(hs)

(* TTLS_HS_FSM_FINISH: the bytes read in this substate are remembered. *)
Exit(h, q, hl) ==
  /\ hs' = h /\ p' = q /\ ret' = "postpone"
  /\ io' = [rlen |-> io.rlen + (q - sp), hslen |-> hl]
  /\ UNCHANGED <<in, st, sp, lim>>

(* TTLS_HS_FSM_MOVE: go on in substate s, now or with the next chunk. *)
Move(s, h, q, hl) ==
  /\ hs' = h /\ p' = q /\ sp' = q /\ st' = s
  /\ io' = [rlen |-> 0, hslen |-> hl % 65536]
  /\ ret' = IF q >= lim THEN "postpone" ELSE "run"
  /\ UNCHANGED <<in, lim>>

(* The next chunk of the connection's byte stream. *)
Chunk ==
  /\ ret = "postpone" /\ lim < Len(Buf)
  /\ \E l \in lim + 1 .. Len(Buf) : lim' = l
  /\ sp' = p /\ ret' = "run"
  /\ UNCHANGED <<in, st, p, io, hs>>

Sub(s) == ret = "run" /\ st = s

Ver ==
  /\ Sub("VER")
  /\ LET two == io.rlen = 0 /\ p + 1 < lim
     IN IF At(p) # 3 \/ (two /\ At(p + 1) # 3) THEN Fail
        ELSE IF io.rlen = 0 /\ ~two THEN Exit(hs, p + 1, io.hslen)
        ELSE Move("RND", hs, p + (IF two THEN 2 ELSE 1), io.hslen - 2)

Rnd ==
  /\ Sub("RND")
  /\ LET n == Least(RndLen - io.rlen, lim - p)
     IN IF io.rlen + n < RndLen THEN Exit(hs, p + n, io.hslen - n)
        ELSE Move("SLEN", hs, p + n, io.hslen - n)

SLen ==
  /\ Sub("SLEN")
  /\ LET n == At(p)
     IN IF n > SessMax \/ n + 9 > io.hslen THEN Fail
        ELSE Move(IF n > 0 THEN "SESS" ELSE "CSLEN",
                  [hs EXCEPT !.id_len = n], p + 1, io.hslen - 1)

Sess ==
  /\ Sub("SESS")
  /\ LET n == Least(hs.id_len - io.rlen, lim - p)
         h == [hs EXCEPT !.sess = @ \o SubSeq(Buf, p + 1, p + n)]
     IN IF io.rlen + n < hs.id_len THEN Exit(h, p + n, io.hslen - n)
        ELSE Move("CSLEN", h, p + n, io.hslen - n)

(* A two-byte number: <<value, position after it>>; the first byte was read
   with an earlier chunk (old) or the second one is yet to come. *)
Have16 == io.rlen > 0 \/ lim - p # 1
Get16(old) == IF io.rlen > 0 THEN <<old + At(p), p + 1>> ELSE <<U16(At(p), At(p + 1)), p + 2>>

CsLen ==
  /\ Sub("CSLEN")
  /\ IF ~Have16 THEN Exit([hs EXCEPT !.cs_total = 256 * At(p)], p + 1, io.hslen)
     ELSE LET g == Get16(hs.cs_total)  n == g[1]
          IN IF n < 2 \/ n + 1 > io.hslen - 2 \/ n % 2 = 1 THEN Fail
             ELSE Move("CS", [hs EXCEPT !.cs_total = n, !.cs_cur = 0], g[2], io.hslen - 2)

ttls_check_scsvs(h, cs) == [h EXCEPT !.reneg = @ \/ cs = EMPTY_RENEG]

Cs ==
  /\ Sub("CS")
  /\ LET i == hs.cs_cur \div 2
         old == IF i < Len(hs.css) THEN hs.css[i + 1] ELSE 0
         put(v) == [hs EXCEPT !.css = SubSeq(@, 1, i) \o <<v>>]
     IN IF hs.cs_cur >= CssMax THEN Move("CS_SKIP", hs, p, io.hslen)
        ELSE IF ~Have16 THEN Exit(put(256 * At(p)), p + 1, io.hslen)
        ELSE LET g == Get16(old)
                 h == [ttls_check_scsvs(put(g[1]), g[1]) EXCEPT !.cs_cur = @ + 2]
             IN Move(IF h.cs_cur = hs.cs_total THEN "COMPN" ELSE "CS", h, g[2], io.hslen - 2)

(* mutant: the last byte of the skipped suites is not skipped when a chunk
   ends in front of it *)
CsSkipShort ==
  /\ Sub("CS_SKIP")
  /\ LET d == Least(lim - p, hs.cs_total - hs.cs_cur)
         h == [hs EXCEPT !.cs_cur = @ + d]
     IN Move(IF h.cs_cur >= hs.cs_total - 1 THEN "COMPN" ELSE "CS_SKIP",
             [h EXCEPT !.cs_total = IF h.cs_cur >= @ - 1 THEN CssMax ELSE @], p + d, io.hslen - d)

CsSkip ==
  /\ Sub("CS_SKIP")
  /\ LET d == Least(lim - p, hs.cs_total - hs.cs_cur)
         h == [hs EXCEPT !.cs_cur = @ + d]
     IN IF h.cs_cur = hs.cs_total
        THEN Move("COMPN", [h EXCEPT !.cs_total = CssMax], p + d, io.hslen - d)
        ELSE Move("CS_SKIP", h, p + d, io.hslen - d)

CompN ==
  /\ Sub("COMPN")
  /\ LET n == At(p)
     IN IF n < 1 \/ n > 16 \/ n + 1 > io.hslen THEN Fail
        ELSE Move("COMP", [hs EXCEPT !.compr_n = n, !.has_null = FALSE], p + 1, io.hslen - 1)

Comp ==
  /\ Sub("COMP")
  /\ LET h == [hs EXCEPT !.has_null = @ \/ At(p) = 0, !.compr_n = @ - 1]
     IN IF h.compr_n = 0
        THEN IF h.has_null THEN Move("EXTLEN", h, p + 1, io.hslen - 1) ELSE Fail
        ELSE Move("COMP", h, p + 1, io.hslen - 1)

ExtLen ==
  /\ Sub("EXTLEN")
  /\ IF ~Have16 THEN Exit([hs EXCEPT !.rem = 256 * At(p)], p + 1, io.hslen)
     ELSE LET g == Get16(hs.rem)  n == g[1]  hl == (io.hslen - 2) % 65536
          IN IF hl # n \/ (n > 0 /\ n < 4) THEN Fail
             ELSE IF n = 0
                  THEN /\ ret' = "parsed" /\ p' = g[2]
                       /\ hs' = [hs EXCEPT !.rem = 0]
                       /\ io' = [rlen |-> io.rlen + (g[2] - sp), hslen |-> hl]
                       /\ UNCHANGED <<in, st, sp, lim>>
                  ELSE Move("EXT", [hs EXCEPT !.rem = n], g[2], hl)

Ext ==
  /\ Sub("EXT")
  /\ IF ~Have16 THEN Exit([hs EXCEPT !.type = 256 * At(p)], p + 1, io.hslen)
     ELSE LET g == Get16(hs.type)
          IN Move("EXS", [hs EXCEPT !.type = g[1]], g[2], io.hslen - 2)

Exs ==
  /\ Sub("EXS")
  /\ IF ~Have16 THEN Exit([hs EXCEPT !.sz = 256 * At(p)], p + 1, io.hslen)
     ELSE LET g == Get16(hs.sz)  n == g[1]
              h == [hs EXCEPT !.sz = n]
          IN IF n + 4 > hs.rem \/ n > ExtMax THEN Fail
             ELSE IF n > 0 THEN Move("EX", h, g[2], io.hslen - 2)
             ELSE /\ hs' = h /\ p' = g[2] /\ sp' = g[2] /\ st' = "EX" /\ ret' = "run"
                  /\ io' = [rlen |-> 0, hslen |-> io.hslen - 2]
                  /\ UNCHANGED <<in, lim>>
-----------------------------------------------------------------------------
(* The virtual host a server name stands for, found with a reference taken. *)
Default == CHOOSE v \in DOMAIN Vhosts : Vhosts[v].dflt = NoVhost
Get(r, v) == [r EXCEPT ![v] = @ + 1]
Put(r, v) == [r EXCEPT ![v] = @ - 1]

(* mutant: the host without a certificate is not put *)
GetIfConfiguredLeak(r, v) ==
  LET d == Vhosts[v].dflt
  IN IF Vhosts[v].cert THEN [peer |-> v, refs |-> r]
     ELSE IF d = NoVhost THEN [peer |-> NoVhost, refs |-> Put(r, v)]
     ELSE IF ~Vhosts[d].cert THEN [peer |-> NoVhost, refs |-> Put(r, v)]
     ELSE [peer |-> d, refs |-> Get(r, d)]

tfw_tls_get_if_configured(r, v) ==
  LET d == Vhosts[v].dflt
  IN IF Vhosts[v].cert THEN [peer |-> v, refs |-> r]
     ELSE IF d = NoVhost THEN [peer |-> NoVhost, refs |-> Put(r, v)]
     ELSE IF ~Vhosts[d].cert THEN [peer |-> NoVhost, refs |-> Put(r, v)]
     ELSE [peer |-> d, refs |-> Put(Get(r, d), v)]

Refuse(h) == [h EXCEPT !.bad = TRUE]

(* name is a server name, or NoVhost when the client sent none *)
tfw_tls_sni(h, name) ==
  LET found == name \in DOMAIN Vhosts
      vhost == IF found THEN name ELSE Default
      taken == Get(h.refs, vhost)
      conf == tfw_tls_get_if_configured(taken, vhost)
  IN IF h.peer # NoVhost THEN Refuse(h)
     ELSE IF found /\ Vhosts[vhost].dflt = NoVhost
          THEN Refuse([h EXCEPT !.refs = Put(taken, vhost)])
     ELSE IF ~found /\ name # NoVhost /\ ~AnySni THEN Refuse(h)
     ELSE [h EXCEPT !.peer = conf.peer, !.refs = conf.refs, !.bad = conf.peer = NoVhost]
-----------------------------------------------------------------------------
(* The extensions.  Each takes the handshake h, the buffer b the extension   *)
(* was copied to (bytes of an earlier one may follow it) and its size n, and *)
(* gives the new handshake, refused or not.                                  *)
ListOk(b, n) == n >= 2 /\ U16(b[0], b[1]) + 2 = n

HOSTNAME == 0                \* TTLS_TLS_EXT_SERVERNAME_HOSTNAME
ttls_parse_servername_ext(h, b, n) ==
  LET walk[o \in 2 .. n] ==       \* the entries from offset o; a name is one byte
        LET hl == IF o < n THEN U16(b[o + 1], b[o + 2]) ELSE 0
        IN IF o = n THEN h
           ELSE IF hl + 3 > n - o THEN Refuse(h)
           ELSE IF b[o] = HOSTNAME
                THEN tfw_tls_sni(h, IF hl = 0 THEN NoVhost ELSE b[o + 3])
           ELSE walk[o + hl + 3]
  IN IF ListOk(b, n) THEN walk[2] ELSE Refuse(h)

KnownSig == {1, 3}           \* RSA, ECDSA
KnownHash == {4, 5, 6}       \* SHA256, SHA384, SHA512
ttls_parse_signature_algorithms_ext(h, b, n) ==
  IF ~ListOk(b, n) \/ n % 2 = 1 THEN Refuse(h)
  ELSE [h EXCEPT !.algs = @ \cup {<<b[2 * i + 1], b[2 * i]>> :
          i \in {j \in 1 .. (n - 2) \div 2 : b[2 * j + 1] \in KnownSig /\ b[2 * j] \in KnownHash}}]

KnownCurve == {23, 29}       \* secp256r1, x25519
(* The loop runs once per byte of the list and reads two bytes each time.    *)
ttls_parse_supported_elliptic_curves(h, b, n) ==
  LET size == IF (n - 2) \div 2 + 1 > DpMax THEN DpMax - 1 ELSE n - 2
      id(i) == U16(b[2 * i], b[2 * i + 1])
      f[i \in 0 .. size] ==
        IF i = 0 THEN <<>>
        ELSE IF id(i) \in KnownCurve THEN Append(f[i - 1], id(i)) ELSE f[i - 1]
  IN IF ~ListOk(b, n) \/ n % 2 = 1 \/ h.curves_ext THEN Refuse(h)
     ELSE [h EXCEPT !.curves_ext = TRUE, !.curves = f[size]]

ttls_parse_supported_point_formats(h, b, n) ==
  IF n = 0 \/ b[0] + 1 # n THEN Refuse(h) ELSE [h EXCEPT !.points = TRUE]
ttls_parse_extended_ms_ext(h, b, n) == IF n > 0 THEN Refuse(h) ELSE [h EXCEPT !.ems = TRUE]
ttls_parse_session_ticket_ext(h, b, n) == [h EXCEPT !.new_ticket = TRUE, !.t_len = n]
ttls_parse_renegotiation_info_ext(h, b, n) ==
  IF n # 1 \/ b[0] # 0 THEN Refuse(h) ELSE [h EXCEPT !.reneg = TRUE]

OurProtos == <<2>>           \* conf->alpn_list; a protocol name is one byte here
ttls_parse_alpn_ext(h, b, n) ==
  LET fits[o \in 2 .. n] ==       \* the list is well formed from offset o
        o = n \/ (b[o] > 0 /\ b[o] <= n - o - 1 /\ fits[o + 1 + b[o]])
      starts[o \in 2 .. n] == IF o = n THEN {} ELSE {o} \cup starts[o + 1 + b[o]]
      common == {i \in DOMAIN OurProtos :
                   \E o \in starts[2] : b[o] = 1 /\ b[o + 1] = OurProtos[i]}
  IN IF n < 4 \/ U16(b[0], b[1]) # n - 2 THEN Refuse(h)
     ELSE IF ~fits[2] THEN Refuse(h)
     ELSE IF common = {} THEN Refuse(h)
     ELSE [h EXCEPT !.alpn = OurProtos[CHOOSE i \in common : \A j \in common : i <= j]]

Parsed(h, b, n) ==
  CASE h.type = EXT_SNI -> ttls_parse_servername_ext(h, b, n)
    [] h.type = EXT_SIG -> ttls_parse_signature_algorithms_ext(h, b, n)
    [] h.type = EXT_CURVES -> ttls_parse_supported_elliptic_curves(h, b, n)
    [] h.type = EXT_POINTS -> ttls_parse_supported_point_formats(h, b, n)
    [] h.type = EXT_EMS -> ttls_parse_extended_ms_ext(h, b, n)
    [] h.type = EXT_TICKET -> ttls_parse_session_ticket_ext(h, b, n)
    [] h.type = EXT_ALPN -> ttls_parse_alpn_ext(h, b, n)
    [] h.type = EXT_RENEG -> ttls_parse_renegotiation_info_ext(h, b, n)
    [] OTHER -> h

Ex ==
  /\ Sub("EX")
  /\ LET n == Least(hs.sz - io.rlen, lim - p)
         copied == [i \in DOMAIN hs.ext |->
                      IF i >= io.rlen /\ i < io.rlen + n THEN At(p + i - io.rlen) ELSE hs.ext[i]]
         h1 == IF hs.type = EXT_TICKET THEN hs ELSE [hs EXCEPT !.ext = copied]
         h2 == Parsed(h1, copied, hs.sz)
         rem == hs.rem - 4 - hs.sz
     IN IF io.rlen + n < hs.sz THEN Exit(h1, p + n, io.hslen)
        ELSE IF h2.bad \/ (rem > 0 /\ rem < 4) THEN FailWith(h2)
        ELSE LET h3 == [h2 EXCEPT !.rem = rem, !.seen = Append(@, hs.type)]
             IN IF rem > 0 THEN Move("EXT", h3, p + n, io.hslen)
                ELSE /\ ret' = "parsed" /\ hs' = h3 /\ p' = p + n
                     /\ io' = [io EXCEPT !.rlen = @ + (p + n - sp)]
                     /\ UNCHANGED <<in, st, sp, lim>>
-----------------------------------------------------------------------------
(* What follows a complete ClientHello. *)
SHA256 == 4
Presets == <<4, 5>>          \* ttls_preset_hashes
TTLS_TICKET_MAX_SZ == ExtMax

ttls_process_session_ticket(h, good) ==
  IF ~Tickets THEN [h EXCEPT !.new_ticket = FALSE]
  ELSE IF h.t_len = 0 \/ h.t_len > TTLS_TICKET_MAX_SZ \/ ~good THEN h
  ELSE [h EXCEPT !.resume = TRUE, !.new_ticket = FALSE]

(* The first of our hashes the client supports with a signature algorithm;
   SHA256 when it named none; an error when all it named are not ours. *)
ttls_match_sig_hashes(h) ==
  LET named(s) == {a[2] : a \in {b \in h.algs : b[1] = s}}
      ours(s) == {i \in DOMAIN Presets : Presets[i] \in named(s)}
      best(s) == IF ours(s) = {} THEN SHA256
                 ELSE Presets[CHOOSE i \in ours(s) : \A j \in ours(s) : i <= j]
  IN IF \E s \in KnownSig : ours(s) = {} /\ named(s) # {} THEN Refuse(h)
     ELSE [h EXCEPT !.algs = {<<s, best(s)>> : s \in KnownSig}]

ECDSA == 3
ttls_check_key_curve(cert, h) == \E i \in DOMAIN h.curves : h.curves[i] = cert.curve
ttls_pick_cert(h, suite) ==
  {i \in DOMAIN OurCerts : /\ OurCerts[i].pk = suite.sig
                           /\ suite.sig = ECDSA => ttls_check_key_curve(OurCerts[i], h)}
ttls_ciphersuite_match(h, suite) ==
  /\ suite.ec => h.curves # <<>>
  /\ \E a \in h.algs : a[1] = suite.sig
  /\ ttls_pick_cert(h, suite) # {}

First(S) == CHOOSE i \in S : \A j \in S : i <= j
ttls_choose_ciphersuite(h) ==
  LET offered == {h.css[i] : i \in 1 .. h.cs_total \div 2}
      usable == {i \in DOMAIN OurSuites :
                   OurSuites[i].id \in offered /\ ttls_ciphersuite_match(h, OurSuites[i])}
  IN IF usable = {} THEN Refuse(h)
     ELSE LET s == OurSuites[First(usable)]
          IN [h EXCEPT !.suite = s.id, !.cert = First(ttls_pick_cert(h, s))]

Negotiate ==
  /\ ret = "parsed"
  /\ \E good \in BOOLEAN :
       LET h1 == IF hs.peer = NoVhost THEN tfw_tls_sni(hs, NoVhost) ELSE hs
           h2 == ttls_process_session_ticket(h1, good)
           h3 == ttls_match_sig_hashes(h2)
           h4 == ttls_choose_ciphersuite(h3)
           h == IF h1.bad THEN h1 ELSE IF h3.bad THEN h3 ELSE h4
       IN hs' = h /\ ret' = IF h.bad THEN "refused" ELSE "ok"
  /\ UNCHANGED <<in, st, p, sp, lim, io>>

HelloNext == \/ Chunk \/ Ver \/ Rnd \/ SLen \/ Sess \/ CsLen \/ Cs \/ CsSkip \/ CompN
             \/ Comp \/ ExtLen \/ Ext \/ Exs \/ Ex \/ Negotiate
-----------------------------------------------------------------------------
(* The message as its grammar defines it, read at once: what the parser must *)
(* find whatever the chunks.                                                 *)
B(i) == in.msg[i + 1]
W(i) == U16(B(i), B(i + 1))
Size == Len(in.msg)
OSid == 2 + RndLen
OCs == OSid + 1 + B(OSid)
OComp == OCs + 2 + W(OCs)
OExt == OComp + 1 + B(OComp)

Framed ==
  /\ Size >= OSid + 1 /\ B(0) = 3 /\ B(1) = 3 /\ B(OSid) <= SessMax
  /\ Size >= OCs + 2 /\ W(OCs) >= 2 /\ W(OCs) % 2 = 0
  /\ Size >= OComp + 1 /\ B(OComp) \in 1 .. 16
  /\ Size >= OExt + 2 /\ OExt + 2 + W(OExt) = Size
  /\ \E i \in 1 .. B(OComp) : B(OComp + i) = 0

Tiles == LET f[o \in 0 .. Size] ==
               o = Size \/ (o + 4 <= Size /\ W(o + 2) <= ExtMax /\ o + 4 + W(o + 2) <= Size
                           /\ f[o + 4 + W(o + 2)])
         IN f[OExt + 2]
(* the extensions interpreted one after another, each in a buffer of its own *)
Extended(h0) ==
  LET f[o \in 0 .. Size] ==
        IF o = OExt + 2 THEN h0
        ELSE LET prev == {q \in OExt + 2 .. o - 4 : q + 4 + W(q + 2) = o /\ f[q].at = q}
             IN IF prev = {} THEN [h0 EXCEPT !.at = 0 - 1]
                ELSE LET q == CHOOSE x \in prev : TRUE
                         h == [f[q] EXCEPT !.type = W(q), !.at = o]
                         b == [i \in 0 .. 2 * ExtMax |-> IF i < W(q + 2) THEN B(q + 4 + i) ELSE 0]
                     IN IF f[q].bad THEN [f[q] EXCEPT !.at = o] ELSE Parsed(h, b, W(q + 2))
  IN f[Size]
Suites == [i \in 1 .. Least(W(OCs), CssMax) \div 2 |-> W(OCs + 2 * i)]
Blank == [bad |-> FALSE, at |-> OExt + 2, type |-> 0, algs |-> {}, curves_ext |-> FALSE,
          curves |-> <<>>, ems |-> FALSE, points |-> FALSE, t_len |-> 0, new_ticket |-> FALSE,
          reneg |-> \E i \in DOMAIN Suites : Suites[i] = EMPTY_RENEG,
          alpn |-> 0, peer |-> NoVhost, refs |-> [v \in DOMAIN Vhosts |-> 0]]
Fields == {"algs", "ems", "points", "t_len", "new_ticket", "reneg", "alpn", "peer"}
Good == Framed /\ Tiles /\ ~Extended(Blank).bad

(* However a ClientHello is cut into chunks, the parser accepts exactly the   *)
(* well-formed messages, reads each to its last byte and no further, and      *)
(* finds the session, the suites and what each extension says, untouched by   *)
(* what an earlier extension left in the shared buffer; the curves of the     *)
(* client come first in the list of curves (the loop reads on behind them).   *)
HelloAgrees ==
  /\ ret = "parsed" =>
       /\ Good /\ p = Size
       /\ hs.sess = [i \in 1 .. B(OSid) |-> B(OSid + i)]
       /\ SubSeq(hs.css, 1, hs.cs_total \div 2) = Suites
       /\ \A f \in Fields : hs[f] = Extended(Blank)[f]
       /\ SubSeq(hs.curves, 1, Len(Extended(Blank).curves)) = Extended(Blank).curves
  /\ (ret = "err" \/ (ret = "postpone" /\ lim = Len(Buf))) => ~Good

(* A connection holds one reference, to the virtual host whose certificate it *)
(* was given, and none when no host was found or the handshake was refused    *)
(* before: tfw_tls_conn_dtor() puts exactly that one.                         *)
PeerRefHeld ==
  \A v \in DOMAIN Vhosts : hs.refs[v] = IF hs.peer = v THEN 1 ELSE 0

(* The ClientHello parser reads what the client wrote and keeps hold of the
   virtual host it found. *)
HelloRead == HelloAgrees /\ PeerRefHeld
=============================================================================
