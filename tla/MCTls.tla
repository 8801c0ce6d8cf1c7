------------------------------- MODULE MCTls ------------------------------
EXTENDS TlsHello, TlsConn, TlsTicket

(* One behaviour runs one part: the ClientHello parser, a connection or the
   ticket keys of a virtual host; the other two stay as they begin. *)
VARIABLE part

(* virtual hosts by the one-byte names of the model: 10 has a certificate,
   11 uses the one of the default host 9, named explicitly by nobody *)
MCVhosts == [v \in {9, 10, 11} |->
               IF v = 9 THEN [cert |-> TRUE, dflt |-> 0]
               ELSE [cert |-> v = 10, dflt |-> 9]]
MCSuites == <<[id |-> 2, ec |-> TRUE, sig |-> 3], [id |-> 1, ec |-> FALSE, sig |-> 1]>>
MCCerts == <<[pk |-> 1, curve |-> 0], [pk |-> 3, curve |-> 23]>>

Ext16(type, d) == <<0, type, 0, Len(d)>> \o d
Msg(ver, sess, cslen, css, comp, exts, add) ==
  LET flat[i \in 0 .. Len(css)] == IF i = 0 THEN <<>> ELSE flat[i - 1] \o <<0, css[i]>>
  IN ver \o <<7, 7>> \o <<Len(sess)>> \o sess \o <<0, cslen>> \o flat[Len(css)]
     \o <<Len(comp)>> \o comp \o <<0, Len(exts) + add>> \o exts
Sni(h) == Ext16(1, <<0, 4, 0, 0, 1, h>>)
Sig == Ext16(2, <<0, 2, 4, 1>>)
Sig6 == Ext16(2, <<0, 2, 6, 3>>)
Curves == Ext16(3, <<0, 2, 0, 23>>)
Points == Ext16(4, <<1, 0>>)
Ticket == Ext16(6, <<5>>)
Alpn == Ext16(7, <<0, 2, 1, 2>>)
AlpnBad == Ext16(7, <<0, 3, 1, 2, 0>>)
Ems == Ext16(5, <<>>)
Reneg == Ext16(8, <<0>>)
ExtSets == {<<>>, Sni(10), Sni(11), Sni(9), Sni(12), Sni(10) \o Sni(11), Sig6, Curves \o Curves,
            Sni(10) \o Curves \o Sig, Ems \o Alpn, Curves \o Sig, AlpnBad, Alpn \o Points,
            Ticket \o Sni(10), Reneg \o Ems, Ext16(1, <<0, 5, 0, 0, 1, 10>>), <<0, 1, 0, 9, 0>>,
            Sig \o <<0, 1>>, Ext16(99, <<1, 2, 3>>) \o Curves}
V3 == <<3, 3>>
Heads == {Msg(V3, s, 2 * Len(c) + d, c, m, Ems, a) :
            s \in {<<>>, <<8>>, <<8, 9>>, <<8, 9, 9>>}, c \in {<<1>>, <<1, 2>>, <<1, 2, 255>>},
            d \in {0, 1, 2}, m \in {<<0>>, <<1>>, <<1, 0>>, <<>>}, a \in {0, 1}}
MCInputs ==
  {[msg |-> Msg(V3, <<8>>, 4, <<1, 2>>, <<0>>, e, 0), tail |-> x] : e \in ExtSets, x \in {<<>>, <<3>>}}
  \cup {[msg |-> m, tail |-> <<>>] : m \in Heads \cup {Msg(<<3, 1>>, <<>>, 2, <<1>>, <<0>>, <<>>, 0)}}
  \cup {[msg |-> SubSeq(m, 1, Len(m) - 4), tail |-> x] : m \in Heads, x \in {<<3>>, <<0, 0, 0>>}}

NoHello == CHOOSE i \in MCInputs : TRUE
Init ==
  /\ part \in {"hello", "conn", "ticket"}
  /\ HelloInit /\ ConnInit /\ TicketInit
  /\ part # "hello" => in = NoHello
  /\ part # "conn" => ~honest
  /\ part # "ticket" => tcfg.secret = UserSecret
Next ==
  /\ UNCHANGED part
  /\ \/ part = "hello" /\ HelloNext /\ UNCHANGED <<cvars, tvars>>
     \/ part = "conn" /\ ConnNext /\ UNCHANGED <<hvars, tvars>>
     \/ part = "ticket" /\ TicketNext /\ UNCHANGED <<hvars, cvars>>
Spec == Init /\ [][Next]_<<part, hvars, cvars, tvars>> /\ ConnFair
=============================================================================
