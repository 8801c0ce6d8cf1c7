--------------------------- MODULE Tls_proofs ---------------------------
(***************************************************************************)
(* Proofs about the ticket keys (the first part, module TlsTicket): a key  *)
(* lives as long as its tickets; and about a connection (the second part,  *)
(* module TlsConn): data only after a Finished that vouches for the        *)
(* handshake, records sealed in order, the end of the handshake told once. *)
(***************************************************************************)
EXTENDS TlsConn, TlsTicket, FiniteSetTheorems, SequenceTheorems, NaturalsInduction,
        WellFoundedInduction, TLAPS

-----------------------------------------------------------------------------
(* Ticket keys                                                              *)

(* Integer division by a period.                                            *)
LEMMA PeriodOf ==
    ASSUME NEW time \in Nat
    PROVE  /\ time \div Lifetime \in Nat
           /\ (time \div Lifetime) * Lifetime <= time
           /\ time < (time \div Lifetime) * Lifetime + Lifetime
BY TicketTimes

LEMMA PeriodIs ==
    ASSUME NEW time \in Nat, NEW k \in Nat, k * Lifetime <= time, time < k * Lifetime + Lifetime
    PROVE  time \div Lifetime = k
<1> DEFINE q == time \div Lifetime
<1>1. q \in Nat /\ q * Lifetime <= time /\ time < q * Lifetime + Lifetime /\ Lifetime \in Nat /\ Lifetime > 0
  BY PeriodOf, TicketTimes
<1> HIDE DEF q
<1>2. CASE q < k
  <2>1. PICK d \in Nat : k = q + 1 + d
    BY <1>1, <1>2
  <2>2. k * Lifetime = q * Lifetime + Lifetime + d * Lifetime /\ d * Lifetime >= 0
    BY <1>1, <2>1
  <2> QED BY <1>1, <2>2
<1>3. CASE k < q
  <2>1. PICK d \in Nat : q = k + 1 + d
    BY <1>1, <1>3
  <2>2. q * Lifetime = k * Lifetime + Lifetime + d * Lifetime /\ d * Lifetime >= 0
    BY <1>1, <2>1
  <2> QED BY <1>1, <2>2
<1> QED BY <1>1, <1>2, <1>3 DEF q

(* The start of a period, for any length of the periods.                    *)
LEMMA PeriodStart ==
    ASSUME NEW time \in Nat
    PROVE  /\ ttls_ticket_get_time(time) \in Nat
           /\ ttls_ticket_get_time(time) <= time
           /\ time < ttls_ticket_get_time(time) + Lifetime
           /\ ttls_ticket_get_time(ttls_ticket_get_time(time) + Lifetime)
                = ttls_ticket_get_time(time) + Lifetime
           /\ time >= 2 * Lifetime => ttls_ticket_get_time(time) >= 2 * Lifetime
<1> DEFINE q == time \div Lifetime
<1>1. q \in Nat /\ q * Lifetime <= time /\ time < q * Lifetime + Lifetime /\ Lifetime \in Nat /\ Lifetime > 0
  BY PeriodOf, TicketTimes
<1>2. ttls_ticket_get_time(time) = q * Lifetime
  BY DEF ttls_ticket_get_time
<1> HIDE DEF q
<1>3. q * Lifetime \in Nat /\ (q + 1) * Lifetime = q * Lifetime + Lifetime
  BY <1>1
<1>4. (q * Lifetime + Lifetime) \div Lifetime = q + 1
  <2>1. q + 1 \in Nat /\ q * Lifetime + Lifetime \in Nat
    BY <1>1, <1>3
  <2> QED BY <1>1, <1>3, <2>1, PeriodIs
<1>5. time >= 2 * Lifetime => q * Lifetime >= 2 * Lifetime
  <2> SUFFICES ASSUME time >= 2 * Lifetime PROVE q >= 2 /\ q * Lifetime >= 2 * Lifetime
    OBVIOUS
  <2>1. CASE q = 0
    BY <1>1, <2>1
  <2>2. CASE q = 1
    BY <1>1, <2>2
  <2>3. CASE q >= 2
    <3>1. PICK d \in Nat : q = 2 + d
      BY <1>1, <2>3
    <3>2. q * Lifetime = 2 * Lifetime + d * Lifetime /\ d * Lifetime >= 0
      BY <1>1, <3>1
    <3> QED BY <1>1, <2>3, <3>2
  <2> QED BY <1>1, <2>1, <2>2, <2>3
<1> QED BY <1>1, <1>2, <1>3, <1>4, <1>5 DEF ttls_ticket_get_time

-----------------------------------------------------------------------------
(* The inductive invariant *)

Slot == {0, 1}
Other(i) == 1 - i

TicketTypeOK ==
    /\ now \in Nat /\ due \in Nat /\ confs \in Nat
    /\ rot \in Int
    /\ tcfg \in [secret : Nat, active : Slot, ts : [Slot -> Nat]]
    /\ \A tik \in tickets :
          /\ tik.name \in Slot /\ tik.conf \in Nat /\ tik.state.start \in Int
          /\ tik.key = <<tik.key[1], tik.key[2]>> /\ tik.key[2] \in Nat

(* The timer is due at the end of a period.  The key in use is of that      *)
(* period, the other of the one before, unless the digest failed for them.  *)
PeriodInv ==
    /\ due - Lifetime <= now /\ now <= due /\ due >= 3 * Lifetime
    /\ ttls_ticket_get_time(due) = due
    /\ rot # NotRotating => now = due /\ rot \in {due, 0}
    /\ tcfg.ts[tcfg.active] \in {due - Lifetime, 0}
    /\ tcfg.ts[Other(tcfg.active)] \in {due - 2 * Lifetime, 0}

(* A ticket of this configuration is sealed with the key of its period; the *)
(* key is in the slot the ticket names until the second rotation.           *)
SealInv ==
    \A tik \in tickets :
        /\ tik.key[2] # 0 /\ tik.conf <= confs
        /\ tik.conf = confs =>
              /\ tik.key[1] = tcfg.secret
              /\ tik.state.start <= tik.key[2] + Lifetime
              /\ \/ /\ tik.key[2] = due - Lifetime /\ tik.name = tcfg.active
                    /\ tcfg.ts[tik.name] = tik.key[2]
                 \/ /\ tik.key[2] = due - 2 * Lifetime /\ tik.name = Other(tcfg.active)
                    /\ tcfg.ts[tik.name] = tik.key[2]
                 \/ tik.key[2] <= due - 3 * Lifetime

TicketInv == TicketTypeOK /\ PeriodInv /\ SealInv

(* A configuration made at time time.                                          *)
LEMMA Configured ==
    ASSUME NEW time \in Nat, time >= 2 * Lifetime, NEW s \in Nat, NEW c,
           c = ttls_tickets_configure(time, s)
    PROVE  /\ c \in [secret : Nat, active : Slot, ts : [Slot -> Nat]]
           /\ c.secret = s /\ c.active = 0
           /\ c.ts[0] = NextPeriod(time) - Lifetime /\ c.ts[1] = NextPeriod(time) - 2 * Lifetime
           /\ NextPeriod(time) \in Nat /\ NextPeriod(time) >= 3 * Lifetime
           /\ NextPeriod(time) - Lifetime <= time /\ time < NextPeriod(time)
           /\ ttls_ticket_get_time(NextPeriod(time)) = NextPeriod(time)
<1> DEFINE p == ttls_ticket_get_time(time)
<1>1. /\ p \in Nat /\ p <= time /\ time < p + Lifetime /\ p >= 2 * Lifetime
      /\ ttls_ticket_get_time(p + Lifetime) = p + Lifetime
      /\ Lifetime \in Nat /\ Lifetime > 0
  BY PeriodStart, TicketTimes
<1>2. NextPeriod(time) = p + Lifetime
  BY DEF NextPeriod
<1>3. c = [secret |-> s, active |-> 0, ts |-> [i \in 0 .. 1 |-> p - (IF i = 1 THEN Lifetime ELSE 0)]]
  BY DEF ttls_tickets_configure
<1> HIDE DEF p
<1>4. 0 .. 1 = Slot
  BY DEF Slot
<1>5. \A i \in Slot : p - (IF i = 1 THEN Lifetime ELSE 0) \in Nat
  BY <1>1
<1>6. [i \in 0 .. 1 |-> p - (IF i = 1 THEN Lifetime ELSE 0)] \in [Slot -> Nat]
  BY <1>4, <1>5
<1>7. /\ c.secret = s /\ c.active = 0 /\ c.ts[0] = p /\ c.ts[1] = p - Lifetime
      /\ c \in [secret : Nat, active : Slot, ts : [Slot -> Nat]]
  BY <1>1, <1>3, <1>6 DEF Slot
<1> QED BY <1>1, <1>2, <1>7

LEMMA TicketStarts == TicketInit => TicketInv
<1> SUFFICES ASSUME TicketInit PROVE TicketInv
  OBVIOUS
<1>1. PICK s \in Nat : tcfg = ttls_tickets_configure(StartTime, s)
  BY DEF TicketInit, UserSecret
<1>2. /\ tcfg \in [secret : Nat, active : Slot, ts : [Slot -> Nat]]
      /\ tcfg.active = 0
      /\ tcfg.ts[0] = due - Lifetime /\ tcfg.ts[1] = due - 2 * Lifetime
      /\ due \in Nat /\ due >= 3 * Lifetime
      /\ due - Lifetime <= now /\ now < due
      /\ ttls_ticket_get_time(due) = due
  BY <1>1, Configured, TicketTimes DEF TicketInit
<1>3. now \in Nat /\ rot = NotRotating /\ rot \in Int /\ tickets = {} /\ confs \in Nat
  BY TicketTimes DEF TicketInit, NotRotating
<1> QED BY <1>2, <1>3, TicketTimes DEF TicketInv, TicketTypeOK, PeriodInv, SealInv, Other

LEMMA Ticks ==
    ASSUME TicketInv, Tick
    PROVE  TicketInv'
BY TicketTimes DEF TicketInv, TicketTypeOK, PeriodInv, SealInv, Tick, ttls_ticket_get_time

LEMMA RotationStarts ==
    ASSUME TicketInv, RotateStart
    PROVE  TicketInv'
<1>1. now = due /\ rot' \in {due, 0} /\ UNCHANGED <<now, tcfg, due, tickets, confs>>
  BY DEF TicketInv, TicketTypeOK, PeriodInv, RotateStart
<1>2. TicketTypeOK'
  BY <1>1 DEF TicketInv, TicketTypeOK
<1>3. PeriodInv' /\ SealInv'
  BY <1>1 DEF TicketInv, PeriodInv, SealInv, ttls_ticket_get_time, Other
<1> QED BY <1>2, <1>3 DEF TicketInv

LEMMA Rotates ==
    ASSUME TicketInv, ttls_ticket_update_keys
    PROVE  TicketInv'
<1> USE DEF TicketInv
<1> DEFINE a == tcfg.active
           b == Other(tcfg.active)
<1>1. /\ now = due /\ rot \in {due, 0} /\ rot' = NotRotating /\ due' = NextPeriod(due)
      /\ UNCHANGED <<now, tickets, confs>>
      /\ tcfg' = IF tcfg.ts[a] < rot \/ rot = 0
                 THEN [tcfg EXCEPT !.ts[1 - tcfg.active] = rot, !.active = 1 - @]
                 ELSE tcfg
  BY DEF PeriodInv, ttls_ticket_update_keys
<1>2. due' = due + Lifetime /\ due' \in Nat /\ ttls_ticket_get_time(due') = due'
  BY <1>1, PeriodStart, TicketTimes DEF PeriodInv, NextPeriod, TicketTypeOK
<1>3. tcfg' = [tcfg EXCEPT !.ts[1 - tcfg.active] = rot, !.active = 1 - @]
  BY <1>1, TicketTimes DEF PeriodInv, TicketTypeOK
<1>4. a \in Slot /\ b \in Slot /\ a # b /\ Other(b) = a
  BY DEF TicketTypeOK, Slot, Other
<1>5. /\ tcfg'.active = b /\ tcfg'.ts[b] = rot /\ tcfg'.ts[a] = tcfg.ts[a] /\ tcfg'.secret = tcfg.secret
      /\ tcfg' \in [secret : Nat, active : Slot, ts : [Slot -> Nat]]
  <2>1. /\ tcfg \in [secret : Nat, active : Slot, ts : [Slot -> Nat]] /\ rot \in Nat
        /\ tcfg' = [tcfg EXCEPT !.ts[b] = rot, !.active = b]
    BY <1>1, <1>3 DEF TicketTypeOK, Other
  <2> HIDE DEF a, b
  <2>2. tcfg'.active = b /\ tcfg'.secret = tcfg.secret /\ tcfg'.ts = [tcfg.ts EXCEPT ![b] = rot]
    BY <2>1
  <2>3. tcfg.ts \in [Slot -> Nat]
    BY <2>1
  <2>4. tcfg'.ts \in [Slot -> Nat] /\ tcfg'.ts[b] = rot /\ tcfg'.ts[a] = tcfg.ts[a]
    BY <1>4, <2>1, <2>2, <2>3
  <2>5. tcfg' = [secret |-> tcfg'.secret, active |-> tcfg'.active, ts |-> tcfg'.ts]
    BY <2>1
  <2> QED BY <1>4, <2>1, <2>2, <2>4, <2>5
<1>6. TicketTypeOK'
  BY <1>1, <1>2, <1>5 DEF TicketTypeOK, NotRotating
<1>7. PeriodInv'
  BY <1>1, <1>2, <1>4, <1>5, TicketTimes DEF PeriodInv, TicketTypeOK
<1>8. SealInv'
  <2> SUFFICES ASSUME NEW tik \in tickets
               PROVE  /\ tik.key[2] # 0 /\ tik.conf <= confs
                      /\ tik.conf = confs =>
                           /\ tik.key[1] = tcfg'.secret
                           /\ tik.state.start <= tik.key[2] + Lifetime
                           /\ \/ /\ tik.key[2] = due' - Lifetime /\ tik.name = tcfg'.active
                                 /\ tcfg'.ts[tik.name] = tik.key[2]
                              \/ /\ tik.key[2] = due' - 2 * Lifetime /\ tik.name = Other(tcfg'.active)
                                 /\ tcfg'.ts[tik.name] = tik.key[2]
                              \/ tik.key[2] <= due' - 3 * Lifetime
    BY <1>1 DEF SealInv, Other
  <2>1. tik.key[2] \in Nat /\ due \in Nat /\ Lifetime \in Nat
    BY TicketTimes DEF TicketTypeOK
  <2> QED BY <1>2, <1>4, <1>5, <2>1 DEF SealInv
<1> QED BY <1>6, <1>7, <1>8

LEMMA Writes ==
    ASSUME TicketInv, NEW c \in Clients, ttls_ticket_write(c)
    PROVE  TicketInv'
<1> USE DEF TicketInv
<1>1. /\ tcfg.ts[tcfg.active] # 0 /\ UNCHANGED <<now, tcfg, rot, due, confs>>
  BY DEF ttls_ticket_write, ttls_tickets_key_current_locked
<1>2. PICK start \in {now, now - 1} :
         tickets' = tickets \cup {ttls_ticket_encrypt(ttls_ticket_sess_save(c, start), tcfg.active)}
  BY DEF ttls_ticket_write
<1> DEFINE new == ttls_ticket_encrypt(ttls_ticket_sess_save(c, start), tcfg.active)
<1>3. /\ new.state.start = start /\ new.name = tcfg.active /\ new.conf = confs
      /\ new.key = <<tcfg.secret, tcfg.ts[tcfg.active]>>
  BY DEF ttls_ticket_encrypt, ttls_ticket_sess_save
<1> HIDE DEF new
<1>4. tcfg.active \in Slot /\ tcfg.ts[tcfg.active] \in Nat /\ now \in Nat /\ due \in Nat /\ confs \in Nat
  BY DEF TicketTypeOK
<1>5. TicketTypeOK'
  BY <1>1, <1>2, <1>3, <1>4 DEF TicketTypeOK, new
<1>6. PeriodInv'
  BY <1>1 DEF PeriodInv, Other, ttls_ticket_get_time
<1>7. SealInv'
  <2>1. new.key[2] # 0 /\ new.key[1] = tcfg.secret /\ new.key[2] = due - Lifetime
    BY <1>1, <1>3 DEF PeriodInv
  <2>2. new.state.start <= new.key[2] + Lifetime
    BY <1>3, <1>4, <2>1, TicketTimes DEF PeriodInv
  <2> QED BY <1>1, <1>2, <1>3, <1>4, <2>1, <2>2 DEF SealInv, Other, new
<1> QED BY <1>5, <1>6, <1>7

LEMMA Reconfigures ==
    ASSUME TicketInv, NEW s \in {UserSecret, confs + 1}, ttls_conf_tickets(s), now >= StartTime
    PROVE  TicketInv'
<1> USE DEF TicketInv
<1>1. /\ rot = NotRotating /\ tcfg' = ttls_tickets_configure(now, s)
      /\ due' = NextPeriod(now) /\ confs' = confs + 1
      /\ UNCHANGED <<now, rot, tickets>>
  BY DEF ttls_conf_tickets
<1>2. s \in Nat /\ now \in Nat /\ now >= 2 * Lifetime /\ confs \in Nat
  BY TicketTimes DEF TicketTypeOK, UserSecret
<1>3. /\ tcfg' \in [secret : Nat, active : Slot, ts : [Slot -> Nat]]
      /\ tcfg'.active = 0
      /\ tcfg'.ts[0] = due' - Lifetime /\ tcfg'.ts[1] = due' - 2 * Lifetime
      /\ due' \in Nat /\ due' >= 3 * Lifetime
      /\ due' - Lifetime <= now /\ now < due'
      /\ ttls_ticket_get_time(due') = due'
  BY <1>1, <1>2, Configured
<1>4. TicketTypeOK'
  BY <1>1, <1>2, <1>3 DEF TicketTypeOK
<1>5. PeriodInv'
  BY <1>1, <1>2, <1>3 DEF PeriodInv, Other
<1>6. SealInv'
  <2>1. \A tik \in tickets : tik.key[2] # 0 /\ tik.conf <= confs /\ tik.conf \in Nat
    BY DEF SealInv, TicketTypeOK
  <2>2. \A tik \in tickets : tik.conf <= confs' /\ tik.conf # confs'
    BY <1>1, <1>2, <2>1
  <2> QED BY <1>1, <2>1, <2>2 DEF SealInv
<1> QED BY <1>4, <1>5, <1>6

TicketIInv == TicketInv /\ now >= StartTime

LEMMA TicketStep == TicketIInv /\ [TicketNext]_tvars => TicketIInv'
<1> SUFFICES ASSUME TicketInv, now >= StartTime, [TicketNext]_tvars PROVE TicketInv' /\ now' >= StartTime
  BY DEF TicketIInv
<1>1. now' >= StartTime
  <2>1. now' \in {now, now + 1}
    BY DEF TicketNext, tvars, Tick, RotateStart, ttls_ticket_update_keys, ttls_ticket_write,
           ttls_conf_tickets
  <2> QED BY <2>1, TicketTimes DEF TicketInv, TicketTypeOK
<1>2. CASE Tick
  BY <1>1, <1>2, Ticks
<1>3. CASE RotateStart
  BY <1>1, <1>3, RotationStarts
<1>4. CASE ttls_ticket_update_keys
  BY <1>1, <1>4, Rotates
<1>5. ASSUME NEW c \in Clients, ttls_ticket_write(c) PROVE TicketInv'
  BY <1>5, Writes
<1>6. ASSUME NEW s \in {UserSecret, confs + 1}, ttls_conf_tickets(s) PROVE TicketInv'
  BY <1>6, Reconfigures
<1>7. CASE UNCHANGED tvars
  <2>1. UNCHANGED <<now, tcfg, rot, due, tickets, confs>>
    BY <1>7 DEF tvars
  <2>2. TicketTypeOK' /\ PeriodInv' /\ SealInv'
    BY <2>1 DEF TicketInv, TicketTypeOK, PeriodInv, SealInv, Other, ttls_ticket_get_time
  <2> QED BY <1>1, <2>2 DEF TicketInv
<1> QED BY <1>1, <1>2, <1>3, <1>4, <1>5, <1>6, <1>7 DEF TicketNext

LEMMA InvGivesLives == TicketInv => TicketLives
<1> SUFFICES ASSUME TicketInv, rot = NotRotating, now < due,
                    NEW tik \in tickets, NEW c \in Clients, tik.conf = confs,
                    tik.state.start \in now - Lifetime + 1 .. now
             PROVE  ttls_ticket_parse(tik, c) <=> c = tik.state.cli
  BY DEF TicketLives
<1>1. /\ tik.key[2] \in Nat /\ due \in Nat /\ now \in Nat /\ Lifetime \in Nat /\ tik.state.start \in Int
      /\ due - Lifetime <= now /\ tik.key = <<tik.key[1], tik.key[2]>>
  BY TicketTimes DEF TicketInv, TicketTypeOK, PeriodInv
<1>2. /\ tik.key[2] # 0 /\ tik.key[1] = tcfg.secret
      /\ tik.state.start <= tik.key[2] + Lifetime
      /\ tcfg.ts[tik.name] = tik.key[2] \/ tik.key[2] <= due - 3 * Lifetime
  BY DEF TicketInv, SealInv
<1>3. tcfg.ts[tik.name] = tik.key[2]
  BY <1>1, <1>2
<1>4. now - tik.state.start \in 0 .. Lifetime
  BY <1>1
<1> QED BY <1>1, <1>2, <1>3, <1>4 DEF ttls_ticket_parse, ttls_tickets_key_search_locked,
           ttls_ticket_decrypt, ttls_ticket_sess_load

LEMMA InvGivesGone == TicketInv => OldKeysGone
<1> SUFFICES ASSUME TicketInv, rot = NotRotating, now < due, NEW tik \in tickets,
                    ttls_ticket_decrypt(tik)
             PROVE  now < tik.key[2] + 2 * Lifetime
  BY DEF OldKeysGone
<1>1. /\ tik.key[2] \in Nat /\ due \in Nat /\ now \in Nat /\ Lifetime \in Nat
      /\ tik.name \in Slot /\ tik.key[2] # 0 /\ tcfg.active \in Slot
  BY TicketTimes DEF TicketInv, TicketTypeOK, SealInv
<1>2. tik.key[2] = tcfg.ts[tik.name]
  BY DEF ttls_ticket_decrypt
<1>3. tik.name = tcfg.active \/ tik.name = Other(tcfg.active)
  BY <1>1 DEF Slot, Other
<1>4. tik.key[2] \in {due - Lifetime, due - 2 * Lifetime}
  BY <1>1, <1>2, <1>3 DEF TicketInv, PeriodInv
<1> QED BY <1>1, <1>4

(* Whatever the length of a period, the time of the start, the clients and  *)
(* the configurations: while a host is not reconfigured and its timer is    *)
(* not late, a ticket opens for its client until the last second of its     *)
(* session's life and for nobody else, and no key is used two periods       *)
(* after the one it was made for.                                           *)
THEOREM TicketsOpen == TicketSpec => []TicketKeysRight
<1>1. TicketInit => TicketIInv
  <2>1. TicketInit => now >= StartTime
    BY TicketTimes DEF TicketInit
  <2> QED BY <2>1, TicketStarts DEF TicketIInv
<1>2. TicketIInv => TicketKeysRight
  BY InvGivesLives, InvGivesGone DEF TicketIInv, TicketKeysRight
<1> QED BY <1>1, <1>2, TicketStep, PTL DEF TicketSpec

-----------------------------------------------------------------------------
(* Connections: the inductive invariant                                     *)

Byte == Nat \X Nat
Message == {"SH", "CRT", "SKE", "SHD", "NST", "CCS", "FIN"}
Hashed == Byte \cup ({"S", "C"} \X Message)
OutName == Message \cup {"DATA", "bad_mac", "close_notify", "unexpected", "decode", "no_renegotiation"}
Ctx == [state : 0..14, hs : BOOLEAN, resume : BOOLEAN, ticket : BOOLEAN, keys : BOOLEAN,
        xsum : Seq(Hashed), cpsz : 0..3, hdriv : BOOLEAN, rec : Nat, rlen : Nat,
        inctr : Nat, outctr : Nat, zero : Int]
RecSet == [type : {"hs", "ccs", "app", "alert"},
           hst : {"CH", "CKE", "CCS", "FIN", "DATA", "close_notify", "fatal", "other"},
           body : Nat, enc : BOOLEAN, want : {"none", "ticket", "resume"},
           view : Seq(Hashed), ctr : Nat]
OutSet == [name : OutName, enc : BOOLEAN, ctr : Int, view : Seq(Hashed)]

ConnTypeOK ==
    /\ recs \in Seq(RecSet)
    /\ net \in Seq(Byte) /\ skb \in Seq(Byte)
    /\ t \in Ctx
    /\ out \in Seq(OutSet)
    /\ conn \in {"up", "dropped", "closed", "gone"}
    /\ cbs \in Seq({"new", "resumed", "incomplete"})
    /\ up \in Seq(Nat)

(* The sequence numbers of the client never go back, whoever it is.         *)
Encrypted == {i \in 1..Len(recs) : recs[i].enc}
RecsInv ==
    /\ \A i \in Encrypted : recs[i].ctr <= Cardinality(Encrypted)
    /\ \A i, j \in Encrypted : i < j => recs[i].ctr <= recs[j].ctr

(* Bytes belong to records of the client, and so does what the I/O context  *)
(* remembers of a record that came in part.                                 *)
IoOf(x) ==
    /\ x.hdriv => /\ x.rec \in 1..Len(recs)
                  /\ recs[x.rec].type \in {"app", "alert"} => x.rlen <= msglen(recs[x.rec])
    /\ ~x.hdriv => x.rlen = 0
IoInv ==
    /\ \A i \in 1..Len(net) : net[i][1] \in 1..Len(recs)
    /\ \A i \in 1..Len(skb) : skb[i][1] \in 1..Len(recs)
    /\ conn = "up" => IoOf(t)

(* The handshake is over after a Finished that opened, with a number below  *)
(* the ones still accepted, and that vouched for something.                 *)
Vouched(f) == f \in Encrypted /\ recs[f].hst = "FIN" /\ recs[f].view # <<>>
HsInv ==
    /\ conn # "gone" /\ t.state >= SERVER_CERTIFICATE /\ t.state # OVER => t.xsum # <<>>
    /\ t.state = OVER => ~t.hs /\ \E f \in Encrypted : Vouched(f) /\ recs[f].ctr < t.inctr

UpInv ==
    /\ up # <<>> => t.state = OVER
    /\ \A i \in 1..Len(up) :
         /\ up[i] \in Encrypted /\ recs[up[i]].type = "app" /\ recs[up[i]].ctr < t.inctr
         /\ i > 1 => up[i - 1] < up[i]
         /\ \E f \in 1 .. up[i] - 1 : Vouched(f)

(* The server seals nothing before its Finished, and what it has sealed is  *)
(* in front of what it has not.                                             *)
Early(x) == x.state # OVER /\ ~(x.resume /\ x.state \in {CLIENT_CCS, CLIENT_FINISHED})
SealedSet == {i \in 1..Len(out) : out[i].ctr # Unsent}
WriteInv ==
    /\ \A i \in SealedSet : out[i].enc
    /\ \A i \in SealedSet : out[i].ctr = Cardinality({j \in SealedSet : j < i})
    /\ \A i \in SealedSet, j \in 1..Len(out) : out[j].enc /\ out[j].ctr = Unsent => i < j
    /\ t.outctr = Cardinality(SealedSet)
    /\ conn = "up" /\ Early(t) => \A i \in 1..Len(out) : ~out[i].enc

ToldInv ==
    /\ t.state = OVER => cbs \in {<<"new">>, <<"resumed">>}
    /\ t.state # OVER => /\ \A i \in 1..Len(cbs) : cbs[i] = "incomplete"
                         /\ conn = "up" => cbs = <<>>
    /\ conn = "gone" => cbs # <<>>

ConnInv == ConnTypeOK /\ RecsInv /\ IoInv /\ HsInv /\ UpInv /\ WriteInv /\ ToldInv

-----------------------------------------------------------------------------
(* Contexts and records                                                     *)

LEMMA Numbers == /\ CLIENT_HELLO = 0 /\ SERVER_HELLO = 1 /\ SERVER_CERTIFICATE = 2
                 /\ SERVER_KEY_EXCHANGE = 3 /\ CLIENT_KEY_EXCHANGE = 7 /\ CLIENT_CCS = 9
                 /\ CLIENT_FINISHED = 10 /\ SERVER_CCS = 11 /\ SERVER_FINISHED = 12 /\ OVER = 14
                 /\ Unsent = -1 /\ TLS_HEADER_SIZE = 2 /\ TTLS_HS_HDR_LEN = 2 /\ IvLen = 1 /\ AlertLen = 2
BY DEF CLIENT_HELLO, SERVER_HELLO, SERVER_CERTIFICATE, SERVER_KEY_EXCHANGE, CLIENT_KEY_EXCHANGE,
       CLIENT_CCS, CLIENT_FINISHED, SERVER_CCS, SERVER_FINISHED, OVER, Unsent, TLS_HEADER_SIZE,
       TTLS_HS_HDR_LEN, IvLen, AlertLen

LEMMA ResIs ==
    ASSUME NEW x, NEW r, NEW n, NEW o
    PROVE  Res(x, r, n, o).t = x /\ Res(x, r, n, o).r = r /\ Res(x, r, n, o).n = n /\ Res(x, r, n, o).out = o
BY DEF Res

(* What a context says outside of its I/O part.                             *)
CtxOK(x) ==
    /\ x \in Ctx
    /\ x.state >= SERVER_CERTIFICATE /\ x.state # OVER => x.xsum # <<>>
    /\ x.state = OVER => ~x.hs

(* Hashing changes nothing but the hash.                                    *)
SameBut(x, y) ==
    /\ y.state = x.state /\ y.hs = x.hs /\ y.resume = x.resume /\ y.inctr = x.inctr
    /\ y.outctr = x.outctr

LEMMA Hashes ==
    ASSUME NEW x \in Ctx, NEW b \in Seq(Hashed)
    PROVE  LET y == ttls_update_checksum(x, b) IN
           /\ y \in Ctx /\ SameBut(x, y) /\ y.rec = x.rec /\ y.rlen = x.rlen /\ y.hdriv = x.hdriv
           /\ y.cpsz = x.cpsz /\ y.ticket = x.ticket
           /\ y.xsum = x.xsum \o b
           /\ x.xsum # <<>> \/ b # <<>> => y.xsum # <<>>
<1>1. x.xsum \in Seq(Hashed)
  BY DEF Ctx
<1>2. x.xsum \o b \in Seq(Hashed)
  BY <1>1, ConcatProperties
<1>3. x.xsum # <<>> \/ b # <<>> => x.xsum \o b # <<>>
  BY <1>1, ConcatEqualIffEmpty
<1>4. ttls_update_checksum(x, b) = [x EXCEPT !.xsum = x.xsum \o b]
  BY DEF ttls_update_checksum
<1> QED BY <1>2, <1>3, <1>4 DEF Ctx, SameBut

LEMMA ServerSays ==
    ASSUME NEW x \in Ctx, NEW name \in Message
    PROVE  LET y == __ttls_add_record(x, name) IN
           /\ y \in Ctx /\ SameBut(x, y) /\ y.rec = x.rec /\ y.ticket = x.ticket
           /\ y.xsum # <<>>
<1>1. <<<<"S", name>>>> \in Seq(Hashed) /\ <<<<"S", name>>>> # <<>>
  BY DEF Hashed, Message
<1> QED BY <1>1, Hashes DEF __ttls_add_record

(* What the server sends: nothing sealed, or a Finished sealed at the end.  *)
Later(o) == \A i \in 1..Len(o) : o[i].ctr = Unsent
Quiet(o) == \A i \in 1..Len(o) : ~o[i].enc /\ o[i].ctr = Unsent
EndsInFin(o) ==
    /\ Len(o) > 0 /\ o[Len(o)].enc /\ o[Len(o)].ctr = 0
    /\ \A i \in 1 .. Len(o) - 1 : ~o[i].enc /\ o[i].ctr = Unsent

LEMMA PlainIs == ASSUME NEW name \in OutName PROVE Plain(name) \in OutSet /\ ~Plain(name).enc /\ Plain(name).ctr = Unsent
<1>1. <<>> \in Seq(Hashed) /\ Unsent \in Int
  BY EmptySeq, Numbers
<1> QED BY <1>1 DEF Plain, OutSet

LEMMA Silent == <<>> \in Seq(OutSet) /\ Later(<<>>) /\ Quiet(<<>>) /\ Len(<<>>) = 0
<1>1. <<>> \in Seq(OutSet) /\ Len(<<>>) = 0
  BY EmptySeq
<1> QED BY <1>1 DEF Later, Quiet

LEMMA Alerts ==
    ASSUME NEW x, NEW name \in OutName
    PROVE  ttls_send_alert(x, name) \in Seq(OutSet) /\ Later(ttls_send_alert(x, name))
<1> DEFINE a == [name |-> name, enc |-> ttls_xfrm_need_encrypt(x), ctr |-> Unsent, view |-> <<>>]
<1>1. ttls_xfrm_need_encrypt(x) \in BOOLEAN
  BY Zenon DEF ttls_xfrm_need_encrypt
<1>2. <<>> \in Seq(Hashed) /\ Unsent \in Int
  BY EmptySeq, Numbers
<1>3. a \in OutSet /\ a.ctr = Unsent
  BY <1>1, <1>2 DEF OutSet
<1>4. ttls_send_alert(x, name) = <<a>>
  BY DEF ttls_send_alert
<1> HIDE DEF a
<1>5. <<a>> \in Seq(OutSet) /\ Len(<<a>>) = 1 /\ <<a>>[1] = a
  BY <1>3
<1>6. \A i \in 1..Len(<<a>>) : i = 1
  BY <1>5
<1> QED BY <1>3, <1>4, <1>5, <1>6 DEF Later

(* What is quiet may go in front.                                           *)
LEMMA QuietFirst ==
    ASSUME NEW p \in Seq(OutSet), NEW q \in Seq(OutSet), Quiet(p)
    PROVE  /\ p \o q \in Seq(OutSet)
           /\ EndsInFin(q) => EndsInFin(p \o q)
           /\ Quiet(q) => Quiet(p \o q)
<1> DEFINE o == p \o q
<1>1. /\ o \in Seq(OutSet) /\ Len(o) = Len(p) + Len(q) /\ Len(p) \in Nat /\ Len(q) \in Nat
      /\ \A i \in 1 .. Len(p) + Len(q) : o[i] = IF i <= Len(p) THEN p[i] ELSE q[i - Len(p)]
  BY ConcatProperties, LenProperties
<1> HIDE DEF o
<1>2. \A i \in 1..Len(o) :
         \/ i \in 1..Len(p) /\ o[i] = p[i]
         \/ i - Len(p) \in 1..Len(q) /\ o[i] = q[i - Len(p)]
  <2> TAKE i \in 1..Len(o)
  <2>1. o[i] = IF i <= Len(p) THEN p[i] ELSE q[i - Len(p)]
    BY <1>1
  <2>2. CASE i <= Len(p)
    <3>1. i \in 1..Len(p) /\ o[i] = p[i]
      BY <1>1, <2>1, <2>2
    <3> QED BY <3>1
  <2>3. CASE ~(i <= Len(p))
    <3>1. i - Len(p) \in 1..Len(q)
      BY <1>1, <2>3
    <3> QED BY <2>1, <2>3, <3>1
  <2> QED BY <2>2, <2>3
<1>3. Quiet(q) => Quiet(o)
  BY <1>2 DEF Quiet
<1>4. ASSUME EndsInFin(q) PROVE EndsInFin(o)
  <2>1. Len(q) > 0 /\ q[Len(q)].enc /\ q[Len(q)].ctr = 0
    BY <1>4 DEF EndsInFin
  <2>2. Len(o) > 0 /\ o[Len(o)] = q[Len(q)]
    <3>1. Len(o) \in 1 .. Len(p) + Len(q) /\ ~(Len(o) <= Len(p)) /\ Len(o) - Len(p) = Len(q)
      BY <1>1, <2>1
    <3> QED BY <1>1, <2>1, <3>1
  <2>3. ASSUME NEW i \in 1 .. Len(o) - 1 PROVE ~o[i].enc /\ o[i].ctr = Unsent
    <3>1. i \in 1..Len(o)
      BY <1>1
    <3>2. CASE i \in 1..Len(p) /\ o[i] = p[i]
      BY <3>2 DEF Quiet
    <3>3. CASE i - Len(p) \in 1..Len(q) /\ o[i] = q[i - Len(p)]
      <4>1. i - Len(p) \in 1 .. Len(q) - 1
        BY <1>1, <3>3
      <4> QED BY <1>4, <3>3, <4>1 DEF EndsInFin
    <3> QED BY <1>2, <3>1, <3>2, <3>3
  <2> QED BY <2>1, <2>2, <2>3 DEF EndsInFin
<1> QED BY <1>1, <1>3, <1>4 DEF o

-----------------------------------------------------------------------------
(* The handshake                                                            *)

(* The server's Finished.                                                   *)
LEMMA FinishIs ==
    ASSUME NEW x \in Ctx, NEW n \in Nat
    PROVE  LET s == ServerFinish(x, n) IN
           /\ s.r = "ok" /\ s.n = n /\ s.out \in Seq(OutSet) /\ EndsInFin(s.out)
           /\ s.t \in Ctx /\ s.t.outctr = 1 /\ s.t.rec = x.rec /\ s.t.inctr = x.inctr
           /\ s.t.resume = x.resume
           /\ x.resume => s.t.state = CLIENT_CCS /\ s.t.hs = x.hs /\ s.t.xsum # <<>>
           /\ ~x.resume => s.t.state = OVER /\ ~s.t.hs
<1> DEFINE y == IF x.ticket THEN ttls_write_new_session_ticket(x) ELSE x
           z == [y EXCEPT !.outctr = 1]
           w == ttls_write_finished(y)
           fin == [name |-> "FIN", enc |-> TRUE, ctr |-> 0, view |-> y.xsum]
           o == (IF x.ticket THEN <<Plain("NST")>> ELSE <<>>) \o <<Plain("CCS"), fin>>
           f == ttls_handshake_finished(x)
<1>1. y \in Ctx /\ SameBut(x, y) /\ y.rec = x.rec
  <2>1. CASE x.ticket
    <3> DEFINE v == __ttls_add_record(x, "NST")
    <3>1. v \in Ctx /\ SameBut(x, v) /\ v.rec = x.rec
      BY ServerSays DEF Message
    <3>2. y = [v EXCEPT !.ticket = FALSE]
      BY <2>1 DEF ttls_write_new_session_ticket
    <3> HIDE DEF v, y
    <3> QED BY <3>1, <3>2 DEF Ctx, SameBut
  <2>2. CASE ~x.ticket
    BY <2>2 DEF SameBut
  <2> QED BY <2>1, <2>2
<1> HIDE DEF y
<1>2. z \in Ctx /\ z.outctr = 1 /\ z.state = y.state /\ z.hs = y.hs /\ z.resume = y.resume
      /\ z.inctr = y.inctr /\ z.rec = y.rec
  BY <1>1 DEF Ctx
<1>3. /\ w \in Ctx /\ w.outctr = 1 /\ w.hs = x.hs /\ w.resume = x.resume /\ w.inctr = x.inctr
      /\ w.rec = x.rec /\ (x.resume => w.xsum # <<>>)
  <2>1. <<<<"S", "FIN">>>> \in Seq(Hashed) /\ <<<<"S", "FIN">>>> # <<>>
    BY DEF Hashed, Message
  <2>2. w = IF y.resume THEN ttls_update_checksum(z, <<<<"S", "FIN">>>>) ELSE z
    BY DEF ttls_write_finished
  <2>3. y.resume = x.resume /\ z.inctr = x.inctr /\ z.hs = x.hs /\ z.rec = x.rec /\ z.resume = x.resume
    BY <1>1, <1>2 DEF SameBut
  <2> HIDE DEF z, w
  <2>4. CASE x.resume
    <3>1. w = ttls_update_checksum(z, <<<<"S", "FIN">>>>)
      BY <2>2, <2>3, <2>4
    <3>2. w \in Ctx /\ SameBut(z, w) /\ w.rec = z.rec /\ w.xsum # <<>>
      BY <1>2, <2>1, <3>1, Hashes
    <3> QED BY <1>2, <2>3, <3>2 DEF SameBut
  <2>5. CASE ~x.resume
    BY <1>2, <2>2, <2>3, <2>5
  <2> QED BY <2>4, <2>5
<1>4. fin \in OutSet /\ fin.enc /\ fin.ctr = 0
  <2>1. y.xsum \in Seq(Hashed)
    BY <1>1 DEF Ctx
  <2> QED BY <2>1 DEF OutSet, OutName, Message
<1>5. f.x = w /\ f.out = o
  BY DEF ttls_handshake_finished, y
<1> HIDE DEF fin, w, f, z
<1>6. o \in Seq(OutSet) /\ EndsInFin(o)
  <2> DEFINE a == Plain("NST")
             b == Plain("CCS")
             p == IF x.ticket THEN <<a>> ELSE <<>>
             q == <<b, fin>>
  <2>1. "NST" \in OutName /\ "CCS" \in OutName
    BY DEF OutName, Message
  <2>2. a \in OutSet /\ ~a.enc /\ a.ctr = Unsent /\ b \in OutSet /\ ~b.enc /\ b.ctr = Unsent
    BY <2>1, PlainIs
  <2> HIDE DEF a, b
  <2>3. p \in Seq(OutSet) /\ Quiet(p)
    BY <2>2, Silent DEF Quiet
  <2>4. q \in Seq(OutSet) /\ EndsInFin(q)
    BY <1>4, <2>2 DEF EndsInFin
  <2>5. o = p \o q
    BY DEF a, b
  <2> HIDE DEF p, q, o
  <2> QED BY <2>3, <2>4, <2>5, QuietFirst
<1> HIDE DEF o
<1>7. CASE x.resume
  <2> DEFINE v == [w EXCEPT !.state = CLIENT_CCS]
  <2>1. ServerFinish(x, n) = Res(v, "ok", n, o)
    BY <1>5, <1>7 DEF ServerFinish, f
  <2>2. v \in Ctx /\ v.state = CLIENT_CCS /\ v.outctr = 1 /\ v.hs = x.hs /\ v.resume = x.resume
        /\ v.inctr = x.inctr /\ v.rec = x.rec /\ v.xsum # <<>>
    <3>1. CLIENT_CCS \in 0..14
      BY Numbers
    <3> QED BY <1>3, <1>7, <3>1 DEF Ctx
  <2> HIDE DEF v
  <2>3. /\ ServerFinish(x, n).t = v /\ ServerFinish(x, n).r = "ok" /\ ServerFinish(x, n).n = n
        /\ ServerFinish(x, n).out = o
    BY <2>1, ResIs
  <2> QED BY <1>6, <1>7, <2>2, <2>3
<1>8. CASE ~x.resume
  <2> DEFINE v == [w EXCEPT !.hs = FALSE, !.xsum = <<>>, !.state = OVER]
  <2>1. ServerFinish(x, n) = Res(v, "ok", n, o)
    BY <1>5, <1>8 DEF ServerFinish, f, ttls_handshake_wrapup
  <2>2. <<>> \in Seq(Hashed)
    BY EmptySeq
  <2>3. v \in Ctx /\ v.state = OVER /\ v.outctr = 1 /\ ~v.hs /\ v.resume = x.resume
        /\ v.inctr = x.inctr /\ v.rec = x.rec
    <3>1. OVER \in 0..14
      BY Numbers
    <3> QED BY <1>3, <1>8, <2>2, <3>1 DEF Ctx
  <2> HIDE DEF v
  <2>4. /\ ServerFinish(x, n).t = v /\ ServerFinish(x, n).r = "ok" /\ ServerFinish(x, n).n = n
        /\ ServerFinish(x, n).out = o
    BY <2>1, ResIs
  <2> QED BY <1>6, <1>8, <2>3, <2>4
<1> QED BY <1>7, <1>8


(* What one step of the receive path may do to a connection.                *)
Sends(x, s) ==
    \/ /\ s.t.outctr = x.outctr /\ Later(s.out)
       /\ s.r # "drop" => Quiet(s.out) /\ (Early(s.t) => Early(x))
    \/ Early(x) /\ ~Early(s.t) /\ s.r = "ok" /\ s.t.outctr = 1 /\ EndsInFin(s.out)
Opens(x, s) ==
    /\ x.state # OVER /\ s.t.state = OVER =>
         s.r = "ok" /\ Vouched(s.t.rec) /\ recs[s.t.rec].ctr < s.t.inctr
    /\ x.state = OVER => s.t.state = OVER /\ s.t.inctr >= x.inctr
Gives(x, s) ==
    s.r = "ok" /\ recs[s.t.rec].type = "app" =>
      /\ x.state = OVER /\ s.t.rec \in Encrypted /\ recs[s.t.rec].ctr = x.inctr
      /\ s.t.inctr > x.inctr
IsRes(s) == s = Res(s.t, s.r, s.n, s.out)
Moves(x, s) ==
    /\ IsRes(s)
    /\ CtxOK(s.t) /\ s.t.rec \in 1..Len(recs) /\ s.r \in {"ok", "drop", "postpone"} /\ s.n \in Nat
    /\ s.out \in Seq(OutSet)
    /\ s.r = "postpone" => IoOf(s.t)
    /\ Sends(x, s) /\ Opens(x, s) /\ Gives(x, s)

(* It depends on what hashing leaves alone.                                 *)
LEMMA MovesLike ==
    ASSUME NEW x, NEW y, NEW s, y.state = x.state, y.inctr = x.inctr, y.outctr = x.outctr,
           Early(x) <=> Early(y), Moves(y, s)
    PROVE  Moves(x, s)
BY DEF Moves, Sends, Opens, Gives

LEMMA MovesFrom ==
    ASSUME NEW x, NEW y, NEW s, SameBut(x, y), Moves(y, s)
    PROVE  Moves(x, s)
<1>1. Early(x) <=> Early(y)
  BY DEF SameBut, Early
<1> QED BY <1>1, MovesLike DEF SameBut

LEMMA MovesHash ==
    ASSUME NEW x, NEW s, Moves(x, s), NEW b \in Seq(Hashed)
    PROVE  Moves(x, [s EXCEPT !.t = ttls_update_checksum(s.t, b)])
<1> DEFINE y == ttls_update_checksum(s.t, b)
           w == [s EXCEPT !.t = y]
<1>1. s.t \in Ctx /\ CtxOK(s.t)
  BY DEF Moves, CtxOK
<1>2. /\ y \in Ctx /\ SameBut(s.t, y) /\ y.rec = s.t.rec /\ y.rlen = s.t.rlen /\ y.hdriv = s.t.hdriv
      /\ (s.t.xsum # <<>> => y.xsum # <<>>)
  BY <1>1, Hashes
<1> HIDE DEF y
<1>3. w = Res(y, s.r, s.n, s.out)
  BY DEF Moves, IsRes, Res
<1>4. w.t = y /\ w.r = s.r /\ w.n = s.n /\ w.out = s.out /\ IsRes(w)
  BY <1>3, ResIs DEF IsRes
<1> HIDE DEF w
<1>5. CtxOK(y)
  BY <1>1, <1>2 DEF CtxOK, SameBut
<1>6. Early(y) <=> Early(s.t)
  BY <1>2 DEF SameBut, Early
<1>7. IoOf(s.t) => IoOf(y)
  BY <1>2 DEF IoOf
<1>8. Sends(x, w) /\ Opens(x, w) /\ Gives(x, w)
  <2>1. Sends(x, w)
    BY <1>2, <1>4, <1>6 DEF Moves, Sends, SameBut
  <2>2. Opens(x, w)
    BY <1>2, <1>4 DEF Moves, Opens, SameBut
  <2>3. Gives(x, w)
    BY <1>2, <1>4 DEF Moves, Gives, SameBut
  <2> QED BY <2>1, <2>2, <2>3
<1>9. Moves(x, w)
  BY <1>2, <1>4, <1>5, <1>7, <1>8 DEF Moves
<1> QED BY <1>9 DEF w, y

(* A step that neither ends the handshake nor gives data.                   *)
LEMMA Mild ==
    ASSUME NEW x \in Ctx, NEW y, CtxOK(y), y.rec \in 1..Len(recs), NEW r \in {"ok", "drop", "postpone"},
           NEW n \in Nat, NEW o \in Seq(OutSet),
           y.outctr = x.outctr, x.state = OVER <=> y.state = OVER,
           x.state = OVER => y.inctr >= x.inctr,
           Later(o), r # "drop" => Quiet(o), r # "drop" => (Early(y) => Early(x)),
           r = "postpone" => IoOf(y), r = "ok" => recs[y.rec].type # "app"
    PROVE  Moves(x, Res(y, r, n, o))
<1> DEFINE s == Res(y, r, n, o)
<1>1. s.t = y /\ s.r = r /\ s.n = n /\ s.out = o /\ IsRes(s)
  BY ResIs DEF IsRes
<1> HIDE DEF s
<1>2. Sends(x, s)
  BY <1>1 DEF Sends
<1>3. Opens(x, s)
  BY <1>1 DEF Opens
<1>4. Gives(x, s)
  BY <1>1 DEF Gives
<1>5. Moves(x, s)
  BY <1>1, <1>2, <1>3, <1>4 DEF Moves
<1> QED BY <1>5 DEF s

(* A context with a record whose header has been read.                      *)
Framed(x) == CtxOK(x) /\ x.hdriv /\ x.rec \in 1..Len(recs) /\ IoOf(x)

LEMMA Dropped ==
    ASSUME NEW x \in Ctx, CtxOK(x), x.rec \in 1..Len(recs)
    PROVE  Moves(x, Drop(x))
<1>1. <<>> \in Seq(OutSet) /\ Later(<<>>)
  BY Silent
<1>2. x.inctr >= x.inctr
  BY DEF Ctx
<1> QED BY <1>1, <1>2, Mild DEF Drop

LEMMA Alerted ==
    ASSUME NEW x \in Ctx, NEW y, CtxOK(y), y.rec \in 1..Len(recs), NEW name \in OutName,
           y.outctr = x.outctr, x.state = OVER <=> y.state = OVER, x.state = OVER => y.inctr >= x.inctr
    PROVE  Moves(x, Alert(y, name))
BY Alerts, Mild DEF Alert

LEMMA Waits ==
    ASSUME NEW x \in Ctx, Framed(x), NEW n \in Nat
    PROVE  Moves(x, Res(x, "postpone", n, <<>>))
<1>1. <<>> \in Seq(OutSet) /\ Later(<<>>) /\ Quiet(<<>>)
  BY Silent
<1>2. x.inctr >= x.inctr
  BY DEF Ctx
<1> QED BY <1>1, <1>2, Mild DEF Framed

LEMMA Passes ==
    ASSUME NEW x \in Ctx, Framed(x), NEW n \in Nat, recs[x.rec].type # "app"
    PROVE  Moves(x, Res(x, "ok", n, <<>>))
<1>1. <<>> \in Seq(OutSet) /\ Later(<<>>) /\ Quiet(<<>>)
  BY Silent
<1>2. x.inctr >= x.inctr
  BY DEF Ctx
<1> QED BY <1>1, <1>2, Mild DEF Framed

(* __ttls_decrypt() lets through what carries the next number.              *)
LEMMA DecryptIs ==
    ASSUME recs \in Seq(RecSet), NEW x \in Ctx, CtxOK(x), x.rec \in 1..Len(recs)
    PROVE  LET d == ttls_decrypt(x) IN
           /\ IsRes(d)
           /\ d.r \in {"ok", "drop"} /\ d.n = 0 /\ d.out \in Seq(OutSet) /\ Later(d.out)
           /\ d.r = "ok" => d.out = <<>> /\ recs[x.rec].enc /\ recs[x.rec].ctr = x.inctr
           /\ CtxOK(d.t) /\ d.t.rec = x.rec /\ d.t.outctr = x.outctr /\ d.t.state = x.state
           /\ d.t.resume = x.resume /\ d.t.hs = x.hs /\ d.t.xsum = x.xsum
           /\ d.t.inctr = x.inctr + 1 /\ d.t.hdriv = x.hdriv /\ d.t.rlen = x.rlen
<1> DEFINE y == [x EXCEPT !.inctr = x.inctr + 1]
           z == [y EXCEPT !.zero = y.zero + 1]
           w == [y EXCEPT !.zero = 0]
           Like(v) == /\ CtxOK(v) /\ v.rec = x.rec /\ v.outctr = x.outctr /\ v.state = x.state
                      /\ v.resume = x.resume /\ v.hs = x.hs /\ v.xsum = x.xsum
                      /\ v.inctr = x.inctr + 1 /\ v.hdriv = x.hdriv /\ v.rlen = x.rlen
           d == ttls_decrypt(x)
<1>1. y \in Ctx /\ Like(y)
  <2>1. x.inctr + 1 \in Nat
    BY DEF Ctx
  <2>2. y \in Ctx
    BY <2>1 DEF Ctx
  <2> QED BY <2>2 DEF Ctx, CtxOK
<1>2. __ttls_decrypt(x).x = y /\ (__ttls_decrypt(x).ok <=> x.keys /\ Rec(x).enc /\ Rec(x).ctr = x.inctr)
  BY DEF __ttls_decrypt
<1> HIDE DEF y
<1>3. Like(z) /\ Like(w)
  <2>1. y.zero + 1 \in Int /\ 0 \in Int
    BY <1>1 DEF Ctx
  <2>2. z \in Ctx
    BY <1>1, <2>1 DEF Ctx
  <2>3. w \in Ctx
    BY <1>1, <2>1 DEF Ctx
  <2> QED BY <1>1, <2>2, <2>3 DEF Ctx, CtxOK
<1> HIDE DEF z, w
<1>4. CASE ~__ttls_decrypt(x).ok
  <2>1. d = Res(y, "drop", 0, ttls_send_alert(y, "bad_mac"))
    BY <1>2, <1>4 DEF ttls_decrypt, Alert
  <2>2. d.t = y /\ d.r = "drop" /\ d.n = 0 /\ d.out = ttls_send_alert(y, "bad_mac") /\ IsRes(d)
    BY <2>1, ResIs DEF IsRes
  <2>3. d.out \in Seq(OutSet) /\ Later(d.out)
    BY <2>2, Alerts DEF OutName
  <2> HIDE DEF d
  <2> QED BY <1>1, <2>2, <2>3 DEF d
<1>5. CASE __ttls_decrypt(x).ok
  <2>1. recs[x.rec].enc /\ recs[x.rec].ctr = x.inctr
    BY <1>2, <1>5 DEF Rec
  <2>2. d = Res(z, "drop", 0, <<>>) \/ d = Res(w, "ok", 0, <<>>)
    BY <1>2, <1>5 DEF ttls_decrypt, Drop, z, w
  <2>3. d.out = <<>> /\ d.n = 0 /\ d.r \in {"ok", "drop"} /\ (d.t = z \/ d.t = w) /\ IsRes(d)
    BY <2>2, ResIs DEF IsRes
  <2>4. d.out \in Seq(OutSet) /\ Later(d.out)
    BY <2>3, Silent
  <2> HIDE DEF d
  <2> QED BY <1>3, <2>1, <2>3, <2>4 DEF d
<1> QED BY <1>4, <1>5

LEMMA StateTo ==
    ASSUME NEW x \in Ctx, NEW k \in 0..14
    PROVE  LET y == [x EXCEPT !.state = k] IN
           /\ y \in Ctx /\ y.state = k /\ y.hs = x.hs /\ y.resume = x.resume /\ y.xsum = x.xsum
           /\ y.inctr = x.inctr /\ y.outctr = x.outctr /\ y.rec = x.rec
BY DEF Ctx

LEMMA KeysOf ==
    ASSUME NEW x \in Ctx
    PROVE  LET y == ttls_derive_keys(x) IN
           /\ y \in Ctx /\ y.state = x.state /\ y.hs = x.hs /\ y.resume = x.resume /\ y.xsum = x.xsum
           /\ y.inctr = x.inctr /\ y.outctr = x.outctr /\ y.rec = x.rec
BY DEF Ctx, ttls_derive_keys

(* The messages of a flight are not sealed.                                 *)
LEMMA SentIs ==
    ASSUME NEW s \in Seq(Message)
    PROVE  /\ [i \in DOMAIN s |-> Plain(s[i])] \in Seq(OutSet)
           /\ Quiet([i \in DOMAIN s |-> Plain(s[i])]) /\ Later([i \in DOMAIN s |-> Plain(s[i])])
<1> DEFINE o == [i \in DOMAIN s |-> Plain(s[i])]
<1>1. DOMAIN s = 1..Len(s) /\ Len(s) \in Nat
  BY LenProperties
<1>2. \A i \in 1..Len(s) : s[i] \in OutName
  BY <1>1, ElementOfSeq DEF OutName
<1>3. \A i \in 1..Len(s) : o[i] \in OutSet /\ ~o[i].enc /\ o[i].ctr = Unsent
  <2> TAKE i \in 1..Len(s)
  <2>1. o[i] = Plain(s[i])
    BY <1>1
  <2> HIDE DEF o
  <2> QED BY <1>2, <2>1, PlainIs
<1>4. o \in [1..Len(s) -> OutSet]
  BY <1>1, <1>3
<1> HIDE DEF o
<1>5. o \in Seq(OutSet) /\ Len(o) = Len(s)
  BY <1>1, <1>4, IsASeq, LenProperties
<1>6. Quiet(o) /\ Later(o)
  BY <1>3, <1>5 DEF Quiet, Later
<1> QED BY <1>5, <1>6 DEF o

(* A context during the flight.                                             *)
Flown(x, y) ==
    /\ y \in Ctx /\ y.resume = x.resume /\ y.inctr = x.inctr /\ y.outctr = x.outctr
    /\ y.rec = x.rec /\ y.hs = x.hs /\ y.xsum # <<>>

LEMMA FlownOn ==
    ASSUME NEW x, NEW y, NEW name \in Message, Flown(x, y)
    PROVE  Flown(x, __ttls_add_record(y, name))
<1>1. y \in Ctx
  BY DEF Flown
<1>2. /\ __ttls_add_record(y, name) \in Ctx /\ SameBut(y, __ttls_add_record(y, name))
      /\ __ttls_add_record(y, name).rec = y.rec /\ __ttls_add_record(y, name).xsum # <<>>
  BY <1>1, ServerSays
<1> QED BY <1>2 DEF Flown, SameBut

LEMMA HelloFlown ==
    ASSUME NEW x \in Ctx
    PROVE  Flown(x, ttls_write_server_hello(x))
<1> DEFINE y == __ttls_add_record(x, "SH")
           z == ttls_derive_keys(y)
<1>1. y \in Ctx /\ SameBut(x, y) /\ y.rec = x.rec /\ y.xsum # <<>>
  BY ServerSays DEF Message
<1>2. SERVER_CCS \in 0..14 /\ SERVER_CERTIFICATE \in 0..14
  BY Numbers
<1> HIDE DEF y
<1>3. /\ z \in Ctx /\ z.hs = y.hs /\ z.resume = y.resume /\ z.xsum = y.xsum
      /\ z.inctr = y.inctr /\ z.outctr = y.outctr /\ z.rec = y.rec
  BY <1>1, KeysOf
<1> HIDE DEF z
<1>4. CASE x.resume
  <2>1. ttls_write_server_hello(x) = [z EXCEPT !.state = SERVER_CCS]
    BY <1>4 DEF ttls_write_server_hello, z, y
  <2> DEFINE v == [z EXCEPT !.state = SERVER_CCS]
  <2>2. /\ v \in Ctx /\ v.hs = z.hs /\ v.resume = z.resume /\ v.xsum = z.xsum
        /\ v.inctr = z.inctr /\ v.outctr = z.outctr /\ v.rec = z.rec
    BY <1>2, <1>3, StateTo
  <2> HIDE DEF v
  <2>3. Flown(x, v)
    BY <1>1, <1>3, <2>2 DEF Flown, SameBut
  <2> QED BY <2>1, <2>3 DEF v
<1>5. CASE ~x.resume
  <2>1. ttls_write_server_hello(x) = [y EXCEPT !.state = SERVER_CERTIFICATE]
    BY <1>5 DEF ttls_write_server_hello, y
  <2> DEFINE v == [y EXCEPT !.state = SERVER_CERTIFICATE]
  <2>2. /\ v \in Ctx /\ v.hs = y.hs /\ v.resume = y.resume /\ v.xsum = y.xsum
        /\ v.inctr = y.inctr /\ v.outctr = y.outctr /\ v.rec = y.rec
    BY <1>1, <1>2, StateTo
  <2> HIDE DEF v
  <2>3. Flown(x, v)
    BY <1>1, <2>2 DEF Flown, SameBut
  <2> QED BY <2>1, <2>3 DEF v
<1> QED BY <1>4, <1>5

(* A flight that stops where the server has nothing sealed.                 *)
LEMMA FlightStops ==
    ASSUME NEW x \in Ctx, Early(x), x.rec \in 1..Len(recs), recs[x.rec].type # "app",
           NEW y, Flown(x, y), ~x.resume, NEW k \in {2, 3, 7}, NEW n \in Nat,
           NEW s \in Seq(Message)
    PROVE  Moves(x, Res([y EXCEPT !.state = k], "ok", n, [i \in DOMAIN s |-> Plain(s[i])]))
<1> DEFINE z == [y EXCEPT !.state = k]
           o == [i \in DOMAIN s |-> Plain(s[i])]
<1>1. o \in Seq(OutSet) /\ Quiet(o) /\ Later(o)
  BY SentIs
<1>2. y \in Ctx /\ k \in 0..14
  BY DEF Flown
<1>3. /\ z \in Ctx /\ z.state = k /\ z.hs = y.hs /\ z.resume = y.resume /\ z.xsum = y.xsum
      /\ z.inctr = y.inctr /\ z.outctr = y.outctr /\ z.rec = y.rec
  BY <1>2, StateTo
<1> HIDE DEF z, o
<1>4. z.state # OVER /\ x.state # OVER /\ z.xsum # <<>> /\ z.rec = x.rec /\ z.outctr = x.outctr
  BY <1>3, Numbers DEF Early, Flown
<1>5. CtxOK(z)
  BY <1>3, <1>4 DEF CtxOK
<1>6. Moves(x, Res(z, "ok", n, o))
  BY <1>1, <1>4, <1>5, Mild
<1> QED BY <1>6 DEF z, o

LEMMA FlightIs ==
    ASSUME NEW x \in Ctx, x.state \in {CLIENT_HELLO, SERVER_HELLO}, x.rec \in 1..Len(recs),
           recs[x.rec].type # "app", NEW fail, NEW n \in Nat
    PROVE  Moves(x, ttls_handshake_server_hello(x, fail, n))
<1> DEFINE sh == ttls_write_server_hello(x)
           crt == ttls_write_certificate(sh)
           ske == ttls_write_server_key_exchange(crt)
           shd == ttls_write_server_hello_done(ske)
           sent(s) == [i \in DOMAIN s |-> Plain(s[i])]
           Fl == ttls_handshake_server_hello(x, fail, n)
<1>1. Early(x) /\ x.state # OVER /\ x.state < SERVER_CERTIFICATE
  BY Numbers DEF Early
<1>2. Flown(x, sh)
  BY HelloFlown
<1> HIDE DEF sh
<1>3. Flown(x, crt)
  BY <1>2, FlownOn DEF ttls_write_certificate, Message
<1> HIDE DEF crt
<1>4. Flown(x, ske)
  BY <1>3, FlownOn DEF ttls_write_server_key_exchange, Message
<1> HIDE DEF ske
<1>5. Flown(x, shd)
  BY <1>4, FlownOn DEF ttls_write_server_hello_done, Message
<1> HIDE DEF shd
<1>6. CASE fail = "SH"
  <2> DEFINE z == [x EXCEPT !.state = SERVER_HELLO]
  <2>1. Fl = Res(z, "ok", n, <<>>)
    BY <1>6 DEF ttls_handshake_server_hello
  <2>2. SERVER_HELLO \in 0..14 /\ SERVER_HELLO # OVER /\ SERVER_HELLO < SERVER_CERTIFICATE
    BY Numbers
  <2>3. z \in Ctx /\ z.state = SERVER_HELLO /\ z.rec = x.rec /\ z.outctr = x.outctr
    BY <2>2, StateTo
  <2> HIDE DEF z
  <2>4. CtxOK(z)
    BY <2>2, <2>3, Numbers DEF CtxOK
  <2> QED BY <1>1, <2>1, <2>2, <2>3, <2>4, Mild, Silent
<1>7. CASE fail # "SH" /\ x.resume
  <2> DEFINE f == ServerFinish(sh, n)
             p == sent(<<"SH">>)
  <2>1. Fl = [f EXCEPT !.out = p \o f.out]
    BY <1>7 DEF ttls_handshake_server_hello, sh
  <2>2. /\ f.r = "ok" /\ f.n = n /\ f.out \in Seq(OutSet) /\ EndsInFin(f.out)
        /\ f.t \in Ctx /\ f.t.outctr = 1 /\ f.t.rec = sh.rec
        /\ f.t.resume = sh.resume
        /\ sh.resume => f.t.state = CLIENT_CCS /\ f.t.xsum # <<>>
    BY <1>2, FinishIs DEF Flown
  <2>3. sh.resume /\ sh.rec = x.rec
    BY <1>2, <1>7 DEF Flown
  <2>4. p \in Seq(OutSet) /\ Quiet(p)
    <3>1. <<"SH">> \in Seq(Message)
      BY DEF Message
    <3> QED BY <3>1, SentIs
  <2>5. p \o f.out \in Seq(OutSet) /\ EndsInFin(p \o f.out)
    BY <2>2, <2>4, QuietFirst
  <2>6. Fl.t = f.t /\ Fl.r = f.r /\ Fl.n = f.n /\ Fl.out = p \o f.out /\ IsRes(Fl)
    <3>1. f = Res(f.t, f.r, f.n, f.out)
      BY DEF ServerFinish, Res
    <3> HIDE DEF f, p, Fl
    <3>2. Fl = Res(f.t, f.r, f.n, p \o f.out)
      BY <2>1, <3>1 DEF Res
    <3> DEFINE o == p \o f.out
    <3> HIDE DEF o
    <3>3. Fl = Res(f.t, f.r, f.n, o)
      BY <3>2 DEF o
    <3>4. Fl.t = f.t /\ Fl.r = f.r /\ Fl.n = f.n /\ Fl.out = o
      BY <3>3 DEF Res
    <3>5. IsRes(Fl)
      BY <3>3, <3>4 DEF IsRes
    <3> QED BY <3>4, <3>5 DEF o
  <2> HIDE DEF f, p, Fl
  <2>7. Fl.t.state = CLIENT_CCS /\ Fl.t.resume /\ Fl.t.state # OVER /\ ~Early(Fl.t)
    <3>1. CLIENT_CCS # OVER
      BY Numbers
    <3>2. Fl.t.state = CLIENT_CCS /\ Fl.t.resume
      BY <2>2, <2>3, <2>6
    <3> QED BY <3>1, <3>2 DEF Early
  <2>8. CtxOK(Fl.t)
    BY <2>2, <2>3, <2>6, <2>7 DEF CtxOK
  <2>9. Sends(x, Fl)
    BY <1>1, <2>2, <2>5, <2>6, <2>7 DEF Sends
  <2>10. Opens(x, Fl) /\ Gives(x, Fl)
    BY <1>1, <2>2, <2>3, <2>6, <2>7 DEF Opens, Gives
  <2>11. Moves(x, Fl)
    BY <2>2, <2>3, <2>5, <2>6, <2>8, <2>9, <2>10 DEF Moves
  <2> QED BY <2>11 DEF Fl
<1>8. CASE fail = "CRT" /\ ~x.resume
  <2> DEFINE m == <<"SH">>
  <2>1. Fl = Res([sh EXCEPT !.state = SERVER_CERTIFICATE], "ok", n, sent(m))
    BY <1>8 DEF ttls_handshake_server_hello, sh
  <2>2. m \in Seq(Message)
    BY DEF Message
  <2> HIDE DEF m, Fl
  <2>3. SERVER_CERTIFICATE \in {2, 3, 7}
    BY Numbers
  <2>4. Moves(x, Res([sh EXCEPT !.state = SERVER_CERTIFICATE], "ok", n, [i \in DOMAIN m |-> Plain(m[i])]))
    BY <1>1, <1>2, <1>8, <2>2, <2>3, FlightStops, Zenon
  <2>5. Moves(x, Fl)
    BY <2>1, <2>4, Zenon
  <2> QED BY <2>5 DEF Fl
<1>9. CASE fail = "SKE" /\ ~x.resume
  <2> DEFINE m == <<"SH", "CRT">>
  <2>1. Fl = Res([crt EXCEPT !.state = SERVER_KEY_EXCHANGE], "ok", n, sent(m))
    BY <1>9 DEF ttls_handshake_server_hello, sh, crt
  <2>2. m \in Seq(Message)
    BY DEF Message
  <2> HIDE DEF m, Fl
  <2>3. SERVER_KEY_EXCHANGE \in {2, 3, 7}
    BY Numbers
  <2>4. Moves(x, Res([crt EXCEPT !.state = SERVER_KEY_EXCHANGE], "ok", n, [i \in DOMAIN m |-> Plain(m[i])]))
    BY <1>1, <1>3, <1>9, <2>2, <2>3, FlightStops, Zenon
  <2>5. Moves(x, Fl)
    BY <2>1, <2>4, Zenon
  <2> QED BY <2>5 DEF Fl
<1>10. CASE fail \notin {"SH", "CRT", "SKE"} /\ ~x.resume
  <2> DEFINE m == <<"SH", "CRT", "SKE", "SHD">>
  <2>1. Fl = Res([shd EXCEPT !.state = CLIENT_KEY_EXCHANGE], "ok", n, sent(m))
    BY <1>10 DEF ttls_handshake_server_hello, sh, crt, ske, shd
  <2>2. m \in Seq(Message)
    BY DEF Message
  <2> HIDE DEF m, Fl
  <2>3. CLIENT_KEY_EXCHANGE \in {2, 3, 7}
    BY Numbers
  <2>4. Moves(x, Res([shd EXCEPT !.state = CLIENT_KEY_EXCHANGE], "ok", n, [i \in DOMAIN m |-> Plain(m[i])]))
    BY <1>1, <1>5, <1>10, <2>2, <2>3, FlightStops, Zenon
  <2>5. Moves(x, Fl)
    BY <2>1, <2>4, Zenon
  <2> QED BY <2>5 DEF Fl
<1> QED BY <1>6, <1>7, <1>8, <1>9, <1>10

LEMMA FlightOk ==
    ASSUME NEW x, NEW fail, NEW n
    PROVE  ttls_handshake_server_hello(x, fail, n).r = "ok"
<1>1. \A y : ServerFinish(y, n).r = "ok" /\ ServerFinish(y, n) = Res(ServerFinish(y, n).t, "ok", n, ServerFinish(y, n).out)
  BY DEF ServerFinish, Res
<1>2. \A f, o : f = Res(f.t, "ok", n, f.out) => [f EXCEPT !.out = o].r = "ok"
  BY DEF Res
<1>3. \A y, o : Res(y, "ok", n, o).r = "ok"
  BY ResIs
<1> QED BY <1>1, <1>2, <1>3 DEF ttls_handshake_server_hello

(* A piece of a message.                                                    *)
LEMMA BytesHashed == Seq(Byte) \subseteq Seq(Hashed)
<1> SUFFICES ASSUME NEW s \in Seq(Byte) PROVE s \in Seq(Hashed)
  OBVIOUS
<1>1. Len(s) \in Nat /\ s \in [1..Len(s) -> Byte]
  BY LenProperties
<1>2. s \in [1..Len(s) -> Hashed]
  BY <1>1 DEF Hashed
<1> QED BY <1>1, <1>2, IsASeq

LEMMA PrefixIs ==
    ASSUME NEW T, NEW s \in Seq(T), NEW k \in Int, k <= Len(s)
    PROVE  SubSeq(s, 1, k) \in Seq(T) /\ Len(SubSeq(s, 1, k)) \in Nat /\ Len(SubSeq(s, 1, k)) <= Len(s)
<1>1. Len(s) \in Nat
  BY LenProperties
<1>2. \A i \in 1..k : s[i] \in T
  BY <1>1, ElementOfSeq
<1>3. 1 \in Int /\ SubSeq(s, 1, k) \in Seq(T) /\ Len(SubSeq(s, 1, k)) = IF 1 <= k THEN k - 1 + 1 ELSE 0
  BY <1>2, SubSeqProperties
<1> QED BY <1>1, <1>3

LEMMA PartIs ==
    ASSUME recs \in Seq(RecSet), NEW x \in Ctx, x.rec \in 1..Len(recs), NEW buf \in Seq(Byte)
    PROVE  /\ Part(x, buf) \in Seq(Hashed) /\ Len(Part(x, buf)) \in Nat
           /\ Len(Part(x, buf)) <= Len(buf)
<1> DEFINE k == IF Rec(x).body - x.rlen < Len(buf) THEN Rec(x).body - x.rlen ELSE Len(buf)
<1>1. Len(buf) \in Nat
  BY LenProperties
<1>2. recs[x.rec] \in RecSet
  BY ElementOfSeq
<1>3. Rec(x).body \in Nat
  BY <1>2 DEF RecSet, Rec
<1>4. x.rlen \in Nat
  BY DEF Ctx
<1>5. k \in Int /\ k <= Len(buf)
  BY <1>1, <1>3, <1>4
<1>6. Part(x, buf) = SubSeq(buf, 1, k)
  BY DEF Part
<1> HIDE DEF k
<1>7. Part(x, buf) \in Seq(Byte) /\ Len(Part(x, buf)) \in Nat /\ Len(Part(x, buf)) <= Len(buf)
  BY <1>5, <1>6, PrefixIs
<1> QED BY <1>7, BytesHashed

(* A record of the handshake whose header has been read.                    *)
HsRec(x) == Framed(x) /\ recs[x.rec].type \in {"hs", "ccs"}

LEMMA Partly ==
    ASSUME NEW x \in Ctx, HsRec(x), NEW n \in Nat
    PROVE  Moves(x, Res([x EXCEPT !.rlen = @ + n], "postpone", n, <<>>))
<1> DEFINE y == [x EXCEPT !.rlen = x.rlen + n]
<1>1. x.rlen + n \in Nat
  BY DEF Ctx
<1>2. y \in Ctx
  BY <1>1 DEF Ctx
<1>3. /\ y.state = x.state /\ y.hs = x.hs /\ y.resume = x.resume /\ y.xsum = x.xsum /\ y.inctr = x.inctr
      /\ y.outctr = x.outctr /\ y.rec = x.rec /\ y.hdriv = x.hdriv
  BY DEF Ctx
<1> HIDE DEF y
<1>4. CtxOK(y)
  BY <1>2, <1>3 DEF HsRec, Framed, CtxOK
<1>5. IoOf(y)
  BY <1>3 DEF HsRec, Framed, IoOf
<1>6. Early(y) <=> Early(x)
  BY <1>3 DEF Early
<1>7. y.inctr >= x.inctr
  BY <1>3 DEF Ctx
<1>8. y.rec \in 1..Len(recs)
  BY <1>3 DEF HsRec, Framed
<1>9. Moves(x, Res(y, "postpone", n, <<>>))
  BY <1>3, <1>4, <1>5, <1>6, <1>7, <1>8, Mild, Silent
<1> QED BY <1>9 DEF y

LEMMA HelloMoves ==
    ASSUME recs \in Seq(RecSet), NEW x \in Ctx, HsRec(x), x.state = CLIENT_HELLO,
           NEW buf \in Seq(Byte), NEW pre \in Seq(Hashed), NEW fail
    PROVE  LET s == ttls_parse_client_hello(x, buf, pre, fail)
           IN Moves(x, s) /\ (s.r = "postpone" => s.n <= Len(buf))
<1> DEFINE got == Part(x, buf)
           n == Len(got)
           v == [x EXCEPT !.resume = Rec(x).want = "resume", !.ticket = Rec(x).want = "ticket"]
           y == ttls_update_checksum(v, pre \o got)
           s == ttls_parse_client_hello(x, buf, pre, fail)
<1>1. CtxOK(x) /\ x.rec \in 1..Len(recs) /\ recs[x.rec].type # "app"
  BY DEF HsRec, Framed
<1>2. got \in Seq(Hashed) /\ n \in Nat /\ n <= Len(buf)
  BY <1>1, PartIs
<1>3. v \in Ctx /\ v.state = x.state /\ v.inctr = x.inctr /\ v.outctr = x.outctr /\ v.rec = x.rec
  BY DEF Ctx
<1> SUFFICES Moves(x, s) /\ (s.r = "postpone" => s.n <= Len(buf))
  OBVIOUS
<1>4. s = IF Hst(x) # "CH" THEN Drop(x)
          ELSE IF ~Whole(x, got) THEN Res([x EXCEPT !.rlen = @ + n], "postpone", n, <<>>)
          ELSE ttls_handshake_server_hello(y, fail, n)
  BY DEF ttls_parse_client_hello
<1> HIDE DEF v, got, s
<1>5. pre \o got \in Seq(Hashed)
  BY <1>2, ConcatProperties
<1>6. y \in Ctx /\ SameBut(v, y) /\ y.rec = v.rec
  BY <1>3, <1>5, Hashes
<1> HIDE DEF y, n
<1>7. CASE s = Drop(x)
  BY <1>1, <1>7, Dropped, ResIs DEF Drop
<1>8. CASE s = Res([x EXCEPT !.rlen = @ + n], "postpone", n, <<>>)
  BY <1>2, <1>8, Partly, ResIs
<1>9. CASE s = ttls_handshake_server_hello(y, fail, n)
  <2>1. y.state = CLIENT_HELLO /\ y.rec = x.rec /\ y.inctr = x.inctr /\ y.outctr = x.outctr
    BY <1>3, <1>6 DEF SameBut
  <2>2. Moves(y, s)
    BY <1>1, <1>2, <1>6, <1>9, <2>1, FlightIs
  <2>3. Early(x) /\ Early(y)
    BY <2>1, Numbers DEF Early
  <2>4. Moves(x, s)
    BY <2>1, <2>2, <2>3, MovesLike
  <2> QED BY <1>9, <2>4, FlightOk
<1> QED BY <1>4, <1>7, <1>8, <1>9

LEMMA KeyMoves ==
    ASSUME recs \in Seq(RecSet), NEW x \in Ctx, HsRec(x), x.state = CLIENT_KEY_EXCHANGE,
           NEW buf \in Seq(Byte), NEW pre \in Seq(Hashed)
    PROVE  LET s == ttls_parse_client_key_exchange(x, buf, pre)
           IN Moves(x, s) /\ (s.r = "postpone" => s.n <= Len(buf))
<1> DEFINE got == Part(x, buf)
           n == Len(got)
           v == ttls_update_checksum(x, pre \o got)
           y == ttls_derive_keys(v)
           z == [y EXCEPT !.state = CLIENT_CCS]
           s == ttls_parse_client_key_exchange(x, buf, pre)
<1>1. CtxOK(x) /\ x.rec \in 1..Len(recs) /\ recs[x.rec].type # "app"
  BY DEF HsRec, Framed
<1>2. got \in Seq(Hashed) /\ n \in Nat /\ n <= Len(buf)
  BY <1>1, PartIs
<1> SUFFICES Moves(x, s) /\ (s.r = "postpone" => s.n <= Len(buf))
  OBVIOUS
<1>3. s = IF Hst(x) # "CKE" THEN Drop(x)
          ELSE IF ~Whole(x, got) THEN Res([x EXCEPT !.rlen = @ + n], "postpone", n, <<>>)
          ELSE Res(z, "ok", n, <<>>)
  BY DEF ttls_parse_client_key_exchange
<1> HIDE DEF got, s
<1>4. pre \o got \in Seq(Hashed)
  BY <1>2, ConcatProperties
<1>5. v \in Ctx /\ SameBut(x, v) /\ v.rec = x.rec /\ (x.xsum # <<>> => v.xsum # <<>>)
  BY <1>4, Hashes
<1> HIDE DEF v, n
<1>6. /\ y \in Ctx /\ y.resume = v.resume /\ y.xsum = v.xsum /\ y.outctr = v.outctr /\ y.rec = v.rec
  BY <1>5, KeysOf
<1> HIDE DEF y
<1>7. CLIENT_CCS \in 0..14 /\ CLIENT_CCS # OVER /\ x.state # OVER /\ x.state >= SERVER_CERTIFICATE
  BY Numbers
<1>8. /\ z \in Ctx /\ z.state = CLIENT_CCS /\ z.resume = y.resume /\ z.xsum = y.xsum
      /\ z.outctr = y.outctr /\ z.rec = y.rec
  BY <1>6, <1>7, StateTo
<1> HIDE DEF z
<1>9. z.xsum # <<>> /\ z.outctr = x.outctr /\ z.rec = x.rec /\ z.resume = x.resume
  BY <1>1, <1>5, <1>6, <1>7, <1>8 DEF CtxOK, SameBut
<1>10. CtxOK(z)
  BY <1>7, <1>8, <1>9 DEF CtxOK
<1>11. Early(x)
  <2>1. CLIENT_KEY_EXCHANGE \notin {CLIENT_CCS, CLIENT_FINISHED, OVER}
    BY Numbers
  <2> QED BY <2>1 DEF Early
<1>12. CASE s = Drop(x)
  BY <1>1, <1>12, Dropped, ResIs DEF Drop
<1>13. CASE s = Res([x EXCEPT !.rlen = @ + n], "postpone", n, <<>>)
  BY <1>2, <1>13, Partly, ResIs
<1>14. CASE s = Res(z, "ok", n, <<>>)
  <2>1. Moves(x, s)
    BY <1>1, <1>2, <1>7, <1>8, <1>9, <1>10, <1>11, <1>14, Mild, Silent
  <2> QED BY <1>14, <2>1, ResIs
<1> QED BY <1>3, <1>12, <1>13, <1>14

LEMMA CcsMoves ==
    ASSUME NEW x \in Ctx, HsRec(x), x.state = CLIENT_CCS
    PROVE  LET s == ttls_parse_change_cipher_spec(x)
           IN Moves(x, s) /\ s.r # "postpone"
<1> DEFINE y == [x EXCEPT !.inctr = 0, !.state = CLIENT_FINISHED]
           s == ttls_parse_change_cipher_spec(x)
<1>1. CtxOK(x) /\ x.rec \in 1..Len(recs) /\ recs[x.rec].type # "app"
  BY DEF HsRec, Framed
<1>2. /\ CLIENT_FINISHED \in 0..14 /\ CLIENT_FINISHED # OVER /\ x.state # OVER
      /\ x.state >= SERVER_CERTIFICATE /\ 0 \in Nat
  BY Numbers
<1>3. /\ y \in Ctx /\ y.state = CLIENT_FINISHED /\ y.resume = x.resume /\ y.xsum = x.xsum
      /\ y.outctr = x.outctr /\ y.rec = x.rec
  BY <1>2 DEF Ctx
<1> SUFFICES Moves(x, s) /\ s.r # "postpone"
  OBVIOUS
<1>4. s = IF Rec(x).type # "ccs" THEN Alert(x, "unexpected") ELSE Res(y, "ok", 0, <<>>)
  BY DEF ttls_parse_change_cipher_spec
<1> HIDE DEF y, s
<1>5. CtxOK(y)
  BY <1>1, <1>2, <1>3 DEF CtxOK
<1>6. Early(y) => Early(x)
  BY <1>2, <1>3 DEF Early
<1>7. CASE s = Alert(x, "unexpected")
  <2>1. "unexpected" \in OutName
    BY DEF OutName
  <2>2. Moves(x, s)
    BY <1>1, <1>2, <1>7, <2>1, Alerted
  <2> QED BY <1>7, <2>2, ResIs DEF Alert
<1>8. CASE s = Res(y, "ok", 0, <<>>)
  <2>1. Moves(x, s)
    BY <1>1, <1>2, <1>3, <1>5, <1>6, <1>8, Mild, Silent
  <2> QED BY <1>8, <2>1, ResIs
<1> QED BY <1>4, <1>7, <1>8

(* The end of the handshake: only a Finished that opened and vouched for    *)
(* what the server has hashed.                                              *)
LEMMA FinishedMoves ==
    ASSUME recs \in Seq(RecSet), NEW x \in Ctx, HsRec(x), x.state = CLIENT_FINISHED,
           NEW buf \in Seq(Byte)
    PROVE  LET s == ttls_parse_finished(x, buf)
           IN Moves(x, s) /\ (s.r = "postpone" => s.n <= Len(buf))
<1> DEFINE got == Part(x, buf)
           n == Len(got)
           d == ttls_decrypt(x)
           y == ttls_update_checksum(d.t, <<<<"C", "FIN">>>>)
           z == [y EXCEPT !.state = SERVER_CCS]
           w == ttls_handshake_wrapup(y)
           s == ttls_parse_finished(x, buf)
<1>1. CtxOK(x) /\ x.rec \in 1..Len(recs) /\ recs[x.rec].type # "app"
  BY DEF HsRec, Framed
<1>2. got \in Seq(Hashed) /\ n \in Nat /\ n <= Len(buf)
  BY <1>1, PartIs
<1> SUFFICES Moves(x, s) /\ (s.r = "postpone" => s.n <= Len(buf))
  OBVIOUS
<1>3. s = IF msglen(Rec(x)) # IvLen + 2 THEN Drop(x)
          ELSE IF ~Whole(x, got) THEN Res([x EXCEPT !.rlen = @ + n], "postpone", n, <<>>)
          ELSE IF d.r # "ok" THEN d
          ELSE IF Rec(x).hst # "FIN" THEN Alert(d.t, "decode")
          ELSE IF Rec(x).view # x.xsum THEN Alert(d.t, "decode")
          ELSE IF x.resume THEN Res(w, "ok", n, <<>>)
          ELSE ServerFinish(z, n)
  BY DEF ttls_parse_finished
<1> HIDE DEF got, s
<1>4. /\ IsRes(d) /\ d.r \in {"ok", "drop"} /\ d.n = 0 /\ d.out \in Seq(OutSet) /\ Later(d.out)
      /\ d.r = "ok" => recs[x.rec].enc /\ recs[x.rec].ctr = x.inctr
      /\ CtxOK(d.t) /\ d.t.rec = x.rec /\ d.t.outctr = x.outctr /\ d.t.state = x.state
      /\ d.t.resume = x.resume /\ d.t.inctr = x.inctr + 1
  BY <1>1, DecryptIs
<1> HIDE DEF d, n
<1>5. x.state # OVER /\ x.state >= SERVER_CERTIFICATE /\ x.inctr \in Nat
  BY Numbers DEF Ctx
<1>6. CASE s = Drop(x)
  BY <1>1, <1>6, Dropped, ResIs DEF Drop
<1>7. CASE s = Res([x EXCEPT !.rlen = @ + n], "postpone", n, <<>>)
  BY <1>2, <1>7, Partly, ResIs
<1>8. CASE s = d /\ d.r # "ok"
  <2>1. d.r = "drop"
    BY <1>4, <1>8
  <2>2. Sends(x, d)
    BY <1>4, <2>1 DEF Sends
  <2>3. Opens(x, d) /\ Gives(x, d)
    BY <1>4, <1>5, <2>1 DEF Opens, Gives
  <2>4. Moves(x, d)
    BY <1>1, <1>4, <2>1, <2>2, <2>3 DEF Moves
  <2> QED BY <1>8, <2>1, <2>4
<1>9. CASE s = Alert(d.t, "decode")
  <2>1. "decode" \in OutName
    BY DEF OutName
  <2>2. Moves(x, s)
    BY <1>1, <1>4, <1>5, <1>9, <2>1, Alerted
  <2> QED BY <1>9, <2>2, ResIs DEF Alert
<1>10. ASSUME d.r = "ok", Rec(x).hst = "FIN", Rec(x).view = x.xsum
       PROVE  Vouched(x.rec) /\ recs[x.rec].ctr < x.inctr + 1
  <2>1. x.xsum # <<>>
    BY <1>1, <1>5 DEF CtxOK
  <2>2. x.rec \in Encrypted
    BY <1>1, <1>4, <1>10 DEF Encrypted
  <2>3. recs[x.rec].ctr < x.inctr + 1
    BY <1>4, <1>5, <1>10
  <2> QED BY <1>10, <2>1, <2>2, <2>3 DEF Vouched, Rec
<1>11. /\ y \in Ctx /\ y.rec = x.rec /\ y.outctr = x.outctr /\ y.resume = x.resume
       /\ y.inctr = x.inctr + 1
  <2>1. <<<<"C", "FIN">>>> \in Seq(Hashed)
    BY DEF Hashed, Message
  <2>2. d.t \in Ctx
    BY <1>4 DEF CtxOK
  <2>3. y \in Ctx /\ SameBut(d.t, y) /\ y.rec = d.t.rec
    BY <2>1, <2>2, Hashes
  <2> HIDE DEF y
  <2> QED BY <1>4, <2>3 DEF SameBut
<1> HIDE DEF y
<1>12. CASE s = Res(w, "ok", n, <<>>) /\ x.resume /\ d.r = "ok" /\ Rec(x).hst = "FIN" /\ Rec(x).view = x.xsum
  <2>1. OVER \in 0..14 /\ <<>> \in Seq(Hashed)
    BY Numbers, EmptySeq
  <2>2. w = [y EXCEPT !.hs = FALSE, !.xsum = <<>>, !.state = OVER]
    BY DEF ttls_handshake_wrapup
  <2> HIDE DEF w
  <2>3. w \in Ctx /\ w.state = OVER /\ ~w.hs /\ w.rec = y.rec /\ w.outctr = y.outctr /\ w.inctr = y.inctr
    BY <1>11, <2>1, <2>2 DEF Ctx
  <2>4. s.t = w /\ s.r = "ok" /\ s.n = n /\ s.out = <<>> /\ IsRes(s)
    BY <1>12, ResIs DEF IsRes
  <2>5. CtxOK(w) /\ ~Early(w)
    BY <2>3 DEF CtxOK, Early
  <2>6. Sends(x, s)
    BY <1>11, <2>3, <2>4, <2>5, Silent DEF Sends
  <2>7. Opens(x, s) /\ Gives(x, s)
    BY <1>1, <1>5, <1>10, <1>11, <1>12, <2>3, <2>4 DEF Opens, Gives
  <2>8. Moves(x, s)
    BY <1>1, <1>2, <1>11, <2>3, <2>4, <2>5, <2>6, <2>7, Silent DEF Moves
  <2> QED BY <2>4, <2>8
<1>13. CASE s = ServerFinish(z, n) /\ ~x.resume /\ d.r = "ok" /\ Rec(x).hst = "FIN" /\ Rec(x).view = x.xsum
  <2>1. SERVER_CCS \in 0..14
    BY Numbers
  <2>2. z \in Ctx /\ z.rec = y.rec /\ z.resume = y.resume /\ z.inctr = y.inctr
    BY <1>11, <2>1, StateTo
  <2> HIDE DEF z
  <2>3. /\ s.r = "ok" /\ s.n = n /\ s.out \in Seq(OutSet) /\ EndsInFin(s.out)
        /\ s.t \in Ctx /\ s.t.outctr = 1 /\ s.t.rec = z.rec /\ s.t.inctr = z.inctr
        /\ ~z.resume => s.t.state = OVER /\ ~s.t.hs
    BY <1>2, <1>13, <2>2, FinishIs
  <2>4. IsRes(s)
    BY <1>13 DEF ServerFinish, Res, IsRes
  <2>5. s.t.state = OVER /\ ~s.t.hs /\ s.t.rec = x.rec /\ s.t.inctr = x.inctr + 1
    BY <1>11, <1>13, <2>2, <2>3
  <2>6. CtxOK(s.t) /\ ~Early(s.t)
    BY <2>3, <2>5 DEF CtxOK, Early
  <2>7. Early(x)
    BY <1>5, <1>13 DEF Early
  <2>8. Sends(x, s)
    BY <2>3, <2>6, <2>7 DEF Sends
  <2>9. Opens(x, s) /\ Gives(x, s)
    BY <1>1, <1>5, <1>10, <1>13, <2>3, <2>5 DEF Opens, Gives
  <2>10. Moves(x, s)
    BY <1>1, <1>2, <2>3, <2>4, <2>5, <2>6, <2>8, <2>9 DEF Moves
  <2> QED BY <2>3, <2>10
<1> QED BY <1>3, <1>6, <1>7, <1>8, <1>9, <1>12, <1>13

LEMMA StepMoves ==
    ASSUME recs \in Seq(RecSet), NEW x \in Ctx, HsRec(x), x.state # OVER,
           NEW buf \in Seq(Byte), NEW pre \in Seq(Hashed), NEW fail
    PROVE  LET s == ttls_handshake_server_step(x, buf, pre, fail)
           IN Moves(x, s) /\ (s.r = "postpone" => s.n <= Len(buf))
<1> DEFINE s == ttls_handshake_server_step(x, buf, pre, fail)
<1> SUFFICES Moves(x, s) /\ (s.r = "postpone" => s.n <= Len(buf))
  OBVIOUS
<1>1. Framed(x) /\ x.rec \in 1..Len(recs) /\ recs[x.rec].type # "app"
  BY DEF HsRec, Framed
<1>2. CASE x.state = CLIENT_HELLO
  <2>1. s = ttls_parse_client_hello(x, buf, pre, fail)
    BY <1>2, Numbers DEF ttls_handshake_server_step
  <2> HIDE DEF s
  <2> QED BY <1>2, <2>1, HelloMoves
<1>3. CASE x.state = SERVER_HELLO
  <2>1. s = ttls_handshake_server_hello(x, fail, 0)
    BY <1>3, Numbers DEF ttls_handshake_server_step
  <2> HIDE DEF s
  <2> QED BY <1>1, <1>3, <2>1, FlightIs, FlightOk
<1>4. CASE x.state = CLIENT_KEY_EXCHANGE
  <2>1. s = ttls_parse_client_key_exchange(x, buf, pre)
    BY <1>4, Numbers DEF ttls_handshake_server_step
  <2> HIDE DEF s
  <2> QED BY <1>4, <2>1, KeyMoves
<1>5. CASE x.state = CLIENT_CCS
  <2>1. s = ttls_parse_change_cipher_spec(x)
    BY <1>5, Numbers DEF ttls_handshake_server_step
  <2> HIDE DEF s
  <2> QED BY <1>5, <2>1, CcsMoves
<1>6. CASE x.state = CLIENT_FINISHED
  <2>1. s = ttls_parse_finished(x, buf)
    BY <1>6, Numbers DEF ttls_handshake_server_step
  <2> HIDE DEF s
  <2> QED BY <1>6, <2>1, FinishedMoves
<1>7. CASE x.state \notin {CLIENT_HELLO, SERVER_HELLO, CLIENT_KEY_EXCHANGE, CLIENT_CCS, CLIENT_FINISHED}
  <2>1. s = Res(x, "ok", 0, <<>>)
    BY <1>7 DEF ttls_handshake_server_step
  <2> HIDE DEF s
  <2> QED BY <1>1, <2>1, Passes, ResIs
<1> QED BY <1>2, <1>3, <1>4, <1>5, <1>6, <1>7

LEMMA HandshakeMoves ==
    ASSUME recs \in Seq(RecSet), NEW x \in Ctx, HsRec(x),
           NEW buf \in Seq(Byte), NEW pre \in Seq(Hashed), NEW fail
    PROVE  Moves(x, Handshake(x, buf, pre, fail))
<1> DEFINE s == ttls_handshake_server_step(x, buf, pre, fail)
           b == pre \o SubSeq(buf, 1, s.n)
           w == [s EXCEPT !.t = ttls_update_checksum(s.t, b)]
           H == Handshake(x, buf, pre, fail)
<1>1. Framed(x) /\ CtxOK(x) /\ x.rec \in 1..Len(recs)
  BY DEF HsRec, Framed
<1>2. H = IF buf = <<>> THEN Res(x, "postpone", 0, <<>>)
          ELSE IF x.state = OVER THEN Alert(x, "no_renegotiation")
          ELSE IF s.r = "postpone" /\ ttls_hs_checksumable(s.t) THEN w
          ELSE s
  BY DEF Handshake
<1>3. x.state # OVER => Moves(x, s) /\ (s.r = "postpone" => s.n <= Len(buf))
  BY StepMoves
<1> HIDE DEF s, H
<1>4. CASE H = Res(x, "postpone", 0, <<>>)
  BY <1>1, <1>4, Waits DEF H
<1>5. CASE H = Alert(x, "no_renegotiation")
  <2>1. "no_renegotiation" \in OutName /\ x.inctr >= x.inctr
    BY DEF OutName, Ctx
  <2>2. Moves(x, H)
    BY <1>1, <1>5, <2>1, Alerted
  <2> QED BY <2>2 DEF H
<1>6. CASE x.state # OVER /\ s.r = "postpone" /\ H = w
  <2>1. Moves(x, s) /\ s.n <= Len(buf)
    BY <1>3, <1>6
  <2>2. s.n \in Int
    BY <2>1 DEF Moves
  <2>3. SubSeq(buf, 1, s.n) \in Seq(Byte)
    BY <2>1, <2>2, PrefixIs
  <2>4. b \in Seq(Hashed)
    BY <2>3, BytesHashed, ConcatProperties
  <2> HIDE DEF b
  <2>5. Moves(x, H)
    BY <1>6, <2>1, <2>4, MovesHash
  <2> QED BY <2>5 DEF H
<1>7. CASE x.state # OVER /\ H = s
  BY <1>3, <1>7 DEF H
<1>8. Moves(x, H)
  BY <1>2, <1>4, <1>5, <1>6, <1>7 DEF H
<1> QED BY <1>8 DEF H

-----------------------------------------------------------------------------
(* Records                                                                  *)

LEMMA MovesCount ==
    ASSUME NEW x, NEW s, Moves(x, s), NEW k \in Nat
    PROVE  Moves(x, [s EXCEPT !.n = k])
<1> DEFINE w == [s EXCEPT !.n = k]
<1>1. w = Res(s.t, s.r, k, s.out)
  BY DEF Moves, IsRes, Res
<1> HIDE DEF w
<1>2. w.t = s.t /\ w.r = s.r /\ w.n = k /\ w.out = s.out /\ IsRes(w)
  BY <1>1, ResIs DEF IsRes
<1>3. Sends(x, w) /\ Opens(x, w) /\ Gives(x, w)
  BY <1>2 DEF Moves, Sends, Opens, Gives
<1>4. Moves(x, w)
  BY <1>2, <1>3 DEF Moves
<1> QED BY <1>4 DEF w

LEMMA NotifyIs ==
    ASSUME NEW x
    PROVE  ttls_close_notify(x) \in Seq(OutSet) /\ Later(ttls_close_notify(x))
<1>1. "close_notify" \in OutName
  BY DEF OutName
<1> QED BY <1>1, Alerts, Silent DEF ttls_close_notify

(* y is x after the record of an alert was opened, if it was sealed.        *)
LEMMA AlertMoves ==
    ASSUME NEW x \in Ctx, NEW y, CtxOK(y), y.rec \in 1..Len(recs), recs[y.rec].type = "alert",
           y.outctr = x.outctr, y.state = x.state, y.resume = x.resume, y.inctr >= x.inctr
    PROVE  Moves(x, ttls_handle_alert(y))
<1> DEFINE s == ttls_handle_alert(y)
<1>1. \/ s = Res(y, "drop", 0, <<>>) \/ s = Res(y, "drop", 0, ttls_close_notify(y)) \/ s = Res(y, "ok", 0, <<>>)
  BY DEF ttls_handle_alert, Drop
<1> HIDE DEF s
<1>2. Early(y) <=> Early(x)
  BY DEF Early
<1>3. Moves(x, s)
  <2>1. CASE s = Res(y, "drop", 0, <<>>)
    BY <2>1, Mild, Silent
  <2>2. CASE s = Res(y, "drop", 0, ttls_close_notify(y))
    BY <2>2, Mild, NotifyIs
  <2>3. CASE s = Res(y, "ok", 0, <<>>)
    BY <1>2, <2>3, Mild, Silent
  <2> QED BY <1>1, <2>1, <2>2, <2>3
<1> QED BY <1>3 DEF s

LEMMA MsgLen ==
    ASSUME recs \in Seq(RecSet), NEW i \in 1..Len(recs)
    PROVE  msglen(recs[i]) \in Nat
<1>1. recs[i] \in RecSet
  BY ElementOfSeq
<1>2. recs[i].body \in Nat
  BY <1>1 DEF RecSet
<1>3. recs[i].body + 1 \in Nat /\ recs[i].body + 2 \in Nat /\ 1 \in Nat
  BY <1>2
<1> QED BY <1>2, <1>3, Numbers DEF msglen

LEMMA SealedMoves ==
    ASSUME recs \in Seq(RecSet), NEW x \in Ctx, Framed(x), recs[x.rec].type \in {"app", "alert"},
           NEW buf \in Seq(Byte)
    PROVE  Moves(x, Sealed(x, buf))
<1> DEFINE left == msglen(Rec(x)) - x.rlen
           d == ttls_decrypt(x)
           y == [x EXCEPT !.rlen = x.rlen + Len(buf)]
           s == Sealed(x, buf)
<1>1. CtxOK(x) /\ x.rec \in 1..Len(recs) /\ x.rlen <= msglen(recs[x.rec]) /\ x.hdriv
  BY DEF Framed, IoOf
<1>2. x.rlen \in Nat /\ msglen(recs[x.rec]) \in Nat /\ Len(buf) \in Nat /\ x.inctr \in Nat
  BY <1>1, MsgLen, LenProperties DEF Ctx
<1>3. left \in Nat
  BY <1>1, <1>2 DEF Rec
<1>4. /\ IsRes(d) /\ d.r \in {"ok", "drop"} /\ d.n = 0 /\ d.out \in Seq(OutSet) /\ Later(d.out)
      /\ d.r = "ok" => d.out = <<>> /\ recs[x.rec].enc /\ recs[x.rec].ctr = x.inctr
      /\ CtxOK(d.t) /\ d.t.rec = x.rec /\ d.t.outctr = x.outctr /\ d.t.state = x.state
      /\ d.t.resume = x.resume /\ d.t.inctr = x.inctr + 1
  BY <1>1, DecryptIs
<1>5. s = IF Rec(x).type = "app" /\ x.state # OVER THEN Drop(x)
          ELSE IF buf = <<>> THEN Res(x, "postpone", 0, <<>>)
          ELSE IF left > Len(buf) THEN Res(y, "postpone", Len(buf), <<>>)
          ELSE IF d.r # "ok" \/ Rec(x).type = "app" THEN [d EXCEPT !.n = left]
          ELSE [ttls_handle_alert(d.t) EXCEPT !.n = left]
  BY DEF Sealed
<1> SUFFICES Moves(x, s)
  OBVIOUS
<1> HIDE DEF d, s
<1>6. CASE s = Drop(x)
  BY <1>1, <1>6, Dropped
<1>7. CASE s = Res(x, "postpone", 0, <<>>)
  BY <1>7, Waits
<1>8. CASE left > Len(buf) /\ s = Res(y, "postpone", Len(buf), <<>>)
  <2>1. x.rlen + Len(buf) \in Nat /\ x.rlen + Len(buf) <= msglen(recs[x.rec])
    BY <1>1, <1>2, <1>8 DEF Rec
  <2>2. y \in Ctx
    BY <2>1 DEF Ctx
  <2>3. /\ y.state = x.state /\ y.hs = x.hs /\ y.resume = x.resume /\ y.xsum = x.xsum /\ y.inctr = x.inctr
        /\ y.outctr = x.outctr /\ y.rec = x.rec /\ y.hdriv = x.hdriv /\ y.rlen = x.rlen + Len(buf)
    BY DEF Ctx
  <2> HIDE DEF y
  <2>4. CtxOK(y)
    BY <1>1, <2>2, <2>3 DEF CtxOK
  <2>5. IoOf(y)
    BY <1>1, <2>1, <2>3 DEF IoOf
  <2>6. Early(y) <=> Early(x)
    BY <2>3 DEF Early
  <2>7. y.inctr >= x.inctr
    BY <1>2, <2>3
  <2> QED BY <1>1, <1>2, <1>8, <2>3, <2>4, <2>5, <2>6, <2>7, Mild, Silent
<1>9. ASSUME d.r # "ok" \/ (Rec(x).type = "app" /\ x.state = OVER) PROVE Moves(x, d)
  <2>1. Early(d.t) <=> Early(x)
    BY <1>4 DEF Early
  <2>2. Sends(x, d)
    BY <1>4, <2>1, Silent DEF Sends
  <2>3. Opens(x, d)
    BY <1>2, <1>4 DEF Opens
  <2>4. Gives(x, d)
    BY <1>1, <1>2, <1>4, <1>9 DEF Gives, Encrypted, Rec
  <2> QED BY <1>1, <1>4, <2>2, <2>3, <2>4 DEF Moves
<1>10. CASE (d.r # "ok" \/ (Rec(x).type = "app" /\ x.state = OVER)) /\ s = [d EXCEPT !.n = left]
  BY <1>3, <1>9, <1>10, MovesCount
<1>11. CASE Rec(x).type # "app" /\ s = [ttls_handle_alert(d.t) EXCEPT !.n = left]
  <2>1. recs[x.rec].type = "alert"
    BY <1>11 DEF Rec
  <2>2. d.t.inctr >= x.inctr
    BY <1>2, <1>4
  <2>3. Moves(x, ttls_handle_alert(d.t))
    BY <1>1, <1>4, <2>1, <2>2, AlertMoves
  <2> QED BY <1>3, <1>11, <2>3, MovesCount
<1> HIDE DEF left, y
<1> QED BY <1>5, <1>6, <1>7, <1>8, <1>10, <1>11

LEMMA SuffixIs ==
    ASSUME NEW T, NEW s \in Seq(T), NEW k \in Nat
    PROVE  /\ SubSeq(s, k + 1, Len(s)) \in Seq(T)
           /\ \A i \in 1..Len(SubSeq(s, k + 1, Len(s))) :
                \E j \in 1..Len(s) : SubSeq(s, k + 1, Len(s))[i] = s[j]
<1> DEFINE w == SubSeq(s, k + 1, Len(s))
<1>1. Len(s) \in Nat /\ k + 1 \in Int
  BY LenProperties
<1>2. \A i \in k + 1 .. Len(s) : s[i] \in T
  BY <1>1, ElementOfSeq
<1>3. /\ w \in Seq(T) /\ Len(w) = IF k + 1 <= Len(s) THEN Len(s) - (k + 1) + 1 ELSE 0
      /\ \A i \in 1 .. Len(s) - (k + 1) + 1 : w[i] = s[k + 1 + i - 1]
  BY <1>1, <1>2, SubSeqProperties
<1> HIDE DEF w
<1>4. ASSUME NEW i \in 1..Len(w) PROVE \E j \in 1..Len(s) : w[i] = s[j]
  <2>1. k + 1 <= Len(s)
    BY <1>1, <1>3
  <2>2. i \in 1 .. Len(s) - (k + 1) + 1
    BY <1>3, <2>1
  <2>3. w[i] = s[k + 1 + i - 1] /\ k + 1 + i - 1 \in 1..Len(s)
    BY <1>1, <1>3, <2>1, <2>2
  <2> QED BY <2>3
<1> QED BY <1>3, <1>4 DEF w

LEMMA BytesAre ==
    ASSUME NEW i \in Nat, NEW from \in Nat, NEW len \in Nat
    PROVE  /\ Bytes(i, from, len) \in Seq(Byte) /\ Len(Bytes(i, from, len)) = len
           /\ \A j \in 1..len : Bytes(i, from, len)[j][1] = i
<1>1. \A j \in 1..len : <<i, from + j - 1>> \in Byte
  <2> TAKE j \in 1..len
  <2>1. from + j - 1 \in Nat
    OBVIOUS
  <2> QED BY <2>1 DEF Byte
<1>2. Bytes(i, from, len) \in [1..len -> Byte]
  BY <1>1 DEF Bytes
<1>3. Bytes(i, from, len) \in Seq(Byte) /\ Len(Bytes(i, from, len)) = len
  BY <1>2, IsASeq, LenProperties
<1>4. \A j \in 1..len : Bytes(i, from, len)[j][1] = i
  BY DEF Bytes
<1> QED BY <1>3, <1>4

(* ttls_parse_record_hdr(): the header is read, or more of it is awaited,   *)
(* or it is refused.                                                        *)
LEMMA HeaderIs ==
    ASSUME recs \in Seq(RecSet), NEW x0 \in Ctx, CtxOK(x0), ~x0.hdriv, x0.rlen = 0,
           NEW buf \in Seq(Byte), buf # <<>>, buf[1][1] \in 1..Len(recs)
    PROVE  LET h == ttls_parse_record_hdr(x0, buf) IN
           /\ h.r # "ok" => Moves(x0, h)
           /\ h.r = "ok" => Framed(h.t) /\ SameBut(x0, h.t) /\ h.n \in Nat
<1> DEFINE len == Len(buf)
           x == [x0 EXCEPT !.rec = IF len > 0 THEN buf[1][1] ELSE @]
           r == Rec(x)
           all == TLS_HEADER_SIZE + Ivahs(x, r)
           got == x.cpsz + len
           y == [x EXCEPT !.cpsz = got]
           l == IF r.type = "app" \/ (r.type = "alert" /\ ttls_xfrm_ready(x)) THEN IvLen ELSE x.rlen
           z == [x EXCEPT !.cpsz = 0, !.hdriv = TRUE, !.rlen = l]
           h == ttls_parse_record_hdr(x0, buf)
<1>1. len \in Nat /\ len > 0
  BY LenProperties, EmptySeq
<1>2. buf[1][1] \in Nat
  BY LenProperties
<1>3. h = IF got < TLS_HEADER_SIZE THEN Res(y, "postpone", len, <<>>)
          ELSE IF ~ttls_hdr_check(x, r) \/ HdrRefused(x, r) THEN Drop(x)
          ELSE IF got < all THEN Res(y, "postpone", len, <<>>)
          ELSE Res(z, "ok", all - x.cpsz, <<>>)
  BY DEF ttls_parse_record_hdr
<1> SUFFICES /\ h.r # "ok" => Moves(x0, h)
             /\ h.r = "ok" => Framed(h.t) /\ SameBut(x0, h.t) /\ h.n \in Nat
  OBVIOUS
<1> HIDE DEF h
<1>3a. x = [x0 EXCEPT !.rec = buf[1][1]]
  BY <1>1
<1> HIDE DEF x
<1>4. x \in Ctx
  BY <1>3a, <1>2 DEF Ctx
<1>5. /\ x.rec = buf[1][1] /\ x.state = x0.state /\ x.hs = x0.hs /\ x.resume = x0.resume
      /\ x.xsum = x0.xsum /\ x.inctr = x0.inctr /\ x.outctr = x0.outctr /\ x.hdriv = x0.hdriv
      /\ x.rlen = x0.rlen
  BY <1>3a DEF Ctx
<1>6. CtxOK(x) /\ SameBut(x0, x) /\ x.rec \in 1..Len(recs) /\ ~x.hdriv /\ x.rlen = 0 /\ x.cpsz \in 0..3
  BY <1>4, <1>5 DEF CtxOK, SameBut, Ctx
<1>7. all \in {3, 4}
  BY Numbers DEF Ivahs
<1> HIDE DEF all
<1>8. CASE h = Drop(x)
  <2>1. Moves(x, h)
    BY <1>4, <1>6, <1>8, Dropped
  <2>2. Moves(x0, h)
    BY <1>6, <2>1, MovesFrom
  <2> QED BY <1>8, <2>2, ResIs DEF Drop
<1>9. CASE h = Res(y, "postpone", len, <<>>) /\ got < 4
  <2>1. got \in 0..3
    BY <1>1, <1>6, <1>9
  <2> HIDE DEF got
  <2>2. y \in Ctx
    BY <1>4, <2>1 DEF Ctx
  <2>3. /\ y.state = x.state /\ y.hs = x.hs /\ y.resume = x.resume /\ y.xsum = x.xsum /\ y.inctr = x.inctr
        /\ y.outctr = x.outctr /\ y.rec = x.rec /\ y.hdriv = x.hdriv /\ y.rlen = x.rlen
    BY <1>4 DEF Ctx
  <2> HIDE DEF y, len
  <2>4. CtxOK(y)
    BY <1>6, <2>2, <2>3 DEF CtxOK
  <2>5. IoOf(y)
    BY <1>6, <2>3 DEF IoOf
  <2>6. Early(y) <=> Early(x)
    BY <2>3 DEF Early
  <2>7. y.inctr >= x.inctr
    BY <1>4, <2>3 DEF Ctx
  <2>8. Moves(x, h)
    BY <1>1, <1>4, <1>6, <1>9, <2>3, <2>4, <2>5, <2>6, <2>7, Mild, Silent
  <2>9. Moves(x0, h)
    BY <1>6, <2>8, MovesFrom
  <2> QED BY <1>9, <2>9, ResIs
<1>10. CASE h = Res(z, "ok", all - x.cpsz, <<>>) /\ ttls_hdr_check(x, r) /\ ~HdrRefused(x, r)
  <2>1. all - x.cpsz \in Nat
    BY <1>6, <1>7
  <2>2. msglen(recs[x.rec]) \in Nat
    BY <1>6, MsgLen
  <2>3. l \in {0, 1}
    BY <1>6, Numbers
  <2>4. r.type \in {"app", "alert"} => l <= msglen(recs[x.rec])
    <3>1. CASE l = 0
      BY <2>2, <3>1
    <3>2. CASE l = 1
      <4>1. l # x.rlen
        BY <1>6, <3>2
      <4>2. r.type = "app" \/ (r.type = "alert" /\ ttls_xfrm_ready(x))
        BY <4>1
      <4>3. ttls_xfrm_ready(x)
        BY <1>10, <4>2 DEF HdrRefused
      <4>4. msglen(r) >= IvLen
        BY <1>10, <4>3 DEF ttls_hdr_check
      <4> QED BY <2>2, <3>2, <4>4, Numbers DEF Rec
    <3> QED BY <2>3, <3>1, <3>2
  <2> HIDE DEF l
  <2>5. z \in Ctx
    <3>1. 0 \in 0..3 /\ l \in Nat
      BY <2>3
    <3> QED BY <1>4, <3>1 DEF Ctx
  <2>6. /\ z.state = x.state /\ z.hs = x.hs /\ z.resume = x.resume /\ z.xsum = x.xsum /\ z.inctr = x.inctr
        /\ z.outctr = x.outctr /\ z.rec = x.rec /\ z.hdriv /\ z.rlen = l
    BY <1>4 DEF Ctx
  <2> HIDE DEF z
  <2>7. CtxOK(z) /\ SameBut(x0, z)
    BY <1>6, <2>5, <2>6 DEF CtxOK, SameBut
  <2>8. IoOf(z)
    BY <1>6, <2>4, <2>6 DEF IoOf, Rec
  <2>9. Framed(z)
    BY <1>6, <2>6, <2>7, <2>8 DEF Framed
  <2>10. h.t = z /\ h.r = "ok" /\ h.n = all - x.cpsz
    BY <1>10, ResIs
  <2> QED BY <2>1, <2>7, <2>9, <2>10
<1>11. /\ got < TLS_HEADER_SIZE => got < 4
       /\ got < all => got < 4
  BY <1>1, <1>6, <1>7, Numbers
<1> HIDE DEF r, got, y, z, len
<1> QED BY <1>3, <1>8, <1>9, <1>10, <1>11

(* ttls_recv(): a step of the receive path.                                 *)
LEMMA RecvMoves ==
    ASSUME recs \in Seq(RecSet), NEW x \in Ctx, CtxOK(x), IoOf(x), NEW fail,
           NEW buf \in Seq(Byte), buf # <<>>, buf[1][1] \in 1..Len(recs)
    PROVE  Moves(x, ttls_recv(x, buf, fail))
<1> DEFINE h == ttls_parse_record_hdr(x, buf)
           rest == SubSeq(buf, h.n + 1, Len(buf))
           hashed == Rec(h.t).type = "hs" /\ ttls_hs_checksumable(h.t)
           inline == h.n >= TTLS_HS_HDR_LEN /\ rest # <<>>
           hh == Bytes(h.t.rec, TLS_HEADER_SIZE, TTLS_HS_HDR_LEN)
           y == IF ~x.hdriv /\ hashed /\ ~inline THEN ttls_update_checksum(h.t, hh) ELSE
                IF x.hdriv THEN x ELSE h.t
           b == IF x.hdriv THEN buf ELSE rest
           pre == IF ~x.hdriv /\ hashed /\ inline THEN hh ELSE <<>>
           body == CASE Rec(y).type = "alert" /\ ~ttls_xfrm_ready(y) -> ttls_handle_alert(y)
                     [] Rec(y).type \in {"ccs", "hs"} -> Handshake(y, b, pre, fail)
                     [] OTHER -> Sealed(y, b)
           s == ttls_recv(x, buf, fail)
<1>1. s = IF ~x.hdriv /\ h.r # "ok" THEN h
          ELSE [body EXCEPT !.n = body.n + (IF x.hdriv THEN 0 ELSE h.n)]
  BY DEF ttls_recv
<1>2. ~x.hdriv => /\ h.r # "ok" => Moves(x, h)
                  /\ h.r = "ok" => Framed(h.t) /\ SameBut(x, h.t) /\ h.n \in Nat
  BY HeaderIs DEF IoOf
<1> SUFFICES Moves(x, s)
  OBVIOUS
<1> HIDE DEF h, s
<1>3. CASE ~x.hdriv /\ h.r # "ok"
  BY <1>1, <1>2, <1>3
<1>4. CASE x.hdriv \/ h.r = "ok"
  <2>1. x.hdriv \/ (Framed(h.t) /\ SameBut(x, h.t) /\ h.n \in Nat)
    BY <1>2, <1>4
  <2>2. ~x.hdriv => hh \in Seq(Hashed) /\ rest \in Seq(Byte) /\ h.t \in Ctx
    <3> SUFFICES ASSUME ~x.hdriv PROVE hh \in Seq(Hashed) /\ rest \in Seq(Byte) /\ h.t \in Ctx
      OBVIOUS
    <3>1. h.t \in Ctx /\ h.n \in Nat
      BY <2>1 DEF Framed, CtxOK
    <3>2. h.t.rec \in Nat /\ TLS_HEADER_SIZE \in Nat /\ TTLS_HS_HDR_LEN \in Nat
      BY <3>1, Numbers DEF Ctx
    <3>3. hh \in Seq(Byte)
      BY <3>2, BytesAre
    <3>4. rest \in Seq(Byte)
      BY <3>1, SuffixIs
    <3> QED BY <3>1, <3>3, <3>4, BytesHashed
  <2> HIDE DEF rest, hh, hashed, inline
  <2>3. y \in Ctx /\ Framed(y) /\ SameBut(x, y)
    <3>1. CASE x.hdriv
      <4>1. y = x
        BY <3>1
      <4> QED BY <3>1, <4>1 DEF Framed, SameBut, IoOf
    <3>2. CASE ~x.hdriv /\ y = h.t
      BY <2>1, <2>2, <3>2
    <3>3. CASE ~x.hdriv /\ y = ttls_update_checksum(h.t, hh)
      <4>1. Framed(h.t) /\ SameBut(x, h.t) /\ h.t \in Ctx /\ hh \in Seq(Hashed)
        BY <2>1, <2>2, <3>3
      <4> DEFINE v == ttls_update_checksum(h.t, hh)
      <4>2. /\ v \in Ctx /\ SameBut(h.t, v) /\ v.rec = h.t.rec /\ v.rlen = h.t.rlen /\ v.hdriv = h.t.hdriv
            /\ (h.t.xsum # <<>> => v.xsum # <<>>)
        BY <4>1, Hashes
      <4>3. y = v
        BY <3>3
      <4> HIDE DEF v, y
      <4>4. CtxOK(v) /\ IoOf(v)
        BY <4>1, <4>2 DEF Framed, CtxOK, IoOf, SameBut
      <4> QED BY <4>1, <4>2, <4>3, <4>4 DEF Framed, SameBut
    <3> QED BY <3>1, <3>2, <3>3
  <2>4. b \in Seq(Byte)
    BY <2>2
  <2>5. pre \in Seq(Hashed)
    BY <2>2, EmptySeq
  <2>6. (IF x.hdriv THEN 0 ELSE h.n) \in Nat
    BY <2>1
  <2>7. Moves(y, body)
    <3> HIDE DEF y, b, pre
    <3>1. CASE Rec(y).type = "alert" /\ ~ttls_xfrm_ready(y)
      <4>1. body = ttls_handle_alert(y)
        BY <3>1
      <4>2. y.inctr >= y.inctr /\ CtxOK(y) /\ y.rec \in 1..Len(recs)
        BY <2>3 DEF Framed, Ctx
      <4> QED BY <2>3, <3>1, <4>1, <4>2, AlertMoves DEF Rec
    <3>2. CASE Rec(y).type \in {"ccs", "hs"}
      <4>1. body = Handshake(y, b, pre, fail)
        BY <3>2
      <4>2. HsRec(y)
        BY <2>3, <3>2 DEF HsRec, Rec
      <4> QED BY <2>3, <2>4, <2>5, <4>1, <4>2, HandshakeMoves
    <3>3. CASE ~(Rec(y).type = "alert" /\ ~ttls_xfrm_ready(y)) /\ Rec(y).type \notin {"ccs", "hs"}
      <4>1. body = Sealed(y, b)
        BY <3>3
      <4>2. recs[y.rec] \in RecSet
        BY <2>3, ElementOfSeq DEF Framed
      <4>3. recs[y.rec].type \in {"app", "alert"}
        BY <3>3, <4>2 DEF RecSet, Rec
      <4> QED BY <2>3, <2>4, <4>1, <4>3, SealedMoves
    <3> QED BY <3>1, <3>2, <3>3
  <2> HIDE DEF y, b, pre, body
  <2>8. Moves(x, body) /\ body.n \in Nat
    BY <2>3, <2>7, MovesFrom DEF Moves
  <2> DEFINE k == body.n + (IF x.hdriv THEN 0 ELSE h.n)
  <2>9. k \in Nat
    BY <2>6, <2>8
  <2>10. s = [body EXCEPT !.n = k]
    BY <1>1, <1>4
  <2> HIDE DEF k
  <2> QED BY <2>8, <2>9, <2>10, MovesCount
<1> QED BY <1>3, <1>4

-----------------------------------------------------------------------------
(* What the server writes                                                   *)

LEMMA Joined ==
    ASSUME NEW p \in Seq(OutSet), NEW q \in Seq(OutSet)
    PROVE  /\ p \o q \in Seq(OutSet) /\ Len(p \o q) = Len(p) + Len(q) /\ Len(p) \in Nat /\ Len(q) \in Nat
           /\ \A i \in 1..Len(p) : (p \o q)[i] = p[i]
           /\ \A i \in 1..Len(p \o q) : i > Len(p) => i - Len(p) \in 1..Len(q) /\ (p \o q)[i] = q[i - Len(p)]
<1> DEFINE o == p \o q
<1>1. /\ o \in Seq(OutSet) /\ Len(o) = Len(p) + Len(q) /\ Len(p) \in Nat /\ Len(q) \in Nat
      /\ \A i \in 1 .. Len(p) + Len(q) : o[i] = IF i <= Len(p) THEN p[i] ELSE q[i - Len(p)]
  BY ConcatProperties, LenProperties
<1> HIDE DEF o
<1>2. ASSUME NEW i \in 1..Len(p) PROVE o[i] = p[i]
  <2>1. i \in 1 .. Len(p) + Len(q) /\ i <= Len(p)
    BY <1>1
  <2> QED BY <1>1, <2>1
<1>3. ASSUME NEW i \in 1..Len(o), i > Len(p) PROVE i - Len(p) \in 1..Len(q) /\ o[i] = q[i - Len(p)]
  <2>1. i \in 1 .. Len(p) + Len(q) /\ ~(i <= Len(p)) /\ i - Len(p) \in 1..Len(q)
    BY <1>1, <1>3
  <2> QED BY <1>1, <2>1
<1> QED BY <1>1, <1>2, <1>3 DEF o

(* Records made ready and not sealed yet change nothing of what is sealed.  *)
LEMMA OutGrows ==
    ASSUME out \in Seq(OutSet), WriteInv, NEW o \in Seq(OutSet), Later(o), out' = out \o o,
           t'.outctr = t.outctr,
           conn' = "up" /\ Early(t)' => conn = "up" /\ Early(t) /\ Quiet(o)
    PROVE  WriteInv'
<1>1. /\ Len(out') = Len(out) + Len(o) /\ Len(out) \in Nat /\ Len(o) \in Nat
      /\ \A i \in 1..Len(out) : out'[i] = out[i]
      /\ \A i \in 1..Len(out') : i > Len(out) => i - Len(out) \in 1..Len(o) /\ out'[i] = o[i - Len(out)]
  BY Joined
<1>2. ASSUME NEW i \in 1..Len(out'), i > Len(out) PROVE out'[i].ctr = Unsent
  BY <1>1, <1>2 DEF Later
<1>3. SealedSet' = SealedSet
  <2>1. ASSUME NEW i \in SealedSet' PROVE i \in SealedSet
    <3>1. i \in 1..Len(out') /\ out'[i].ctr # Unsent
      BY <2>1 DEF SealedSet
    <3>2. i \in 1..Len(out)
      BY <1>1, <1>2, <3>1
    <3> QED BY <1>1, <3>1, <3>2 DEF SealedSet
  <2>2. ASSUME NEW i \in SealedSet PROVE i \in SealedSet'
    <3>1. i \in 1..Len(out) /\ out[i].ctr # Unsent
      BY <2>2 DEF SealedSet
    <3>2. i \in 1..Len(out') /\ out'[i] = out[i]
      BY <1>1, <3>1
    <3> QED BY <3>1, <3>2 DEF SealedSet
  <2> QED BY <2>1, <2>2
<1>4. \A i \in SealedSet : i \in 1..Len(out) /\ out'[i] = out[i]
  BY <1>1 DEF SealedSet
<1>5. \A i \in SealedSet : out'[i].enc
  BY <1>4 DEF WriteInv
<1>6. \A i \in SealedSet : out'[i].ctr = Cardinality({j \in SealedSet : j < i})
  BY <1>4 DEF WriteInv
<1>7. ASSUME NEW i \in SealedSet, NEW j \in 1..Len(out'), out'[j].enc, out'[j].ctr = Unsent PROVE i < j
  <2>1. CASE j \in 1..Len(out)
    BY <1>1, <1>7, <2>1 DEF WriteInv
  <2>2. CASE j > Len(out)
    BY <1>1, <1>4, <2>2
  <2> QED BY <1>1, <2>1, <2>2
<1>8. t'.outctr = Cardinality(SealedSet)
  BY DEF WriteInv
<1>9. ASSUME conn' = "up", Early(t)', NEW i \in 1..Len(out') PROVE ~out'[i].enc
  <2>1. conn = "up" /\ Early(t) /\ Quiet(o)
    BY <1>9
  <2>2. CASE i \in 1..Len(out)
    BY <1>1, <2>1, <2>2 DEF WriteInv
  <2>3. CASE i > Len(out)
    BY <1>1, <2>1, <2>3 DEF Quiet
  <2> QED BY <1>1, <2>2, <2>3
<1> QED BY <1>3, <1>5, <1>6, <1>7, <1>8, <1>9 DEF WriteInv

(* The Finished is the first record the server seals.                       *)
LEMMA FinGrows ==
    ASSUME out \in Seq(OutSet), WriteInv, NEW o \in Seq(OutSet), EndsInFin(o), out' = out \o o,
           conn = "up", Early(t), t'.outctr = 1, ~Early(t)'
    PROVE  WriteInv'
<1>1. /\ Len(out') = Len(out) + Len(o) /\ Len(out) \in Nat /\ Len(o) \in Nat
      /\ \A i \in 1..Len(out) : out'[i] = out[i]
      /\ \A i \in 1..Len(out') : i > Len(out) => i - Len(out) \in 1..Len(o) /\ out'[i] = o[i - Len(out)]
  BY Joined
<1>2. \A i \in 1..Len(out) : ~out[i].enc /\ out[i].ctr = Unsent
  <2>1. \A i \in 1..Len(out) : ~out[i].enc
    BY DEF WriteInv
  <2>2. \A i \in SealedSet : out[i].enc
    BY DEF WriteInv
  <2> QED BY <2>1, <2>2 DEF SealedSet
<1> DEFINE k == Len(out')
<1>3. k \in 1..Len(out') /\ k > Len(out) /\ k - Len(out) = Len(o)
  BY <1>1 DEF EndsInFin
<1>4. out'[k] = o[Len(o)]
  BY <1>1, <1>3
<1>5. out'[k].enc /\ out'[k].ctr = 0
  BY <1>4 DEF EndsInFin
<1>6. ASSUME NEW i \in 1..Len(out'), i # k PROVE ~out'[i].enc /\ out'[i].ctr = Unsent
  <2>1. CASE i \in 1..Len(out)
    BY <1>1, <1>2, <2>1
  <2>2. CASE i > Len(out)
    <3>1. i - Len(out) \in 1 .. Len(o) - 1
      BY <1>1, <1>6, <2>2
    <3> QED BY <1>1, <2>2, <3>1 DEF EndsInFin
  <2> QED BY <1>1, <2>1, <2>2
<1> HIDE DEF k
<1>7. SealedSet' = {k}
  <2>1. 0 # Unsent
    BY Numbers
  <2> QED BY <1>3, <1>5, <1>6, <2>1 DEF SealedSet
<1>8. Cardinality({k}) = 1
  BY FS_Singleton
<1>9. Cardinality({j \in {k} : j < k}) = 0
  <2>1. {j \in {k} : j < k} = {}
    BY <1>1, <1>3
  <2> QED BY <2>1, FS_EmptySet
<1>10. \A j \in 1..Len(out') : ~(out'[j].enc /\ out'[j].ctr = Unsent)
  <2>1. 0 # Unsent
    BY Numbers
  <2> QED BY <1>5, <1>6, <2>1
<1> QED BY <1>5, <1>7, <1>8, <1>9, <1>10 DEF WriteInv

(* tfw_tls_encrypt() seals the first record that is not sealed.             *)
LEMMA SealsNext ==
    ASSUME out \in Seq(OutSet), WriteInv, tfw_tls_encrypt, t \in Ctx
    PROVE  WriteInv' /\ out' \in Seq(OutSet)
<1> DEFINE i == CHOOSE k \in Unsealed : \A j \in Unsealed : k <= j
<1>1. Len(out) \in Nat /\ DOMAIN out = 1..Len(out)
  BY LenProperties
<1>2. Unsealed \in SUBSET Nat /\ Unsealed # {}
  BY <1>1 DEF tfw_tls_encrypt, Unsealed
<1>3. \E k \in Unsealed : \A j \in Unsealed : k <= j
  <2>1. PICK k \in Unsealed : \A j \in Unsealed : <<j, k>> \notin OpToRel(<, Nat)
    BY <1>2, NatLessThanWellFounded, WFMin
  <2>2. ASSUME NEW j \in Unsealed PROVE k <= j
    <3>1. j \in Nat /\ k \in Nat /\ <<j, k>> \notin OpToRel(<, Nat)
      BY <1>2, <2>1
    <3>2. <<j, k>> \in Nat \X Nat
      BY <3>1
    <3>3. ASSUME j < k PROVE FALSE
      <4>1. <<j, k>> \in OpToRel(<, Nat)
        BY <3>2, <3>3, Zenon DEF OpToRel
      <4> QED BY <3>1, <4>1, Zenon
    <3>4. j \in Nat /\ k \in Nat /\ ~(j < k)
      BY <3>1, <3>3, Zenon
    <3> QED BY <3>4
  <2> QED BY <2>2
<1>4. i \in Unsealed /\ \A j \in Unsealed : i <= j
  BY <1>3
<1>5. out' = [out EXCEPT ![i].ctr = t.outctr] /\ t' = [t EXCEPT !.outctr = t.outctr + 1]
  BY DEF tfw_tls_encrypt
<1> HIDE DEF i
<1>6. i \in 1..Len(out) /\ out[i].enc /\ out[i].ctr = Unsent /\ out[i] \in OutSet
  BY <1>1, <1>4, ElementOfSeq DEF Unsealed
<1>7. t.outctr \in Nat /\ t'.outctr = t.outctr + 1
  BY <1>5 DEF Ctx
<1> DEFINE r == [out[i] EXCEPT !.ctr = t.outctr]
<1>8. r \in OutSet /\ r.enc /\ r.ctr = t.outctr
  <2>1. PICK e \in OutSet : e = out[i]
    BY <1>6
  <2>2. PICK n \in Int : n = t.outctr
    BY <1>7
  <2>3. e.enc /\ r = [e EXCEPT !.ctr = n]
    BY <1>6, <2>1, <2>2
  <2> HIDE DEF r
  <2>4. r \in OutSet /\ r.enc = e.enc /\ r.ctr = n
    BY <2>3 DEF OutSet
  <2> QED BY <2>2, <2>3, <2>4
<1>9. out' = [out EXCEPT ![i] = r]
  BY <1>1, <1>5, <1>6
<1> HIDE DEF r
<1>10. out' \in Seq(OutSet) /\ Len(out') = Len(out)
  BY <1>1, <1>6, <1>8, <1>9, ExceptSeq
<1>11. out'[i] = r /\ \A j \in 1..Len(out) : j # i => out'[j] = out[j]
  BY <1>1, <1>6, <1>9
<1>12. i \notin SealedSet /\ SealedSet' = SealedSet \cup {i}
  <2>1. t.outctr # Unsent
    BY <1>7, Numbers
  <2> QED BY <1>6, <1>8, <1>10, <1>11, <2>1 DEF SealedSet
<1>13. \A j \in SealedSet : j < i
  BY <1>6 DEF WriteInv
<1>14. IsFiniteSet(SealedSet) /\ SealedSet \subseteq 1..Len(out)
  <2>1. SealedSet \subseteq 1..Len(out)
    BY DEF SealedSet
  <2>2. 1 \in Int /\ Len(out) \in Int
    BY <1>1
  <2>3. IsFiniteSet(1..Len(out))
    BY <2>2, FS_Interval
  <2> QED BY <2>1, <2>3, FS_Subset
<1>15. Cardinality(SealedSet') = Cardinality(SealedSet) + 1
  BY <1>12, <1>14, FS_AddElement
<1>16. t'.outctr = Cardinality(SealedSet')
  BY <1>7, <1>15 DEF WriteInv
<1>17. ASSUME NEW j \in SealedSet' PROVE out'[j].enc /\ out'[j].ctr = Cardinality({k \in SealedSet' : k < j})
  <2>1. CASE j = i
    <3>1. {k \in SealedSet' : k < i} = SealedSet
      BY <1>6, <1>12, <1>13
    <3>2. t.outctr = Cardinality(SealedSet)
      BY DEF WriteInv
    <3> QED BY <1>8, <1>11, <2>1, <3>1, <3>2
  <2>2. CASE j # i
    <3>1. j \in SealedSet /\ j \in 1..Len(out) /\ out'[j] = out[j]
      BY <1>11, <1>12, <1>14, <2>2
    <3>2. {k \in SealedSet' : k < j} = {k \in SealedSet : k < j}
      BY <1>6, <1>12, <1>13, <1>14, <3>1
    <3> QED BY <3>1, <3>2 DEF WriteInv
  <2> QED BY <2>1, <2>2
<1>18. ASSUME NEW j \in SealedSet', NEW k \in 1..Len(out'), out'[k].enc, out'[k].ctr = Unsent PROVE j < k
  <2>1. k # i
    BY <1>7, <1>8, <1>11, <1>18, Numbers
  <2>2. out'[k] = out[k] /\ k \in 1..Len(out)
    BY <1>10, <1>11, <2>1
  <2>3. k \in Unsealed
    BY <1>1, <1>18, <2>2 DEF Unsealed
  <2>4. CASE j = i
    BY <1>1, <1>4, <1>6, <2>1, <2>2, <2>3, <2>4
  <2>5. CASE j # i
    <3>1. j \in SealedSet
      BY <1>12, <2>5
    <3> QED BY <1>18, <2>2, <3>1 DEF WriteInv
  <2> QED BY <2>4, <2>5
<1>19. ~(conn' = "up" /\ Early(t)')
  <2>1. conn' = "up" => conn = "up"
    BY DEF tfw_tls_encrypt
  <2>2. t'.state = t.state /\ t'.resume = t.resume
    BY <1>5 DEF Ctx
  <2>3. Early(t)' => Early(t)
    BY <2>2 DEF Early
  <2> QED BY <1>6, <2>1, <2>3 DEF WriteInv
<1>20. WriteInv'
  BY <1>16, <1>17, <1>18, <1>19 DEF WriteInv
<1> QED BY <1>10, <1>20

-----------------------------------------------------------------------------
(* The steps of a connection                                                *)

(* Among sealed records of the client a smaller number was sent before.     *)
LEMMA SentBefore ==
    ASSUME recs \in Seq(RecSet), RecsInv, NEW i \in Encrypted, NEW j \in Encrypted,
           recs[i].ctr < recs[j].ctr
    PROVE  i < j
<1>1. i \in 1..Len(recs) /\ j \in 1..Len(recs) /\ Len(recs) \in Nat
  BY LenProperties DEF Encrypted
<1>2. recs[i] \in RecSet /\ recs[j] \in RecSet
  BY <1>1, ElementOfSeq
<1>3. recs[i].ctr \in Nat /\ recs[j].ctr \in Nat
  BY <1>2 DEF RecSet
<1>4. CASE i = j
  BY <1>3, <1>4
<1>5. CASE j < i
  <2>1. recs[j].ctr <= recs[i].ctr
    BY <1>5 DEF RecsInv
  <2> QED BY <1>3, <2>1
<1> QED BY <1>1, <1>4, <1>5

LEMMA ConnHasInit == ConnInit => ConnInv
<1> SUFFICES ASSUME ConnInit PROVE ConnInv
  OBVIOUS
<1>1. /\ recs = <<>> /\ net = <<>> /\ skb = <<>> /\ out = <<>> /\ cbs = <<>> /\ up = <<>>
      /\ conn = "up" /\ Len(<<>>) = 0
  BY EmptySeq DEF ConnInit
<1>2. t \in Ctx /\ t.state = 0 /\ t.hdriv = FALSE /\ t.rlen = 0 /\ t.outctr = 0
  <2>1. CLIENT_HELLO \in 0..14 /\ <<>> \in Seq(Hashed) /\ 0 \in 0..3 /\ 0 \in Nat /\ 0 \in Int /\ CLIENT_HELLO = 0
    BY EmptySeq, Numbers
  <2> QED BY <2>1 DEF ConnInit, Ctx
<1>3. t.state # OVER /\ ~(t.state >= SERVER_CERTIFICATE)
  BY <1>2, Numbers
<1>4. ConnTypeOK
  BY <1>1, <1>2, EmptySeq DEF ConnTypeOK
<1>5. RecsInv
  BY <1>1 DEF RecsInv, Encrypted
<1>6. IoInv
  BY <1>1, <1>2 DEF IoInv, IoOf
<1>7. HsInv
  BY <1>3 DEF HsInv
<1>8. UpInv
  BY <1>1 DEF UpInv
<1>9. WriteInv
  <2>1. SealedSet = {}
    BY <1>1 DEF SealedSet
  <2> QED BY <1>1, <1>2, <2>1, FS_EmptySet DEF WriteInv
<1>10. ToldInv
  BY <1>1, <1>3 DEF ToldInv
<1> QED BY <1>4, <1>5, <1>6, <1>7, <1>8, <1>9, <1>10 DEF ConnInv

(* The receive path hands over to an invariant state.                       *)
LEMMA RecvFromInv ==
    ASSUME ConnInv, conn = "up", skb # <<>>, NEW fail
    PROVE  Moves(t, ttls_recv(t, skb, fail))
<1>1. recs \in Seq(RecSet) /\ t \in Ctx /\ skb \in Seq(Byte)
  BY DEF ConnInv, ConnTypeOK
<1>2. CtxOK(t)
  BY <1>1 DEF ConnInv, HsInv, CtxOK
<1>3. IoOf(t)
  BY DEF ConnInv, IoInv
<1>4. skb[1][1] \in 1..Len(recs)
  <2>1. 1 \in 1..Len(skb)
    BY <1>1, EmptySeq, LenProperties
  <2> QED BY <2>1 DEF ConnInv, IoInv
<1> QED BY <1>1, <1>2, <1>3, <1>4, RecvMoves

(* What does not depend on the outcome.                                     *)
LEMMA WriteMoves ==
    ASSUME ConnInv, conn = "up", NEW s, Moves(t, s), out' = out \o s.out,
           t'.outctr = s.t.outctr, t'.state = s.t.state, t'.resume = s.t.resume,
           conn' = "up" => s.r # "drop"
    PROVE  WriteInv' /\ out' \in Seq(OutSet)
<1>1. out \in Seq(OutSet) /\ WriteInv /\ s.out \in Seq(OutSet)
  BY DEF ConnInv, ConnTypeOK, Moves
<1>2. Early(t)' <=> Early(s.t)
  BY DEF Early
<1>3. CASE s.t.outctr = t.outctr /\ Later(s.out) /\ (s.r # "drop" => Quiet(s.out) /\ (Early(s.t) => Early(t)))
  BY <1>1, <1>2, <1>3, OutGrows, Joined
<1>4. CASE Early(t) /\ ~Early(s.t) /\ s.r = "ok" /\ s.t.outctr = 1 /\ EndsInFin(s.out)
  BY <1>1, <1>2, <1>4, FinGrows, Joined
<1> QED BY <1>3, <1>4 DEF Moves, Sends

LEMMA HsMoves ==
    ASSUME ConnInv, conn = "up", NEW s, Moves(t, s), UNCHANGED recs,
           t'.inctr = s.t.inctr, t'.state = s.t.state, t'.hs = s.t.hs, t'.xsum = s.t.xsum
    PROVE  HsInv'
<1>1. CtxOK(s.t) /\ Opens(t, s) /\ s.t.inctr \in Nat /\ t.inctr \in Nat /\ recs \in Seq(RecSet)
  BY DEF Moves, ConnInv, ConnTypeOK, CtxOK, Ctx
<1>2. s.t.state >= SERVER_CERTIFICATE /\ s.t.state # OVER => t'.xsum # <<>>
  BY <1>1 DEF CtxOK
<1>3. ASSUME s.t.state = OVER
      PROVE  ~t'.hs /\ \E f \in Encrypted : Vouched(f) /\ recs[f].ctr < s.t.inctr
  <2>1. ~t'.hs
    BY <1>1, <1>3 DEF CtxOK
  <2>2. CASE t.state # OVER
    <3>1. Vouched(s.t.rec) /\ recs[s.t.rec].ctr < s.t.inctr
      BY <1>1, <1>3, <2>2 DEF Opens
    <3> QED BY <2>1, <3>1 DEF Vouched
  <2>3. CASE t.state = OVER
    <3>1. PICK f \in Encrypted : Vouched(f) /\ recs[f].ctr < t.inctr
      BY <2>3 DEF ConnInv, HsInv
    <3>2. s.t.inctr >= t.inctr
      BY <1>1, <2>3 DEF Opens
    <3>3. recs[f] \in RecSet
      BY <1>1, ElementOfSeq DEF Encrypted
    <3>4. recs[f].ctr \in Nat
      BY <3>3 DEF RecSet
    <3>5. recs[f].ctr < s.t.inctr
      BY <1>1, <3>1, <3>2, <3>4
    <3> QED BY <2>1, <3>1, <3>5
  <2> QED BY <2>2, <2>3
<1>4. Encrypted' = Encrypted /\ \A f : Vouched(f)' <=> Vouched(f)
  BY DEF Encrypted, Vouched
<1> QED BY <1>2, <1>3, <1>4 DEF HsInv

(* Records passed up stay below the sequence number.                        *)
LEMMA UpStays ==
    ASSUME ConnInv, UNCHANGED <<recs, up>>, t.state = OVER => t'.state = OVER /\ t'.inctr >= t.inctr,
           t'.inctr \in Nat
    PROVE  UpInv'
<1>1. up # <<>> => t.state = OVER
  BY DEF ConnInv, UpInv
<1>2. ASSUME NEW i \in 1..Len(up) PROVE recs[up[i]].ctr < t'.inctr
  <2>1. up \in Seq(Nat) /\ t \in Ctx /\ recs \in Seq(RecSet)
    BY DEF ConnInv, ConnTypeOK
  <2>2. up # <<>>
    BY <2>1, EmptySeq
  <2>3. up[i] \in 1..Len(recs) /\ recs[up[i]].ctr < t.inctr
    BY DEF ConnInv, UpInv, Encrypted
  <2>4. recs[up[i]] \in RecSet
    BY <2>1, <2>3, ElementOfSeq
  <2>5. recs[up[i]].ctr \in Nat /\ t.inctr \in Nat
    BY <2>1, <2>4 DEF RecSet, Ctx
  <2> QED BY <1>1, <2>2, <2>3, <2>5
<1>3. Encrypted' = Encrypted /\ \A f : Vouched(f)' <=> Vouched(f)
  BY DEF Encrypted, Vouched
<1> QED BY <1>1, <1>2, <1>3 DEF ConnInv, UpInv

(* Data goes up behind what went up before, and behind the Finished.        *)
LEMMA UpAppends ==
    ASSUME ConnInv, NEW k \in Encrypted, recs[k].type = "app", recs[k].ctr = t.inctr, t.state = OVER,
           UNCHANGED recs, up' = Append(up, k), t'.state = OVER, t'.inctr > t.inctr, t'.inctr \in Nat
    PROVE  UpInv' /\ up' \in Seq(Nat)
<1>1. /\ up \in Seq(Nat) /\ t.inctr \in Nat /\ recs \in Seq(RecSet) /\ RecsInv
      /\ Len(up) \in Nat /\ Len(recs) \in Nat
  BY LenProperties DEF ConnInv, ConnTypeOK, Ctx
<1>2. k \in 1..Len(recs) /\ k \in Nat
  BY <1>1 DEF Encrypted
<1>3. up' \in Seq(Nat) /\ Len(up') = Len(up) + 1 /\ up'[Len(up) + 1] = k
  BY <1>1, <1>2, AppendProperties
<1>4. \A i \in 1..Len(up) : up'[i] = up[i]
  BY <1>1, <1>2, AppendProperties
<1>5. Encrypted' = Encrypted /\ \A f : Vouched(f)' <=> Vouched(f)
  BY DEF Encrypted, Vouched
<1>6. \E f \in 1 .. k - 1 : Vouched(f)
  <2>1. PICK f \in Encrypted : Vouched(f) /\ recs[f].ctr < t.inctr
    BY DEF ConnInv, HsInv
  <2>2. f < k
    BY <1>1, <2>1, SentBefore
  <2>3. f \in 1..Len(recs)
    BY DEF Encrypted
  <2> QED BY <1>1, <1>2, <2>1, <2>2, <2>3
<1>7. \A i \in 1..Len(up) : /\ up[i] \in Encrypted /\ recs[up[i]].type = "app" /\ recs[up[i]].ctr < t.inctr
                             /\ (i > 1 => up[i - 1] < up[i])
                             /\ \E f \in 1 .. up[i] - 1 : Vouched(f)
  BY DEF ConnInv, UpInv
<1>8. \A i \in 1..Len(up) : up[i] < k
  BY <1>1, <1>7, SentBefore
<1>9. ASSUME NEW i \in 1..Len(up')
      PROVE  /\ up'[i] \in Encrypted /\ recs[up'[i]].type = "app" /\ recs[up'[i]].ctr < t'.inctr
             /\ i > 1 => up'[i - 1] < up'[i]
             /\ \E f \in 1 .. up'[i] - 1 : Vouched(f)
  <2>1. CASE i = Len(up) + 1
    <3>1. up'[i] = k
      BY <1>3, <2>1
    <3>2. recs[k].ctr < t'.inctr
      BY <1>1
    <3>3. ASSUME i > 1 PROVE up'[i - 1] < up'[i]
      <4>1. i - 1 \in 1..Len(up)
        BY <1>1, <2>1, <3>3
      <4>2. up'[i - 1] = up[i - 1]
        BY <1>4, <4>1
      <4> QED BY <1>8, <3>1, <4>1, <4>2
    <3> QED BY <1>6, <3>1, <3>2, <3>3
  <2>2. CASE i \in 1..Len(up)
    <3>1. up'[i] = up[i]
      BY <1>4, <2>2
    <3>2. recs[up[i]].ctr < t'.inctr
      <4>1. up[i] \in 1..Len(recs) /\ recs[up[i]].ctr < t.inctr
        BY <1>7, <2>2 DEF Encrypted
      <4>2. recs[up[i]] \in RecSet
        BY <1>1, <4>1, ElementOfSeq
      <4>3. recs[up[i]].ctr \in Nat
        BY <4>2 DEF RecSet
      <4> QED BY <1>1, <4>1, <4>3
    <3>3. ASSUME i > 1 PROVE up'[i - 1] < up'[i]
      <4>1. i - 1 \in 1..Len(up)
        BY <1>1, <2>2, <3>3
      <4>2. up'[i - 1] = up[i - 1]
        BY <1>4, <4>1
      <4> QED BY <1>7, <2>2, <3>1, <3>3, <4>2
    <3> QED BY <1>7, <2>2, <3>1, <3>2, <3>3
  <2>3. i = Len(up) + 1 \/ i \in 1..Len(up)
    BY <1>1, <1>3
  <2> QED BY <2>1, <2>2, <2>3
<1> QED BY <1>3, <1>5, <1>9 DEF UpInv

LEMMA CbsAppend ==
    ASSUME cbs \in Seq({"new", "resumed", "incomplete"}), NEW c \in {"new", "resumed", "incomplete"}
    PROVE  /\ Append(cbs, c) \in Seq({"new", "resumed", "incomplete"}) /\ Append(cbs, c) # <<>>
           /\ cbs = <<>> => Append(cbs, c) = <<c>>
           /\ (\A i \in 1..Len(cbs) : cbs[i] = "incomplete") /\ c = "incomplete" =>
                 \A i \in 1..Len(Append(cbs, c)) : Append(cbs, c)[i] = "incomplete"
<1> DEFINE w == Append(cbs, c)
<1>1. /\ w \in Seq({"new", "resumed", "incomplete"}) /\ w # <<>> /\ Len(w) = Len(cbs) + 1
      /\ \A i \in 1..Len(cbs) : w[i] = cbs[i]
      /\ w[Len(cbs) + 1] = c
  BY AppendProperties
<1>2. cbs = <<>> => w = <<c>>
  OBVIOUS
<1>3. Len(cbs) \in Nat
  BY LenProperties
<1> HIDE DEF w
<1>4. ASSUME \A i \in 1..Len(cbs) : cbs[i] = "incomplete", c = "incomplete", NEW i \in 1..Len(w)
      PROVE  w[i] = "incomplete"
  <2>1. i \in 1..Len(cbs) \/ i = Len(cbs) + 1
    BY <1>1, <1>3
  <2> QED BY <1>1, <1>4, <2>1
<1> QED BY <1>1, <1>2, <1>4 DEF w

(* One turn of the loop of tfw_tls_msg_process().                           *)
LEMMA ProcessStep ==
    ASSUME ConnInv, NEW fail, tfw_tls_msg_process(fail)
    PROVE  ConnInv'
<1> DEFINE s == ttls_recv(t, skb, fail)
<1>1. conn = "up" /\ skb # <<>> /\ out' = out \o s.out /\ UNCHANGED <<recs, net, honest>>
  BY DEF tfw_tls_msg_process
<1>2. \/ /\ s.r = "drop"
         /\ conn' = "dropped" /\ skb' = <<>> /\ t' = s.t
         /\ cbs' = IF ttls_hs_done(s.t) THEN cbs ELSE Append(cbs, "incomplete")
         /\ UNCHANGED up
      \/ /\ s.r = "postpone"
         /\ t' = s.t /\ skb' = <<>>
         /\ UNCHANGED <<conn, cbs, up>>
      \/ /\ s.r = "ok"
         /\ t' = ttls_reset_io_ctx(s.t)
         /\ skb' = SubSeq(skb, s.n + 1, Len(skb))
         /\ cbs' = IF Told(t, s.t) THEN Append(cbs, IF s.t.resume THEN "resumed" ELSE "new") ELSE cbs
         /\ up' = IF Rec(s.t).type = "app" THEN Append(up, s.t.rec) ELSE up
         /\ UNCHANGED conn
  BY DEF tfw_tls_msg_process, tfw_tls_hs_over
<1>3. Moves(t, s)
  BY <1>1, RecvFromInv
<1> HIDE DEF s
<1>4. /\ recs \in Seq(RecSet) /\ net \in Seq(Byte) /\ skb \in Seq(Byte) /\ t \in Ctx
      /\ cbs \in Seq({"new", "resumed", "incomplete"}) /\ up \in Seq(Nat)
  BY DEF ConnInv, ConnTypeOK
<1>5. s.t \in Ctx /\ s.t.inctr \in Nat /\ Opens(t, s) /\ Gives(t, s) /\ s.n \in Nat
  BY <1>3 DEF Moves, CtxOK, Ctx
<1>6. t.state = OVER => s.t.state = OVER /\ s.t.inctr >= t.inctr
  BY <1>5 DEF Opens
<1>7. RecsInv'
  BY <1>1 DEF ConnInv, RecsInv, Encrypted
<1>8. \A i \in 1..Len(net) : net[i][1] \in 1..Len(recs)
  BY DEF ConnInv, IoInv
<1>9. \A i \in 1..Len(skb) : skb[i][1] \in 1..Len(recs)
  BY DEF ConnInv, IoInv
<1>10. <<>> \in Seq(Byte) /\ Len(<<>>) = 0
  BY EmptySeq
<1>11. t.state # OVER => cbs = <<>> /\ \A i \in 1..Len(cbs) : cbs[i] = "incomplete"
  BY <1>1 DEF ConnInv, ToldInv
<1>12. t.state = OVER => cbs \in {<<"new">>, <<"resumed">>}
  BY DEF ConnInv, ToldInv
<1>13. CASE /\ s.r = "drop"
            /\ conn' = "dropped" /\ skb' = <<>> /\ t' = s.t
            /\ cbs' = IF ttls_hs_done(s.t) THEN cbs ELSE Append(cbs, "incomplete")
            /\ UNCHANGED up
  <2>1. WriteInv' /\ out' \in Seq(OutSet)
    BY <1>1, <1>3, <1>13, WriteMoves
  <2>2. HsInv'
    BY <1>1, <1>3, <1>13, HsMoves
  <2>3. UpInv'
    BY <1>1, <1>5, <1>6, <1>13, UpStays
  <2>4. s.t.state = OVER => t.state = OVER
    BY <1>5, <1>13 DEF Opens
  <2>5. ToldInv' /\ cbs' \in Seq({"new", "resumed", "incomplete"})
    <3>1. CASE s.t.state = OVER
      <4>1. cbs' = cbs
        BY <1>13, <3>1 DEF ttls_hs_done
      <4> QED BY <1>4, <1>12, <1>13, <2>4, <3>1, <4>1 DEF ToldInv
    <3>2. CASE s.t.state # OVER
      <4>1. cbs' = Append(cbs, "incomplete") /\ t.state # OVER
        BY <1>6, <1>13, <3>2 DEF ttls_hs_done
      <4> QED BY <1>4, <1>11, <1>13, <3>2, <4>1, CbsAppend DEF ToldInv
    <3> QED BY <3>1, <3>2
  <2>6. IoInv'
    BY <1>1, <1>8, <1>10, <1>13 DEF IoInv
  <2>7. ConnTypeOK'
    BY <1>1, <1>4, <1>5, <1>10, <1>13, <2>1, <2>5 DEF ConnTypeOK
  <2> QED BY <1>7, <2>1, <2>2, <2>3, <2>5, <2>6, <2>7 DEF ConnInv
<1>14. CASE /\ s.r = "postpone"
            /\ t' = s.t /\ skb' = <<>>
            /\ UNCHANGED <<conn, cbs, up>>
  <2>1. WriteInv' /\ out' \in Seq(OutSet)
    BY <1>1, <1>3, <1>14, WriteMoves
  <2>2. HsInv'
    BY <1>1, <1>3, <1>14, HsMoves
  <2>3. UpInv'
    BY <1>1, <1>5, <1>6, <1>14, UpStays
  <2>4. s.t.state = OVER <=> t.state = OVER
    BY <1>5, <1>14 DEF Opens
  <2>5. ToldInv'
    BY <1>1, <1>11, <1>12, <1>14, <2>4 DEF ToldInv
  <2>6. IoInv'
    <3>1. IoOf(s.t)
      BY <1>3, <1>14 DEF Moves
    <3>2. IoOf(t)'
      BY <1>1, <1>14, <3>1 DEF IoOf, msglen
    <3> QED BY <1>1, <1>8, <1>10, <1>14, <3>2 DEF IoInv
  <2>7. ConnTypeOK'
    BY <1>1, <1>4, <1>5, <1>10, <1>14, <2>1 DEF ConnTypeOK, ConnInv
  <2> QED BY <1>7, <2>1, <2>2, <2>3, <2>5, <2>6, <2>7 DEF ConnInv
<1>15. CASE /\ s.r = "ok"
            /\ t' = ttls_reset_io_ctx(s.t)
            /\ skb' = SubSeq(skb, s.n + 1, Len(skb))
            /\ cbs' = IF Told(t, s.t) THEN Append(cbs, IF s.t.resume THEN "resumed" ELSE "new") ELSE cbs
            /\ up' = IF Rec(s.t).type = "app" THEN Append(up, s.t.rec) ELSE up
            /\ UNCHANGED conn
  <2>1. /\ t' \in Ctx /\ t'.state = s.t.state /\ t'.resume = s.t.resume /\ t'.outctr = s.t.outctr
        /\ t'.inctr = s.t.inctr /\ t'.hs = s.t.hs /\ t'.xsum = s.t.xsum /\ ~t'.hdriv /\ t'.rlen = 0
    <3>1. PICK y \in Ctx : y = s.t
      BY <1>5
    <3>2. t' = [y EXCEPT !.hdriv = FALSE, !.rlen = 0, !.cpsz = 0]
      BY <1>15, <3>1 DEF ttls_reset_io_ctx
    <3>3. 0 \in Nat /\ 0 \in 0..3
      OBVIOUS
    <3>4. /\ t' \in Ctx /\ t'.state = y.state /\ t'.resume = y.resume /\ t'.outctr = y.outctr
          /\ t'.inctr = y.inctr /\ t'.hs = y.hs /\ t'.xsum = y.xsum /\ ~t'.hdriv /\ t'.rlen = 0
      BY <3>2, <3>3 DEF Ctx
    <3> QED BY <3>1, <3>4
  <2>2. WriteInv' /\ out' \in Seq(OutSet)
    BY <1>1, <1>3, <1>15, <2>1, WriteMoves
  <2>3. HsInv'
    BY <1>1, <1>3, <2>1, HsMoves
  <2>4. UpInv' /\ up' \in Seq(Nat)
    <3>1. CASE recs[s.t.rec].type = "app"
      <4>1. t.state = OVER /\ s.t.rec \in Encrypted /\ recs[s.t.rec].ctr = t.inctr /\ s.t.inctr > t.inctr
        BY <1>5, <1>15, <3>1 DEF Gives
      <4>2. up' = Append(up, s.t.rec)
        BY <1>15, <3>1 DEF Rec
      <4>3. PICK k \in Encrypted : k = s.t.rec
        BY <4>1
      <4>4. recs[k].type = "app" /\ recs[k].ctr = t.inctr /\ up' = Append(up, k)
        BY <3>1, <4>1, <4>2, <4>3
      <4>5. t'.state = OVER /\ t'.inctr > t.inctr /\ t'.inctr \in Nat
        BY <1>5, <1>6, <2>1, <4>1
      <4> QED BY <1>1, <4>1, <4>4, <4>5, UpAppends
    <3>2. CASE recs[s.t.rec].type # "app"
      <4>1. up' = up
        BY <1>15, <3>2 DEF Rec
      <4> QED BY <1>1, <1>4, <1>5, <1>6, <2>1, <4>1, UpStays
    <3> QED BY <3>1, <3>2
  <2>5. ToldInv' /\ cbs' \in Seq({"new", "resumed", "incomplete"})
    <3>1. CASE t.state = OVER
      <4>1. cbs' = cbs /\ t'.state = OVER
        BY <1>6, <1>15, <2>1, <3>1 DEF Told
      <4> QED BY <1>1, <1>4, <1>12, <1>15, <3>1, <4>1 DEF ToldInv
    <3>2. CASE t.state # OVER /\ s.t.state # OVER
      <4>1. cbs' = cbs /\ t'.state # OVER
        BY <1>15, <2>1, <3>2 DEF Told
      <4> QED BY <1>1, <1>4, <1>11, <1>15, <3>2, <4>1 DEF ToldInv
    <3>3. CASE t.state # OVER /\ s.t.state = OVER
      <4> DEFINE c == IF s.t.resume THEN "resumed" ELSE "new"
      <4>1. cbs' = Append(cbs, c) /\ c \in {"new", "resumed"} /\ t'.state = OVER /\ cbs = <<>>
        BY <1>11, <1>15, <2>1, <3>3 DEF Told
      <4> HIDE DEF c
      <4>2. cbs' = <<c>> /\ cbs' \in Seq({"new", "resumed", "incomplete"})
        BY <1>4, <4>1, CbsAppend
      <4> QED BY <1>1, <1>15, <4>1, <4>2 DEF ToldInv
    <3> QED BY <3>1, <3>2, <3>3
  <2>6. skb' \in Seq(Byte) /\ IoInv'
    <3> DEFINE w == SubSeq(skb, s.n + 1, Len(skb))
    <3>1. w \in Seq(Byte) /\ \A i \in 1..Len(w) : \E j \in 1..Len(skb) : w[i] = skb[j]
      BY <1>4, <1>5, SuffixIs
    <3>2. skb' = w
      BY <1>15
    <3> HIDE DEF w
    <3>3. \A i \in 1..Len(w) : w[i][1] \in 1..Len(recs)
      BY <1>9, <3>1
    <3>4. IoOf(t)'
      BY <2>1 DEF IoOf
    <3> QED BY <1>1, <1>8, <3>1, <3>2, <3>3, <3>4 DEF IoInv
  <2>7. ConnTypeOK'
    BY <1>1, <1>4, <1>15, <2>1, <2>2, <2>4, <2>5, <2>6 DEF ConnTypeOK, ConnInv
  <2> QED BY <1>7, <2>2, <2>3, <2>4, <2>5, <2>6, <2>7 DEF ConnInv
<1> QED BY <1>2, <1>13, <1>14, <1>15

(* What the client has sent before stays as it is.                          *)
LEMMA RecsGrow ==
    ASSUME recs \in Seq(RecSet), NEW r \in RecSet, recs' = Append(recs, r)
    PROVE  /\ recs' \in Seq(RecSet) /\ Len(recs) \in Nat /\ Len(recs') = Len(recs) + 1
           /\ recs'[Len(recs) + 1] = r
           /\ \A i \in 1..Len(recs) : recs'[i] = recs[i] /\ i \in 1..Len(recs')
           /\ \A i \in Encrypted : i \in 1..Len(recs) /\ i \in Encrypted' /\ recs'[i] = recs[i]
           /\ \A i \in 1..Len(recs) : Vouched(i) => Vouched(i)'
           /\ Encrypted' \subseteq Encrypted \cup {Len(recs) + 1}
<1>1. /\ recs' \in Seq(RecSet) /\ Len(recs) \in Nat /\ Len(recs') = Len(recs) + 1
      /\ recs'[Len(recs) + 1] = r
  BY AppendProperties, LenProperties
<1>2. \A i \in 1..Len(recs) : recs'[i] = recs[i]
  BY AppendProperties
<1>3. \A i \in 1..Len(recs) : i \in 1..Len(recs')
  BY <1>1
<1>4. \A i \in Encrypted : i \in 1..Len(recs) /\ i \in Encrypted' /\ recs'[i] = recs[i]
  BY <1>2, <1>3 DEF Encrypted
<1>5. \A i \in 1..Len(recs) : Vouched(i) => Vouched(i)'
  BY <1>4 DEF Vouched
<1>6. \A i \in 1..Len(recs') : i \in 1..Len(recs) \/ i = Len(recs) + 1
  BY <1>1
<1>7. Encrypted' \subseteq Encrypted \cup {Len(recs) + 1}
  BY <1>2, <1>6 DEF Encrypted
<1> QED BY <1>1, <1>2, <1>3, <1>4, <1>5, <1>7

LEMMA SendStep ==
    ASSUME ConnInv, NEW r \in RecSet,
           r.enc => r.ctr \in {Cardinality(Encrypted), Cardinality(Encrypted) + 1},
           recs' = Append(recs, r), net' = net \o Bytes(Len(recs) + 1, 0, TLS_HEADER_SIZE + msglen(r)),
           UNCHANGED <<skb, t, out, conn, cbs, up, honest, fails>>
    PROVE  ConnInv'
<1>1. /\ recs \in Seq(RecSet) /\ net \in Seq(Byte) /\ skb \in Seq(Byte) /\ t \in Ctx /\ up \in Seq(Nat)
  BY DEF ConnInv, ConnTypeOK
<1>2. /\ recs' \in Seq(RecSet) /\ Len(recs) \in Nat /\ Len(recs') = Len(recs) + 1
      /\ recs'[Len(recs) + 1] = r
      /\ \A i \in 1..Len(recs) : recs'[i] = recs[i] /\ i \in 1..Len(recs')
      /\ \A i \in Encrypted : i \in 1..Len(recs) /\ i \in Encrypted' /\ recs'[i] = recs[i]
      /\ \A i \in 1..Len(recs) : Vouched(i) => Vouched(i)'
      /\ Encrypted' \subseteq Encrypted \cup {Len(recs) + 1}
  BY <1>1, RecsGrow
<1>3. RecsInv'
  <2> DEFINE C == Cardinality(Encrypted)
  <2>1. IsFiniteSet(Encrypted)
    <3>1. 1 \in Int /\ Len(recs) \in Int /\ Encrypted \subseteq 1..Len(recs)
      BY <1>2
    <3>2. IsFiniteSet(1..Len(recs))
      BY <3>1, FS_Interval
    <3> QED BY <3>1, <3>2, FS_Subset
  <2>2. C \in Nat
    BY <2>1, FS_CardinalityType
  <2>3. Len(recs) + 1 \notin Encrypted /\ \A i \in Encrypted : i < Len(recs) + 1
    BY <1>2
  <2>4. \A i \in Encrypted : recs[i].ctr <= C /\ recs[i].ctr \in Nat
    <3> TAKE i \in Encrypted
    <3>1. recs[i] \in RecSet
      BY <1>1, <1>2, ElementOfSeq
    <3>2. recs[i].ctr \in Nat
      BY <3>1 DEF RecSet
    <3> QED BY <3>2 DEF ConnInv, RecsInv
  <2>5. \A i, j \in Encrypted : i < j => recs[i].ctr <= recs[j].ctr
    BY DEF ConnInv, RecsInv
  <2> HIDE DEF C
  <2>6. CASE r.enc
    <3>1. Len(recs) + 1 \in Encrypted'
      BY <1>2, <2>6 DEF Encrypted
    <3>2. Encrypted' = Encrypted \cup {Len(recs) + 1}
      BY <1>2, <3>1
    <3>3. Cardinality(Encrypted') = C + 1
      BY <2>1, <2>3, <3>2, FS_AddElement DEF C
    <3>4. r.ctr \in {C, C + 1}
      BY <2>6 DEF C
    <3>5. \A i \in Encrypted' : recs'[i].ctr <= Cardinality(Encrypted')
      BY <1>2, <2>2, <2>4, <3>2, <3>3, <3>4
    <3>6. ASSUME NEW i \in Encrypted', NEW j \in Encrypted', i < j PROVE recs'[i].ctr <= recs'[j].ctr
      <4>1. i \in Encrypted
        BY <1>2, <2>3, <3>2, <3>6
      <4>2. CASE j \in Encrypted
        BY <1>2, <2>5, <3>6, <4>1, <4>2
      <4>3. CASE j = Len(recs) + 1
        BY <1>2, <2>2, <2>4, <3>4, <4>1, <4>3
      <4> QED BY <3>2, <4>2, <4>3
    <3> QED BY <3>5, <3>6 DEF RecsInv
  <2>7. CASE ~r.enc
    <3>1. Encrypted' = Encrypted
      BY <1>2, <2>7 DEF Encrypted
    <3>2. \A i \in Encrypted' : recs'[i].ctr <= Cardinality(Encrypted')
      BY <1>2, <2>4, <3>1 DEF C
    <3>3. \A i, j \in Encrypted' : i < j => recs'[i].ctr <= recs'[j].ctr
      BY <1>2, <2>5, <3>1
    <3> QED BY <3>2, <3>3 DEF RecsInv
  <2> QED BY <2>6, <2>7
<1>4. net' \in Seq(Byte) /\ \A i \in 1..Len(net') : net'[i][1] \in 1..Len(recs')
  <2> DEFINE n == TLS_HEADER_SIZE + msglen(r)
             b == Bytes(Len(recs) + 1, 0, n)
  <2>1. n \in Nat
    <3>1. r.body \in Nat
      BY DEF RecSet
    <3>2. r.body + 1 \in Nat /\ r.body + 2 \in Nat
      BY <3>1
    <3>3. msglen(r) \in Nat
      BY <3>1, <3>2, Numbers DEF msglen
    <3> QED BY <3>3, Numbers
  <2> HIDE DEF n
  <2>2. b \in Seq(Byte) /\ Len(b) = n /\ \A j \in 1..n : b[j][1] = Len(recs) + 1
    <3>1. PICK i \in Nat : i = Len(recs) + 1
      BY <1>2
    <3>2. PICK m \in Nat : m = n
      BY <2>1
    <3>3. PICK k \in Nat : k = 0
      OBVIOUS
    <3>5. b = Bytes(i, k, m)
      BY <3>1, <3>2, <3>3
    <3> HIDE DEF b
    <3>4. Bytes(i, k, m) \in Seq(Byte) /\ Len(Bytes(i, k, m)) = m /\ \A j \in 1..m : Bytes(i, k, m)[j][1] = i
      BY ONLY BytesAre
    <3> QED BY <3>1, <3>2, <3>4, <3>5
  <2>3. net' = net \o b
    BY DEF n
  <2> HIDE DEF b
  <2>4. /\ net' \in Seq(Byte) /\ Len(net') = Len(net) + Len(b) /\ Len(net) \in Nat
        /\ \A i \in 1 .. Len(net) + Len(b) : net'[i] = IF i <= Len(net) THEN net[i] ELSE b[i - Len(net)]
    <3>1. Len(net) \in Nat
      BY <1>1, LenProperties
    <3>2. /\ net \o b \in Seq(Byte) /\ Len(net \o b) = Len(net) + Len(b)
          /\ \A i \in 1 .. Len(net) + Len(b) : (net \o b)[i] = IF i <= Len(net) THEN net[i] ELSE b[i - Len(net)]
      BY <1>1, <2>2, ConcatProperties
    <3> QED BY <2>3, <3>1, <3>2
  <2>5. ASSUME NEW i \in 1..Len(net') PROVE net'[i][1] \in 1..Len(recs')
    <3>1. CASE i <= Len(net)
      <4>1. i \in 1..Len(net) /\ net'[i] = net[i]
        BY <2>1, <2>2, <2>4, <3>1
      <4>2. net[i][1] \in 1..Len(recs)
        BY <4>1 DEF ConnInv, IoInv
      <4> QED BY <1>2, <4>1, <4>2
    <3>2. CASE ~(i <= Len(net))
      <4>1. i - Len(net) \in 1..n /\ net'[i] = b[i - Len(net)]
        BY <2>1, <2>2, <2>4, <3>2
      <4>2. net'[i][1] = Len(recs) + 1
        BY <2>2, <4>1
      <4> QED BY <1>2, <4>2
    <3> QED BY <3>1, <3>2
  <2> QED BY <2>4, <2>5
<1>5. IoInv'
  <2>1. \A i \in 1..Len(skb) : skb[i][1] \in 1..Len(recs')
    BY <1>2 DEF ConnInv, IoInv
  <2>2. IoOf(t) => IoOf(t)'
    BY <1>2 DEF IoOf
  <2>3. conn = "up" => IoOf(t)
    BY DEF ConnInv, IoInv
  <2> QED BY <1>4, <2>1, <2>2, <2>3 DEF IoInv
<1>6. HsInv'
  <2>1. t.state = OVER => ~t.hs /\ \E f \in Encrypted : Vouched(f) /\ recs[f].ctr < t.inctr
    BY DEF ConnInv, HsInv
  <2>2. t.state = OVER => ~t.hs /\ \E f \in Encrypted' : Vouched(f)' /\ recs'[f].ctr < t.inctr
    BY <1>2, <2>1
  <2>3. conn # "gone" /\ t.state >= SERVER_CERTIFICATE /\ t.state # OVER => t.xsum # <<>>
    BY DEF ConnInv, HsInv
  <2> QED BY <2>2, <2>3 DEF HsInv
<1>7. UpInv'
  <2>1. ASSUME NEW i \in 1..Len(up)
        PROVE  /\ up[i] \in Encrypted' /\ recs'[up[i]].type = "app" /\ recs'[up[i]].ctr < t.inctr
               /\ i > 1 => up[i - 1] < up[i]
               /\ \E f \in 1 .. up[i] - 1 : Vouched(f)'
    <3>1. /\ up[i] \in Encrypted /\ recs[up[i]].type = "app" /\ recs[up[i]].ctr < t.inctr
          /\ i > 1 => up[i - 1] < up[i]
      BY DEF ConnInv, UpInv
    <3>2. PICK f \in 1 .. up[i] - 1 : Vouched(f)
      BY DEF ConnInv, UpInv
    <3>3. Vouched(f)'
      BY <1>2, <3>2 DEF Vouched
    <3> QED BY <1>2, <3>1, <3>2, <3>3
  <2>2. up # <<>> => t.state = OVER
    BY DEF ConnInv, UpInv
  <2> QED BY <2>1, <2>2 DEF UpInv
<1>8. WriteInv'
  BY DEF ConnInv, WriteInv, SealedSet, Early
<1>9. ToldInv'
  BY DEF ConnInv, ToldInv
<1>10. ConnTypeOK'
  BY <1>2, <1>4 DEF ConnInv, ConnTypeOK
<1> QED BY <1>3, <1>5, <1>6, <1>7, <1>8, <1>9, <1>10 DEF ConnInv

(* The client.                                                              *)
LEMMA ViewIs ==
    ASSUME recs \in Seq(RecSet)
    PROVE  ClientView \in Seq(Hashed)
<1>1. ASSUME NEW name \in Message PROVE S(name) \in Seq(Hashed)
  BY DEF S, Hashed
<1>2. S("SH") \in Seq(Hashed) /\ S("FIN") \in Seq(Hashed) /\ S("CRT") \in Seq(Hashed)
      /\ S("SKE") \in Seq(Hashed) /\ S("SHD") \in Seq(Hashed)
  BY <1>1 DEF Message
<1>3. ASSUME NEW h PROVE HsBytes(h) \in Seq(Hashed)
  <2>1. CASE Sent(h)
    <3> DEFINE i == CHOOSE x \in Idx(h) : TRUE
    <3>1. Idx(h) # {}
      BY <2>1 DEF Sent
    <3>2. i \in Idx(h)
      BY <3>1
    <3>3. HsBytes(h) = Bytes(i, TLS_HEADER_SIZE, TTLS_HS_HDR_LEN + recs[i].body)
      BY <2>1 DEF HsBytes
    <3> HIDE DEF i
    <3>4. i \in 1..Len(recs) /\ Len(recs) \in Nat
      BY <3>2, LenProperties DEF Idx
    <3>5. recs[i] \in RecSet
      BY <3>4, ElementOfSeq
    <3>6. recs[i].body \in Nat
      BY <3>5 DEF RecSet
    <3>7. TTLS_HS_HDR_LEN + recs[i].body \in Nat /\ TLS_HEADER_SIZE \in Nat /\ i \in Nat
      BY <3>4, <3>6, Numbers
    <3>9. PICK n \in Nat, m \in Nat, l \in Nat :
              n = i /\ m = TLS_HEADER_SIZE /\ l = TTLS_HS_HDR_LEN + recs[i].body
      BY <3>7
    <3>10. Bytes(n, m, l) \in Seq(Byte)
      BY ONLY BytesAre
    <3>8. HsBytes(h) \in Seq(Byte)
      BY <3>3, <3>9, <3>10
    <3> QED BY <3>8, BytesHashed
  <2>2. CASE ~Sent(h)
    BY <2>2, EmptySeq DEF HsBytes
  <2> QED BY <2>1, <2>2
<1>4. \A a, b \in Seq(Hashed) : a \o b \in Seq(Hashed)
  BY ConcatProperties
<1> DEFINE ch == HsBytes("CH")
           cke == HsBytes("CKE")
<1>5. ch \in Seq(Hashed) /\ cke \in Seq(Hashed)
  BY <1>3
<1>6. ClientView = IF Resumes THEN ch \o S("SH") \o S("FIN")
                   ELSE ch \o S("SH") \o S("CRT") \o S("SKE") \o S("SHD") \o cke
  BY DEF ClientView
<1> HIDE DEF ch, cke
<1>7. ch \o S("SH") \in Seq(Hashed)
  BY <1>2, <1>4, <1>5, Zenon
<1>8. (ch \o S("SH")) \o S("FIN") \in Seq(Hashed)
  BY <1>2, <1>4, <1>7, Zenon
<1>9. (ch \o S("SH")) \o S("CRT") \in Seq(Hashed)
  BY <1>2, <1>4, <1>7, Zenon
<1>10. ((ch \o S("SH")) \o S("CRT")) \o S("SKE") \in Seq(Hashed)
  BY <1>2, <1>4, <1>9, Zenon
<1>11. (((ch \o S("SH")) \o S("CRT")) \o S("SKE")) \o S("SHD") \in Seq(Hashed)
  BY <1>2, <1>4, <1>10, Zenon
<1>12. ((((ch \o S("SH")) \o S("CRT")) \o S("SKE")) \o S("SHD")) \o cke \in Seq(Hashed)
  BY <1>4, <1>5, <1>11, Zenon
<1> QED BY <1>6, <1>8, <1>12

(* A record that may come: typed, and its number among the next two.        *)
Fresh(r) == /\ r \in RecSet
            /\ r.ctr \in {Cardinality(Encrypted), Cardinality(Encrypted) + 1}

LEMMA RIs ==
    ASSUME recs \in Seq(RecSet), NEW type \in {"hs", "ccs", "app", "alert"},
           NEW hst \in {"CH", "CKE", "CCS", "FIN", "DATA", "close_notify", "fatal", "other"},
           NEW body \in Nat, NEW enc \in BOOLEAN, NEW want \in {"none", "ticket", "resume"}
    PROVE  /\ R(type, hst, body, enc, want) \in RecSet
           /\ R(type, hst, body, enc, want).ctr = Cardinality(Encrypted)
           /\ Cardinality(Encrypted) \in Nat
<1> DEFINE v == IF hst = "FIN" THEN ClientView ELSE <<>>
           c == Cardinality({i \in DOMAIN recs : recs[i].enc})
<1>1. v \in Seq(Hashed)
  BY ViewIs, EmptySeq
<1>2. Len(recs) \in Nat /\ DOMAIN recs = 1..Len(recs)
  BY LenProperties
<1>3. c = Cardinality(Encrypted)
  BY <1>2 DEF Encrypted
<1>4. Cardinality(Encrypted) \in Nat
  <2>1. 1 \in Int /\ Len(recs) \in Int /\ Encrypted \subseteq 1..Len(recs)
    BY <1>2 DEF Encrypted
  <2>2. IsFiniteSet(1..Len(recs))
    BY <2>1, FS_Interval
  <2>3. IsFiniteSet(Encrypted)
    BY <2>1, <2>2, FS_Subset
  <2> QED BY <2>3, FS_CardinalityType
<1>5. R(type, hst, body, enc, want) = [type |-> type, hst |-> hst, body |-> body, enc |-> enc, want |-> want,
                                      view |-> v, ctr |-> c]
  BY DEF R
<1> HIDE DEF v, c
<1> QED BY <1>1, <1>3, <1>4, <1>5 DEF RecSet

LEMMA ClientSends ==
    ASSUME recs \in Seq(RecSet), NEW r \in HonestRecords \cup RogueRecords
    PROVE  Fresh(r)
<1> DEFINE C == Cardinality(Encrypted)
<1>1. Fresh(Key) /\ Fresh(Ccs) /\ Fresh(Fin) /\ Fresh(Bye) /\ Fresh(Data(0)) /\ Fresh(Data(1))
  <2>1. Fresh(Key)
    BY RIs DEF Key, Fresh
  <2>2. Fresh(Ccs)
    BY RIs DEF Ccs, Fresh
  <2>3. Fresh(Fin)
    BY RIs DEF Fin, Fresh
  <2>4. Fresh(Bye)
    BY RIs DEF Bye, Fresh
  <2>5. Fresh(Data(0))
    BY RIs DEF Data, Fresh
  <2>6. Fresh(Data(1))
    BY RIs DEF Data, Fresh
  <2> QED BY <2>1, <2>2, <2>3, <2>4, <2>5, <2>6
<1>2. \A h \in Hello : Fresh(h)
  <2> TAKE h \in Hello
  <2>1. PICK w \in {"none", "ticket", "resume"} : h = R("hs", "CH", 2, FALSE, w)
    BY DEF Hello
  <2>2. R("hs", "CH", 2, FALSE, w) \in RecSet /\ R("hs", "CH", 2, FALSE, w).ctr = C
    BY RIs
  <2> QED BY <2>1, <2>2 DEF Fresh
<1>3. Data(1).ctr = C /\ C \in Nat
  BY RIs DEF Data
<1>4. <<>> \in Seq(Hashed)
  BY EmptySeq
<1>5. \A f : Fresh(f) => Fresh([f EXCEPT !.view = <<>>])
  BY <1>4 DEF Fresh, RecSet
<1>6. \A f : Fresh(f) => Fresh([f EXCEPT !.enc = FALSE])
  BY DEF Fresh, RecSet
<1>7. Fresh([Data(1) EXCEPT !.ctr = Data(1).ctr + 1])
  <2>1. PICK d \in RecSet : d = Data(1)
    BY <1>1 DEF Fresh
  <2>2. d.ctr = C /\ C + 1 \in Nat
    BY <1>3, <2>1
  <2> HIDE DEF C
  <2> DEFINE e == [d EXCEPT !.ctr = C + 1]
  <2>3. e \in RecSet /\ e.ctr = C + 1
    BY <2>2 DEF RecSet
  <2>4. [Data(1) EXCEPT !.ctr = Data(1).ctr + 1] = e
    BY <2>1, <2>2
  <2> HIDE DEF e
  <2> QED BY <2>3, <2>4 DEF Fresh, C
<1>8. \A h \in {"fatal", "other", "close_notify"} : Fresh([Bye EXCEPT !.hst = h, !.enc = FALSE])
  <2> TAKE h \in {"fatal", "other", "close_notify"}
  <2>1. \A f : Fresh(f) => Fresh([f EXCEPT !.hst = h, !.enc = FALSE])
    BY DEF Fresh, RecSet
  <2> QED BY <1>1, <2>1
<1>9. CASE r \in HonestRecords
  <2>1. r \in Hello \cup {Key, Ccs, Fin, Data(1), Data(0), Bye}
    BY <1>9 DEF HonestRecords
  <2> QED BY <1>1, <1>2, <2>1, Zenon
<1>10. CASE r \in RogueRecords
  <2>1. \/ r \in Hello \cup {Key, Ccs, Fin, Data(1), Bye}
        \/ r = [Fin EXCEPT !.view = <<>>] \/ r = [Fin EXCEPT !.enc = FALSE]
        \/ r = [Data(1) EXCEPT !.enc = FALSE] \/ r = [Data(1) EXCEPT !.ctr = Data(1).ctr + 1]
        \/ \E h \in {"fatal", "other", "close_notify"} : r = [Bye EXCEPT !.hst = h, !.enc = FALSE]
    BY <1>10 DEF RogueRecords
  <2> QED BY <1>1, <1>2, <1>5, <1>6, <1>7, <1>8, <2>1, Zenon
<1> QED BY <1>9, <1>10

LEMMA ClientStep == ConnInv /\ ClientSend => ConnInv'
<1> SUFFICES ASSUME ConnInv, ClientSend PROVE ConnInv'
  OBVIOUS
<1>1. PICK r \in IF honest THEN HonestRecords ELSE RogueRecords :
         /\ recs' = Append(recs, r)
         /\ net' = net \o Bytes(Len(recs) + 1, 0, TLS_HEADER_SIZE + msglen(r))
  BY DEF ClientSend
<1>2. recs \in Seq(RecSet)
  BY DEF ConnInv, ConnTypeOK
<1>3. Fresh(r)
  BY <1>2, ClientSends
<1>4. UNCHANGED <<skb, t, out, conn, cbs, up, honest, fails>>
  BY DEF ClientSend
<1> QED BY <1>1, <1>3, <1>4, SendStep DEF Fresh

LEMMA DeliverStep == ConnInv /\ Deliver => ConnInv'
<1> SUFFICES ASSUME ConnInv, Deliver PROVE ConnInv'
  OBVIOUS
<1>1. /\ net \in Seq(Byte) /\ recs \in Seq(RecSet) /\ Len(net) \in Nat
      /\ \A i \in 1..Len(net) : net[i][1] \in 1..Len(recs)
  BY LenProperties DEF ConnInv, ConnTypeOK, IoInv
<1>2. conn = "up" /\ UNCHANGED <<recs, t, out, conn, cbs, up, honest, fails>>
  BY DEF Deliver
<1>3. PICK n \in IF honest THEN 1 .. Len(net) ELSE {Len(net)} :
         skb' = SubSeq(net, 1, n) /\ net' = SubSeq(net, n + 1, Len(net))
  BY DEF Deliver
<1>4. n \in Nat /\ n <= Len(net)
  BY <1>1
<1>5. skb' \in Seq(Byte) /\ \A i \in 1..Len(skb') : skb'[i][1] \in 1..Len(recs)
  <2> DEFINE w == SubSeq(net, 1, n)
  <2>1. \A i \in 1..n : net[i] \in Byte
    BY <1>1, <1>4, ElementOfSeq
  <2>2. w \in Seq(Byte) /\ Len(w) = (IF 1 <= n THEN n - 1 + 1 ELSE 0) /\ \A i \in 1 .. n - 1 + 1 : w[i] = net[1 + i - 1]
    BY <1>4, <2>1, SubSeqProperties
  <2> HIDE DEF w
  <2>3. \A i \in 1..Len(w) : i \in 1..Len(net) /\ w[i] = net[i]
    BY <1>1, <1>4, <2>2
  <2>4. skb' = w
    BY <1>3 DEF w
  <2> QED BY <1>1, <2>2, <2>3, <2>4
<1>6. net' \in Seq(Byte) /\ \A i \in 1..Len(net') : net'[i][1] \in 1..Len(recs)
  <2> DEFINE w == SubSeq(net, n + 1, Len(net))
  <2>1. w \in Seq(Byte) /\ \A i \in 1..Len(w) : \E j \in 1..Len(net) : w[i] = net[j]
    BY <1>1, <1>4, SuffixIs
  <2>2. net' = w
    BY <1>3
  <2> HIDE DEF w
  <2> QED BY <1>1, <2>1, <2>2
<1>7. ConnTypeOK'
  BY <1>2, <1>5, <1>6 DEF ConnInv, ConnTypeOK
<1>8. RecsInv'
  BY <1>2 DEF ConnInv, RecsInv, Encrypted
<1>9. IoInv'
  <2>1. IoOf(t)'
    BY <1>2 DEF ConnInv, IoInv, IoOf
  <2> QED BY <1>2, <1>5, <1>6, <2>1 DEF IoInv
<1>10. HsInv'
  BY <1>2 DEF ConnInv, HsInv, Encrypted, Vouched
<1>11. UpInv'
  BY <1>2 DEF ConnInv, UpInv, Encrypted, Vouched
<1>12. WriteInv'
  BY <1>2 DEF ConnInv, WriteInv, SealedSet, Early
<1>13. ToldInv'
  BY <1>2 DEF ConnInv, ToldInv
<1> QED BY <1>7, <1>8, <1>9, <1>10, <1>11, <1>12, <1>13 DEF ConnInv

LEMMA EncryptStep == ConnInv /\ tfw_tls_encrypt => ConnInv'
<1> SUFFICES ASSUME ConnInv, tfw_tls_encrypt PROVE ConnInv'
  OBVIOUS
<1>1. /\ conn \notin {"closed", "gone"} /\ conn' \in {conn, "closed"} /\ t' = [t EXCEPT !.outctr = t.outctr + 1]
      /\ UNCHANGED <<recs, net, skb, cbs, up, honest, fails>>
  BY DEF tfw_tls_encrypt
<1>2. t \in Ctx /\ out \in Seq(OutSet) /\ WriteInv
  BY DEF ConnInv, ConnTypeOK
<1>3. WriteInv' /\ out' \in Seq(OutSet)
  BY <1>2, SealsNext
<1>4. /\ t' \in Ctx /\ t'.state = t.state /\ t'.hs = t.hs /\ t'.xsum = t.xsum /\ t'.inctr = t.inctr
      /\ t'.hdriv = t.hdriv /\ t'.rec = t.rec /\ t'.rlen = t.rlen
  <2>1. PICK y \in Ctx : y = t
    BY <1>2
  <2>2. y.outctr + 1 \in Nat /\ t' = [y EXCEPT !.outctr = y.outctr + 1]
    BY <1>1, <2>1 DEF Ctx
  <2>3. /\ t' \in Ctx /\ t'.state = y.state /\ t'.hs = y.hs /\ t'.xsum = y.xsum /\ t'.inctr = y.inctr
        /\ t'.hdriv = y.hdriv /\ t'.rec = y.rec /\ t'.rlen = y.rlen
    BY <2>2 DEF Ctx
  <2> QED BY <2>1, <2>3
<1>5. ConnTypeOK'
  BY <1>1, <1>3, <1>4 DEF ConnInv, ConnTypeOK
<1>6. RecsInv'
  BY <1>1 DEF ConnInv, RecsInv, Encrypted
<1>7. IoInv'
  <2>1. conn' = "up" => conn = "up"
    BY <1>1
  <2>2. conn' = "up" => IoOf(t)'
    BY <1>1, <1>4, <2>1 DEF ConnInv, IoInv, IoOf
  <2> QED BY <1>1, <2>2 DEF ConnInv, IoInv
<1>8. HsInv'
  <2>1. Encrypted' = Encrypted /\ \A f : Vouched(f)' <=> Vouched(f)
    BY <1>1 DEF Encrypted, Vouched
  <2>2. t.state >= SERVER_CERTIFICATE /\ t.state # OVER => t.xsum # <<>>
    BY <1>1 DEF ConnInv, HsInv
  <2>3. t.state = OVER => ~t.hs /\ \E f \in Encrypted : Vouched(f) /\ recs[f].ctr < t.inctr
    BY DEF ConnInv, HsInv
  <2> QED BY <1>1, <1>4, <2>1, <2>2, <2>3 DEF HsInv
<1>9. UpInv'
  <2>1. t.inctr \in Nat
    BY <1>2 DEF Ctx
  <2> QED BY <1>1, <1>4, <2>1, UpStays
<1>10. ToldInv'
  BY <1>1, <1>4 DEF ConnInv, ToldInv
<1> QED BY <1>3, <1>5, <1>6, <1>7, <1>8, <1>9, <1>10 DEF ConnInv

(* Steps that only make records ready, in a connection whose handshake is   *)
(* over or that is closed by the step.                                      *)
LEMMA WriteStep ==
    ASSUME ConnInv, NEW o \in Seq(OutSet), Later(o), out' = out \o o,
           conn = "up", conn' \in {"up", "closed"}, conn' = "up" => t.state = OVER,
           UNCHANGED <<recs, net, skb, t, cbs, up, honest, fails>>
    PROVE  ConnInv'
<1>1. out \in Seq(OutSet) /\ WriteInv
  BY DEF ConnInv, ConnTypeOK
<1>2. out' \in Seq(OutSet)
  BY <1>1, Joined
<1>3. WriteInv'
  <2>1. ~(conn' = "up" /\ Early(t)')
    BY DEF Early
  <2> QED BY <1>1, <2>1, OutGrows
<1>4. ConnTypeOK'
  BY <1>2 DEF ConnInv, ConnTypeOK
<1>5. RecsInv'
  BY DEF ConnInv, RecsInv, Encrypted
<1>6. IoInv'
  <2>1. IoOf(t)'
    BY DEF ConnInv, IoInv, IoOf
  <2> QED BY <2>1 DEF ConnInv, IoInv
<1>7. HsInv'
  BY DEF ConnInv, HsInv, Encrypted, Vouched
<1>8. UpInv'
  BY DEF ConnInv, UpInv, Encrypted, Vouched
<1>9. ToldInv'
  BY DEF ConnInv, ToldInv
<1> QED BY <1>3, <1>4, <1>5, <1>6, <1>7, <1>8, <1>9 DEF ConnInv

LEMMA RespondStep ==
    ASSUME ConnInv, NEW close \in BOOLEAN, tfw_tls_conn_send(close)
    PROVE  ConnInv'
<1> DEFINE d == [name |-> "DATA", enc |-> ttls_xfrm_ready(t), ctr |-> Unsent, view |-> <<>>]
           c == IF close THEN ttls_close_notify(t) ELSE <<>>
           o == <<d>> \o c
<1>1. d \in OutSet /\ d.ctr = Unsent
  <2>1. ttls_xfrm_ready(t) \in BOOLEAN
    BY Zenon DEF ttls_xfrm_ready
  <2>2. <<>> \in Seq(Hashed) /\ Unsent \in Int
    BY EmptySeq, Numbers
  <2> QED BY <2>1, <2>2 DEF OutSet, OutName
<1>2. out' = (out \o <<d>>) \o c
  BY DEF tfw_tls_conn_send
<1> HIDE DEF d
<1>3. <<d>> \in Seq(OutSet) /\ Later(<<d>>)
  <2>1. <<d>> \in Seq(OutSet) /\ Len(<<d>>) = 1 /\ <<d>>[1] = d
    BY <1>1
  <2>2. \A i \in 1..Len(<<d>>) : i = 1
    BY <2>1
  <2> QED BY <1>1, <2>1, <2>2 DEF Later
<1>4. c \in Seq(OutSet) /\ Later(c)
  BY NotifyIs, Silent
<1> HIDE DEF c
<1>5. out \in Seq(OutSet) /\ up \in Seq(Nat)
  BY DEF ConnInv, ConnTypeOK
<1>6. out' = out \o o
  BY <1>2, <1>3, <1>4, <1>5, ConcatAssociative
<1>7. o \in Seq(OutSet) /\ Later(o)
  <2> DEFINE b == <<d>>
  <2> HIDE DEF b
  <2>0. b \in Seq(OutSet) /\ Later(b)
    BY <1>3 DEF b
  <2>1. /\ b \o c \in Seq(OutSet) /\ Len(b \o c) = Len(b) + Len(c) /\ Len(b) \in Nat /\ Len(c) \in Nat
        /\ \A i \in 1..Len(b) : (b \o c)[i] = b[i]
        /\ \A i \in 1..Len(b \o c) : i > Len(b) => i - Len(b) \in 1..Len(c) /\ (b \o c)[i] = c[i - Len(b)]
    BY <1>4, <2>0, Joined
  <2>2. ASSUME NEW i \in 1..Len(b \o c) PROVE (b \o c)[i].ctr = Unsent
    <3>1. CASE i <= Len(b)
      BY <2>0, <2>1, <3>1 DEF Later
    <3>2. CASE i > Len(b)
      BY <1>4, <2>1, <3>2 DEF Later
    <3> QED BY <2>1, <3>1, <3>2
  <2>3. b \o c \in Seq(OutSet) /\ Later(b \o c)
    BY <2>1, <2>2 DEF Later
  <2> QED BY <2>3 DEF b
<1> HIDE DEF o
<1>8. conn = "up" /\ UNCHANGED <<recs, net, skb, t, conn, cbs, up, honest, fails>>
      /\ Cardinality({i \in DOMAIN out : out[i].name = "DATA"}) < Len(up)
  BY DEF tfw_tls_conn_send
<1>9. t.state = OVER
  <2> DEFINE D == {i \in DOMAIN out : out[i].name = "DATA"}
  <2>1. Len(out) \in Nat /\ DOMAIN out = 1..Len(out)
    BY <1>5, LenProperties
  <2>2. 1 \in Int /\ Len(out) \in Int /\ D \subseteq 1..Len(out)
    BY <2>1
  <2>3. IsFiniteSet(1..Len(out))
    BY <2>2, FS_Interval
  <2>4. IsFiniteSet(D)
    BY <2>2, <2>3, FS_Subset
  <2>5. Cardinality(D) \in Nat
    BY <2>4, FS_CardinalityType
  <2> HIDE DEF D
  <2>6. Cardinality(D) < Len(up)
    BY <1>8 DEF D
  <2>7. up # <<>>
    BY <1>5, <2>5, <2>6, EmptySeq
  <2> QED BY <2>7 DEF ConnInv, UpInv
<1> QED BY <1>6, <1>7, <1>8, <1>9, WriteStep

LEMMA CloseStep == ConnInv /\ tfw_tls_conn_close => ConnInv'
<1> SUFFICES ASSUME ConnInv, tfw_tls_conn_close PROVE ConnInv'
  OBVIOUS
<1>1. /\ conn = "up" /\ out' = out \o ttls_close_notify(t) /\ conn' = IF ttls_hs_done(t) THEN conn ELSE "closed"
      /\ UNCHANGED <<recs, net, skb, t, cbs, up, honest, fails>>
  BY DEF tfw_tls_conn_close
<1>2. conn' \in {"up", "closed"} /\ (conn' = "up" => t.state = OVER)
  BY <1>1 DEF ttls_hs_done
<1>3. PICK o \in Seq(OutSet) : o = ttls_close_notify(t) /\ Later(o)
  BY NotifyIs
<1> QED BY <1>1, <1>2, <1>3, WriteStep

LEMMA DtorStep == ConnInv /\ tfw_tls_conn_dtor => ConnInv'
<1> SUFFICES ASSUME ConnInv, tfw_tls_conn_dtor PROVE ConnInv'
  OBVIOUS
<1>1. /\ cbs' = IF ttls_hs_done(t) THEN cbs ELSE Append(cbs, "incomplete")
      /\ conn' = "gone" /\ net' = <<>> /\ skb' = <<>>
      /\ t' = [t EXCEPT !.hs = FALSE, !.keys = FALSE, !.xsum = <<>>]
      /\ UNCHANGED <<recs, out, up, honest, fails>>
  BY DEF tfw_tls_conn_dtor
<1>2. /\ t \in Ctx /\ out \in Seq(OutSet) /\ WriteInv /\ t.inctr \in Nat
      /\ cbs \in Seq({"new", "resumed", "incomplete"})
  BY DEF ConnInv, ConnTypeOK, Ctx
<1>3. /\ t' \in Ctx /\ t'.state = t.state /\ ~t'.hs /\ t'.inctr = t.inctr /\ t'.outctr = t.outctr
  <2>1. PICK y \in Ctx : y = t
    BY <1>2
  <2>2. <<>> \in Seq(Hashed) /\ t' = [y EXCEPT !.hs = FALSE, !.keys = FALSE, !.xsum = <<>>]
    BY <1>1, <2>1, EmptySeq
  <2>3. t' \in Ctx /\ t'.state = y.state /\ ~t'.hs /\ t'.inctr = y.inctr /\ t'.outctr = y.outctr
    BY <2>2 DEF Ctx
  <2> QED BY <2>1, <2>3
<1>4. <<>> \in Seq(Byte) /\ Len(<<>>) = 0
  BY EmptySeq
<1>5. ToldInv' /\ cbs' \in Seq({"new", "resumed", "incomplete"})
  <2>1. CASE t.state = OVER
    <3>1. cbs' = cbs /\ cbs \in {<<"new">>, <<"resumed">>}
      BY <1>1, <2>1 DEF ttls_hs_done, ConnInv, ToldInv
    <3>2. cbs # <<>>
      BY <3>1
    <3> QED BY <1>2, <1>3, <2>1, <3>1, <3>2 DEF ToldInv
  <2>2. CASE t.state # OVER
    <3>1. cbs' = Append(cbs, "incomplete") /\ \A i \in 1..Len(cbs) : cbs[i] = "incomplete"
      BY <1>1, <2>2 DEF ttls_hs_done, ConnInv, ToldInv
    <3>2. cbs' # <<>> /\ \A i \in 1..Len(cbs') : cbs'[i] = "incomplete"
      BY <1>2, <3>1, CbsAppend
    <3>3. cbs' \in Seq({"new", "resumed", "incomplete"})
      BY <1>2, <3>1, CbsAppend
    <3> QED BY <1>1, <1>3, <2>2, <3>2, <3>3 DEF ToldInv
  <2> QED BY <2>1, <2>2
<1>6. ConnTypeOK'
  BY <1>1, <1>3, <1>4, <1>5 DEF ConnInv, ConnTypeOK
<1>7. RecsInv'
  BY <1>1 DEF ConnInv, RecsInv, Encrypted
<1>8. IoInv'
  BY <1>1, <1>4 DEF IoInv
<1>9. HsInv'
  <2>1. Encrypted' = Encrypted /\ \A f : Vouched(f)' <=> Vouched(f)
    BY <1>1 DEF Encrypted, Vouched
  <2>2. t.state = OVER => \E f \in Encrypted : Vouched(f) /\ recs[f].ctr < t.inctr
    BY DEF ConnInv, HsInv
  <2> QED BY <1>1, <1>3, <2>1, <2>2 DEF HsInv
<1>10. UpInv'
  BY <1>1, <1>2, <1>3, UpStays
<1>11. WriteInv'
  BY <1>1, <1>2, <1>3 DEF WriteInv, SealedSet
<1> QED BY <1>5, <1>6, <1>7, <1>8, <1>9, <1>10, <1>11 DEF ConnInv

-----------------------------------------------------------------------------
LEMMA ConnStep == ConnInv /\ [ConnNext]_cvars => ConnInv'
<1> SUFFICES ASSUME ConnInv, [ConnNext]_cvars PROVE ConnInv'
  OBVIOUS
<1>1. CASE ClientSend
  BY <1>1, ClientStep
<1>2. CASE Deliver
  BY <1>2, DeliverStep
<1>3. CASE Process
  <2>1. PICK f : tfw_tls_msg_process(f)
    BY <1>3 DEF Process
  <2> QED BY <2>1, ProcessStep
<1>4. CASE tfw_tls_encrypt
  BY <1>4, EncryptStep
<1>5. CASE tfw_tls_conn_send(TRUE)
  BY <1>5, RespondStep
<1>6. CASE tfw_tls_conn_send(FALSE)
  BY <1>6, RespondStep
<1>7. CASE tfw_tls_conn_close
  BY <1>7, CloseStep
<1>8. CASE tfw_tls_conn_dtor
  BY <1>8, DtorStep
<1>9. CASE UNCHANGED cvars
  <2>1. UNCHANGED <<recs, net, skb, t, out, conn, cbs, up>>
    BY <1>9 DEF cvars
  <2>2. ConnTypeOK'
    BY <2>1 DEF ConnInv, ConnTypeOK
  <2>3. RecsInv'
    BY <2>1 DEF ConnInv, RecsInv, Encrypted
  <2>4. IoInv'
    BY <2>1 DEF ConnInv, IoInv, IoOf
  <2>5. HsInv'
    BY <2>1 DEF ConnInv, HsInv, Encrypted, Vouched
  <2>6. UpInv'
    BY <2>1 DEF ConnInv, UpInv, Encrypted, Vouched
  <2>7. WriteInv'
    BY <2>1 DEF ConnInv, WriteInv, SealedSet, Early
  <2>8. ToldInv'
    BY <2>1 DEF ConnInv, ToldInv
  <2> QED BY <2>2, <2>3, <2>4, <2>5, <2>6, <2>7, <2>8 DEF ConnInv
<1> QED BY <1>1, <1>2, <1>3, <1>4, <1>5, <1>6, <1>7, <1>8, <1>9 DEF ConnNext

LEMMA ConnInvIsSafe == ConnInv => RecordsSafe
<1> SUFFICES ASSUME ConnInv PROVE RecordsSafe
  OBVIOUS
<1>1. DOMAIN up = 1..Len(up) /\ DOMAIN out = 1..Len(out) /\ DOMAIN cbs = 1..Len(cbs)
  <2>1. up \in Seq(Nat) /\ out \in Seq(OutSet) /\ cbs \in Seq({"new", "resumed", "incomplete"})
    BY DEF ConnInv, ConnTypeOK
  <2> QED BY <2>1, LenProperties
<1>2. DataAfterFinished
  <2>1. up # <<>> => t.state = OVER
    BY DEF ConnInv, UpInv
  <2>2. t.state = OVER => ~t.hs /\ cbs \in {<<"new">>, <<"resumed">>}
    BY DEF ConnInv, HsInv, ToldInv
  <2>3. ASSUME NEW i \in 1..Len(up)
        PROVE  /\ recs[up[i]].enc /\ recs[up[i]].type = "app" /\ (i > 1 => up[i - 1] < up[i])
               /\ \E f \in 1 .. up[i] - 1 : recs[f].hst = "FIN" /\ recs[f].enc /\ recs[f].view # <<>>
    BY DEF ConnInv, UpInv, Vouched, Encrypted
  <2> QED BY <1>1, <2>1, <2>2, <2>3 DEF DataAfterFinished
<1>3. SealedInOrder
  <2>1. {i \in DOMAIN out : out[i].ctr # Unsent} = SealedSet
    BY <1>1 DEF SealedSet
  <2>2. \A i \in SealedSet : out[i].ctr = Cardinality({j \in SealedSet : j < i})
    BY DEF ConnInv, WriteInv
  <2> QED BY <2>1, <2>2 DEF SealedInOrder
<1>4. HandshakeTold
  <2>1. CASE t.state = OVER
    <3>1. cbs \in {<<"new">>, <<"resumed">>}
      BY <2>1 DEF ConnInv, ToldInv
    <3>2. Len(cbs) = 1 /\ cbs # <<>>
      BY <3>1
    <3> QED BY <3>2 DEF HandshakeTold
  <2>2. CASE t.state # OVER
    <3>1. (\A i \in 1..Len(cbs) : cbs[i] = "incomplete") /\ (conn = "gone" => cbs # <<>>)
      BY <2>2 DEF ConnInv, ToldInv
    <3> QED BY <1>1, <3>1 DEF HandshakeTold
  <2> QED BY <2>1, <2>2
<1> QED BY <1>2, <1>3, <1>4 DEF RecordsSafe

(* Whatever a client sends and however TCP cuts it, with any number of      *)
(* records and failures: HTTP sees only data sealed with the keys of a      *)
(* handshake whose Finished tls/tls_srv.c verified, in order and once; what *)
(* the server seals in the handshake and in tfw_tls_encrypt() never shares  *)
(* a sequence number and goes out in their order; Frang is told once how    *)
(* the handshake ended.                                                     *)
THEOREM RecordsAlwaysSafe == ConnSpec => []RecordsSafe
BY ConnHasInit, ConnStep, ConnInvIsSafe, PTL DEF ConnSpec
=============================================================================
