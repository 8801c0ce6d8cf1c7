----------------------------- MODULE TlsTicket -----------------------------
(***************************************************************************)
(* Session tickets, tls/tls_ticket.c.  A virtual host keeps two ticket     *)
(* keys.  A key is derived from the host's secret and the start of the     *)
(* period it is used in; a timer replaces the older key at the start of    *)
(* every period.  A ticket carries the name of the key it is sealed with,  *)
(* and the names belong to the two slots, not to the keys in them.         *)
(***************************************************************************)
EXTENDS Integers, FiniteSets

CONSTANTS Lifetime,    \* tcfg->lifetime, the length of a period
          StartTime,   \* when the system starts
          EndTime,     \* bound: the last moment of the model
          Clients,     \* what ttls_cli_id_cb() tells apart: address and server name
          MaxTickets,  \* bound: tickets kept
          MaxConf      \* bound: (re-)configurations
ASSUME TicketTimes ==
  /\ Lifetime \in Nat /\ StartTime \in Nat /\ EndTime \in Nat
  /\ Lifetime > 0 /\ StartTime >= 2 * Lifetime /\ EndTime >= StartTime

VARIABLES now, tcfg, rot, due, tickets, confs
tvars == <<now, tcfg, rot, due, tickets, confs>>

ttls_ticket_get_time(time) == (time \div Lifetime) * Lifetime
NextPeriod(time) == ttls_ticket_get_time(time) + Lifetime

NotRotating == 0 - 1         \* rot: no key is being made
UserSecret == 0              \* a random secret is the number of its configuration

(* ttls_tickets_configure(): the current key in slot 0, the previous one in
   slot 1; without a secret of the user a random one is made. *)
ttls_tickets_configure(time, secret) ==
  [secret |-> secret, active |-> 0,
   ts |-> [i \in 0 .. 1 |-> ttls_ticket_get_time(time) - (IF i = 1 THEN Lifetime ELSE 0)]]

TicketInit ==
  /\ now = StartTime /\ rot = NotRotating /\ tickets = {} /\ confs = 1
  /\ tcfg \in {ttls_tickets_configure(StartTime, s) : s \in {UserSecret, 1}}
  /\ due = NextPeriod(StartTime)

(* The timer is not late by a whole unit of time. *)
Tick ==
  /\ now < EndTime /\ now < due /\ rot = NotRotating
  /\ now' = now + 1
  /\ UNCHANGED <<tcfg, rot, due, tickets, confs>>

(* ttls_ticket_rotate_keys(): the key is made before the lock is taken, and
   is no key (ts 0) when the digest fails. *)
RotateStart ==
  /\ rot = NotRotating /\ now >= due
  /\ rot' \in {ttls_ticket_get_time(now), 0}
  /\ UNCHANGED <<now, tcfg, due, tickets, confs>>
(* mutant: the key in use is replaced *)
UpdateKeysActive ==
  /\ rot # NotRotating
  /\ tcfg' = IF tcfg.ts[tcfg.active] < rot \/ rot = 0
             THEN [tcfg EXCEPT !.ts[tcfg.active] = rot]
             ELSE tcfg
  /\ rot' = NotRotating /\ due' = NextPeriod(now)
  /\ UNCHANGED <<now, tickets, confs>>
(* mutant: a failed digest leaves the old key in its slot *)
UpdateKeysKept ==
  /\ rot # NotRotating
  /\ tcfg' = IF tcfg.ts[tcfg.active] < rot
             THEN [tcfg EXCEPT !.ts[1 - tcfg.active] = rot, !.active = 1 - @]
             ELSE tcfg
  /\ rot' = NotRotating /\ due' = NextPeriod(now)
  /\ UNCHANGED <<now, tickets, confs>>
ttls_ticket_update_keys ==
  /\ rot # NotRotating
  /\ tcfg' = IF tcfg.ts[tcfg.active] < rot \/ rot = 0
             THEN [tcfg EXCEPT !.ts[1 - tcfg.active] = rot, !.active = 1 - @]
             ELSE tcfg
  /\ rot' = NotRotating /\ due' = NextPeriod(now)
  /\ UNCHANGED <<now, tickets, confs>>

(* A ticket for client c whose session began at start; none without a key. *)
ttls_tickets_key_current_locked == tcfg.ts[tcfg.active] # 0
ttls_ticket_sess_save(c, start) == [cli |-> c, start |-> start]
ttls_ticket_encrypt(state, slot) ==
  [state |-> state, name |-> slot, key |-> <<tcfg.secret, tcfg.ts[slot]>>, conf |-> confs]
ttls_ticket_write(c) ==
  /\ ttls_tickets_key_current_locked
  /\ Cardinality(tickets) < MaxTickets
  /\ \E start \in {now, now - 1} :
       tickets' = tickets \cup {ttls_ticket_encrypt(ttls_ticket_sess_save(c, start), tcfg.active)}
  /\ UNCHANGED <<now, tcfg, rot, due, confs>>

(* ttls_ticket_parse(): the slot is found by name in either slot that has a
   key, the ticket must open, belong to the client and be young enough. *)
ttls_tickets_key_search_locked(name) == tcfg.ts[name] # 0
ttls_ticket_decrypt(tik) == tik.key = <<tcfg.secret, tcfg.ts[tik.name]>>
ttls_ticket_sess_load(tik) == now - tik.state.start \in 0 .. Lifetime
ttls_ticket_parse(tik, c) ==
  /\ ttls_tickets_key_search_locked(tik.name)
  /\ ttls_ticket_decrypt(tik)
  /\ tik.state.cli = c
  /\ ttls_ticket_sess_load(tik)

(* ttls_conf_tickets() for the new configuration, ttls_tickets_clean() for
   the old one, which waits for its timer. *)
ttls_conf_tickets(secret) ==
  /\ rot = NotRotating /\ confs < MaxConf
  /\ (secret = UserSecret) <=> (tcfg.secret = UserSecret)
  /\ tcfg' = ttls_tickets_configure(now, secret)
  /\ due' = NextPeriod(now) /\ confs' = confs + 1
  /\ UNCHANGED <<now, rot, tickets>>

TicketNext ==
  \/ Tick \/ RotateStart \/ ttls_ticket_update_keys
  \/ \E c \in Clients : ttls_ticket_write(c)
  \/ \E s \in {UserSecret, confs + 1} : ttls_conf_tickets(s)

TicketSpec == TicketInit /\ [][TicketNext]_tvars
-----------------------------------------------------------------------------
(* As long as the host is not reconfigured, its client can use a ticket until *)
(* the second in which its life ends: no rotation, on time or failed, replaces the key of a *)
(* session that has not expired, and nobody else can use the ticket.          *)
TicketLives ==
  rot = NotRotating /\ now < due =>
    \A tik \in tickets : \A c \in Clients :
      tik.conf = confs /\ tik.state.start \in now - Lifetime + 1 .. now =>
        (ttls_ticket_parse(tik, c) <=> c = tik.state.cli)

(* A key opens no ticket two periods after the one it was made for, whatever  *)
(* the tickets say about their sessions.                                      *)
OldKeysGone ==
  rot = NotRotating /\ now < due =>
    \A tik \in tickets : ttls_ticket_decrypt(tik) => now < tik.key[2] + 2 * Lifetime

(* A ticket is accepted as long as it is promised and no longer. *)
TicketKeysRight == TicketLives /\ OldKeysGone
=============================================================================
