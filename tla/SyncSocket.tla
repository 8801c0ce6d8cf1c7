----------------------------- MODULE SyncSocket -----------------------------
(***************************************************************************)
(* Deferred socket work of fw/sock.c: ss_send() and ss_close() push work   *)
(* for the CPU that owns a socket, ss_tx_action() of that CPU's softirq    *)
(* executes it.  A close that finds the ring full goes to the close        *)
(* backlog, ordered with the ring by a turnstile ticket.  Producers wake   *)
(* the consumer with an IPI only while the TFW_QUEUE_IPI bit is set.       *)
(*                                                                         *)
(* The model is of one owning CPU.  Its ring is the FIFO that WorkQueue    *)
(* describes in detail; what remains visible of it here is that a pop      *)
(* fails on a position that the guard of an unfinished push does not let   *)
(* the consumer reach.  ring keeps every item ever acquired, the pending   *)
(* ones are the positions tail..Head-1.                                    *)
(***************************************************************************)
EXTENDS Integers, Sequences, FiniteSets, FiniteSetsExt, SequencesExt

CONSTANTS
    CPU,        \* CPUs that send and close
    Local,      \* the CPU that owns the sockets and runs ss_tx_action
    SK,         \* sockets
    QSZ,        \* slots of the ring
    TXBUDGET,   \* lower bound of the budget of ss_tx_action (10 in the code)
    LONG_MAX,   \* turn of an empty backlog, guard of an idle producer
    MaxWork     \* bound on the calls of ss_send and ss_close

ASSUME SyncSocketAssumption ==
    /\ Local \in CPU /\ IsFiniteSet(CPU)
    /\ QSZ \in Nat /\ LONG_MAX \in Nat

VARIABLES
    ring, tail, lastHead, guard,   \* si_wq
    backlog, turn,                 \* close_backlog
    ipi,                           \* TFW_QUEUE_IPI
    irqWork, softirq,              \* ipi_work queued, NET_TX_SOFTIRQ raised
    call,                          \* the ss_send or ss_close a CPU is in
    tx,                            \* ss_tx_action: place, ticket, budget
    active,                        \* __ss_active
    sk,                            \* state, references and drops of a socket
    nwork                          \* calls issued so far

wqVars == <<ring, tail, lastHead, guard>>
blVars == <<backlog, turn>>
irqVars == <<ipi, irqWork, softirq>>
vars == <<ring, tail, lastHead, guard, backlog, turn, ipi, irqWork, softirq,
          call, tx, active, sk, nwork>>

Action == {"send", "sendclose", "close"}
\* SS_F_CONN_CLOSE makes a send close the socket behind the data.
Closing(w) == w.act # "send"
Idle == [pc |-> "idle"]
Head0 == Len(ring)
RingSize == Head0 - tail
\* ss_wq_local_size: tfw_wq_size() + cb->size
LocalSize == RingSize + Len(backlog)

Init ==
    /\ ring = <<>> /\ tail = 0 /\ lastHead = 0
    /\ guard = [c \in CPU |-> LONG_MAX]
    /\ backlog = <<>> /\ turn = LONG_MAX
    /\ ipi = TRUE /\ irqWork = FALSE /\ softirq = FALSE
    /\ call = [c \in CPU |-> Idle]
    /\ tx = [pc |-> "idle", ticket |-> 0, budget |-> 0]
    /\ active = TRUE
    /\ sk = [s \in SK |-> [st |-> "established", refs |-> 1, drops |-> 0]]
    /\ nwork = 0

ss_sock_active(s) == sk[s].st \in {"established", "close_wait"}

-----------------------------------------------------------------------------
(* ss_send, ss_close: hold the socket and push                              *)

\* The owning CPU sends and closes between two runs of ss_tx_action, or from
\* the connection callbacks of a work that ss_tx_action has just executed.
MayRun(c) == c = Local => tx.pc \in {"idle", "loop"}

ss_call(c, s, act) ==
    /\ call[c] = Idle /\ MayRun(c)
    /\ nwork < MaxWork
    /\ act # "close" => ss_sock_active(s)
    /\ sk[s].refs > 0
    /\ nwork' = nwork + 1
    /\ sk' = [sk EXCEPT ![s].refs = @ + 1]
    /\ guard' = [guard EXCEPT ![c] = Head0]
    /\ call' = [call EXCEPT ![c] =
                   [pc |-> "push", work |-> [sk |-> s, act |-> act, cpu |-> c, n |-> nwork]]]
    /\ UNCHANGED <<ring, tail, lastHead, blVars, irqVars, tx, active>>

\* the cmpxchg of __tfw_wq_push
ss_wq_push(c) ==
    /\ call[c].pc = "push"
    /\ Head0 < tail + QSZ
    /\ ring' = Append(ring, call[c].work)
    /\ call' = [call EXCEPT ![c].pc = "pushed"]
    /\ UNCHANGED <<tail, lastHead, guard, blVars, irqVars, tx, active, sk, nwork>>

\* the copy is finished and the guard released
PushDone(c) ==
    /\ call[c].pc = "pushed"
    /\ guard' = [guard EXCEPT ![c] = LONG_MAX]
    /\ call' = [call EXCEPT ![c].pc = "notify"]
    /\ UNCHANGED <<ring, tail, lastHead, blVars, irqVars, tx, active, sk, nwork>>

\* (mutation: a refused send keeps its reference)
PushFullLeak(c) ==
    /\ call[c].pc = "push"
    /\ Head0 = tail + QSZ
    /\ guard' = [guard EXCEPT ![c] = LONG_MAX]
    /\ call' = [call EXCEPT ![c] = IF @.work.act = "close"
                                  THEN [pc |-> "backlog", work |-> @.work, ticket |-> Head0]
                                  ELSE Idle]
    /\ UNCHANGED <<ring, tail, lastHead, blVars, irqVars, tx, active, sk, nwork>>

\* A full ring: a send gives up with -EBUSY and drops its data, a close
\* (always SS_F_SYNC here) keeps the head as its ticket.
PushFull(c) ==
    /\ call[c].pc = "push"
    /\ Head0 = tail + QSZ
    /\ guard' = [guard EXCEPT ![c] = LONG_MAX]
    /\ \/ /\ call[c].work.act = "close"
          /\ call' = [call EXCEPT ![c] = [pc |-> "backlog", work |-> @.work, ticket |-> Head0]]
          /\ UNCHANGED sk
       \/ /\ call[c].work.act # "close"
          /\ call' = [call EXCEPT ![c] = Idle]
          /\ sk' = [sk EXCEPT ![call[c].work.sk].refs = @ - 1]
    /\ UNCHANGED <<ring, tail, lastHead, blVars, irqVars, tx, active, nwork>>

\* (mutation: the turn is not lowered)
TurnstilePushNoTurn(c) ==
    /\ call[c].pc = "backlog"
    /\ backlog' = Append(backlog, [ticket |-> call[c].ticket, work |-> call[c].work])
    /\ call' = [call EXCEPT ![c] = [pc |-> "notify"]]
    /\ UNCHANGED <<wqVars, turn, irqVars, tx, active, sk, nwork>>

\* ss_turnstile_push; its node may fail to be allocated (SS_BAD)
ss_turnstile_push(c) ==
    /\ call[c].pc = "backlog"
    /\ \/ /\ backlog' = Append(backlog, [ticket |-> call[c].ticket, work |-> call[c].work])
          /\ turn' = IF turn > call[c].ticket THEN call[c].ticket ELSE turn
          /\ call' = [call EXCEPT ![c] = [pc |-> "notify"]]
          /\ UNCHANGED sk
       \/ /\ call' = [call EXCEPT ![c] = Idle]
          /\ sk' = [sk EXCEPT ![call[c].work.sk].refs = @ - 1]
          /\ UNCHANGED blVars
    /\ UNCHANGED <<wqVars, irqVars, tx, active, nwork>>

\* test_bit(TFW_QUEUE_IPI), tfw_raise_softirq: an IPI, or ss_ipi itself on
\* the owning CPU
Notify(c) ==
    /\ call[c].pc = "notify"
    /\ call' = [call EXCEPT ![c] = Idle]
    /\ \/ /\ ~ipi
          /\ UNCHANGED irqVars
       \/ /\ ipi /\ c # Local
          /\ irqWork' = TRUE
          /\ UNCHANGED <<ipi, softirq>>
       \/ /\ ipi /\ c = Local
          /\ ipi' = FALSE /\ softirq' = TRUE
          /\ UNCHANGED irqWork
    /\ UNCHANGED <<wqVars, blVars, tx, active, sk, nwork>>

\* the IPI reaches the owning CPU
ss_ipi ==
    /\ irqWork
    /\ irqWork' = FALSE /\ ipi' = FALSE /\ softirq' = TRUE
    /\ UNCHANGED <<wqVars, blVars, call, tx, active, sk, nwork>>

-----------------------------------------------------------------------------
(* ss_tx_action on the owning CPU                                           *)

ss_tx_action ==
    /\ softirq /\ tx.pc = "idle" /\ call[Local] = Idle
    /\ softirq' = FALSE
    /\ tx' = [pc |-> "loop", ticket |-> 0, budget |-> Max({TXBUDGET, LocalSize})]
    /\ UNCHANGED <<wqVars, blVars, ipi, irqWork, call, active, sk, nwork>>

\* while ((!ss_active() || budget--) && ...)
TxLoop ==
    /\ tx.pc = "loop" /\ call[Local] = Idle
    /\ tx' = [tx EXCEPT !.budget = IF active THEN @ - 1 ELSE @,
                        !.pc = IF ~active \/ tx.budget # 0
                               THEN IF tx.ticket = 0 THEN "pop1" ELSE "turn"
                               ELSE "after"]
    /\ UNCHANGED <<wqVars, blVars, irqVars, call, active, sk, nwork>>

\* __sk_close_locked: ss_do_close orphans the socket, connection_drop is
\* called once it is closed
Closed(r) == [r EXCEPT !.st = "dead", !.drops = @ + 1]

\* (mutation: a dead socket is closed again)
ExecutedDead(w) ==
    LET r == [sk[w.sk] EXCEPT !.refs = @ - 1]
    IN  IF w.act = "send" THEN r ELSE Closed(r)

\* What a work does to its socket, sock_put included
Executed(w) ==
    LET r == [sk[w.sk] EXCEPT !.refs = @ - 1]
    IN  IF w.act = "send" \/ sk[w.sk].st \in {"dead", "closed"} THEN r ELSE Closed(r)

\* The positions a pop may reach: last_head, recomputed from the guards of
\* the producers when the consumer has caught up with it.
ReachableHead ==
    IF tail < lastHead THEN lastHead
    ELSE Min({Head0} \cup {guard[c] : c \in CPU})

\* tfw_wq_pop_ticket: the ticket is the position popped, or the one that
\* could not be popped yet
PopRing(busyPc) ==
    /\ lastHead' = ReachableHead
    /\ \/ /\ tail < ReachableHead
          /\ tail' = tail + 1
          /\ tx' = [tx EXCEPT !.pc = "loop", !.ticket = tail]
          /\ sk' = [sk EXCEPT ![ring[tail + 1].sk] = Executed(ring[tail + 1])]
       \/ /\ tail >= ReachableHead
          /\ tx' = [tx EXCEPT !.pc = busyPc, !.ticket = tail]
          /\ UNCHANGED <<tail, sk>>
    /\ UNCHANGED <<ring, guard, blVars, irqVars, call, active, nwork>>

\* ss_wq_pop, first attempt: only while no ticket is known
TxPopFirst == tx.pc = "pop1" /\ PopRing("turn")

\* ss_wq_pop: the turnstile, ss_turnstile_update_turn included
TxTurn ==
    /\ tx.pc = "turn"
    /\ \/ /\ tx.ticket + 1 >= turn /\ backlog # <<>>
          /\ backlog' = Tail(backlog)
          /\ turn' = IF backlog' = <<>> THEN LONG_MAX ELSE backlog'[1].ticket
          /\ tx' = [tx EXCEPT !.pc = "loop"]
          /\ sk' = [sk EXCEPT ![backlog[1].work.sk] = Executed(backlog[1].work)]
       \/ /\ tx.ticket + 1 < turn \/ backlog = <<>>
          /\ tx' = [tx EXCEPT !.pc = "pop2"]
          /\ UNCHANGED <<backlog, turn, sk>>
    /\ UNCHANGED <<wqVars, irqVars, call, active, nwork>>

TxPopSecond == tx.pc = "pop2" /\ PopRing("after")

\* if (budget) TFW_WQ_IPI_SYNC: announce that IPIs are wanted ...
TxAfter ==
    /\ tx.pc = "after"
    /\ \/ /\ tx.budget # 0
          /\ ipi' = TRUE
          /\ tx' = [tx EXCEPT !.pc = "size"]
          /\ UNCHANGED softirq
       \/ /\ tx.budget = 0
          /\ softirq' = TRUE
          /\ tx' = [tx EXCEPT !.pc = "idle"]
          /\ UNCHANGED ipi
    /\ UNCHANGED <<wqVars, blVars, irqWork, call, active, sk, nwork>>

\* (mutation: the size is not looked at again)
TxSizeUnchecked ==
    /\ tx.pc = "size"
    /\ tx' = [tx EXCEPT !.pc = "idle"]
    /\ UNCHANGED <<wqVars, blVars, irqVars, call, active, sk, nwork>>

\* ... then look whether something was queued meanwhile
TxSize ==
    /\ tx.pc = "size"
    /\ \/ /\ LocalSize = 0
          /\ tx' = [tx EXCEPT !.pc = "idle"]
          /\ UNCHANGED <<ipi, softirq>>
       \/ /\ LocalSize # 0
          /\ ipi' = FALSE /\ softirq' = TRUE
          /\ tx' = [tx EXCEPT !.pc = "idle"]
    /\ UNCHANGED <<wqVars, blVars, irqWork, call, active, sk, nwork>>

TxStep == TxLoop \/ TxPopFirst \/ TxTurn \/ TxPopSecond \/ TxAfter \/ TxSize

-----------------------------------------------------------------------------
(* The kernel's TCP, on the owning CPU under the socket lock                *)

\* ss_tcp_state_change, TCP_CLOSE_WAIT: close through the queue
PeerFin(s) ==
    /\ sk[s].st = "established"
    /\ call[Local] = Idle /\ tx.pc = "idle" /\ nwork < MaxWork
    /\ nwork' = nwork + 1
    /\ sk' = [sk EXCEPT ![s].st = "close_wait", ![s].refs = @ + 1]
    /\ guard' = [guard EXCEPT ![Local] = Head0]
    /\ call' = [call EXCEPT ![Local] =
                   [pc |-> "push", work |-> [sk |-> s, act |-> "close", cpu |-> Local, n |-> nwork]]]
    /\ UNCHANGED <<ring, tail, lastHead, blVars, irqVars, tx, active>>

\* ss_tcp_state_change, TCP_CLOSE: ss_linkerror closes at once
PeerReset(s) ==
    /\ ss_sock_active(s) /\ call[Local] = Idle /\ tx.pc = "idle"
    /\ sk' = [sk EXCEPT ![s] = Closed(@)]
    /\ UNCHANGED <<wqVars, blVars, irqVars, call, tx, active, nwork>>

\* inet_csk_destroy_sock: the kernel gives up its own reference
KernelDestroy(s) ==
    /\ sk[s].st = "dead"
    /\ sk' = [sk EXCEPT ![s].st = "closed", ![s].refs = @ - 1]
    /\ UNCHANGED <<wqVars, blVars, irqVars, call, tx, active, nwork>>

ss_stop ==
    /\ active
    /\ active' = FALSE
    /\ UNCHANGED <<wqVars, blVars, irqVars, call, tx, sk, nwork>>

CallStep(c) ==
    ss_wq_push(c) \/ PushDone(c) \/ PushFull(c) \/ ss_turnstile_push(c) \/ Notify(c)

Next ==
    \/ \E c \in CPU, s \in SK, act \in Action : ss_call(c, s, act)
    \/ \E c \in CPU : CallStep(c)
    \/ ss_ipi \/ ss_tx_action \/ TxStep \/ ss_stop
    \/ \E s \in SK : PeerFin(s) \/ PeerReset(s) \/ KernelDestroy(s)

(* Calls run with bottom halves disabled, IPIs are delivered, and a raised  *)
(* softirq is served.  Nothing is assumed of applications and peers.        *)
Fairness ==
    /\ \A c \in CPU : WF_vars(CallStep(c))
    /\ WF_vars(ss_ipi) /\ WF_vars(ss_tx_action) /\ WF_vars(TxStep)

Spec == Init /\ [][Next]_vars
FairSpec == Spec /\ Fairness

-----------------------------------------------------------------------------
(* Properties *)

\* the works that are queued, in the ring or in the backlog
Pending == {ring[i] : i \in tail + 1 .. Head0} \cup {backlog[i].work : i \in DOMAIN backlog}

\* calls that hold a work no queue has yet
InCall == {c \in CPU : call[c].pc \in {"push", "backlog"}}

(* Every ss_send and ss_close holds its socket until the work is executed   *)
(* or refused: the references of a socket are its queued works, the calls   *)
(* in flight and the kernel's own reference, so that ss_tx_action never     *)
(* touches a freed socket and no error path leaks one.                      *)
RefBalance ==
    \A s \in SK :
        sk[s].refs = Cardinality({w \in Pending : w.sk = s})
                     + Cardinality({c \in InCall : call[c].work.sk = s})
                     + (IF sk[s].st = "closed" THEN 0 ELSE 1)

(* No wakeup is lost between a producer's test of TFW_QUEUE_IPI and the     *)
(* consumer's TFW_WQ_IPI_SYNC: whenever work is queued, the softirq runs,   *)
(* is raised, or is about to be raised by an IPI or by a pushing CPU.       *)
NoLostWakeup ==
    LocalSize > 0 =>
        \/ softirq \/ irqWork \/ tx.pc # "idle"
        \/ \E c \in CPU : call[c].pc \in {"pushed", "notify"}

(* However many closes, closing sends, FINs and resets race for a socket,   *)
(* connection_drop is called for it exactly once.                           *)
DropOnce ==
    \A s \in SK : sk[s].drops = IF sk[s].st \in {"dead", "closed"} THEN 1 ELSE 0

(* A queued close is carried out in the end: the socket dies, whatever      *)
(* CPUs push and however often the consumer runs out of its budget.         *)
CloseCarriedOut ==
    \A s \in SK :
        (\E w \in Pending : w.sk = s /\ Closing(w)) ~> sk[s].st \in {"dead", "closed"}

(* The works of ss_send and ss_close are kept in order: references balance,  *)
(* no wake-up is lost, and a socket is dropped once.                        *)
WorksKept == RefBalance /\ NoLostWakeup /\ DropOnce
=============================================================================
