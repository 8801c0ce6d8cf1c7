----------------------------- MODULE SsShutdown -----------------------------
(***************************************************************************)
(* The shutdown protocol of fw/sock.c and its caller tfw_stop() in         *)
(* fw/main.c.  Softirqs count connections being established (NEWCONN) and  *)
(* connections alive (LIVECONN) in per-CPU counters that they change       *)
(* without any lock; the stopping process clears __ss_active, closes the   *)
(* listeners, waits in ss_wait_newconn(), closes all connections, waits in *)
(* ss_synchronize() and only then frees what the upcalls use.              *)
(*                                                                         *)
(* The two halves of the 64-bit counter are a record: NEWCONN is taken and *)
(* released by one softirq, so that half of a CPU never goes negative and  *)
(* never borrows from the other; LIVECONN may be released on another CPU   *)
(* than it was taken on.                                                   *)
(***************************************************************************)
EXTENDS Integers, FiniteSets

CONSTANTS
    CPU,      \* online CPUs
    Clnt,     \* client connections, accepted through a listener
    Srv,      \* server connections, made by ss_connect
    NoConn    \* no connection

\* a connection is a client's or a server's
ASSUME StopAssumption ==
    /\ IsFiniteSet(CPU) /\ IsFiniteSet(Clnt \cup Srv)
    /\ Clnt \cap Srv = {} /\ NoConn \notin Clnt \cup Srv

Conn == Clnt \cup Srv

VARIABLES
    active,     \* __ss_active
    cnt,        \* __ss_act_cnt of a CPU: [new, live]
    job,        \* the softirq handler a CPU runs: [pc, step, conn]
    st,         \* state of a connection
    listening,  \* listening sockets are open
    wq,         \* connections with a queued close, per CPU
    stop,       \* place of the stopping process
    todo,       \* CPUs still to be read, or connections still to be closed
    acc, accOld, wqAcc, wqAccOld,  \* accumulators of the two waits
    warned,     \* ss_wait_newconn gave up with its warning
    expired     \* five seconds have passed since t0

ctl == <<active, listening, stop, todo, acc, accOld, wqAcc, wqAccOld, warned, expired>>
stopVars == <<active, cnt, job, st, listening, wq, stop, todo,
          acc, accOld, wqAcc, wqAccOld, warned, expired>>

Idle == [pc |-> "idle", step |-> "test", conn |-> NoConn]
Zero == [new |-> 0, live |-> 0]

StopInit ==
    /\ active = TRUE /\ listening = TRUE
    /\ cnt = [c \in CPU |-> Zero]
    /\ job = [c \in CPU |-> Idle]
    /\ st = [k \in Conn |-> "none"]
    /\ wq = [c \in CPU |-> {}]
    /\ stop = "run" /\ todo = {}
    /\ acc = Zero /\ accOld = Zero /\ wqAcc = 0 /\ wqAccOld = 0
    /\ warned = FALSE /\ expired = FALSE

-----------------------------------------------------------------------------
(* Softirq                                                                  *)

Job(l, k) == [pc |-> l, step |-> "test", conn |-> k]
Goto(c, l) == job' = [job EXCEPT ![c] = Job(l, @.conn)]
Step(c, s) == job' = [job EXCEPT ![c].step = s]
Start(c, l, k) == job[c] = Idle /\ job' = [job EXCEPT ![c] = Job(l, k)]
Done(c) == job' = [job EXCEPT ![c] = Idle]
Become(c, s) == st' = [st EXCEPT ![job[c].conn] = s]
\* connections no softirq is working with: a socket is handled under its lock
Free(k) == \A c \in CPU : job[c].conn # k

\* ss_active_guard_exit(SS_V_ACT_LIVECONN), SS_V_ACT_NEWCONN
ExitLive(c) == cnt' = [cnt EXCEPT ![c].live = @ - 1]
ExitNew(c) == cnt' = [cnt EXCEPT ![c].new = @ - 1]

\* (mutation: the flag is not tested again after the counter is raised)
GuardEnterOnce(c, from, guard, ok, fail) ==
    /\ job[c].pc = from
    /\ \/ /\ job[c].step = "test"
          /\ IF active THEN Step(c, "count") ELSE Goto(c, fail)
          /\ UNCHANGED cnt
       \/ /\ job[c].step = "count"
          /\ cnt' = [cnt EXCEPT ![c][guard] = @ + 1]
          /\ Goto(c, ok)

\* ss_active_guard_enter: test the flag, count, test again; ok and fail are
\* where the handler goes on
GuardEnter(c, from, guard, ok, fail) ==
    /\ job[c].pc = from
    /\ \/ /\ job[c].step = "test"
          /\ IF active THEN Step(c, "count") ELSE Goto(c, fail)
          /\ UNCHANGED cnt
       \/ /\ job[c].step = "count"
          /\ cnt' = [cnt EXCEPT ![c][guard] = @ + 1]
          /\ Step(c, "again")
       \/ /\ job[c].step = "again"
          /\ cnt' = [cnt EXCEPT ![c][guard] = IF active THEN @ ELSE @ - 1]
          /\ Goto(c, IF active THEN ok ELSE fail)

\* ss_connect on a server connection that is not connected
ss_connect(c, k) ==
    /\ st[k] = "none" /\ Free(k)
    /\ Start(c, "connect", k)
    /\ UNCHANGED <<cnt, st, wq, ctl>>

ConnectGuard(c) ==
    /\ GuardEnter(c, "connect", "live", "connecting", "refused")
    /\ UNCHANGED <<st, wq, ctl>>

\* the guard was refused (SS_SHUTDOWN), the connect failed, or the socket
\* now lives in the TCP code
ConnectDone(c) ==
    /\ \/ /\ job[c].pc = "refused"
          /\ Become(c, "gone")
          /\ UNCHANGED cnt
       \/ /\ job[c].pc = "connecting"
          /\ Become(c, "synsent")
          /\ UNCHANGED cnt
       \/ /\ job[c].pc = "connecting"
          /\ Become(c, "gone")
          /\ ExitLive(c)
    /\ Done(c)
    /\ UNCHANGED <<wq, ctl>>

\* ss_tcp_state_change with TCP_ESTABLISHED
Established(c, k) ==
    /\ k \in Clnt => st[k] = "none" /\ listening
    /\ k \in Srv => st[k] = "synsent"
    /\ Free(k)
    /\ Start(c, "new", k)
    /\ UNCHANGED <<cnt, st, wq, ctl>>

EstablishedGuard(c) ==
    /\ \/ GuardEnter(c, "new", "new", IF job[c].conn \in Clnt THEN "live" ELSE "hook", "nonew")
       \/ GuardEnter(c, "live", "live", "hook", "nolive")
    /\ UNCHANGED <<st, wq, ctl>>

\* a guard was refused: ss_do_close without calling the upper layer, except
\* for a server connection, whose LIVECONN guard ss_connect took
EstablishedRefused(c) ==
    /\ \/ /\ job[c].pc = "nonew" /\ job[c].conn \in Clnt
          /\ Become(c, "gone") /\ Done(c)
          /\ UNCHANGED cnt
       \/ /\ job[c].pc = "nonew" /\ job[c].conn \in Srv
          /\ Goto(c, "drop")
          /\ UNCHANGED <<st, cnt>>
       \/ /\ job[c].pc = "nolive"
          /\ Become(c, "gone") /\ Done(c)
          /\ ExitNew(c)
    /\ UNCHANGED <<wq, ctl>>

\* connection_new: the connection lives, or ss_linkerror drops it at once
ConnectionNew(c) ==
    /\ job[c].pc = "hook"
    /\ \/ /\ Become(c, "live")
          /\ Goto(c, "exitnew")
          /\ UNCHANGED cnt
       \/ /\ Become(c, "gone")
          /\ ExitLive(c)
          /\ Goto(c, "exitnew")
    /\ UNCHANGED <<wq, ctl>>

EstablishedExit(c) ==
    /\ job[c].pc = "exitnew"
    /\ ExitNew(c) /\ Done(c)
    /\ UNCHANGED <<st, wq, ctl>>

Alive(k) == st[k] \in {"live", "synsent"}

\* TCP_CLOSE (a reset, or a connect that timed out): ss_linkerror
Reset(c, k) ==
    /\ Alive(k) /\ Free(k)
    /\ Start(c, "drop", k)
    /\ UNCHANGED <<cnt, st, wq, ctl>>

\* ss_tx_action takes a close from the queue of its CPU; a socket that died
\* meanwhile is left alone
TxClose(c, k) ==
    /\ k \in wq[c] /\ Free(k) /\ job[c] = Idle
    /\ wq' = [wq EXCEPT ![c] = @ \ {k}]
    /\ job' = [job EXCEPT ![c] = IF Alive(k) THEN Job("drop", k) ELSE Idle]
    /\ UNCHANGED <<cnt, st, ctl>>

\* (mutation: the guard is left before the callback)
DropExitFirst(c) ==
    \/ /\ job[c].pc = "drop"
       /\ ExitLive(c)
       /\ Goto(c, "dropped")
       /\ UNCHANGED <<st, wq, ctl>>
    \/ /\ job[c].pc = "dropped"
       /\ Become(c, "gone")
       /\ Done(c)
       /\ UNCHANGED <<cnt, wq, ctl>>

\* SS_CALL_GUARD_EXIT(connection_drop, sk): the callback, then the guard
ConnectionDrop(c) ==
    \/ /\ job[c].pc = "drop"
       /\ Become(c, "gone")
       /\ Goto(c, "dropped")
       /\ UNCHANGED <<cnt, wq, ctl>>
    \/ /\ job[c].pc = "dropped"
       /\ ExitLive(c)
       /\ Done(c)
       /\ UNCHANGED <<st, wq, ctl>>

JobStep(c) ==
    \/ ConnectGuard(c) \/ ConnectDone(c)
    \/ EstablishedGuard(c) \/ EstablishedRefused(c) \/ ConnectionNew(c) \/ EstablishedExit(c)
    \/ ConnectionDrop(c)

-----------------------------------------------------------------------------
(* The stopping process: tfw_stop                                           *)

softVars == <<cnt, job, st, wq>>
accVars == <<acc, accOld, wqAcc, wqAccOld>>

\* A scan of the per-CPU counters begins
BeginScan(l, reset) ==
    /\ stop' = l /\ todo' = CPU
    /\ acc' = IF reset THEN Zero ELSE acc
    /\ wqAcc' = 0

\* tfw_mods_stop: ss_stop
ss_stop ==
    /\ stop = "run"
    /\ active' = FALSE
    /\ stop' = "release"
    /\ UNCHANGED <<softVars, warned, listening, todo, accVars, expired>>

\* tfw_sock_clnt_stop: release the listening sockets, enter ss_wait_newconn
tfw_sock_clnt_stop ==
    /\ stop = "release"
    /\ listening' = FALSE
    /\ accOld' = Zero /\ expired' = FALSE
    /\ BeginScan("newconn", TRUE)
    /\ UNCHANGED <<softVars, warned, active, wqAccOld>>

ReadNewConn(c) ==
    /\ stop = "newconn" /\ c \in todo
    /\ acc' = [new |-> acc.new + cnt[c].new, live |-> acc.live + cnt[c].live]
    /\ todo' = todo \ {c}
    /\ UNCHANGED <<softVars, warned, active, listening, stop, accOld, wqAcc, wqAccOld, expired>>

\* (mutation: the wait has no timeout)
WaitNewConnForever ==
    /\ stop = "newconn" /\ todo = {}
    /\ \/ /\ acc.new = 0
          /\ stop' = "closeclnt" /\ todo' = {k \in Clnt : st[k] = "live"}
          /\ UNCHANGED <<acc, accOld, wqAcc>>
       \/ /\ acc.new # 0
          /\ accOld' = acc
          /\ BeginScan("newconn", acc # accOld)
    /\ UNCHANGED <<softVars, warned, active, listening, wqAccOld, expired>>

\* The rest of the loop of ss_wait_newconn.  acc is reset only when it
\* differs from the previous sum.
ss_wait_newconn ==
    /\ stop = "newconn" /\ todo = {}
    /\ \/ /\ acc.new = 0
          /\ stop' = "closeclnt" /\ todo' = {k \in Clnt : st[k] = "live"}
          /\ UNCHANGED <<acc, accOld, wqAcc>>
       \/ /\ acc.new # 0 /\ acc = accOld /\ expired
          /\ stop' = "warned"
          /\ UNCHANGED <<acc, accOld, wqAcc, todo>>
       \/ /\ acc.new # 0 /\ acc = accOld /\ ~expired
          /\ BeginScan("newconn", FALSE)
          /\ UNCHANGED accOld
       \/ /\ acc.new # 0 /\ acc # accOld
          /\ accOld' = acc
          /\ BeginScan("newconn", TRUE)
    /\ UNCHANGED <<softVars, warned, active, listening, wqAccOld, expired>>

\* after the warning the stop goes on all the same
NewConnWarned ==
    /\ stop = "warned"
    /\ warned' = TRUE
    /\ stop' = "closeclnt" /\ todo' = {k \in Clnt : st[k] = "live"}
    /\ UNCHANGED <<softVars, active, listening, accVars, expired>>

\* tfw_client_for_each(tfw_cli_conn_close_all), tfw_sock_srv_stop: one close
\* pushed to the queue of some CPU.  A push that fails is repeated, so that
\* the loop ends when every connection was pushed or is gone.
CloseOne(c, k) ==
    /\ stop \in {"closeclnt", "closesrv"} /\ k \in todo
    /\ todo' = todo \ {k}
    /\ wq' = [wq EXCEPT ![c] = IF Alive(k) THEN @ \cup {k} ELSE @]
    /\ UNCHANGED <<cnt, job, st, warned, active, listening, stop, accVars, expired>>

CloseNext ==
    /\ todo = {}
    /\ \/ /\ stop = "closeclnt"
          /\ stop' = "closesrv" /\ todo' = {k \in Srv : Alive(k)}
          /\ UNCHANGED <<accVars, expired>>
       \/ /\ stop = "closesrv"
          /\ accOld' = Zero /\ wqAccOld' = 0 /\ expired' = FALSE
          /\ BeginScan("sync", TRUE)
    /\ UNCHANGED <<softVars, warned, active, listening>>

\* one CPU of the loop of ss_synchronize
ReadSync(c) ==
    /\ stop = "sync" /\ c \in todo
    /\ acc' = [acc EXCEPT !.live = @ + cnt[c].live]
    /\ wqAcc' = wqAcc + Cardinality(wq[c])
    /\ todo' = todo \ {c}
    /\ UNCHANGED <<softVars, warned, active, listening, stop, accOld, wqAccOld, expired>>

ss_synchronize ==
    /\ stop = "sync" /\ todo = {}
    /\ \/ /\ acc.live = 0 /\ wqAcc = 0
          /\ stop' = "clean"
          /\ UNCHANGED <<accVars, expired, todo>>
       \/ /\ acc.live # 0 \/ wqAcc # 0
          /\ acc = accOld /\ wqAcc = wqAccOld /\ expired
          /\ stop' = "leaked"
          /\ UNCHANGED <<accVars, expired, todo>>
       \/ /\ acc.live # 0 \/ wqAcc # 0
          /\ acc # accOld \/ wqAcc # wqAccOld \/ ~expired
          /\ expired' = (expired /\ acc.live + wqAcc >= accOld.live + wqAccOld)
          /\ accOld' = acc /\ wqAccOld' = wqAcc
          /\ BeginScan("sync", TRUE)
    /\ UNCHANGED <<softVars, warned, active, listening>>

\* five seconds pass
Timeout ==
    /\ stop \in {"newconn", "sync"} /\ ~expired
    /\ expired' = TRUE
    /\ UNCHANGED <<softVars, warned, active, listening, stop, todo, accVars>>

StopStep ==
    \/ tfw_sock_clnt_stop
    \/ \E c \in CPU : ReadNewConn(c) \/ ReadSync(c)
    \/ ss_wait_newconn \/ NewConnWarned
    \/ \E c \in CPU, k \in Conn : CloseOne(c, k)
    \/ CloseNext \/ ss_synchronize

StopNext ==
    \/ \E c \in CPU, k \in Srv : ss_connect(c, k)
    \/ \E c \in CPU, k \in Conn : Established(c, k) \/ Reset(c, k) \/ TxClose(c, k)
    \/ \E c \in CPU : JobStep(c)
    \/ ss_stop \/ StopStep \/ Timeout

StopSpec == StopInit /\ [][StopNext]_stopVars

-----------------------------------------------------------------------------
(* Properties *)

\* an upcall into Tempesta that is running on a CPU
InUpcall(c) == job[c].pc \in {"hook", "drop"}

(* ss_synchronize returns without a warning only when nothing can call      *)
(* into Tempesta any more, although the counters it adds up are read one    *)
(* CPU after the other while connections end on CPUs other than those that  *)
(* counted them: the clean-up that follows frees nothing in use.            *)
CleanIsQuiet ==
    stop = "clean" => /\ \A k \in Conn : ~Alive(k)
                      /\ \A c \in CPU : ~InUpcall(c)

(* BUG_ON(acc < 0) of both waits: the sum over the CPUs is never negative,  *)
(* although a single CPU's counter may be.                                  *)
SumNotNegative ==
    stop \in {"newconn", "sync"} /\ todo = {} => acc.live >= 0 /\ acc.new >= 0

(* tfw_stop terminates, whatever peers and softirqs do.                     *)
StopTerminates == stop = "release" ~> stop \in {"clean", "leaked"}

(* What ss_wait_newconn and ss_synchronize conclude from counters they read  *)
(* one by one is right.                                                     *)
ShutdownSafe == CleanIsQuiet /\ SumNotNegative
=============================================================================
