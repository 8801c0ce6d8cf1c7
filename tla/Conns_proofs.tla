---------------------------- MODULE Conns_proofs ----------------------------
(***************************************************************************)
(* Proofs about the life and the end of connections: a server connection   *)
(* is reused, released and freed by one side at a time, and the shutdown   *)
(* of the socket layer waits for every connection.                         *)
(***************************************************************************)
EXTENDS SrvConn, SsShutdown, FiniteSetTheorems, NaturalsInduction, WellFoundedInduction, TLAPS

-----------------------------------------------------------------------------
(* The inductive invariant                                                  *)

ScTypeOK ==
    /\ refcnt \in Int
    /\ bits \subseteq {"active", "del", "stopped"}
    /\ sk \in Sock \cup {NoSock}
    /\ tcp \in [Sock -> {"none", "fresh", "syn", "est", "dead"}]
    /\ closing \subseteq Sock
    /\ pending \in BOOLEAN
    /\ timer \in {"no", "try", "connect", "nested"}
    /\ drop \in {"idle", "mark", "put"}
    /\ rel \in {"idle", "unlink", "test", "arm", "stop", "put"}
    /\ using \subseteq User
    /\ dpc \in {"idle", "timer", "read", "test", "close", "push", "stop", "put",
                "return", "done"}
    /\ dsk \in Sock \cup {NoSock} /\ (dpc = "push" => dsk \in Sock)
    /\ srvRef \in Int
    /\ freed \in BOOLEAN

Users == Cardinality(using)

(* In use is one socket at most, the one that the connection is linked to.  *)
Gone == {"none", "dead"}
Quiet == \A s \in Sock : tcp[s] \in Gone
Linked(t) == sk \in Sock /\ tcp[sk] = t /\ \A s \in Sock : s # sk => tcp[s] \in Gone

(* The connection is in the hands of one context at a time; these are the   *)
(* hands it can be in, and what the counter is there.                       *)
NoDrop == drop = "idle" /\ rel = "idle"
Running == "active" \in bits /\ "stopped" \notin bits /\ dpc \notin {"stop", "put"}

Dormant == bits = {} /\ Quiet /\ ~pending /\ timer = "no" /\ NoDrop
           /\ using = {} /\ refcnt = DEATHCNT /\ dpc \in {"idle", "return", "done"}
Armed == Running /\ Quiet /\ pending /\ timer \in {"no", "nested"} /\ NoDrop
         /\ using = {} /\ refcnt = DEATHCNT
Trying == Running /\ Quiet /\ ~pending /\ timer = "try" /\ NoDrop
          /\ using = {} /\ refcnt = DEATHCNT
Connecting == Running /\ ~pending /\ NoDrop /\ using = {} /\ refcnt = DEATHCNT + 1
              /\ \/ timer = "connect" /\ Linked("fresh")
                 \/ timer = "no" /\ Linked("syn")
InService == Running /\ ~pending /\ timer = "no" /\ NoDrop /\ Linked("est") /\ refcnt = 1 + Users
(* tfw_sock_srv_connect_drop; a nested one never had users                  *)
Dropping == Running /\ Quiet /\ ~pending /\ rel = "idle" /\ drop # "idle"
            /\ timer \in {"no", "nested"} /\ (timer = "nested" => using = {})
            /\ \/ drop = "mark" /\ using = {} /\ refcnt = DEATHCNT + 1
               \/ drop = "put" /\ refcnt = DEATHCNT + 1 + Users
               \/ (drop = "put" => "del" \in bits) /\ timer = "no" /\ refcnt = 1 + Users
(* the users that are left                                                  *)
Waiting == Running /\ Quiet /\ ~pending /\ timer = "no" /\ NoDrop /\ using # {}
           /\ (refcnt = DEATHCNT + Users \/ (refcnt = Users /\ "del" \in bits))
Releasing == "active" \in bits /\ Quiet /\ ~pending /\ timer \in {"no", "nested"}
             /\ drop = "idle" /\ rel # "idle" /\ using = {} /\ dpc \notin {"stop", "put"}
             /\ (refcnt = DEATHCNT \/ (refcnt = 0 /\ "del" \in bits /\ rel # "arm"))
             /\ ("stopped" \in bits <=> rel = "put")
(* tfw_sock_srv_disconnect has deleted the timer                            *)
Disconnecting == "active" \in bits /\ Quiet /\ ~pending /\ timer = "no" /\ NoDrop
                 /\ using = {} /\ refcnt = DEATHCNT /\ dpc \in {"stop", "put"}
                 /\ ("stopped" \in bits <=> dpc = "put")
Stopped == {"active", "stopped"} \subseteq bits /\ Quiet /\ ~pending /\ timer \in {"no", "nested"}
           /\ NoDrop /\ using = {} /\ refcnt \in {0, DEATHCNT} /\ dpc \notin {"stop", "put"}

OneHand == \/ Dormant \/ Armed \/ Trying \/ Connecting \/ InService \/ Dropping
           \/ Waiting \/ Releasing \/ Disconnecting \/ Stopped

ServerInv == ServerPutOnce /\ (freed <=> srvRef = 0)

ScInv == ScTypeOK /\ OneHand /\ ServerInv

(* The users are counted, and their count tells whether there are any.      *)
LEMMA UsersCount ==
    ASSUME ScTypeOK
    PROVE  /\ Users \in Nat /\ (Users = 0 <=> using = {})
           /\ DEATHCNT \in Int /\ DEATHCNT + 1 + Users < 0
<1>1. IsFiniteSet(using) /\ Cardinality(using) <= Cardinality(User)
  BY FS_Subset, SrvConnAssumption DEF ScTypeOK
<1>2. Users \in Nat /\ Cardinality(User) \in Nat
  BY <1>1, FS_CardinalityType, SrvConnAssumption DEF Users
<1>3. Users = 0 <=> using = {}
  BY <1>1, FS_EmptySet DEF Users
<1> QED BY <1>1, <1>2, <1>3, SrvConnAssumption DEF Users

LEMMA UserComes ==
    ASSUME ScTypeOK, NEW u \in User, u \notin using, using' = using \cup {u}
    PROVE  Users' = Users + 1 /\ using' # {} /\ using' \subseteq User
<1>1. IsFiniteSet(using)
  BY FS_Subset, SrvConnAssumption DEF ScTypeOK
<1> QED BY <1>1, FS_AddElement DEF ScTypeOK, Users

LEMMA UserGoes ==
    ASSUME ScTypeOK, NEW u \in using, using' = using \ {u}
    PROVE  Users' = Users - 1 /\ using' \subseteq User
<1>1. IsFiniteSet(using)
  BY FS_Subset, SrvConnAssumption DEF ScTypeOK
<1> QED BY <1>1, FS_RemoveElement DEF ScTypeOK, Users

(* What each context is doing tells the phase.                              *)
LEMMA WhoHolds ==
    ASSUME ScInv
    PROVE  /\ "active" \notin bits => Dormant
           /\ pending => Armed
           /\ timer = "try" => Trying
           /\ timer = "connect" => Connecting
           /\ drop # "idle" => Dropping
           /\ rel # "idle" => Releasing
           /\ dpc \in {"stop", "put"} => Disconnecting
  BY DEF ScInv, OneHand, Dormant, Armed, Trying, Connecting, InService, Dropping, Waiting,
      Releasing, Disconnecting, Stopped, Running, NoDrop

(* The disconnect that neither starts nor stops anything leaves the phase.  *)
LEMMA DisconnectMoves ==
    ASSUME ScInv, dpc \notin {"idle", "stop", "put"},
           dpc' \notin {"stop", "put"}, dpc = "return" => dpc' = "done", dpc # "done",
           UNCHANGED <<refcnt, bits, sk, tcp, pending, timer, drop, rel, using>>
    PROVE  OneHand'
  BY DEF ScInv, OneHand, Dormant, Armed, Trying, Connecting, InService,
      Dropping, Waiting, Releasing, Disconnecting, Stopped, Running, NoDrop, Quiet, Linked, Gone, Users

-----------------------------------------------------------------------------
(* Steps                                                                    *)

(* Start and connect attempts.                                              *)
LEMMA ActivateStep ==
    ASSUME ScInv, tfw_sock_srv_connect_srv
    PROVE  ScInv'
<1>1. ScTypeOK'
  BY DEF ScInv, ScTypeOK, tfw_sock_srv_connect_srv
<1>2. Armed'
  BY WhoHolds DEF ScInv, Dormant, Armed, Running, NoDrop, Quiet, tfw_sock_srv_connect_srv
<1>3. ServerInv'
  BY WhoHolds DEF ScInv, ServerInv, ServerPutOnce, tfw_sock_srv_connect_srv
<1> QED BY <1>1, <1>2, <1>3 DEF ScInv, OneHand

(* The timer fires.                                                         *)
LEMMA FireStep ==
    ASSUME ScInv, tfw_sock_srv_connect_retry_timer_cb
    PROVE  ScInv'
<1>1. ScTypeOK'
  <2>1. ScTypeOK /\ pending' = FALSE /\ timer' = "try"
    BY DEF ScInv, tfw_sock_srv_connect_retry_timer_cb
  <2>2. UNCHANGED <<refcnt, bits, sk, tcp, closing, drop, rel, using, dpc, dsk, srvRef, freed>>
    BY DEF tfw_sock_srv_connect_retry_timer_cb
  <2>3. pending' \in BOOLEAN /\ timer' \in {"no", "try", "connect", "nested"}
    BY <2>1
  <2> QED BY <2>1, <2>2, <2>3, ZenonT(60) DEF ScTypeOK
<1>2. Trying'
  <2>1. Armed
    BY WhoHolds DEF ScInv, tfw_sock_srv_connect_retry_timer_cb
  <2>2. pending' = FALSE /\ timer' = "try" /\ UNCHANGED <<bits, tcp, drop, rel, dpc>>
    BY DEF tfw_sock_srv_connect_retry_timer_cb
  <2>3. Running' /\ NoDrop' /\ Quiet'
    BY <2>1, <2>2 DEF Armed, Running, NoDrop, Quiet
  <2>4. using' = {} /\ refcnt' = DEATHCNT
    BY <2>1 DEF Armed, tfw_sock_srv_connect_retry_timer_cb
  <2> QED BY <2>2, <2>3, <2>4 DEF Trying
<1>3. ServerInv'
  BY DEF ScInv, ServerInv, ServerPutOnce, tfw_sock_srv_connect_retry_timer_cb
<1> QED BY <1>1, <1>2, <1>3 DEF ScInv, OneHand

(* A socket is created.                                                     *)
LEMMA TryStep ==
    ASSUME ScInv, tfw_sock_srv_connect_try
    PROVE  ScInv'
<1>1. ScTypeOK'
  BY SrvConnAssumption DEF ScInv, ScTypeOK, tfw_sock_srv_connect_try, Sock, NoSock
<1>2. Connecting'
  BY WhoHolds DEF ScInv, Trying, Connecting, Running, NoDrop, Quiet, tfw_sock_srv_connect_try, Quiet, Linked, Gone, Sock, NoSock, ScTypeOK
<1>3. ServerInv'
  BY DEF ScInv, ServerInv, ServerPutOnce, tfw_sock_srv_connect_try
<1> QED BY <1>1, <1>2, <1>3 DEF ScInv, OneHand

(* No socket is created.                                                    *)
LEMMA TryFailedStep ==
    ASSUME ScInv, ConnectTryFailed
    PROVE  ScInv'
<1>1. ScTypeOK'
  BY DEF ScInv, ScTypeOK, ConnectTryFailed
<1>2. Releasing'
  BY WhoHolds DEF ScInv, Trying, Releasing, Running, NoDrop, Quiet, ConnectTryFailed
<1>3. ServerInv'
  BY WhoHolds DEF ScInv, ServerInv, ServerPutOnce, ConnectTryFailed, Trying, Running
<1> QED BY <1>1, <1>2, <1>3 DEF ScInv, OneHand

(* ss_connect.                                                              *)
LEMMA IssuedStep ==
    ASSUME ScInv, ConnectIssued
    PROVE  ScInv'
<1>1. ScTypeOK'
  BY DEF ScInv, ScTypeOK, ConnectIssued, DropSock
<1>2. (Connecting \/ Dropping)'
  <2>1. Connecting /\ Linked("fresh")
    BY WhoHolds DEF Connecting, ConnectIssued
  <2>2. CASE tcp' = [tcp EXCEPT ![sk] = "syn"] /\ timer' = "no" /\ UNCHANGED drop
    BY <2>1, <2>2 DEF Connecting, Running, NoDrop, Linked, ConnectIssued, ScInv, ScTypeOK
  <2>3. CASE DropSock(sk) /\ timer' = "nested"
    <3>1. Quiet' /\ using' = {} /\ Users' = 0
      BY <2>1, <2>3, UsersCount DEF Connecting, Quiet, Linked, Gone, DropSock, ConnectIssued, ScInv, ScTypeOK, Users
    <3> QED BY <2>1, <2>3, <3>1, SrvConnAssumption DEF Connecting, Dropping, Running, NoDrop, DropSock, ConnectIssued
  <2> QED BY <2>2, <2>3 DEF ConnectIssued
<1>3. ServerInv'
  BY DEF ScInv, ServerInv, ServerPutOnce, ConnectIssued, DropSock
<1> QED BY <1>1, <1>2, <1>3 DEF ScInv, OneHand

(* The callback returns.                                                    *)
LEMMA ReturnStep ==
    ASSUME ScInv, TimerReturn
    PROVE  ScInv'
<1>1. ScTypeOK'
  BY DEF ScInv, ScTypeOK, TimerReturn
<1>2. OneHand'
  BY DEF ScInv, ScTypeOK, OneHand, Dormant, Armed, Trying, Connecting, InService,
      Dropping, Waiting, Releasing, Disconnecting, Stopped, Running, NoDrop, Quiet, Linked, Gone,
      TimerReturn
<1>3. ServerInv'
  BY DEF ScInv, ServerInv, ServerPutOnce, TimerReturn
<1> QED BY <1>1, <1>2, <1>3 DEF ScInv, OneHand

(* The connection is established.                                           *)
LEMMA CompleteStep ==
    ASSUME ScInv, NEW s \in Sock, tfw_sock_srv_connect_complete(s)
    PROVE  ScInv'
<1>1. ScTypeOK'
  BY SrvConnAssumption DEF ScInv, ScTypeOK, tfw_sock_srv_connect_complete
<1>2. InService'
  BY UsersCount, SrvConnAssumption DEF ScInv, ScTypeOK, OneHand, Dormant, Armed, Trying, Connecting, InService,
      Dropping, Waiting, Releasing, Disconnecting, Stopped, Running, NoDrop, Quiet, Linked, Gone,
      tfw_sock_srv_connect_complete, Users
<1>3. ServerInv'
  BY DEF ScInv, ServerInv, ServerPutOnce, tfw_sock_srv_connect_complete
<1> QED BY <1>1, <1>2, <1>3 DEF ScInv, OneHand

(* A socket that is connecting or connected is the one linked.              *)
LEMMA SockDropped ==
    ASSUME ScInv, NEW s \in Sock, tcp[s] \in {"syn", "est"}, DropSock(s),
           UNCHANGED <<refcnt, bits, pending, timer, rel, using, dpc>>
    PROVE  Dropping'
<1>1. s = sk /\ ((Connecting /\ timer = "no") \/ InService)
  BY DEF ScInv, ScTypeOK, OneHand, Dormant, Armed, Trying, Connecting, InService,
      Dropping, Waiting, Releasing, Disconnecting, Stopped, Running, NoDrop, Quiet, Linked, Gone
<1>2. Quiet'
  BY <1>1 DEF ScInv, ScTypeOK, Connecting, InService, Linked, Quiet, Gone, DropSock
<1>3. Users' = Users /\ (using = {} => Users = 0)
  BY UsersCount DEF ScInv, Users
<1>4. drop' = (IF "del" \in bits THEN "put" ELSE "mark") /\ Running' /\ ~pending' /\ rel' = "idle" /\ timer' = "no"
  BY <1>1 DEF DropSock, Connecting, InService, Running, NoDrop
<1>5. CASE Connecting
  BY <1>2, <1>3, <1>4, <1>5, SrvConnAssumption DEF Dropping, Connecting
<1>6. CASE InService
  BY <1>2, <1>3, <1>4, <1>6 DEF Dropping, InService
<1> QED BY <1>1, <1>5, <1>6

(* The connection breaks.                                                   *)
LEMMA ErrorStep ==
    ASSUME ScInv, NEW s \in Sock, SockError(s)
    PROVE  ScInv'
<1>1. ScTypeOK'
  BY DEF ScInv, ScTypeOK, SockError, DropSock
<1>2. Dropping'
  BY SockDropped DEF SockError
<1>3. ServerInv'
  BY DEF ScInv, ServerInv, ServerPutOnce, SockError, DropSock
<1> QED BY <1>1, <1>2, <1>3 DEF ScInv, OneHand

(* A close is carried out.                                                  *)
LEMMA CloseStep ==
    ASSUME ScInv, NEW s \in Sock, ss_tx_action(s)
    PROVE  ScInv'
<1>1. ScTypeOK'
  BY DEF ScInv, ScTypeOK, ss_tx_action, DropSock
<1>2. OneHand'
  <2>1. CASE tcp[s] \in {"syn", "est"} /\ DropSock(s)
    BY <2>1, SockDropped DEF ss_tx_action, OneHand
  <2>2. CASE UNCHANGED <<tcp, drop>>
    BY <2>2 DEF ScInv, ScTypeOK, OneHand, Dormant, Armed, Trying, Connecting, InService,
        Dropping, Waiting, Releasing, Disconnecting, Stopped, Running, NoDrop, Quiet, Linked, Gone,
        ss_tx_action, Users
  <2> QED BY <2>1, <2>2 DEF ss_tx_action
<1>3. ServerInv'
  BY DEF ScInv, ServerInv, ServerPutOnce, ss_tx_action, DropSock
<1> QED BY <1>1, <1>2, <1>3 DEF ScInv, OneHand

(* Failover begins.                                                         *)
LEMMA MarkStep ==
    ASSUME ScInv, DropMark
    PROVE  ScInv'
<1>1. ScTypeOK'
  BY SrvConnAssumption DEF ScInv, ScTypeOK, DropMark, Live
<1>2. Dropping'
  <2>1. Dropping
    BY WhoHolds DEF DropMark
  <2>2. /\ Users \in Nat /\ (Users = 0 <=> using = {}) /\ Users' = Users
        /\ DEATHCNT \in Int /\ DEATHCNT + 1 + Users < 0
    BY UsersCount DEF ScInv, Users, DropMark
  <2>3. Quiet' /\ Running'
    BY <2>1 DEF Dropping, Quiet, Running, DropMark
  <2>4. drop = "mark" /\ drop' = "put" /\ UNCHANGED <<bits, pending, timer, rel, using>>
    BY DEF DropMark
  <2>5. CASE using = {} /\ refcnt = DEATHCNT + 1
    <3>1. refcnt' = DEATHCNT + 1 + Users'
      BY <2>2, <2>5 DEF DropMark, Live
    <3> QED BY <2>1, <2>3, <2>4, <2>5, <3>1 DEF Dropping
  <2>6. CASE refcnt = 1 + Users /\ timer = "no"
    <3>1. refcnt' = DEATHCNT + 1 + Users'
      BY <2>2, <2>6 DEF DropMark, Live
    <3> QED BY <2>1, <2>3, <2>4, <2>6, <3>1 DEF Dropping
  <2> QED BY <2>1, <2>4, <2>5, <2>6 DEF Dropping
<1>3. ServerInv'
  BY DEF ScInv, ServerInv, ServerPutOnce, DropMark
<1> QED BY <1>1, <1>2, <1>3 DEF ScInv, OneHand

(* The reference of the socket is put.                                      *)
LEMMA DropPutStep ==
    ASSUME ScInv, DropPut
    PROVE  ScInv'
<1>1. ScTypeOK'
  BY SrvConnAssumption DEF ScInv, ScTypeOK, DropPut, ConnPut, LastPut
<1>2. (Waiting \/ Releasing)'
  <2>1. Dropping
    BY WhoHolds DEF DropPut
  <2>2. /\ Users \in Nat /\ (Users = 0 <=> using = {}) /\ Users' = Users
        /\ DEATHCNT \in Int /\ DEATHCNT + 1 + Users < 0
    BY UsersCount DEF ScInv, Users, DropPut
  <2>3. Quiet' /\ Running' /\ drop' = "idle" /\ UNCHANGED <<pending, timer, using, bits, dpc>>
    BY <2>1 DEF Dropping, Quiet, Running, DropPut
  <2>4. CASE refcnt = DEATHCNT + 1 + Users
    <3>1. refcnt' = DEATHCNT + Users
      BY <2>2, <2>4 DEF DropPut, ConnPut
    <3>2. CASE Users = 0
      <4>1. rel' = "unlink" /\ refcnt' = DEATHCNT
        BY <2>2, <2>4, <3>1, <3>2 DEF DropPut, ConnPut, LastPut
      <4> QED BY <2>1, <2>2, <2>3, <3>2, <4>1 DEF Dropping, Releasing, Running
    <3>3. CASE Users # 0
      <4>1. rel' = rel
        BY <2>2, <2>4, <3>3 DEF DropPut, ConnPut, LastPut
      <4> QED BY <2>1, <2>2, <2>3, <3>1, <3>3, <4>1 DEF Dropping, Waiting, NoDrop
    <3> QED BY <3>2, <3>3
  <2>5. CASE refcnt = 1 + Users /\ "del" \in bits /\ timer = "no"
    <3>1. refcnt' = Users
      BY <2>2, <2>5 DEF DropPut, ConnPut
    <3>2. CASE Users = 0
      <4>1. rel' = "unlink" /\ refcnt' = 0
        BY <2>2, <2>5, <3>1, <3>2 DEF DropPut, ConnPut, LastPut
      <4> QED BY <2>1, <2>2, <2>3, <2>5, <3>2, <4>1 DEF Dropping, Releasing, Running
    <3>3. CASE Users # 0
      <4>1. rel' = rel
        BY <2>2, <2>5, <3>3 DEF DropPut, ConnPut, LastPut
      <4> QED BY <2>1, <2>2, <2>3, <2>5, <3>1, <3>3, <4>1 DEF Dropping, Waiting, NoDrop
    <3> QED BY <3>2, <3>3
  <2> QED BY <2>1, <2>4, <2>5 DEF Dropping, DropPut
<1>3. ServerInv'
  BY WhoHolds DEF ScInv, ServerInv, ServerPutOnce, DropPut, ConnPut, Dropping, Running
<1> QED BY <1>1, <1>2, <1>3 DEF ScInv, OneHand

(* The destructor.                                                          *)
LEMMA UnlinkStep ==
    ASSUME ScInv, Unlink
    PROVE  ScInv'
<1>1. ScTypeOK'
  BY DEF ScInv, ScTypeOK, Unlink, NoSock
<1>2. Releasing'
  BY WhoHolds DEF ScInv, Releasing, Running, NoDrop, Quiet, Unlink, NoSock
<1>3. ServerInv'
  BY DEF ScInv, ServerInv, ServerPutOnce, Unlink
<1> QED BY <1>1, <1>2, <1>3 DEF ScInv, OneHand

(* The destructor looks at TFW_CONN_B_DEL.                                  *)
LEMMA TestDelStep ==
    ASSUME ScInv, TestDel
    PROVE  ScInv'
<1>1. ScTypeOK'
  BY DEF ScInv, ScTypeOK, TestDel
<1>2. Releasing'
  BY WhoHolds DEF ScInv, Releasing, Running, NoDrop, Quiet, TestDel
<1>3. ServerInv'
  BY DEF ScInv, ServerInv, ServerPutOnce, TestDel
<1> QED BY <1>1, <1>2, <1>3 DEF ScInv, OneHand

(* The destructor sets the timer.                                           *)
LEMMA LaterStep ==
    ASSUME ScInv, tfw_sock_srv_connect_try_later
    PROVE  ScInv'
<1>1. ScTypeOK'
  BY DEF ScInv, ScTypeOK, tfw_sock_srv_connect_try_later
<1>2. Armed'
  BY WhoHolds DEF ScInv, Releasing, Armed, Running, NoDrop, Quiet, tfw_sock_srv_connect_try_later
<1>3. ServerInv'
  BY DEF ScInv, ServerInv, ServerPutOnce, tfw_sock_srv_connect_try_later
<1> QED BY <1>1, <1>2, <1>3 DEF ScInv, OneHand

(* The destructor stops the connection.                                     *)
LEMMA StopBitStep ==
    ASSUME ScInv, StopBit
    PROVE  ScInv'
<1>1. ScTypeOK'
  BY DEF ScInv, ScTypeOK, StopBit
<1>2. Releasing'
  BY WhoHolds DEF ScInv, Releasing, Running, NoDrop, Quiet, StopBit
<1>3. ServerInv'
  BY WhoHolds DEF ScInv, ServerInv, ServerPutOnce, StopBit, Releasing
<1> QED BY <1>1, <1>2, <1>3 DEF ScInv, OneHand

(* The destructor puts the server.                                          *)
LEMMA StopPutStep ==
    ASSUME ScInv, StopPut
    PROVE  ScInv'
<1>1. ScTypeOK'
  BY DEF ScInv, ScTypeOK, StopPut, SrvPut
<1>2. Stopped'
  BY WhoHolds DEF ScInv, Releasing, Stopped, Running, NoDrop, Quiet, StopPut, SrvPut
<1>3. ServerInv'
  <2>1. Releasing /\ rel = "put" /\ dpc # "put" /\ "active" \in bits /\ "stopped" \in bits
    BY WhoHolds DEF Releasing, StopPut
  <2>2. srvRef = (IF dpc = "done" THEN 0 ELSE 1) + 1
    BY <2>1 DEF ScInv, ServerInv, ServerPutOnce
  <2>3. srvRef' = (IF dpc = "done" THEN 0 ELSE 1) /\ ~freed
    BY <2>2 DEF ScInv, ServerInv, StopPut, SrvPut
  <2>4. bits' = bits /\ dpc' = dpc /\ rel' = "idle"
    BY DEF StopPut
  <2>5. freed' <=> srvRef' = 0
    <3>1. freed' <=> srvRef = 1
      BY <2>3, Zenon DEF StopPut, SrvPut
    <3> QED BY <2>2, <2>3, <3>1
  <2>6. ServerPutOnce'
    BY <2>1, <2>3, <2>4 DEF ServerPutOnce
  <2> QED BY <2>5, <2>6 DEF ServerInv
<1> QED BY <1>1, <1>2, <1>3 DEF ScInv, OneHand

(* A scheduler takes the connection.                                        *)
LEMMA GetStep ==
    ASSUME ScInv, NEW u \in User, tfw_srv_conn_get_if_live(u)
    PROVE  ScInv'
<1>1. ScTypeOK'
  BY SrvConnAssumption DEF ScInv, ScTypeOK, tfw_srv_conn_get_if_live, Live
<1>2. OneHand'
  <2>1. /\ Users \in Nat /\ Users' = Users + 1 /\ using' # {} /\ refcnt > 0 /\ refcnt' = refcnt + 1
        /\ (Users = 0 <=> using = {}) /\ DEATHCNT \in Int /\ DEATHCNT + 1 + Users < 0
    BY UserComes, UsersCount DEF ScInv, tfw_srv_conn_get_if_live, Live
  <2>2. UNCHANGED <<bits, sk, tcp, pending, timer, drop, rel, dpc>>
    BY DEF tfw_srv_conn_get_if_live
  <2>3. CASE InService
    <3>1. Linked("est")' /\ Running' /\ NoDrop' /\ refcnt' = 1 + Users'
      BY <2>1, <2>2, <2>3 DEF InService, Running, NoDrop, Linked
    <3>2. InService'
      BY <2>2, <2>3, <3>1 DEF InService
    <3> QED BY <3>2 DEF OneHand
  <2>4. CASE Dropping
    <3>1. Quiet' /\ Running'
      BY <2>2, <2>4 DEF Dropping, Running, Quiet
    <3>2. (drop = "put" => "del" \in bits) /\ timer = "no" /\ refcnt = 1 + Users
      BY <2>1, <2>4 DEF Dropping
    <3>3. refcnt' = 1 + Users'
      BY <2>1, <3>2
    <3>4. Dropping'
      BY <2>2, <2>4, <3>1, <3>2, <3>3 DEF Dropping
    <3> QED BY <3>4 DEF OneHand
  <2>5. CASE Waiting
    <3>1. Quiet' /\ Running' /\ NoDrop'
      BY <2>2, <2>5 DEF Waiting, Running, Quiet, NoDrop
    <3>2. refcnt = Users /\ "del" \in bits
      BY <2>1, <2>5 DEF Waiting
    <3>3. refcnt' = Users'
      BY <2>1, <3>2
    <3>4. Waiting'
      BY <2>1, <2>2, <2>5, <3>1, <3>2, <3>3 DEF Waiting
    <3> QED BY <3>4 DEF OneHand
  <2>6. InService \/ Dropping \/ Waiting
    BY <2>1 DEF ScInv, OneHand, Dormant, Armed, Trying, Connecting, Releasing, Disconnecting, Stopped
  <2> QED BY <2>3, <2>4, <2>5, <2>6
<1>3. ServerInv'
  BY DEF ScInv, ServerInv, ServerPutOnce, tfw_srv_conn_get_if_live
<1> QED BY <1>1, <1>2, <1>3 DEF ScInv, OneHand

(* A user puts the connection.                                              *)
LEMMA PutStep ==
    ASSUME ScInv, NEW u \in User, tfw_srv_conn_put(u)
    PROVE  ScInv'
<1>1. ScTypeOK'
  BY SrvConnAssumption DEF ScInv, ScTypeOK, tfw_srv_conn_put, ConnPut, LastPut
<1>2. OneHand'
  <2>1. /\ Users \in Nat /\ Users # 0 /\ Users' = Users - 1
        /\ DEATHCNT \in Int /\ DEATHCNT + 1 + Users < 0
        /\ (Users' = 0 <=> using' = {})
    <3>1. u \in using /\ using' = using \ {u} /\ ScTypeOK
      BY DEF tfw_srv_conn_put, ScInv
    <3>2. Users' = Users - 1
      BY <3>1, UserGoes
    <3>3. Users \in Nat /\ Users # 0 /\ DEATHCNT \in Int /\ DEATHCNT + 1 + Users < 0
      BY <3>1, UsersCount
    <3>4. IsFiniteSet(using')
      BY <1>1, FS_Subset, SrvConnAssumption DEF ScTypeOK
    <3>5. Users' = 0 <=> using' = {}
      BY <3>4, FS_EmptySet DEF Users
    <3> QED BY <3>2, <3>3, <3>5
  <2>2. UNCHANGED <<bits, sk, tcp, pending, timer, drop, dpc>> /\ refcnt' = refcnt - 1 /\ using # {}
        /\ (rel' = IF LastPut(refcnt - 1) THEN "unlink" ELSE rel)
    BY DEF tfw_srv_conn_put, ConnPut
  <2>3. CASE InService
    <3>1. refcnt' = 1 + Users' /\ ~LastPut(refcnt - 1)
      BY <2>1, <2>2, <2>3 DEF InService, LastPut
    <3>2. Linked("est")' /\ Running' /\ NoDrop'
      BY <2>2, <2>3, <3>1 DEF InService, Running, NoDrop, Linked
    <3>3. InService'
      BY <2>2, <2>3, <3>1, <3>2 DEF InService
    <3> QED BY <3>3 DEF OneHand
  <2>4. CASE Dropping
    <3>1. Quiet' /\ Running' /\ drop' # "idle" /\ ~pending'
      BY <2>2, <2>4 DEF Dropping, Running, Quiet
    <3>2. timer = "no" /\ ~(drop = "mark" /\ using = {})
      BY <2>2, <2>4 DEF Dropping
    <3>3. CASE drop = "put" /\ refcnt = DEATHCNT + 1 + Users
      <4>1. refcnt' = DEATHCNT + 1 + Users' /\ ~LastPut(refcnt - 1)
        BY <2>1, <2>2, <3>3 DEF LastPut
      <4> QED BY <2>2, <2>4, <3>1, <3>2, <3>3, <4>1 DEF Dropping, OneHand
    <3>4. CASE (drop = "put" => "del" \in bits) /\ refcnt = 1 + Users
      <4>1. refcnt' = 1 + Users' /\ ~LastPut(refcnt - 1)
        BY <2>1, <2>2, <3>4 DEF LastPut
      <4> QED BY <2>2, <2>4, <3>1, <3>2, <3>4, <4>1 DEF Dropping, OneHand
    <3> QED BY <2>4, <3>2, <3>3, <3>4 DEF Dropping
  <2>5. CASE Waiting
    <3>1. Quiet' /\ Running' /\ drop' = "idle" /\ ~pending' /\ timer' = "no"
      BY <2>2, <2>5 DEF Waiting, Running, Quiet, NoDrop
    <3>2. \/ refcnt' = DEATHCNT + Users'
          \/ refcnt' = Users' /\ "del" \in bits'
      BY <2>1, <2>2, <2>5 DEF Waiting
    <3>3. LastPut(refcnt - 1) <=> Users' = 0
      BY <2>1, <2>2, <2>5 DEF Waiting, LastPut
    <3>4. CASE Users' = 0
      <4>1. rel' = "unlink" /\ using' = {}
        BY <2>1, <2>2, <3>3, <3>4
      <4>2. refcnt' = DEATHCNT \/ (refcnt' = 0 /\ "del" \in bits')
        BY <2>1, <3>2, <3>4
      <4>3. Releasing'
        BY <3>1, <4>1, <4>2 DEF Releasing, Running
      <4> QED BY <4>3 DEF OneHand
    <3>5. CASE Users' # 0
      <4>1. rel' = "idle" /\ using' # {}
        BY <2>1, <2>2, <2>5, <3>3, <3>5 DEF Waiting, NoDrop
      <4>2. Waiting'
        BY <3>1, <3>2, <4>1 DEF Waiting, NoDrop
      <4> QED BY <4>2 DEF OneHand
    <3> QED BY <3>4, <3>5
  <2>6. InService \/ Dropping \/ Waiting
    BY <2>2 DEF ScInv, OneHand, Dormant, Armed, Trying, Connecting, Releasing, Disconnecting, Stopped
  <2> QED BY <2>3, <2>4, <2>5, <2>6
<1>3. ServerInv'
  BY WhoHolds DEF ScInv, ServerInv, ServerPutOnce, tfw_srv_conn_put, ConnPut, Releasing
<1> QED BY <1>1, <1>2, <1>3 DEF ScInv, OneHand

(* tfw_sock_srv_disconnect begins.                                          *)
LEMMA StartStep ==
    ASSUME ScInv, DisconnectStart
    PROVE  ScInv'
<1>1. ScTypeOK'
  <2>1. ScTypeOK /\ bits \subseteq {"active", "del", "stopped"}
    BY DEF ScInv, ScTypeOK
  <2>2. bits' \subseteq {"active", "del", "stopped"} /\ dpc' \in {"return", "timer"}
    BY <2>1 DEF DisconnectStart
  <2>3. UNCHANGED <<refcnt, sk, tcp, closing, pending, timer, drop, rel, using, dsk, srvRef, freed>>
    BY DEF DisconnectStart
  <2> QED BY <2>1, <2>2, <2>3 DEF ScTypeOK
<1>2. OneHand'
  <2>1. CASE "active" \notin bits
    <3>1. Dormant
      BY <2>1, WhoHolds
    <3> QED BY <2>1, <3>1 DEF DisconnectStart, OneHand, Dormant, Quiet, NoDrop
  <2>2. CASE "active" \in bits
    <3>1. bits' = bits \cup {"del"} /\ dpc' = "timer" /\ dpc = "idle" /\ Users' = Users
      BY <2>2 DEF DisconnectStart, Users
    <3> QED BY <2>2, <3>1 DEF ScInv, ScTypeOK, OneHand, Dormant, Armed, Trying, Connecting, InService,
        Dropping, Waiting, Releasing, Disconnecting, Stopped, Running, NoDrop, Quiet, Linked, Gone,
        DisconnectStart
  <2> QED BY <2>1, <2>2
<1>3. ServerInv'
  BY DEF ScInv, ServerInv, ServerPutOnce, DisconnectStart
<1> QED BY <1>1, <1>2, <1>3 DEF ScInv, OneHand

(* tfw_sock_srv_disconnect deletes the timer.                               *)
LEMMA DelTimerStep ==
    ASSUME ScInv, DelTimer
    PROVE  ScInv'
<1>1. ScTypeOK'
  BY DEF ScInv, ScTypeOK, DelTimer
<1>2. OneHand'
  BY DEF ScInv, ScTypeOK, OneHand, Dormant, Armed, Trying, Connecting, InService,
      Dropping, Waiting, Releasing, Disconnecting, Stopped, Running, NoDrop, Quiet, Linked, Gone,
      DelTimer, Users
<1>3. ServerInv'
  BY DEF ScInv, ServerInv, ServerPutOnce, DelTimer
<1> QED BY <1>1, <1>2, <1>3 DEF ScInv, OneHand

(* tfw_sock_srv_disconnect looks at the counter.                            *)
LEMMA ReadStep ==
    ASSUME ScInv, DisconnectRead
    PROVE  ScInv'
<1>1. ScTypeOK'
  BY DEF ScInv, ScTypeOK, DisconnectRead
<1>2. OneHand'
  BY DisconnectMoves DEF DisconnectRead
<1>3. ServerInv'
  BY DEF ScInv, ServerInv, ServerPutOnce, DisconnectRead
<1> QED BY <1>1, <1>2, <1>3 DEF ScInv, OneHand

(* tfw_sock_srv_disconnect looks at TFW_CONN_B_STOPPED.                     *)
LEMMA TestStep ==
    ASSUME ScInv, DisconnectTest
    PROVE  ScInv'
<1>1. ScTypeOK'
  BY DEF ScInv, ScTypeOK, DisconnectTest
<1>2. OneHand'
  BY DisconnectMoves DEF DisconnectTest
<1>3. ServerInv'
  BY DEF ScInv, ServerInv, ServerPutOnce, DisconnectTest
<1> QED BY <1>1, <1>2, <1>3 DEF ScInv, OneHand

(* tfw_sock_srv_disconnect closes the connection.                           *)
LEMMA ConnCloseStep ==
    ASSUME ScInv, tfw_connection_close
    PROVE  ScInv'
<1>1. ScTypeOK'
  BY DEF ScInv, ScTypeOK, tfw_connection_close
<1>2. OneHand'
  BY DisconnectMoves DEF tfw_connection_close
<1>3. ServerInv'
  BY DEF ScInv, ServerInv, ServerPutOnce, tfw_connection_close
<1> QED BY <1>1, <1>2, <1>3 DEF ScInv, OneHand

(* The close is queued.                                                     *)
LEMMA SsCloseStep ==
    ASSUME ScInv, ss_close
    PROVE  ScInv'
<1>1. ScTypeOK'
  BY DEF ScInv, ScTypeOK, ss_close
<1>2. OneHand'
  BY DisconnectMoves DEF ss_close
<1>3. ServerInv'
  BY DEF ScInv, ServerInv, ServerPutOnce, ss_close
<1> QED BY <1>1, <1>2, <1>3 DEF ScInv, OneHand

(* tfw_sock_srv_disconnect stops the connection.                            *)
LEMMA DStopStep ==
    ASSUME ScInv, DisconnectStop
    PROVE  ScInv'
<1>1. ScTypeOK'
  BY DEF ScInv, ScTypeOK, DisconnectStop
<1>2. Disconnecting'
  BY WhoHolds DEF ScInv, Disconnecting, Running, NoDrop, Quiet, DisconnectStop
<1>3. ServerInv'
  BY WhoHolds DEF ScInv, ServerInv, ServerPutOnce, DisconnectStop, Disconnecting, NoDrop
<1> QED BY <1>1, <1>2, <1>3 DEF ScInv, OneHand

(* tfw_sock_srv_disconnect puts the server.                                 *)
LEMMA DPutStep ==
    ASSUME ScInv, DisconnectPut
    PROVE  ScInv'
<1>1. ScTypeOK'
  BY DEF ScInv, ScTypeOK, DisconnectPut, SrvPut
<1>2. Stopped'
  BY WhoHolds DEF ScInv, Disconnecting, Stopped, Running, NoDrop, Quiet, DisconnectPut, SrvPut
<1>3. ServerInv'
  <2>1. dpc = "put" /\ dpc' = "return" /\ rel # "put" /\ rel' = rel /\ {"active", "stopped"} \subseteq bits /\ bits' = bits
    BY WhoHolds DEF DisconnectPut, Disconnecting, NoDrop
  <2>2. srvRef = 2 /\ ~freed
    BY <2>1 DEF ScInv, ServerInv, ServerPutOnce
  <2>3. srvRef' = 1
    BY <2>2 DEF DisconnectPut, SrvPut
  <2>4. ~freed'
    <3>1. srvRef # 1
      BY <2>2
    <3> QED BY <2>2, <3>1, Zenon DEF DisconnectPut, SrvPut
  <2>5. ServerPutOnce'
    BY <2>1, <2>3 DEF ServerPutOnce
  <2> QED BY <2>3, <2>4, <2>5 DEF ServerInv
<1> QED BY <1>1, <1>2, <1>3 DEF ScInv, OneHand

(* The server is put by the caller.                                         *)
LEMMA DReturnStep ==
    ASSUME ScInv, DisconnectReturn
    PROVE  ScInv'
<1>1. ScTypeOK'
  BY DEF ScInv, ScTypeOK, DisconnectReturn, SrvPut
<1>2. OneHand'
  BY DisconnectMoves DEF DisconnectReturn
<1>3. ServerInv'
  <2>1. dpc = "return" /\ dpc' = "done" /\ bits' = bits /\ rel' = rel
    BY DEF DisconnectReturn
  <2>2. srvRef \in 1..2 /\ ServerPutOnce
    BY <2>1 DEF ScInv, ServerInv, ServerPutOnce
  <2>3. srvRef' = srvRef - 1 /\ ~freed
    BY <2>2 DEF ScInv, ServerInv, DisconnectReturn, SrvPut
  <2>4. freed' <=> srvRef' = 0
    <3>1. freed' <=> srvRef = 1
      BY <2>3, Zenon DEF DisconnectReturn, SrvPut
    <3> QED BY <2>2, <2>3, <3>1
  <2>5. ServerPutOnce'
    BY <2>1, <2>2, <2>3 DEF ServerPutOnce
  <2> QED BY <2>4, <2>5 DEF ServerInv
<1> QED BY <1>1, <1>2, <1>3 DEF ScInv, OneHand

-----------------------------------------------------------------------------
(* The theorem                                                              *)

LEMMA ConnStarts == Init => ScInv
<1> SUFFICES ASSUME Init PROVE ScInv
  OBVIOUS
<1>1. ScTypeOK
  <2>1. tcp \in [Sock -> {"none", "fresh", "syn", "est", "dead"}]
    BY DEF Init
  <2>2. pending \in BOOLEAN /\ freed \in BOOLEAN
    BY DEF Init
  <2> QED BY <2>1, <2>2, SrvConnAssumption DEF Init, ScTypeOK, NoSock
<1>2. Dormant
  BY DEF Init, Dormant, Quiet, Gone, NoDrop
<1>3. ServerInv
  BY DEF Init, ServerInv, ServerPutOnce
<1> QED BY <1>1, <1>2, <1>3 DEF ScInv, OneHand

LEMMA ConnSteps == ScInv /\ [Next]_vars => ScInv'
<1> SUFFICES ASSUME ScInv, [Next]_vars PROVE ScInv'
  OBVIOUS
<1>1. CASE tfw_sock_srv_connect_srv
  BY <1>1, ActivateStep
<1>2. CASE Timer
  BY <1>2, FireStep, TryStep, TryFailedStep, IssuedStep, ReturnStep DEF Timer
<1>3. CASE Upcall
  BY <1>3, CompleteStep, ErrorStep DEF Upcall
<1>4. CASE Drop
  BY <1>4, MarkStep, DropPutStep DEF Drop
<1>5. CASE Release
  BY <1>5, UnlinkStep, TestDelStep, LaterStep, StopBitStep, StopPutStep DEF Release
<1>6. CASE \E s \in Sock : ss_tx_action(s)
  BY <1>6, CloseStep
<1>7. CASE \E u \in User : tfw_srv_conn_get_if_live(u)
  BY <1>7, GetStep
<1>8. CASE \E u \in User : tfw_srv_conn_put(u)
  BY <1>8, PutStep
<1>9. CASE DisconnectStart
  BY <1>9, StartStep
<1>10. CASE Disconnect
  BY <1>10, DelTimerStep, ReadStep, TestStep, ConnCloseStep, SsCloseStep, DStopStep, DPutStep, DReturnStep
      DEF Disconnect
<1>11. CASE UNCHANGED vars
  <2>1. ScTypeOK'
    BY <1>11 DEF ScInv, ScTypeOK, vars
  <2>2. OneHand'
    BY <1>11 DEF ScInv, OneHand, Dormant, Armed, Trying, Connecting, InService, Dropping, Waiting,
        Releasing, Disconnecting, Stopped, Running, NoDrop, Quiet, Linked, Gone, Users, vars
  <2>3. ServerInv'
    BY <1>11 DEF ScInv, ServerInv, ServerPutOnce, vars
  <2> QED BY <2>1, <2>2, <2>3 DEF ScInv
<1> QED BY <1>1, <1>2, <1>3, <1>4, <1>5, <1>6, <1>7, <1>8, <1>9, <1>10, <1>11 DEF Next

(* The phases tell who may hold the connection.                             *)
LEMMA ConnGives == ScInv => ReleasedOnce
<1> SUFFICES ASSUME ScInv PROVE ReleasedOnce
  OBVIOUS
<1>1. /\ Users \in Nat /\ (Users = 0 <=> using = {}) /\ DEATHCNT \in Int /\ DEATHCNT + 1 + Users < 0
      /\ Cardinality(User) \in Nat /\ Users <= Cardinality(User)
  BY UsersCount, FS_Subset, FS_CardinalityType, SrvConnAssumption DEF ScInv, ScTypeOK, Users
<1>2. srvRef \in 0..2
  BY DEF ScInv, ServerInv, ServerPutOnce
<1>3. refcnt \in (DEATHCNT .. DEATHCNT + 1 + Cardinality(User)) \cup (0 .. 1 + Cardinality(User))
  BY <1>1 DEF ScInv, OneHand, Dormant, Armed, Trying, Connecting, InService, Dropping, Waiting,
      Releasing, Disconnecting, Stopped
<1>4. TypeOK
  BY <1>2, <1>3 DEF ScInv, ScTypeOK, TypeOK
<1>5. ReuseUnused
  BY <1>1 DEF ScInv, OneHand, Dormant, Armed, Trying, Connecting, InService, Dropping, Waiting,
      Releasing, Disconnecting, Stopped, NoDrop, ReuseUnused, Live
<1>6. FreedIsQuiet
  <2> SUFFICES ASSUME freed PROVE FreedIsQuiet
    BY DEF FreedIsQuiet
  <2>1. dpc = "done" /\ ("active" \in bits => "stopped" \in bits /\ rel # "put")
    BY DEF ScInv, ServerInv, ServerPutOnce
  <2>2. Dormant \/ Stopped
    BY <2>1 DEF ScInv, OneHand, Armed, Trying, Connecting, InService, Dropping, Waiting,
      Releasing, Disconnecting, Running
  <2> QED BY <2>2 DEF Dormant, Stopped, NoDrop, FreedIsQuiet
<1> QED BY <1>4, <1>5, <1>6 DEF ScInv, ServerInv, ReleasedOnce

(* A server connection is in the hands of one context at a time, whatever   *)
(* the number of users, of connect attempts and the value of                *)
(* TFW_CONN_DEATHCNT: the destructor and the retry timer never find a user, *)
(* the connection that is freed has nothing left that could touch it, and   *)
(* tfw_srv_conn_stop and the disconnect put the server once between them.   *)
THEOREM ConnReleasedOnce == Spec => []ReleasedOnce
<1>1. Init => ScInv
  BY ConnStarts
<1>2. ScInv /\ [Next]_vars => ScInv'
  BY ConnSteps
<1>3. ScInv => ReleasedOnce
  BY ConnGives
<1> QED BY <1>1, <1>2, <1>3, PTL DEF Spec

-----------------------------------------------------------------------------
(* Shutdown: the inductive invariant                                        *)

Pcs == {"idle", "connect", "connecting", "refused", "new", "nonew", "live", "nolive", "hook",
        "exitnew", "drop", "dropped"}
JobSet == [pc : Pcs, step : {"test", "count", "again"}, conn : Conn \cup {NoConn}]
CntSet == [new : Int, live : Int]
StSet == {"none", "synsent", "live", "gone"}
Scans == {"newconn", "sync"}

StopTypeOK ==
    /\ active \in BOOLEAN
    /\ cnt \in [CPU -> CntSet]
    /\ job \in [CPU -> JobSet]
    /\ st \in [Conn -> StSet]
    /\ acc \in CntSet
    /\ stop \in Scans => todo \subseteq CPU

(* v is the sum of g over the CPUs: F gives the sum over every set of them.  *)
IsSum(F, g) ==
    /\ F \in [SUBSET CPU -> Int] /\ F[{}] = 0
    /\ \A T \in SUBSET CPU : \A c \in CPU : c \notin T => F[T \cup {c}] = F[T] + g[c]
SumIs(g, v) == \E F : IsSum(F, g) /\ F[CPU] = v

(* The part of the counters a handler in a guard has raised and may yet take *)
(* back, and the NEWCONN it holds.                                          *)
Trial(j) == IF j.pc \in {"connect", "live"} /\ j.step = "again" THEN 1 ELSE 0
NewOf(j) == IF j.pc \in {"live", "nolive", "hook", "exitnew"} \/ (j.pc = "new" /\ j.step = "again")
            THEN 1 ELSE 0

Up(s) == s \in {"live", "synsent"}

(* What a handler knows of the state s of its connection.                    *)
Fresh(k, s) == (k \in Clnt /\ s = "none") \/ (k \in Srv /\ s = "synsent")
JobOk(j, s) ==
    /\ j.pc = "idle" <=> j.conn = NoConn
    /\ j.step # "test" => j.pc \in {"connect", "new", "live"}
    /\ j.pc \in {"connect", "connecting", "refused"} => j.conn \in Srv /\ s = "none"
    /\ j.pc \in {"new", "nonew", "hook"} => Fresh(j.conn, s)
    /\ j.pc \in {"live", "nolive"} => j.conn \in Clnt /\ s = "none"
    /\ j.pc = "drop" => Up(s)
    /\ j.pc = "dropped" => s = "gone"
    /\ j.pc = "exitnew" => s \in {"live", "gone"}

(* The connections counted in LIVECONN: alive, or worked on by a handler     *)
(* that has taken their guard or not left it yet.                           *)
Holding(j) == j.pc \in {"connecting", "hook", "dropped"}
Held == {k \in Conn : Up(st[k]) \/ \E c \in CPU : job[c].conn = k /\ Holding(job[c])}
Full == [c \in CPU |-> cnt[c].live - Trial(job[c])]
Rest == [c \in CPU |-> IF c \in todo THEN Full[c] ELSE 0]

(* One handler works on a connection, under the lock of its socket.          *)
OneHandler == \A c, d \in CPU : job[c].conn = job[d].conn /\ job[c].conn # NoConn => c = d
JobsOk == \A c \in CPU : JobOk(job[c], IF job[c].conn = NoConn THEN "none" ELSE st[job[c].conn])
NewCounted == \A c \in CPU : cnt[c].new = NewOf(job[c])
FlagDown == active <=> stop = "run"
LiveCounted == SumIs(Full, Cardinality(Held))
ScanCovers ==
    stop \in Scans => /\ acc.new >= 0
                      /\ \E v \in Int : SumIs(Rest, v) /\ acc.live + v >= Cardinality(Held)
CleanHolds == stop = "clean" => Held = {}

StopInv == /\ StopTypeOK /\ OneHandler /\ JobsOk /\ NewCounted /\ FlagDown
           /\ LiveCounted /\ ScanCovers /\ CleanHolds

-----------------------------------------------------------------------------
(* Sums over the CPUs                                                       *)

(* The CPUs and the connections are finitely many.                          *)
LEMMA CpuFinite == IsFiniteSet(CPU)
  BY StopAssumption

(* Nothing adds up to nothing.                                              *)
LEMMA SumOfZeros ==
    ASSUME NEW g, \A c \in CPU : g[c] = 0
    PROVE  SumIs(g, 0)
<1> DEFINE F == [T \in SUBSET CPU |-> 0]
<1>1. F \in [SUBSET CPU -> Int] /\ F[{}] = 0 /\ F[CPU] = 0
  OBVIOUS
<1>2. ASSUME NEW T \in SUBSET CPU, NEW c \in CPU, c \notin T
      PROVE  F[T \cup {c}] = F[T] + g[c]
  BY <1>2
<1> HIDE DEF F
<1>3. IsSum(F, g)
  BY <1>1, <1>2 DEF IsSum
<1> QED BY <1>1, <1>3 DEF SumIs

(* A change at one CPU changes the sum by as much.                           *)
LEMMA SumMoves ==
    ASSUME NEW g, NEW h, NEW c \in CPU, NEW v \in Int, NEW d \in Int, SumIs(g, v),
           \A x \in CPU : g[x] \in Int /\ h[x] = IF x = c THEN g[x] + d ELSE g[x]
    PROVE  SumIs(h, v + d)
<1>1. PICK F : IsSum(F, g) /\ F[CPU] = v
  BY DEF SumIs
<1> DEFINE G == [T \in SUBSET CPU |-> IF c \in T THEN F[T] + d ELSE F[T]]
<1>2. \A T \in SUBSET CPU : F[T] \in Int
  BY <1>1 DEF IsSum
<1>3. G \in [SUBSET CPU -> Int] /\ G[{}] = 0 /\ G[CPU] = v + d
  BY <1>1, <1>2 DEF IsSum
<1>4. ASSUME NEW T \in SUBSET CPU, NEW x \in CPU, x \notin T
      PROVE  G[T \cup {x}] = G[T] + h[x]
  <2>1. F[T \cup {x}] = F[T] + g[x] /\ F[T] \in Int /\ T \cup {x} \in SUBSET CPU /\ g[x] \in Int
    BY <1>1, <1>2, <1>4 DEF IsSum
  <2>2. CASE x = c
    <3>1. G[T] = F[T] /\ G[T \cup {x}] = F[T \cup {x}] + d /\ h[x] = g[x] + d
      BY <1>4, <2>1, <2>2
    <3> QED BY <2>1, <3>1
  <2>3. CASE x # c /\ c \in T
    <3>1. G[T] = F[T] + d /\ G[T \cup {x}] = F[T \cup {x}] + d /\ h[x] = g[x]
      BY <2>1, <2>3
    <3> QED BY <2>1, <3>1
  <2>4. CASE x # c /\ c \notin T
    <3>1. G[T] = F[T] /\ G[T \cup {x}] = F[T \cup {x}] /\ h[x] = g[x]
      BY <2>1, <2>4
    <3> QED BY <2>1, <3>1
  <2> QED BY <2>2, <2>3, <2>4
<1> HIDE DEF G
<1>5. IsSum(G, h)
  BY <1>3, <1>4 DEF IsSum
<1> QED BY <1>3, <1>5 DEF SumIs

(* The sum depends on the values only.                                      *)
LEMMA SameSum ==
    ASSUME NEW g, NEW h, NEW v, SumIs(g, v), \A c \in CPU : g[c] = h[c]
    PROVE  SumIs(h, v)
  BY DEF SumIs, IsSum

(* Only 0 is the sum of zeros: a smallest set of CPUs with another sum would *)
(* have a smaller one.                                                      *)
LEMMA ZerosAddUp ==
    ASSUME NEW g, NEW v, SumIs(g, v), \A c \in CPU : g[c] = 0
    PROVE  v = 0
<1>1. PICK F : IsSum(F, g) /\ F[CPU] = v
  BY DEF SumIs
<1> DEFINE Bad == {n \in Nat : \E T \in SUBSET CPU : Cardinality(T) = n /\ F[T] # 0}
<1>2. ASSUME v # 0 PROVE FALSE
  <2>1. Cardinality(CPU) \in Bad
    BY <1>1, <1>2, CpuFinite, FS_CardinalityType
  <2>2. PICK n \in Bad : \A m \in Bad : ~(<<m, n>> \in OpToRel(<, Nat))
    <3>1. Bad \subseteq Nat /\ Bad # {}
      BY <2>1
    <3> HIDE DEF Bad
    <3> QED BY <3>1, NatLessThanWellFounded, WFMin
  <2>3. PICK T \in SUBSET CPU : Cardinality(T) = n /\ F[T] # 0 /\ n \in Nat
    OBVIOUS
  <2>4. T # {} /\ IsFiniteSet(T)
    BY <1>1, <2>3, CpuFinite, FS_Subset DEF IsSum
  <2>5. PICK c : c \in T
    BY <2>4
  <2>6. Cardinality(T \ {c}) = n - 1 /\ n # 0 /\ n - 1 \in Nat
    <3>1. Cardinality(T \ {c}) = Cardinality(T) - 1 /\ IsFiniteSet(T \ {c})
      BY <2>4, <2>5, FS_RemoveElement
    <3>2. Cardinality(T \ {c}) \in Nat
      BY <3>1, FS_CardinalityType
    <3> QED BY <2>3, <3>1, <3>2
  <2>7. F[T \ {c}] # 0
    <3>1. (T \ {c}) \cup {c} = T /\ T \ {c} \in SUBSET CPU /\ c \notin T \ {c} /\ c \in CPU
      BY <2>5
    <3>2. F[T] = F[T \ {c}] + g[c] /\ F[T \ {c}] \in Int
      BY <1>1, <3>1 DEF IsSum
    <3> QED BY <2>3, <3>1, <3>2
  <2>8. n - 1 \in Bad
    <3>1. T \ {c} \in SUBSET CPU
      OBVIOUS
    <3> QED BY <2>6, <2>7, <3>1
  <2>9. <<n - 1, n>> \in OpToRel(<, Nat)
    <3>1. PICK m \in Nat : m = n - 1
      BY <2>6
    <3>2. m < n /\ <<m, n>> \in Nat \X Nat
      BY <2>3, <3>1
    <3>3. <<m, n>> \in OpToRel(<, Nat)
      BY <2>3, <3>2, Zenon DEF OpToRel
    <3> QED BY <3>1, <3>3
  <2> QED BY <2>2, <2>8, <2>9
<1> QED BY <1>2

-----------------------------------------------------------------------------
(* What a step of a softirq does to the counts                              *)

(* What the type invariant says of one CPU and one connection.              *)
LEMMA StopTypes ==
    ASSUME StopTypeOK
    PROVE  /\ \A c \in CPU : /\ cnt[c] \in CntSet /\ cnt[c].live \in Int /\ cnt[c].new \in Int
                             /\ job[c] \in JobSet /\ job[c].conn \in Conn \cup {NoConn}
                             /\ Trial(job[c]) \in Int /\ Full[c] = cnt[c].live - Trial(job[c])
                             /\ Full[c] \in Int /\ Rest[c] = IF c \in todo THEN Full[c] ELSE 0
           /\ \A k \in Conn : st[k] \in StSet
           /\ acc.live \in Int /\ acc.new \in Int
<1>1. ASSUME NEW c \in CPU
      PROVE  /\ cnt[c] \in CntSet /\ cnt[c].live \in Int /\ cnt[c].new \in Int
             /\ job[c] \in JobSet /\ job[c].conn \in Conn \cup {NoConn}
  BY DEF StopTypeOK, CntSet, JobSet
<1>2. ASSUME NEW c \in CPU
      PROVE  /\ Trial(job[c]) \in Int /\ Full[c] = cnt[c].live - Trial(job[c])
             /\ Rest[c] = IF c \in todo THEN Full[c] ELSE 0
  BY DEF Trial, Full, Rest
<1>3. \A c \in CPU : Full[c] \in Int
  BY <1>1, <1>2
<1>4. /\ \A k \in Conn : st[k] \in StSet
      /\ acc.live \in Int /\ acc.new \in Int
  BY DEF StopTypeOK, CntSet
<1> QED BY <1>1, <1>2, <1>3, <1>4

(* The connections held are finitely many.                                  *)
LEMMA HeldFinite == IsFiniteSet(Held) /\ Cardinality(Held) \in Nat
<1>1. IsFiniteSet(Held)
  BY StopAssumption, FS_Subset DEF Held, Conn
<1> QED BY <1>1, FS_CardinalityType

(* The counters move with the connections they count: by d at the CPU c and  *)
(* in the number of connections, up only while the flag is set.              *)
LEMMA CountsMove ==
    ASSUME StopInv, UNCHANGED ctl, NEW c \in CPU, NEW d \in {-1, 0, 1},
           \A x \in CPU : Full'[x] = IF x = c THEN Full[x] + d ELSE Full[x],
           Cardinality(Held') = Cardinality(Held) + d,
           d = 1 => active,
           ~active => Held' \subseteq Held,
           StopTypeOK'
    PROVE  FlagDown' /\ LiveCounted' /\ ScanCovers' /\ CleanHolds'
<1>1. /\ active' = active /\ stop' = stop /\ todo' = todo /\ acc' = acc
  BY DEF ctl
<1>2. /\ StopTypeOK /\ FlagDown /\ LiveCounted /\ ScanCovers /\ CleanHolds
  BY DEF StopInv
<1>3. FlagDown'
  BY <1>1, <1>2 DEF FlagDown
<1>4. Cardinality(Held) \in Int /\ Cardinality(Held) >= 0
  BY HeldFinite
<1>5. \A x \in CPU : Full[x] \in Int /\ Rest[x] = IF x \in todo THEN Full[x] ELSE 0
  BY <1>2, StopTypes
<1>6. LiveCounted'
  <2>1. SumIs(Full, Cardinality(Held))
    BY <1>2 DEF LiveCounted
  <2>2. PICK v \in Int : v = Cardinality(Held)
    BY <1>4
  <2>6. PICK g, h : g = Full /\ h = Full'
    OBVIOUS
  <2>3. \A x \in CPU : g[x] \in Int /\ h[x] = IF x = c THEN g[x] + d ELSE g[x]
    BY <1>5, <2>6
  <2>4. SumIs(g, v) /\ d \in Int
    BY <2>1, <2>2, <2>6
  <2>5. SumIs(h, v + d)
    BY <2>3, <2>4, SumMoves
  <2> QED BY <2>2, <2>5, <2>6 DEF LiveCounted
<1>7. ScanCovers'
  <2> SUFFICES ASSUME stop \in Scans
               PROVE  /\ acc.new >= 0
                      /\ \E v \in Int : SumIs(Rest', v) /\ acc.live + v >= Cardinality(Held')
    BY <1>1 DEF ScanCovers
  <2>1. PICK v \in Int : /\ acc.new >= 0 /\ SumIs(Rest, v) /\ acc.live + v >= Cardinality(Held)
    BY <1>2 DEF ScanCovers
  <2>2. d \in {-1, 0} /\ acc.live \in Int
    BY <1>2, StopTypes DEF FlagDown, Scans
  <2>3. \A x \in CPU : Rest'[x] = IF x \in todo THEN Full'[x] ELSE 0
    BY <1>1 DEF Rest
  <2>4. PICK g, h : g = Rest /\ h = Rest'
    OBVIOUS
  <2>5. CASE c \in todo
    <3>1. \A x \in CPU : g[x] \in Int /\ h[x] = IF x = c THEN g[x] + d ELSE g[x]
      BY <1>5, <2>2, <2>3, <2>4, <2>5
    <3>4. SumIs(g, v) /\ d \in Int
      BY <2>1, <2>4
    <3>2. SumIs(h, v + d)
      BY <3>1, <3>4, SumMoves
    <3>3. v + d \in Int /\ acc.live + (v + d) >= Cardinality(Held')
      BY <1>4, <2>1, <2>2
    <3> QED BY <2>1, <2>4, <3>2, <3>3
  <2>6. CASE c \notin todo
    <3>1. \A x \in CPU : g[x] = h[x]
      BY <1>5, <2>2, <2>3, <2>4, <2>6
    <3>2. SumIs(h, v)
      BY <2>1, <2>4, <3>1, SameSum
    <3>3. acc.live + v >= Cardinality(Held')
      BY <1>4, <2>1, <2>2
    <3> QED BY <2>1, <2>4, <3>2, <3>3
  <2> QED BY <2>5, <2>6
<1>8. CleanHolds'
  BY <1>1, <1>2 DEF CleanHolds, FlagDown
<1> QED BY <1>3, <1>6, <1>7, <1>8

(* A step of the handler of c on the connection k, which no other handler    *)
(* works on: the handler becomes j, the counters of c become n and the       *)
(* connection s.                                                            *)
LEMMA SoftStep ==
    ASSUME StopInv, UNCHANGED ctl,
           NEW c \in CPU, NEW k \in Conn, NEW j \in JobSet, NEW n \in CntSet, NEW s \in StSet,
           \A x \in CPU \ {c} : job[x].conn # k,
           job[c].conn \in {k, NoConn}, j.conn \in {k, NoConn},
           job' = [job EXCEPT ![c] = j], cnt' = [cnt EXCEPT ![c] = n], st' = [st EXCEPT ![k] = s],
           JobOk(j, s), n.new = NewOf(j),
           \/ /\ (Up(s) \/ Holding(j)) <=> (Up(st[k]) \/ Holding(job[c]))
              /\ n.live - Trial(j) = cnt[c].live - Trial(job[c])
           \/ /\ ~(Up(s) \/ Holding(j)) /\ (Up(st[k]) \/ Holding(job[c]))
              /\ n.live - Trial(j) = cnt[c].live - Trial(job[c]) - 1
           \/ /\ (Up(s) \/ Holding(j)) /\ ~(Up(st[k]) \/ Holding(job[c])) /\ active
              /\ n.live - Trial(j) = cnt[c].live - Trial(job[c]) + 1
    PROVE  StopInv'
<1>1. /\ active' = active /\ stop' = stop /\ todo' = todo /\ acc' = acc
  BY DEF ctl
<1>2. /\ StopTypeOK /\ OneHandler /\ JobsOk /\ NewCounted
      /\ job \in [CPU -> JobSet] /\ cnt \in [CPU -> CntSet] /\ st \in [Conn -> StSet] /\ k # NoConn
  BY StopAssumption DEF StopInv, StopTypeOK, Conn
<1>3. /\ \A x \in CPU : /\ x = c => job'[x] = j /\ cnt'[x] = n
                        /\ x # c => job'[x] = job[x] /\ cnt'[x] = cnt[x]
      /\ \A m \in Conn : /\ m = k => st'[m] = s
                         /\ m # k => st'[m] = st[m]
  BY <1>2
<1>4. StopTypeOK'
  <2>1. job' \in [CPU -> JobSet] /\ cnt' \in [CPU -> CntSet] /\ st' \in [Conn -> StSet]
    BY <1>2
  <2> QED BY <1>1, <1>2, <2>1 DEF StopTypeOK
<1>5. OneHandler'
  <2> SUFFICES ASSUME NEW x \in CPU, NEW y \in CPU, job'[x].conn = job'[y].conn, job'[x].conn # NoConn
               PROVE  x = y
    BY DEF OneHandler
  <2> QED BY <1>2, <1>3 DEF OneHandler
<1>6. JobsOk'
  <2> SUFFICES ASSUME NEW x \in CPU
               PROVE  JobOk(job'[x], IF job'[x].conn = NoConn THEN "none" ELSE st'[job'[x].conn])
    BY DEF JobsOk
  <2>1. CASE x = c /\ j.conn = k
    BY <1>2, <1>3, <2>1
  <2>2. CASE x = c /\ j.conn # k
    <3>1. j.pc = "idle" /\ job'[x] = j /\ j.conn = NoConn
      BY <1>3, <2>2 DEF JobOk
    <3>2. j.step = "test"
      BY <3>1 DEF JobOk, JobSet
    <3> QED BY <3>1, <3>2 DEF JobOk
  <2>3. CASE x # c
    <3>1. job'[x] = job[x] /\ job[x].conn # k /\ job[x].conn \in Conn \cup {NoConn}
      BY <1>2, <1>3, <2>3, StopTypes
    <3>2. JobOk(job[x], IF job[x].conn = NoConn THEN "none" ELSE st[job[x].conn])
      BY <1>2 DEF JobsOk
    <3>3. job[x].conn # NoConn => st'[job[x].conn] = st[job[x].conn]
      BY <1>3, <3>1
    <3> QED BY <3>1, <3>2, <3>3
  <2> QED BY <2>1, <2>2, <2>3
<1>7. NewCounted'
  BY <1>2, <1>3 DEF NewCounted
<1>8. \A m \in Conn \ {k} : m \in Held' <=> m \in Held
  <2> TAKE m \in Conn \ {k}
  <2>1. st'[m] = st[m]
    BY <1>3
  <2>2. ASSUME NEW x \in CPU
        PROVE  (job'[x].conn = m /\ Holding(job'[x])) <=> (job[x].conn = m /\ Holding(job[x]))
    <3>1. CASE x = c
      <4>1. job'[x] = j
        BY <1>3, <3>1
      <4>2. ASSUME m = NoConn PROVE FALSE
        BY <4>2, StopAssumption DEF Conn
      <4>3. j.conn # m /\ job[x].conn # m
        BY <3>1, <4>2
      <4> QED BY <4>1, <4>3
    <3>2. CASE x # c
      BY <1>3, <3>2
    <3> QED BY <3>1, <3>2
  <2> QED BY <2>1, <2>2 DEF Held
<1>9. (k \in Held' <=> Up(s) \/ Holding(j)) /\ (k \in Held <=> Up(st[k]) \/ Holding(job[c]))
  <2>1. \A x \in CPU : x # c => job[x].conn # k /\ job'[x].conn # k
    BY <1>3
  <2>2. Holding(j) => j.conn = k
    BY DEF Holding, JobOk
  <2>3. Holding(job[c]) => job[c].conn = k
    <3>1. JobOk(job[c], IF job[c].conn = NoConn THEN "none" ELSE st[job[c].conn])
      BY <1>2 DEF JobsOk
    <3> QED BY <3>1 DEF JobOk, Holding
  <2>4. st'[k] = s /\ job'[c] = j
    BY <1>3
  <2>5. k \in Held' <=> Up(s) \/ Holding(j)
    BY <2>1, <2>2, <2>4 DEF Held
  <2>6. k \in Held <=> Up(st[k]) \/ Holding(job[c])
    BY <2>1, <2>3 DEF Held
  <2> QED BY <2>5, <2>6
<1>10. Held \subseteq Conn /\ Held' \subseteq Conn
  BY DEF Held
<1>11. \A x \in CPU : /\ Full'[x] = IF x = c THEN n.live - Trial(j) ELSE Full[x]
                      /\ Full[x] \in Int /\ cnt[x].live \in Int /\ Trial(job[x]) \in Int
                      /\ Full[x] = cnt[x].live - Trial(job[x])
  <2>1. \A x \in CPU : Full'[x] = cnt'[x].live - Trial(job'[x])
    BY DEF Full
  <2>2. \A x \in CPU : /\ Full[x] = cnt[x].live - Trial(job[x])
                       /\ Full[x] \in Int /\ cnt[x].live \in Int /\ Trial(job[x]) \in Int
    BY <1>2, StopTypes
  <2> QED BY <1>3, <2>1, <2>2
<1>12. \E d \in {-1, 0, 1} : /\ \A x \in CPU : Full'[x] = IF x = c THEN Full[x] + d ELSE Full[x]
                             /\ Cardinality(Held') = Cardinality(Held) + d
                             /\ d = 1 => active
                             /\ ~active => Held' \subseteq Held
  <2>0. Cardinality(Held) \in Nat /\ IsFiniteSet(Held) /\ n.live \in Int /\ Trial(j) \in Int
    BY HeldFinite DEF CntSet, Trial
  <2>1. CASE /\ (Up(s) \/ Holding(j)) <=> (Up(st[k]) \/ Holding(job[c]))
             /\ n.live - Trial(j) = cnt[c].live - Trial(job[c])
    <3>1. Held' = Held
      BY <1>8, <1>9, <1>10, <2>1
    <3>2. \A x \in CPU : Full'[x] = IF x = c THEN Full[x] + 0 ELSE Full[x]
      BY <1>11, <2>1
    <3> QED BY <2>0, <3>1, <3>2
  <2>2. CASE /\ ~(Up(s) \/ Holding(j)) /\ (Up(st[k]) \/ Holding(job[c]))
             /\ n.live - Trial(j) = cnt[c].live - Trial(job[c]) - 1
    <3>1. Held' = Held \ {k} /\ k \in Held
      BY <1>8, <1>9, <1>10, <2>2
    <3>2. Cardinality(Held') = Cardinality(Held) - 1
      BY <2>0, <3>1, FS_RemoveElement
    <3>3. \A x \in CPU : Full'[x] = IF x = c THEN Full[x] + (-1) ELSE Full[x]
      BY <1>11, <2>2
    <3> QED BY <2>0, <3>1, <3>2, <3>3
  <2>3. CASE /\ (Up(s) \/ Holding(j)) /\ ~(Up(st[k]) \/ Holding(job[c])) /\ active
             /\ n.live - Trial(j) = cnt[c].live - Trial(job[c]) + 1
    <3>1. Held' = Held \cup {k} /\ k \notin Held
      BY <1>8, <1>9, <1>10, <2>3
    <3>2. Cardinality(Held') = Cardinality(Held) + 1
      BY <2>0, <3>1, FS_AddElement
    <3>3. \A x \in CPU : Full'[x] = IF x = c THEN Full[x] + 1 ELSE Full[x]
      BY <1>11, <2>3
    <3> QED BY <2>0, <2>3, <3>2, <3>3
  <2> QED BY <2>1, <2>2, <2>3
<1>13. FlagDown' /\ LiveCounted' /\ ScanCovers' /\ CleanHolds'
  BY <1>4, <1>12, CountsMove
<1> QED BY <1>4, <1>5, <1>6, <1>7, <1>13 DEF StopInv

(* What the handler o of c knows: its connection k is in the state r and no  *)
(* other handler works on it, and the CPU counts m.                          *)
Handles(c, o, m, k, r) ==
    /\ o = job[c] /\ m = cnt[c] /\ k = o.conn /\ r = st[k]
    /\ \A x \in CPU \ {c} : job[x].conn # k
    /\ JobOk(o, r) /\ m.new = NewOf(o)

(* A handler that runs has a connection of its own.                         *)
LEMMA Handled ==
    ASSUME StopInv, NEW c \in CPU, job[c].pc # "idle"
    PROVE  \E o \in JobSet, m \in CntSet, k \in Conn, r \in StSet : Handles(c, o, m, k, r)
<1>1. StopTypeOK /\ OneHandler /\ JobsOk /\ NewCounted
  BY DEF StopInv
<1>2. /\ job[c] \in JobSet /\ cnt[c] \in CntSet /\ job[c].conn \in Conn \cup {NoConn}
      /\ \A k \in Conn : st[k] \in StSet
  BY <1>1, StopTypes
<1>3. JobOk(job[c], IF job[c].conn = NoConn THEN "none" ELSE st[job[c].conn])
  BY <1>1 DEF JobsOk
<1>4. job[c].conn # NoConn /\ job[c].conn \in Conn
  BY <1>2, <1>3 DEF JobOk
<1>5. \A x \in CPU \ {c} : job[x].conn # job[c].conn
  BY <1>1, <1>4 DEF OneHandler
<1>6. cnt[c].new = NewOf(job[c])
  BY <1>1 DEF NewCounted
<1>7. JobOk(job[c], st[job[c].conn])
  BY <1>3, <1>4
<1> QED BY <1>2, <1>4, <1>5, <1>6, <1>7 DEF Handles

(* The handler o becomes j, its connection s and the counters n.             *)
Turns(o, m, k, r, j, n, s) ==
    /\ j.conn \in {k, NoConn} /\ JobOk(j, s) /\ n.new = NewOf(j)
    /\ \/ /\ (Up(s) \/ Holding(j)) <=> (Up(r) \/ Holding(o))
          /\ n.live - Trial(j) = m.live - Trial(o)
       \/ /\ ~(Up(s) \/ Holding(j)) /\ (Up(r) \/ Holding(o))
          /\ n.live - Trial(j) = m.live - Trial(o) - 1
       \/ /\ (Up(s) \/ Holding(j)) /\ ~(Up(r) \/ Holding(o)) /\ active
          /\ n.live - Trial(j) = m.live - Trial(o) + 1

(* SoftStep for a handler that runs.                                        *)
LEMMA HandlerStep ==
    ASSUME StopInv, UNCHANGED ctl, NEW c \in CPU,
           NEW o \in JobSet, NEW m \in CntSet, NEW k \in Conn, NEW r \in StSet, Handles(c, o, m, k, r),
           NEW j \in JobSet, NEW n \in CntSet, NEW s \in StSet,
           job' = [job EXCEPT ![c] = j], cnt' = [cnt EXCEPT ![c] = n], st' = [st EXCEPT ![k] = s],
           Turns(o, m, k, r, j, n, s)
    PROVE  StopInv'
<1>1. /\ job[c] = o /\ cnt[c] = m /\ st[k] = r /\ job[c].conn \in {k, NoConn}
      /\ \A x \in CPU \ {c} : job[x].conn # k
  BY DEF Handles
<1>2. /\ j.conn \in {k, NoConn} /\ JobOk(j, s) /\ n.new = NewOf(j)
      /\ \/ /\ (Up(s) \/ Holding(j)) <=> (Up(st[k]) \/ Holding(job[c]))
            /\ n.live - Trial(j) = cnt[c].live - Trial(job[c])
         \/ /\ ~(Up(s) \/ Holding(j)) /\ (Up(st[k]) \/ Holding(job[c]))
            /\ n.live - Trial(j) = cnt[c].live - Trial(job[c]) - 1
         \/ /\ (Up(s) \/ Holding(j)) /\ ~(Up(st[k]) \/ Holding(job[c])) /\ active
            /\ n.live - Trial(j) = cnt[c].live - Trial(job[c]) + 1
  BY <1>1 DEF Turns
<1> QED BY <1>1, <1>2, SoftStep

(* The values a handler and the counters of its CPU can take.                *)
LEMMA CounterIs ==
    ASSUME NEW a \in Int, NEW b \in Int
    PROVE  \E n \in CntSet : n.new = a /\ n.live = b
<1>1. [new |-> a, live |-> b] \in CntSet
  BY DEF CntSet
<1> QED BY <1>1

EnterNew(c) == cnt' = [cnt EXCEPT ![c]["new"] = @ + 1]
EnterLive(c) == cnt' = [cnt EXCEPT ![c]["live"] = @ + 1]

(* A guard changes one field of the counters of its CPU.                    *)
LEMMA CounterField ==
    ASSUME StopTypeOK, NEW c \in CPU, NEW m \in CntSet, m = cnt[c], NEW n \in CntSet
    PROVE  /\ n.new = m.new /\ n.live = m.live /\ UNCHANGED cnt => cnt' = [cnt EXCEPT ![c] = n]
           /\ n.new = m.new + 1 /\ n.live = m.live /\ EnterNew(c) => cnt' = [cnt EXCEPT ![c] = n]
           /\ n.new = m.new /\ n.live = m.live + 1 /\ EnterLive(c) => cnt' = [cnt EXCEPT ![c] = n]
           /\ n.new = m.new - 1 /\ n.live = m.live /\ ExitNew(c) => cnt' = [cnt EXCEPT ![c] = n]
           /\ n.new = m.new /\ n.live = m.live - 1 /\ ExitLive(c) => cnt' = [cnt EXCEPT ![c] = n]
<1>1. cnt \in [CPU -> CntSet]
  BY DEF StopTypeOK
<1>2. ASSUME n.new = m.new, n.live = m.live, UNCHANGED cnt PROVE cnt' = [cnt EXCEPT ![c] = n]
  <2>1. n = m
    BY <1>2 DEF CntSet
  <2> QED BY <1>1, <1>2, <2>1
<1>3. ASSUME n.new = m.new + 1, n.live = m.live, EnterNew(c)
      PROVE  cnt' = [cnt EXCEPT ![c] = n]
  <2>1. [m EXCEPT !.new = m.new + 1] = n
    BY <1>3 DEF CntSet
  <2> QED BY <1>1, <1>3, <2>1 DEF EnterNew
<1>4. ASSUME n.new = m.new, n.live = m.live + 1, EnterLive(c)
      PROVE  cnt' = [cnt EXCEPT ![c] = n]
  <2>1. [m EXCEPT !.live = m.live + 1] = n
    BY <1>4 DEF CntSet
  <2> QED BY <1>1, <1>4, <2>1 DEF EnterLive
<1>5. ASSUME n.new = m.new - 1, n.live = m.live, ExitNew(c)
      PROVE  cnt' = [cnt EXCEPT ![c] = n]
  <2>1. [m EXCEPT !.new = m.new - 1] = n
    BY <1>5 DEF CntSet
  <2> QED BY <1>1, <1>5, <2>1 DEF ExitNew
<1>6. ASSUME n.new = m.new, n.live = m.live - 1, ExitLive(c)
      PROVE  cnt' = [cnt EXCEPT ![c] = n]
  <2>1. [m EXCEPT !.live = m.live - 1] = n
    BY <1>6 DEF CntSet
  <2> QED BY <1>1, <1>6, <2>1 DEF ExitLive
<1> QED BY <1>2, <1>3, <1>4, <1>5, <1>6

(* The second test of the flag takes the count back or keeps it.             *)
LEMMA TestedAgain ==
    ASSUME StopTypeOK, NEW c \in CPU
    PROVE  /\ cnt' = [cnt EXCEPT ![c]["new"] = IF active THEN @ ELSE @ - 1]
                => IF active THEN UNCHANGED cnt ELSE ExitNew(c)
           /\ cnt' = [cnt EXCEPT ![c]["live"] = IF active THEN @ ELSE @ - 1]
                => IF active THEN UNCHANGED cnt ELSE ExitLive(c)
<1>1. cnt \in [CPU -> CntSet] /\ cnt[c] \in CntSet
  BY DEF StopTypeOK
<1>2. /\ [cnt[c] EXCEPT !["new"] = cnt[c]["new"]] = cnt[c]
      /\ [cnt[c] EXCEPT !["live"] = cnt[c]["live"]] = cnt[c]
  BY <1>1 DEF CntSet
<1>3. CASE active
  <2>1. /\ [cnt EXCEPT ![c] = [cnt[c] EXCEPT !["new"] = cnt[c]["new"]]] = cnt
        /\ [cnt EXCEPT ![c] = [cnt[c] EXCEPT !["live"] = cnt[c]["live"]]] = cnt
    BY <1>1, <1>2
  <2> QED BY <1>3, <2>1 DEF EnterNew
<1>4. CASE ~active
  BY <1>4 DEF ExitNew, ExitLive
<1> QED BY <1>3, <1>4

StepTo(o, s) == [pc |-> o.pc, step |-> s, conn |-> o.conn]

(* The handler goes on, does the next step of a guard or ends.              *)
LEMMA JobMoves ==
    ASSUME StopTypeOK, NEW c \in CPU, NEW o \in JobSet, o = job[c]
    PROVE  /\ Idle \in JobSet /\ (Done(c) => job' = [job EXCEPT ![c] = Idle])
           /\ \A l \in Pcs : /\ Job(l, o.conn) \in JobSet
                             /\ Goto(c, l) => job' = [job EXCEPT ![c] = Job(l, o.conn)]
           /\ \A t \in {"test", "count", "again"} :
                /\ StepTo(o, t) \in JobSet
                /\ Step(c, t) => job' = [job EXCEPT ![c] = StepTo(o, t)]
<1>1. Idle \in JobSet /\ (Done(c) => job' = [job EXCEPT ![c] = Idle])
  BY DEF Idle, JobSet, Pcs, Done
<1>2. job \in [CPU -> JobSet]
  BY DEF StopTypeOK
<1>3. ASSUME NEW l \in Pcs
      PROVE  /\ Job(l, o.conn) \in JobSet
             /\ Goto(c, l) => job' = [job EXCEPT ![c] = Job(l, o.conn)]
  <2>1. Job(l, o.conn) \in JobSet
    BY DEF Job, JobSet
  <2>2. Goto(c, l) => job' = [job EXCEPT ![c] = Job(l, o.conn)]
    BY DEF Goto
  <2> QED BY <2>1, <2>2
<1>4. ASSUME NEW t \in {"test", "count", "again"}
      PROVE  /\ StepTo(o, t) \in JobSet
             /\ Step(c, t) => job' = [job EXCEPT ![c] = StepTo(o, t)]
  <2>1. StepTo(o, t) \in JobSet
    BY DEF StepTo, JobSet
  <2>2. [o EXCEPT !.step = t] = StepTo(o, t)
    BY DEF JobSet, StepTo
  <2>3. Step(c, t) => job' = [job EXCEPT ![c] = StepTo(o, t)]
    BY <1>2, <2>2 DEF Step
  <2> QED BY <2>1, <2>3
<1> QED BY <1>1, <1>3, <1>4

-----------------------------------------------------------------------------
(* The handlers                                                             *)

(* ss_connect ends: refused, under way or failed.                           *)
LEMMA ConnectDoneStep ==
    ASSUME StopInv, NEW c \in CPU, ConnectDone(c)
    PROVE  StopInv'
<1>1. job[c].pc \in {"refused", "connecting"} /\ UNCHANGED ctl
  BY DEF ConnectDone
<1>2. PICK o \in JobSet, m \in CntSet, k \in Conn, r \in StSet : Handles(c, o, m, k, r)
  BY <1>1, Handled
<1>3. /\ StopTypeOK /\ o = job[c] /\ m = cnt[c] /\ k = o.conn /\ r = st[k]
      /\ JobOk(o, r) /\ m.new = NewOf(o) /\ st \in [Conn -> StSet]
  BY <1>2 DEF StopInv, Handles, StopTypeOK
<1>4. m.live \in Int /\ m.new \in Int /\ k # NoConn /\ (k \in Clnt \/ k \in Srv) /\ ~(k \in Clnt /\ k \in Srv)
  BY StopAssumption DEF CntSet, Conn
<1>5. CASE o.pc = "refused" /\ Become(c, "gone") /\ UNCHANGED cnt /\ Done(c)
  <2>1. PICK n \in CntSet : n.new = m.new /\ n.live = m.live
    BY <1>4, CounterIs
  <2>2. PICK j \in JobSet : j = Idle /\ job' = [job EXCEPT ![c] = j]
    BY <1>3, <1>5, JobMoves DEF Pcs
  <2>3. PICK s \in StSet : s = "gone" /\ st' = [st EXCEPT ![k] = s]
    BY <1>3, <1>5 DEF Become, StSet
  <2>4. cnt' = [cnt EXCEPT ![c] = n]
    BY <1>3, <1>5, <2>1, CounterField
  <2>5. Turns(o, m, k, r, j, n, s)
    BY <1>3, <1>4, <1>5, <2>1, <2>2, <2>3 DEF Turns, JobOk, Idle, Job, StepTo, NewOf, Trial, Up, Holding, Fresh
  <2> QED BY <1>1, <1>2, <2>2, <2>3, <2>4, <2>5, HandlerStep
<1>6. CASE o.pc = "connecting" /\ Become(c, "synsent") /\ UNCHANGED cnt /\ Done(c)
  <2>1. PICK n \in CntSet : n.new = m.new /\ n.live = m.live
    BY <1>4, CounterIs
  <2>2. PICK j \in JobSet : j = Idle /\ job' = [job EXCEPT ![c] = j]
    BY <1>3, <1>6, JobMoves DEF Pcs
  <2>3. PICK s \in StSet : s = "synsent" /\ st' = [st EXCEPT ![k] = s]
    BY <1>3, <1>6 DEF Become, StSet
  <2>4. cnt' = [cnt EXCEPT ![c] = n]
    BY <1>3, <1>6, <2>1, CounterField
  <2>5. Turns(o, m, k, r, j, n, s)
    BY <1>3, <1>4, <1>6, <2>1, <2>2, <2>3 DEF Turns, JobOk, Idle, Job, StepTo, NewOf, Trial, Up, Holding, Fresh
  <2> QED BY <1>1, <1>2, <2>2, <2>3, <2>4, <2>5, HandlerStep
<1>7. CASE o.pc = "connecting" /\ Become(c, "gone") /\ ExitLive(c) /\ Done(c)
  <2>1. PICK n \in CntSet : n.new = m.new /\ n.live = m.live - 1
    BY <1>4, CounterIs
  <2>2. PICK j \in JobSet : j = Idle /\ job' = [job EXCEPT ![c] = j]
    BY <1>3, <1>7, JobMoves DEF Pcs
  <2>3. PICK s \in StSet : s = "gone" /\ st' = [st EXCEPT ![k] = s]
    BY <1>3, <1>7 DEF Become, StSet
  <2>4. cnt' = [cnt EXCEPT ![c] = n]
    BY <1>3, <1>7, <2>1, CounterField
  <2>5. Turns(o, m, k, r, j, n, s)
    BY <1>3, <1>4, <1>7, <2>1, <2>2, <2>3 DEF Turns, JobOk, Idle, Job, StepTo, NewOf, Trial, Up, Holding, Fresh
  <2> QED BY <1>1, <1>2, <2>2, <2>3, <2>4, <2>5, HandlerStep
<1> QED BY <1>3, <1>4, <1>5, <1>6, <1>7 DEF ConnectDone

(* A guard of the establishing handler was refused.                         *)
LEMMA RefusedStep ==
    ASSUME StopInv, NEW c \in CPU, EstablishedRefused(c)
    PROVE  StopInv'
<1>1. job[c].pc \in {"nonew", "nolive"} /\ UNCHANGED ctl
  BY DEF EstablishedRefused
<1>2. PICK o \in JobSet, m \in CntSet, k \in Conn, r \in StSet : Handles(c, o, m, k, r)
  BY <1>1, Handled
<1>3. /\ StopTypeOK /\ o = job[c] /\ m = cnt[c] /\ k = o.conn /\ r = st[k]
      /\ JobOk(o, r) /\ m.new = NewOf(o) /\ st \in [Conn -> StSet]
  BY <1>2 DEF StopInv, Handles, StopTypeOK
<1>4. m.live \in Int /\ m.new \in Int /\ k # NoConn /\ (k \in Clnt \/ k \in Srv) /\ ~(k \in Clnt /\ k \in Srv)
  BY StopAssumption DEF CntSet, Conn
<1>5. CASE o.pc = "nonew" /\ k \in Clnt /\ Become(c, "gone") /\ Done(c) /\ UNCHANGED cnt
  <2>1. PICK n \in CntSet : n.new = m.new /\ n.live = m.live
    BY <1>4, CounterIs
  <2>2. PICK j \in JobSet : j = Idle /\ job' = [job EXCEPT ![c] = j]
    BY <1>3, <1>5, JobMoves DEF Pcs
  <2>3. PICK s \in StSet : s = "gone" /\ st' = [st EXCEPT ![k] = s]
    BY <1>3, <1>5 DEF Become, StSet
  <2>4. cnt' = [cnt EXCEPT ![c] = n]
    BY <1>3, <1>5, <2>1, CounterField
  <2>5. Turns(o, m, k, r, j, n, s)
    BY <1>3, <1>4, <1>5, <2>1, <2>2, <2>3 DEF Turns, JobOk, Idle, Job, StepTo, NewOf, Trial, Up, Holding, Fresh
  <2> QED BY <1>1, <1>2, <2>2, <2>3, <2>4, <2>5, HandlerStep
<1>6. CASE o.pc = "nonew" /\ k \in Srv /\ Goto(c, "drop") /\ UNCHANGED <<st, cnt>>
  <2>1. PICK n \in CntSet : n.new = m.new /\ n.live = m.live
    BY <1>4, CounterIs
  <2>2. PICK j \in JobSet : j = Job("drop", o.conn) /\ job' = [job EXCEPT ![c] = j]
    BY <1>3, <1>6, JobMoves DEF Pcs
  <2>3. PICK s \in StSet : s = r /\ st' = [st EXCEPT ![k] = s]
    BY <1>3, <1>6 DEF Become, StSet
  <2>4. cnt' = [cnt EXCEPT ![c] = n]
    BY <1>3, <1>6, <2>1, CounterField
  <2>5. Turns(o, m, k, r, j, n, s)
    BY <1>3, <1>4, <1>6, <2>1, <2>2, <2>3 DEF Turns, JobOk, Idle, Job, StepTo, NewOf, Trial, Up, Holding, Fresh
  <2> QED BY <1>1, <1>2, <2>2, <2>3, <2>4, <2>5, HandlerStep
<1>7. CASE o.pc = "nolive" /\ Become(c, "gone") /\ Done(c) /\ ExitNew(c)
  <2>1. PICK n \in CntSet : n.new = m.new - 1 /\ n.live = m.live
    BY <1>4, CounterIs
  <2>2. PICK j \in JobSet : j = Idle /\ job' = [job EXCEPT ![c] = j]
    BY <1>3, <1>7, JobMoves DEF Pcs
  <2>3. PICK s \in StSet : s = "gone" /\ st' = [st EXCEPT ![k] = s]
    BY <1>3, <1>7 DEF Become, StSet
  <2>4. cnt' = [cnt EXCEPT ![c] = n]
    BY <1>3, <1>7, <2>1, CounterField
  <2>5. Turns(o, m, k, r, j, n, s)
    BY <1>3, <1>4, <1>7, <2>1, <2>2, <2>3 DEF Turns, JobOk, Idle, Job, StepTo, NewOf, Trial, Up, Holding, Fresh
  <2> QED BY <1>1, <1>2, <2>2, <2>3, <2>4, <2>5, HandlerStep
<1> QED BY <1>3, <1>4, <1>5, <1>6, <1>7 DEF EstablishedRefused

(* connection_new.                                                          *)
LEMMA NewStep ==
    ASSUME StopInv, NEW c \in CPU, ConnectionNew(c)
    PROVE  StopInv'
<1>1. job[c].pc \in {"hook"} /\ UNCHANGED ctl
  BY DEF ConnectionNew
<1>2. PICK o \in JobSet, m \in CntSet, k \in Conn, r \in StSet : Handles(c, o, m, k, r)
  BY <1>1, Handled
<1>3. /\ StopTypeOK /\ o = job[c] /\ m = cnt[c] /\ k = o.conn /\ r = st[k]
      /\ JobOk(o, r) /\ m.new = NewOf(o) /\ st \in [Conn -> StSet]
  BY <1>2 DEF StopInv, Handles, StopTypeOK
<1>4. m.live \in Int /\ m.new \in Int /\ k # NoConn /\ (k \in Clnt \/ k \in Srv) /\ ~(k \in Clnt /\ k \in Srv)
  BY StopAssumption DEF CntSet, Conn
<1>5. CASE o.pc = "hook" /\ Become(c, "live") /\ Goto(c, "exitnew") /\ UNCHANGED cnt
  <2>1. PICK n \in CntSet : n.new = m.new /\ n.live = m.live
    BY <1>4, CounterIs
  <2>2. PICK j \in JobSet : j = Job("exitnew", o.conn) /\ job' = [job EXCEPT ![c] = j]
    BY <1>3, <1>5, JobMoves DEF Pcs
  <2>3. PICK s \in StSet : s = "live" /\ st' = [st EXCEPT ![k] = s]
    BY <1>3, <1>5 DEF Become, StSet
  <2>4. cnt' = [cnt EXCEPT ![c] = n]
    BY <1>3, <1>5, <2>1, CounterField
  <2>5. Turns(o, m, k, r, j, n, s)
    BY <1>3, <1>4, <1>5, <2>1, <2>2, <2>3 DEF Turns, JobOk, Idle, Job, StepTo, NewOf, Trial, Up, Holding, Fresh
  <2> QED BY <1>1, <1>2, <2>2, <2>3, <2>4, <2>5, HandlerStep
<1>6. CASE o.pc = "hook" /\ Become(c, "gone") /\ Goto(c, "exitnew") /\ ExitLive(c)
  <2>1. PICK n \in CntSet : n.new = m.new /\ n.live = m.live - 1
    BY <1>4, CounterIs
  <2>2. PICK j \in JobSet : j = Job("exitnew", o.conn) /\ job' = [job EXCEPT ![c] = j]
    BY <1>3, <1>6, JobMoves DEF Pcs
  <2>3. PICK s \in StSet : s = "gone" /\ st' = [st EXCEPT ![k] = s]
    BY <1>3, <1>6 DEF Become, StSet
  <2>4. cnt' = [cnt EXCEPT ![c] = n]
    BY <1>3, <1>6, <2>1, CounterField
  <2>5. Turns(o, m, k, r, j, n, s)
    BY <1>3, <1>4, <1>6, <2>1, <2>2, <2>3 DEF Turns, JobOk, Idle, Job, StepTo, NewOf, Trial, Up, Holding, Fresh
  <2> QED BY <1>1, <1>2, <2>2, <2>3, <2>4, <2>5, HandlerStep
<1> QED BY <1>3, <1>4, <1>5, <1>6 DEF ConnectionNew

(* The establishing handler leaves NEWCONN.                                 *)
LEMMA ExitStep ==
    ASSUME StopInv, NEW c \in CPU, EstablishedExit(c)
    PROVE  StopInv'
<1>1. job[c].pc \in {"exitnew"} /\ UNCHANGED ctl
  BY DEF EstablishedExit
<1>2. PICK o \in JobSet, m \in CntSet, k \in Conn, r \in StSet : Handles(c, o, m, k, r)
  BY <1>1, Handled
<1>3. /\ StopTypeOK /\ o = job[c] /\ m = cnt[c] /\ k = o.conn /\ r = st[k]
      /\ JobOk(o, r) /\ m.new = NewOf(o) /\ st \in [Conn -> StSet]
  BY <1>2 DEF StopInv, Handles, StopTypeOK
<1>4. m.live \in Int /\ m.new \in Int /\ k # NoConn /\ (k \in Clnt \/ k \in Srv) /\ ~(k \in Clnt /\ k \in Srv)
  BY StopAssumption DEF CntSet, Conn
<1>5. CASE o.pc = "exitnew" /\ ExitNew(c) /\ Done(c) /\ UNCHANGED st
  <2>1. PICK n \in CntSet : n.new = m.new - 1 /\ n.live = m.live
    BY <1>4, CounterIs
  <2>2. PICK j \in JobSet : j = Idle /\ job' = [job EXCEPT ![c] = j]
    BY <1>3, <1>5, JobMoves DEF Pcs
  <2>3. PICK s \in StSet : s = r /\ st' = [st EXCEPT ![k] = s]
    BY <1>3, <1>5 DEF Become, StSet
  <2>4. cnt' = [cnt EXCEPT ![c] = n]
    BY <1>3, <1>5, <2>1, CounterField
  <2>5. Turns(o, m, k, r, j, n, s)
    BY <1>3, <1>4, <1>5, <2>1, <2>2, <2>3 DEF Turns, JobOk, Idle, Job, StepTo, NewOf, Trial, Up, Holding, Fresh
  <2> QED BY <1>1, <1>2, <2>2, <2>3, <2>4, <2>5, HandlerStep
<1> QED BY <1>3, <1>4, <1>5 DEF EstablishedExit

(* connection_drop, and then the guard.                                     *)
LEMMA DropStep ==
    ASSUME StopInv, NEW c \in CPU, ConnectionDrop(c)
    PROVE  StopInv'
<1>1. job[c].pc \in {"drop", "dropped"} /\ UNCHANGED ctl
  BY DEF ConnectionDrop
<1>2. PICK o \in JobSet, m \in CntSet, k \in Conn, r \in StSet : Handles(c, o, m, k, r)
  BY <1>1, Handled
<1>3. /\ StopTypeOK /\ o = job[c] /\ m = cnt[c] /\ k = o.conn /\ r = st[k]
      /\ JobOk(o, r) /\ m.new = NewOf(o) /\ st \in [Conn -> StSet]
  BY <1>2 DEF StopInv, Handles, StopTypeOK
<1>4. m.live \in Int /\ m.new \in Int /\ k # NoConn /\ (k \in Clnt \/ k \in Srv) /\ ~(k \in Clnt /\ k \in Srv)
  BY StopAssumption DEF CntSet, Conn
<1>5. CASE o.pc = "drop" /\ Become(c, "gone") /\ Goto(c, "dropped") /\ UNCHANGED cnt
  <2>1. PICK n \in CntSet : n.new = m.new /\ n.live = m.live
    BY <1>4, CounterIs
  <2>2. PICK j \in JobSet : j = Job("dropped", o.conn) /\ job' = [job EXCEPT ![c] = j]
    BY <1>3, <1>5, JobMoves DEF Pcs
  <2>3. PICK s \in StSet : s = "gone" /\ st' = [st EXCEPT ![k] = s]
    BY <1>3, <1>5 DEF Become, StSet
  <2>4. cnt' = [cnt EXCEPT ![c] = n]
    BY <1>3, <1>5, <2>1, CounterField
  <2>5. Turns(o, m, k, r, j, n, s)
    BY <1>3, <1>4, <1>5, <2>1, <2>2, <2>3 DEF Turns, JobOk, Idle, Job, StepTo, NewOf, Trial, Up, Holding, Fresh
  <2> QED BY <1>1, <1>2, <2>2, <2>3, <2>4, <2>5, HandlerStep
<1>6. CASE o.pc = "dropped" /\ ExitLive(c) /\ Done(c) /\ UNCHANGED st
  <2>1. PICK n \in CntSet : n.new = m.new /\ n.live = m.live - 1
    BY <1>4, CounterIs
  <2>2. PICK j \in JobSet : j = Idle /\ job' = [job EXCEPT ![c] = j]
    BY <1>3, <1>6, JobMoves DEF Pcs
  <2>3. PICK s \in StSet : s = r /\ st' = [st EXCEPT ![k] = s]
    BY <1>3, <1>6 DEF Become, StSet
  <2>4. cnt' = [cnt EXCEPT ![c] = n]
    BY <1>3, <1>6, <2>1, CounterField
  <2>5. Turns(o, m, k, r, j, n, s)
    BY <1>3, <1>4, <1>6, <2>1, <2>2, <2>3 DEF Turns, JobOk, Idle, Job, StepTo, NewOf, Trial, Up, Holding, Fresh
  <2> QED BY <1>1, <1>2, <2>2, <2>3, <2>4, <2>5, HandlerStep
<1> QED BY <1>3, <1>4, <1>5, <1>6 DEF ConnectionDrop

(* The LIVECONN guard of ss_connect.                                        *)
LEMMA ConnectGuardStep ==
    ASSUME StopInv, NEW c \in CPU, GuardEnter(c, "connect", "live", "connecting", "refused"), UNCHANGED <<st, ctl>>
    PROVE  StopInv'
<1>1. job[c].pc \in {"connect"} /\ UNCHANGED ctl
  BY DEF GuardEnter
<1>2. PICK o \in JobSet, m \in CntSet, k \in Conn, r \in StSet : Handles(c, o, m, k, r)
  BY <1>1, Handled
<1>3. /\ StopTypeOK /\ o = job[c] /\ m = cnt[c] /\ k = o.conn /\ r = st[k]
      /\ JobOk(o, r) /\ m.new = NewOf(o) /\ st \in [Conn -> StSet]
  BY <1>2 DEF StopInv, Handles, StopTypeOK
<1>4. m.live \in Int /\ m.new \in Int /\ k # NoConn /\ (k \in Clnt \/ k \in Srv) /\ ~(k \in Clnt /\ k \in Srv)
  BY StopAssumption DEF CntSet, Conn
<1>5. CASE o.pc = "connect" /\ o.step = "test" /\ active /\ Step(c, "count") /\ UNCHANGED cnt /\ UNCHANGED st
  <2>1. PICK n \in CntSet : n.new = m.new /\ n.live = m.live
    BY <1>4, CounterIs
  <2>2. PICK j \in JobSet : j = StepTo(o, "count") /\ job' = [job EXCEPT ![c] = j]
    BY <1>3, <1>5, JobMoves DEF Pcs
  <2>3. PICK s \in StSet : s = r /\ st' = [st EXCEPT ![k] = s]
    BY <1>3, <1>5 DEF Become, StSet
  <2>4. cnt' = [cnt EXCEPT ![c] = n]
    BY <1>3, <1>5, <2>1, CounterField
  <2>5. Turns(o, m, k, r, j, n, s)
    BY <1>3, <1>4, <1>5, <2>1, <2>2, <2>3 DEF Turns, JobOk, Idle, Job, StepTo, NewOf, Trial, Up, Holding, Fresh
  <2> QED BY <1>1, <1>2, <2>2, <2>3, <2>4, <2>5, HandlerStep
<1>6. CASE o.pc = "connect" /\ o.step = "test" /\ ~active /\ Goto(c, "refused") /\ UNCHANGED cnt /\ UNCHANGED st
  <2>1. PICK n \in CntSet : n.new = m.new /\ n.live = m.live
    BY <1>4, CounterIs
  <2>2. PICK j \in JobSet : j = Job("refused", o.conn) /\ job' = [job EXCEPT ![c] = j]
    BY <1>3, <1>6, JobMoves DEF Pcs
  <2>3. PICK s \in StSet : s = r /\ st' = [st EXCEPT ![k] = s]
    BY <1>3, <1>6 DEF Become, StSet
  <2>4. cnt' = [cnt EXCEPT ![c] = n]
    BY <1>3, <1>6, <2>1, CounterField
  <2>5. Turns(o, m, k, r, j, n, s)
    BY <1>3, <1>4, <1>6, <2>1, <2>2, <2>3 DEF Turns, JobOk, Idle, Job, StepTo, NewOf, Trial, Up, Holding, Fresh
  <2> QED BY <1>1, <1>2, <2>2, <2>3, <2>4, <2>5, HandlerStep
<1>7. CASE o.pc = "connect" /\ o.step = "count" /\ EnterLive(c) /\ Step(c, "again") /\ UNCHANGED st
  <2>1. PICK n \in CntSet : n.new = m.new /\ n.live = m.live + 1
    BY <1>4, CounterIs
  <2>2. PICK j \in JobSet : j = StepTo(o, "again") /\ job' = [job EXCEPT ![c] = j]
    BY <1>3, <1>7, JobMoves DEF Pcs
  <2>3. PICK s \in StSet : s = r /\ st' = [st EXCEPT ![k] = s]
    BY <1>3, <1>7 DEF Become, StSet
  <2>4. cnt' = [cnt EXCEPT ![c] = n]
    BY <1>3, <1>7, <2>1, CounterField
  <2>5. Turns(o, m, k, r, j, n, s)
    BY <1>3, <1>4, <1>7, <2>1, <2>2, <2>3 DEF Turns, JobOk, Idle, Job, StepTo, NewOf, Trial, Up, Holding, Fresh
  <2> QED BY <1>1, <1>2, <2>2, <2>3, <2>4, <2>5, HandlerStep
<1>8. CASE o.pc = "connect" /\ o.step = "again" /\ active /\ UNCHANGED cnt /\ Goto(c, "connecting") /\ UNCHANGED st
  <2>1. PICK n \in CntSet : n.new = m.new /\ n.live = m.live
    BY <1>4, CounterIs
  <2>2. PICK j \in JobSet : j = Job("connecting", o.conn) /\ job' = [job EXCEPT ![c] = j]
    BY <1>3, <1>8, JobMoves DEF Pcs
  <2>3. PICK s \in StSet : s = r /\ st' = [st EXCEPT ![k] = s]
    BY <1>3, <1>8 DEF Become, StSet
  <2>4. cnt' = [cnt EXCEPT ![c] = n]
    BY <1>3, <1>8, <2>1, CounterField
  <2>5. Turns(o, m, k, r, j, n, s)
    BY <1>3, <1>4, <1>8, <2>1, <2>2, <2>3 DEF Turns, JobOk, Idle, Job, StepTo, NewOf, Trial, Up, Holding, Fresh
  <2> QED BY <1>1, <1>2, <2>2, <2>3, <2>4, <2>5, HandlerStep
<1>9. CASE o.pc = "connect" /\ o.step = "again" /\ ~active /\ ExitLive(c) /\ Goto(c, "refused") /\ UNCHANGED st
  <2>1. PICK n \in CntSet : n.new = m.new /\ n.live = m.live - 1
    BY <1>4, CounterIs
  <2>2. PICK j \in JobSet : j = Job("refused", o.conn) /\ job' = [job EXCEPT ![c] = j]
    BY <1>3, <1>9, JobMoves DEF Pcs
  <2>3. PICK s \in StSet : s = r /\ st' = [st EXCEPT ![k] = s]
    BY <1>3, <1>9 DEF Become, StSet
  <2>4. cnt' = [cnt EXCEPT ![c] = n]
    BY <1>3, <1>9, <2>1, CounterField
  <2>5. Turns(o, m, k, r, j, n, s)
    BY <1>3, <1>4, <1>9, <2>1, <2>2, <2>3 DEF Turns, JobOk, Idle, Job, StepTo, NewOf, Trial, Up, Holding, Fresh
  <2> QED BY <1>1, <1>2, <2>2, <2>3, <2>4, <2>5, HandlerStep
<1>20. /\ o.pc = "connect" /\ UNCHANGED st
       /\ \/ /\ o.step = "test" /\ UNCHANGED cnt
             /\ IF active THEN Step(c, "count") ELSE Goto(c, "refused")
          \/ /\ o.step = "count" /\ EnterLive(c) /\ Step(c, "again")
          \/ /\ o.step = "again"
             /\ cnt' = [cnt EXCEPT ![c]["live"] = IF active THEN @ ELSE @ - 1]
             /\ Goto(c, IF active THEN "connecting" ELSE "refused")
  BY <1>3 DEF GuardEnter, EnterLive
<1>21. CASE o.step = "test"
  BY <1>5, <1>6, <1>20, <1>21
<1>22. CASE o.step = "count"
  BY <1>7, <1>20, <1>22
<1>23. CASE o.step = "again"
  <2>1. /\ IF active THEN UNCHANGED cnt ELSE ExitLive(c)
        /\ Goto(c, IF active THEN "connecting" ELSE "refused")
    BY <1>3, <1>20, <1>23, TestedAgain
  <2> QED BY <1>3, <1>4, <1>8, <1>9, <1>20, <1>23, <2>1
<1> QED BY <1>20, <1>21, <1>22, <1>23

(* The NEWCONN guard of the establishing handler.                           *)
LEMMA NewGuardStep ==
    ASSUME StopInv, NEW c \in CPU, GuardEnter(c, "new", "new", IF job[c].conn \in Clnt THEN "live" ELSE "hook", "nonew"),
           UNCHANGED <<st, ctl>>
    PROVE  StopInv'
<1>1. job[c].pc \in {"new"} /\ UNCHANGED ctl
  BY DEF GuardEnter
<1>2. PICK o \in JobSet, m \in CntSet, k \in Conn, r \in StSet : Handles(c, o, m, k, r)
  BY <1>1, Handled
<1>3. /\ StopTypeOK /\ o = job[c] /\ m = cnt[c] /\ k = o.conn /\ r = st[k]
      /\ JobOk(o, r) /\ m.new = NewOf(o) /\ st \in [Conn -> StSet]
  BY <1>2 DEF StopInv, Handles, StopTypeOK
<1>4. m.live \in Int /\ m.new \in Int /\ k # NoConn /\ (k \in Clnt \/ k \in Srv) /\ ~(k \in Clnt /\ k \in Srv)
  BY StopAssumption DEF CntSet, Conn
<1>5. CASE o.pc = "new" /\ o.step = "test" /\ active /\ Step(c, "count") /\ UNCHANGED cnt /\ UNCHANGED st
  <2>1. PICK n \in CntSet : n.new = m.new /\ n.live = m.live
    BY <1>4, CounterIs
  <2>2. PICK j \in JobSet : j = StepTo(o, "count") /\ job' = [job EXCEPT ![c] = j]
    BY <1>3, <1>5, JobMoves DEF Pcs
  <2>3. PICK s \in StSet : s = r /\ st' = [st EXCEPT ![k] = s]
    BY <1>3, <1>5 DEF Become, StSet
  <2>4. cnt' = [cnt EXCEPT ![c] = n]
    BY <1>3, <1>5, <2>1, CounterField
  <2>5. Turns(o, m, k, r, j, n, s)
    BY <1>3, <1>4, <1>5, <2>1, <2>2, <2>3 DEF Turns, JobOk, Idle, Job, StepTo, NewOf, Trial, Up, Holding, Fresh
  <2> QED BY <1>1, <1>2, <2>2, <2>3, <2>4, <2>5, HandlerStep
<1>6. CASE o.pc = "new" /\ o.step = "test" /\ ~active /\ Goto(c, "nonew") /\ UNCHANGED cnt /\ UNCHANGED st
  <2>1. PICK n \in CntSet : n.new = m.new /\ n.live = m.live
    BY <1>4, CounterIs
  <2>2. PICK j \in JobSet : j = Job("nonew", o.conn) /\ job' = [job EXCEPT ![c] = j]
    BY <1>3, <1>6, JobMoves DEF Pcs
  <2>3. PICK s \in StSet : s = r /\ st' = [st EXCEPT ![k] = s]
    BY <1>3, <1>6 DEF Become, StSet
  <2>4. cnt' = [cnt EXCEPT ![c] = n]
    BY <1>3, <1>6, <2>1, CounterField
  <2>5. Turns(o, m, k, r, j, n, s)
    BY <1>3, <1>4, <1>6, <2>1, <2>2, <2>3 DEF Turns, JobOk, Idle, Job, StepTo, NewOf, Trial, Up, Holding, Fresh
  <2> QED BY <1>1, <1>2, <2>2, <2>3, <2>4, <2>5, HandlerStep
<1>7. CASE o.pc = "new" /\ o.step = "count" /\ EnterNew(c) /\ Step(c, "again") /\ UNCHANGED st
  <2>1. PICK n \in CntSet : n.new = m.new + 1 /\ n.live = m.live
    BY <1>4, CounterIs
  <2>2. PICK j \in JobSet : j = StepTo(o, "again") /\ job' = [job EXCEPT ![c] = j]
    BY <1>3, <1>7, JobMoves DEF Pcs
  <2>3. PICK s \in StSet : s = r /\ st' = [st EXCEPT ![k] = s]
    BY <1>3, <1>7 DEF Become, StSet
  <2>4. cnt' = [cnt EXCEPT ![c] = n]
    BY <1>3, <1>7, <2>1, CounterField
  <2>5. Turns(o, m, k, r, j, n, s)
    BY <1>3, <1>4, <1>7, <2>1, <2>2, <2>3 DEF Turns, JobOk, Idle, Job, StepTo, NewOf, Trial, Up, Holding, Fresh
  <2> QED BY <1>1, <1>2, <2>2, <2>3, <2>4, <2>5, HandlerStep
<1>8. CASE o.pc = "new" /\ k \in Clnt /\ o.step = "again" /\ active /\ UNCHANGED cnt /\ Goto(c, "live") /\ UNCHANGED st
  <2>1. PICK n \in CntSet : n.new = m.new /\ n.live = m.live
    BY <1>4, CounterIs
  <2>2. PICK j \in JobSet : j = Job("live", o.conn) /\ job' = [job EXCEPT ![c] = j]
    BY <1>3, <1>8, JobMoves DEF Pcs
  <2>3. PICK s \in StSet : s = r /\ st' = [st EXCEPT ![k] = s]
    BY <1>3, <1>8 DEF Become, StSet
  <2>4. cnt' = [cnt EXCEPT ![c] = n]
    BY <1>3, <1>8, <2>1, CounterField
  <2>5. Turns(o, m, k, r, j, n, s)
    BY <1>3, <1>4, <1>8, <2>1, <2>2, <2>3 DEF Turns, JobOk, Idle, Job, StepTo, NewOf, Trial, Up, Holding, Fresh
  <2> QED BY <1>1, <1>2, <2>2, <2>3, <2>4, <2>5, HandlerStep
<1>9. CASE o.pc = "new" /\ k \in Srv /\ o.step = "again" /\ active /\ UNCHANGED cnt /\ Goto(c, "hook") /\ UNCHANGED st
  <2>1. PICK n \in CntSet : n.new = m.new /\ n.live = m.live
    BY <1>4, CounterIs
  <2>2. PICK j \in JobSet : j = Job("hook", o.conn) /\ job' = [job EXCEPT ![c] = j]
    BY <1>3, <1>9, JobMoves DEF Pcs
  <2>3. PICK s \in StSet : s = r /\ st' = [st EXCEPT ![k] = s]
    BY <1>3, <1>9 DEF Become, StSet
  <2>4. cnt' = [cnt EXCEPT ![c] = n]
    BY <1>3, <1>9, <2>1, CounterField
  <2>5. Turns(o, m, k, r, j, n, s)
    BY <1>3, <1>4, <1>9, <2>1, <2>2, <2>3 DEF Turns, JobOk, Idle, Job, StepTo, NewOf, Trial, Up, Holding, Fresh
  <2> QED BY <1>1, <1>2, <2>2, <2>3, <2>4, <2>5, HandlerStep
<1>10. CASE o.pc = "new" /\ o.step = "again" /\ ~active /\ ExitNew(c) /\ Goto(c, "nonew") /\ UNCHANGED st
  <2>1. PICK n \in CntSet : n.new = m.new - 1 /\ n.live = m.live
    BY <1>4, CounterIs
  <2>2. PICK j \in JobSet : j = Job("nonew", o.conn) /\ job' = [job EXCEPT ![c] = j]
    BY <1>3, <1>10, JobMoves DEF Pcs
  <2>3. PICK s \in StSet : s = r /\ st' = [st EXCEPT ![k] = s]
    BY <1>3, <1>10 DEF Become, StSet
  <2>4. cnt' = [cnt EXCEPT ![c] = n]
    BY <1>3, <1>10, <2>1, CounterField
  <2>5. Turns(o, m, k, r, j, n, s)
    BY <1>3, <1>4, <1>10, <2>1, <2>2, <2>3 DEF Turns, JobOk, Idle, Job, StepTo, NewOf, Trial, Up, Holding, Fresh
  <2> QED BY <1>1, <1>2, <2>2, <2>3, <2>4, <2>5, HandlerStep
<1>20. /\ o.pc = "new" /\ UNCHANGED st
       /\ \/ /\ o.step = "test" /\ UNCHANGED cnt
             /\ IF active THEN Step(c, "count") ELSE Goto(c, "nonew")
          \/ /\ o.step = "count" /\ EnterNew(c) /\ Step(c, "again")
          \/ /\ o.step = "again"
             /\ cnt' = [cnt EXCEPT ![c]["new"] = IF active THEN @ ELSE @ - 1]
             /\ Goto(c, IF active THEN (IF o.conn \in Clnt THEN "live" ELSE "hook") ELSE "nonew")
  BY <1>3 DEF GuardEnter, EnterNew
<1>21. CASE o.step = "test"
  BY <1>5, <1>6, <1>20, <1>21
<1>22. CASE o.step = "count"
  BY <1>7, <1>20, <1>22
<1>23. CASE o.step = "again"
  <2>1. /\ IF active THEN UNCHANGED cnt ELSE ExitNew(c)
        /\ Goto(c, IF active THEN (IF o.conn \in Clnt THEN "live" ELSE "hook") ELSE "nonew")
    BY <1>3, <1>20, <1>23, TestedAgain
  <2> QED BY <1>3, <1>4, <1>8, <1>9, <1>10, <1>20, <1>23, <2>1
<1> QED BY <1>20, <1>21, <1>22, <1>23

(* The LIVECONN guard of an accepted connection.                            *)
LEMMA LiveGuardStep ==
    ASSUME StopInv, NEW c \in CPU, GuardEnter(c, "live", "live", "hook", "nolive"), UNCHANGED <<st, ctl>>
    PROVE  StopInv'
<1>1. job[c].pc \in {"live"} /\ UNCHANGED ctl
  BY DEF GuardEnter
<1>2. PICK o \in JobSet, m \in CntSet, k \in Conn, r \in StSet : Handles(c, o, m, k, r)
  BY <1>1, Handled
<1>3. /\ StopTypeOK /\ o = job[c] /\ m = cnt[c] /\ k = o.conn /\ r = st[k]
      /\ JobOk(o, r) /\ m.new = NewOf(o) /\ st \in [Conn -> StSet]
  BY <1>2 DEF StopInv, Handles, StopTypeOK
<1>4. m.live \in Int /\ m.new \in Int /\ k # NoConn /\ (k \in Clnt \/ k \in Srv) /\ ~(k \in Clnt /\ k \in Srv)
  BY StopAssumption DEF CntSet, Conn
<1>5. CASE o.pc = "live" /\ o.step = "test" /\ active /\ Step(c, "count") /\ UNCHANGED cnt /\ UNCHANGED st
  <2>1. PICK n \in CntSet : n.new = m.new /\ n.live = m.live
    BY <1>4, CounterIs
  <2>2. PICK j \in JobSet : j = StepTo(o, "count") /\ job' = [job EXCEPT ![c] = j]
    BY <1>3, <1>5, JobMoves DEF Pcs
  <2>3. PICK s \in StSet : s = r /\ st' = [st EXCEPT ![k] = s]
    BY <1>3, <1>5 DEF Become, StSet
  <2>4. cnt' = [cnt EXCEPT ![c] = n]
    BY <1>3, <1>5, <2>1, CounterField
  <2>5. Turns(o, m, k, r, j, n, s)
    BY <1>3, <1>4, <1>5, <2>1, <2>2, <2>3 DEF Turns, JobOk, Idle, Job, StepTo, NewOf, Trial, Up, Holding, Fresh
  <2> QED BY <1>1, <1>2, <2>2, <2>3, <2>4, <2>5, HandlerStep
<1>6. CASE o.pc = "live" /\ o.step = "test" /\ ~active /\ Goto(c, "nolive") /\ UNCHANGED cnt /\ UNCHANGED st
  <2>1. PICK n \in CntSet : n.new = m.new /\ n.live = m.live
    BY <1>4, CounterIs
  <2>2. PICK j \in JobSet : j = Job("nolive", o.conn) /\ job' = [job EXCEPT ![c] = j]
    BY <1>3, <1>6, JobMoves DEF Pcs
  <2>3. PICK s \in StSet : s = r /\ st' = [st EXCEPT ![k] = s]
    BY <1>3, <1>6 DEF Become, StSet
  <2>4. cnt' = [cnt EXCEPT ![c] = n]
    BY <1>3, <1>6, <2>1, CounterField
  <2>5. Turns(o, m, k, r, j, n, s)
    BY <1>3, <1>4, <1>6, <2>1, <2>2, <2>3 DEF Turns, JobOk, Idle, Job, StepTo, NewOf, Trial, Up, Holding, Fresh
  <2> QED BY <1>1, <1>2, <2>2, <2>3, <2>4, <2>5, HandlerStep
<1>7. CASE o.pc = "live" /\ o.step = "count" /\ EnterLive(c) /\ Step(c, "again") /\ UNCHANGED st
  <2>1. PICK n \in CntSet : n.new = m.new /\ n.live = m.live + 1
    BY <1>4, CounterIs
  <2>2. PICK j \in JobSet : j = StepTo(o, "again") /\ job' = [job EXCEPT ![c] = j]
    BY <1>3, <1>7, JobMoves DEF Pcs
  <2>3. PICK s \in StSet : s = r /\ st' = [st EXCEPT ![k] = s]
    BY <1>3, <1>7 DEF Become, StSet
  <2>4. cnt' = [cnt EXCEPT ![c] = n]
    BY <1>3, <1>7, <2>1, CounterField
  <2>5. Turns(o, m, k, r, j, n, s)
    BY <1>3, <1>4, <1>7, <2>1, <2>2, <2>3 DEF Turns, JobOk, Idle, Job, StepTo, NewOf, Trial, Up, Holding, Fresh
  <2> QED BY <1>1, <1>2, <2>2, <2>3, <2>4, <2>5, HandlerStep
<1>8. CASE o.pc = "live" /\ o.step = "again" /\ active /\ UNCHANGED cnt /\ Goto(c, "hook") /\ UNCHANGED st
  <2>1. PICK n \in CntSet : n.new = m.new /\ n.live = m.live
    BY <1>4, CounterIs
  <2>2. PICK j \in JobSet : j = Job("hook", o.conn) /\ job' = [job EXCEPT ![c] = j]
    BY <1>3, <1>8, JobMoves DEF Pcs
  <2>3. PICK s \in StSet : s = r /\ st' = [st EXCEPT ![k] = s]
    BY <1>3, <1>8 DEF Become, StSet
  <2>4. cnt' = [cnt EXCEPT ![c] = n]
    BY <1>3, <1>8, <2>1, CounterField
  <2>5. Turns(o, m, k, r, j, n, s)
    BY <1>3, <1>4, <1>8, <2>1, <2>2, <2>3 DEF Turns, JobOk, Idle, Job, StepTo, NewOf, Trial, Up, Holding, Fresh
  <2> QED BY <1>1, <1>2, <2>2, <2>3, <2>4, <2>5, HandlerStep
<1>9. CASE o.pc = "live" /\ o.step = "again" /\ ~active /\ ExitLive(c) /\ Goto(c, "nolive") /\ UNCHANGED st
  <2>1. PICK n \in CntSet : n.new = m.new /\ n.live = m.live - 1
    BY <1>4, CounterIs
  <2>2. PICK j \in JobSet : j = Job("nolive", o.conn) /\ job' = [job EXCEPT ![c] = j]
    BY <1>3, <1>9, JobMoves DEF Pcs
  <2>3. PICK s \in StSet : s = r /\ st' = [st EXCEPT ![k] = s]
    BY <1>3, <1>9 DEF Become, StSet
  <2>4. cnt' = [cnt EXCEPT ![c] = n]
    BY <1>3, <1>9, <2>1, CounterField
  <2>5. Turns(o, m, k, r, j, n, s)
    BY <1>3, <1>4, <1>9, <2>1, <2>2, <2>3 DEF Turns, JobOk, Idle, Job, StepTo, NewOf, Trial, Up, Holding, Fresh
  <2> QED BY <1>1, <1>2, <2>2, <2>3, <2>4, <2>5, HandlerStep
<1>20. /\ o.pc = "live" /\ UNCHANGED st
       /\ \/ /\ o.step = "test" /\ UNCHANGED cnt
             /\ IF active THEN Step(c, "count") ELSE Goto(c, "nolive")
          \/ /\ o.step = "count" /\ EnterLive(c) /\ Step(c, "again")
          \/ /\ o.step = "again"
             /\ cnt' = [cnt EXCEPT ![c]["live"] = IF active THEN @ ELSE @ - 1]
             /\ Goto(c, IF active THEN "hook" ELSE "nolive")
  BY <1>3 DEF GuardEnter, EnterLive
<1>21. CASE o.step = "test"
  BY <1>5, <1>6, <1>20, <1>21
<1>22. CASE o.step = "count"
  BY <1>7, <1>20, <1>22
<1>23. CASE o.step = "again"
  <2>1. /\ IF active THEN UNCHANGED cnt ELSE ExitLive(c)
        /\ Goto(c, IF active THEN "hook" ELSE "nolive")
    BY <1>3, <1>20, <1>23, TestedAgain
  <2> QED BY <1>3, <1>4, <1>8, <1>9, <1>20, <1>23, <2>1
<1> QED BY <1>20, <1>21, <1>22, <1>23

(* A handler starts on a connection that no handler works on.                *)
LEMMA HandlerStarts ==
    ASSUME StopInv, UNCHANGED ctl, NEW c \in CPU, NEW k \in Conn, Free(k), job[c] = Idle,
           NEW j \in JobSet, NEW n \in CntSet, NEW s \in StSet,
           j.pc \in {"connect", "new", "drop"}, j.step = "test", j.conn = k, n = cnt[c], s = st[k],
           job' = [job EXCEPT ![c] = j], cnt' = [cnt EXCEPT ![c] = n], st' = [st EXCEPT ![k] = s],
           JobOk(j, s)
    PROVE  StopInv'
<1>1. job[c].conn = NoConn /\ job[c].pc = "idle" /\ job[c].step = "test"
  BY DEF Idle
<1>2. /\ \A x \in CPU \ {c} : job[x].conn # k
      /\ job[c].conn \in {k, NoConn} /\ j.conn \in {k, NoConn}
  BY <1>1 DEF Free
<1>3. n.new = NewOf(j)
  <2>1. n.new = NewOf(job[c])
    BY DEF StopInv, NewCounted
  <2>2. NewOf(job[c]) = 0 /\ NewOf(j) = 0
    BY <1>1 DEF NewOf
  <2> QED BY <2>1, <2>2
<1>4. /\ (Up(s) \/ Holding(j)) <=> (Up(st[k]) \/ Holding(job[c]))
      /\ n.live - Trial(j) = cnt[c].live - Trial(job[c])
  <2>1. ~Holding(j) /\ ~Holding(job[c])
    BY <1>1 DEF Holding
  <2>2. Trial(j) = 0 /\ Trial(job[c]) = 0
    BY <1>1 DEF Trial
  <2> QED BY <2>1, <2>2
<1>5. StopInv /\ UNCHANGED ctl /\ JobOk(j, s)
  OBVIOUS
<1>6. job' = [job EXCEPT ![c] = j] /\ cnt' = [cnt EXCEPT ![c] = n] /\ st' = [st EXCEPT ![k] = s]
  OBVIOUS
<1> QED BY ONLY <1>2, <1>3, <1>4, <1>5, <1>6, SoftStep

(* The same for the handler that a softirq names.                           *)
LEMMA WorkStarts ==
    ASSUME NEW c \in CPU, NEW k \in Conn, NEW l \in {"connect", "new", "drop"}
    PROVE  /\ StopInv /\ Free(k) /\ job[c] = Idle /\ job' = [job EXCEPT ![c] = Job(l, k)]
           /\ UNCHANGED <<cnt, st, ctl>> /\ JobOk(Job(l, k), st[k])
           => StopInv'
<1> DEFINE Starts == /\ StopInv /\ Free(k) /\ job[c] = Idle /\ job' = [job EXCEPT ![c] = Job(l, k)]
                     /\ UNCHANGED <<cnt, st, ctl>> /\ JobOk(Job(l, k), st[k])
<1> SUFFICES ASSUME Starts PROVE StopInv'
  OBVIOUS
<1> HIDE DEF Starts
<1>1. StopInv /\ cnt \in [CPU -> CntSet] /\ st \in [Conn -> StSet]
  BY DEF Starts, StopInv, StopTypeOK
<1>2. PICK n \in CntSet, s \in StSet : n = cnt[c] /\ s = st[k]
  BY <1>1
<1>3. PICK j \in JobSet : j = Job(l, k)
  <2>1. Job(l, k) \in JobSet
    BY DEF Job, JobSet, Pcs
  <2> QED BY <2>1
<1>4. j.pc = l /\ j.step = "test" /\ j.conn = k
  BY <1>3 DEF Job
<1>5. /\ UNCHANGED ctl /\ Free(k) /\ job[c] = Idle /\ JobOk(j, s)
      /\ job' = [job EXCEPT ![c] = j]
  BY <1>2, <1>3 DEF Starts
<1>6. cnt' = [cnt EXCEPT ![c] = n] /\ st' = [st EXCEPT ![k] = s]
  BY <1>1, <1>2 DEF Starts
<1> QED BY <1>1, <1>2, <1>4, <1>5, <1>6, HandlerStarts

(* ss_connect starts.                                                       *)
LEMMA ConnectStep ==
    ASSUME StopInv, NEW c \in CPU, NEW k \in Srv, ss_connect(c, k)
    PROVE  StopInv'
<1>1. /\ k \in Conn /\ Free(k) /\ job[c] = Idle /\ job' = [job EXCEPT ![c] = Job("connect", k)]
      /\ UNCHANGED <<cnt, st, ctl>> /\ k # NoConn
      /\ st[k] = "none"
  BY StopAssumption DEF ss_connect, Start, Conn
<1>2. JobOk(Job("connect", k), st[k])
  BY <1>1 DEF JobOk, Job
<1> QED BY <1>1, <1>2, WorkStarts

(* A connection is established.                                             *)
LEMMA EstablishedStep ==
    ASSUME StopInv, NEW c \in CPU, NEW k \in Conn, Established(c, k)
    PROVE  StopInv'
<1>1. /\ k \in Conn /\ Free(k) /\ job[c] = Idle /\ job' = [job EXCEPT ![c] = Job("new", k)]
      /\ UNCHANGED <<cnt, st, ctl>> /\ k # NoConn
      /\ (k \in Clnt => st[k] = "none") /\ (k \in Srv => st[k] = "synsent")
  BY StopAssumption DEF Established, Start, Conn
<1>2. JobOk(Job("new", k), st[k])
  BY <1>1 DEF JobOk, Job, Fresh, Conn
<1> QED BY <1>1, <1>2, WorkStarts

(* A connection is reset.                                                   *)
LEMMA ResetStep ==
    ASSUME StopInv, NEW c \in CPU, NEW k \in Conn, Reset(c, k)
    PROVE  StopInv'
<1>1. /\ k \in Conn /\ Free(k) /\ job[c] = Idle /\ job' = [job EXCEPT ![c] = Job("drop", k)]
      /\ UNCHANGED <<cnt, st, ctl>> /\ k # NoConn
      /\ st[k] \in {"live", "synsent"}
  BY StopAssumption DEF Reset, Alive, Start, Conn
<1>2. JobOk(Job("drop", k), st[k])
  BY <1>1 DEF JobOk, Job, Up
<1> QED BY <1>1, <1>2, WorkStarts

(* What a step that leaves the handlers, the counters and the connections    *)
(* alone keeps.                                                             *)
LEMMA Untouched ==
    ASSUME StopInv, UNCHANGED <<cnt, job, st>>
    PROVE  /\ OneHandler' /\ JobsOk' /\ NewCounted' /\ LiveCounted' /\ Held' = Held
           /\ \A c \in CPU : Full'[c] = Full[c]
<1>1. OneHandler /\ JobsOk /\ NewCounted /\ LiveCounted
  BY DEF StopInv
<1>2. OneHandler' /\ NewCounted'
  BY <1>1 DEF OneHandler, NewCounted
<1>3. JobsOk'
  BY <1>1 DEF JobsOk
<1>4. Held' = Held /\ Full' = Full
  BY DEF Held, Full
<1>5. LiveCounted'
  BY <1>1, <1>4 DEF LiveCounted
<1> QED BY <1>2, <1>3, <1>4, <1>5

(* A step that leaves all this and the stopping process alone.               *)
LEMMA NothingCounted ==
    ASSUME StopInv, UNCHANGED <<cnt, job, st, active, stop, todo, acc>>
    PROVE  StopInv'
<1>1. /\ OneHandler' /\ JobsOk' /\ NewCounted' /\ LiveCounted' /\ Held' = Held
      /\ \A c \in CPU : Full'[c] = Full[c]
  BY Untouched
<1>2. StopTypeOK /\ FlagDown /\ ScanCovers /\ CleanHolds
  BY DEF StopInv
<1>3. StopTypeOK' /\ FlagDown' /\ CleanHolds'
  BY <1>1, <1>2 DEF StopTypeOK, FlagDown, CleanHolds
<1>4. Rest' = Rest
  BY DEF Rest, Full
<1>5. ScanCovers'
  BY <1>1, <1>2, <1>4 DEF ScanCovers
<1> QED BY <1>1, <1>3, <1>5 DEF StopInv

(* A queued close is taken, for a connection that may have died.            *)
LEMMA TxCloseStep ==
    ASSUME StopInv, NEW c \in CPU, NEW k \in Conn, TxClose(c, k)
    PROVE  StopInv'
<1>1. /\ Free(k) /\ job[c] = Idle /\ UNCHANGED <<cnt, st, ctl>> /\ k # NoConn
      /\ job' = [job EXCEPT ![c] = IF Alive(k) THEN Job("drop", k) ELSE Idle]
  BY StopAssumption DEF TxClose, Conn
<1>2. CASE Alive(k)
  <2>1. JobOk(Job("drop", k), st[k])
    BY <1>1, <1>2 DEF JobOk, Job, Up, Alive
  <2>2. job' = [job EXCEPT ![c] = Job("drop", k)]
    BY <1>1, <1>2
  <2> QED BY <1>1, <2>1, <2>2, WorkStarts
<1>3. CASE ~Alive(k)
  <2>1. job' = job
    BY <1>1, <1>3 DEF StopInv, StopTypeOK
  <2> QED BY <1>1, <2>1, NothingCounted DEF ctl
<1> QED BY <1>2, <1>3

-----------------------------------------------------------------------------
(* The stopping process                                                     *)

(* A scan that begins covers all connections, whatever it had added up.      *)
LEMMA ScanBegins ==
    ASSUME StopInv, UNCHANGED <<cnt, job, st>>, todo' = CPU,
           acc'.live \in Int, acc'.live >= 0, acc'.new >= 0
    PROVE  ScanCovers'
<1>1. Held' = Held /\ \A c \in CPU : Full'[c] = Full[c]
  BY Untouched
<1>2. \A c \in CPU : Rest'[c] = Full[c]
  BY <1>1 DEF Rest
<1>3. SumIs(Full, Cardinality(Held)) /\ Cardinality(Held) \in Int /\ Cardinality(Held) >= 0
  BY HeldFinite DEF StopInv, LiveCounted
<1>4. PICK g, h : g = Full /\ h = Rest'
  OBVIOUS
<1>5. PICK v \in Int : v = Cardinality(Held)
  BY <1>3
<1>6. SumIs(h, v)
  BY <1>2, <1>3, <1>4, <1>5, SameSum
<1>7. acc'.live + v >= Cardinality(Held')
  BY <1>1, <1>3, <1>5
<1> QED BY <1>4, <1>6, <1>7 DEF ScanCovers

(* A scan that ends has counted no fewer connections than there are.         *)
LEMMA ScanEnds ==
    ASSUME StopInv, stop \in Scans, todo = {}
    PROVE  /\ acc.live >= Cardinality(Held) /\ acc.live >= 0 /\ acc.new >= 0
           /\ acc.live \in Int /\ acc.new \in Int
<1>1. StopTypeOK /\ ScanCovers
  BY DEF StopInv
<1>2. PICK v \in Int : /\ acc.new >= 0 /\ SumIs(Rest, v) /\ acc.live + v >= Cardinality(Held)
  BY <1>1 DEF ScanCovers
<1>3. PICK g : g = Rest
  OBVIOUS
<1>4. \A c \in CPU : g[c] = 0
  BY <1>3 DEF Rest
<1>5. v = 0
  BY <1>2, <1>3, <1>4, ZerosAddUp
<1>6. acc.live \in Int /\ acc.new \in Int /\ Cardinality(Held) \in Nat
  BY <1>1, StopTypes, HeldFinite
<1> QED BY <1>2, <1>5, <1>6

(* Reading a CPU that may hold a count on trial adds no less than it holds.   *)
LEMMA CpuRead ==
    ASSUME StopInv, stop \in Scans, NEW c \in CPU, c \in todo, todo' = todo \ {c},
           UNCHANGED <<cnt, job, st, active, stop>>, acc' \in CntSet,
           acc'.live = acc.live + cnt[c].live, acc'.new >= 0
    PROVE  StopInv'
<1>1. /\ OneHandler' /\ JobsOk' /\ NewCounted' /\ LiveCounted' /\ Held' = Held
      /\ \A x \in CPU : Full'[x] = Full[x]
  BY Untouched
<1>2. StopTypeOK /\ FlagDown /\ ScanCovers /\ CleanHolds
  BY DEF StopInv
<1>3. StopTypeOK' /\ FlagDown' /\ CleanHolds'
  BY <1>1, <1>2 DEF StopTypeOK, FlagDown, CleanHolds
<1>4. PICK v \in Int : /\ acc.new >= 0 /\ SumIs(Rest, v) /\ acc.live + v >= Cardinality(Held)
  BY <1>2 DEF ScanCovers
<1>5. /\ \A x \in CPU : Full[x] \in Int /\ Rest[x] = IF x \in todo THEN Full[x] ELSE 0
      /\ Full[c] = cnt[c].live - Trial(job[c]) /\ cnt[c].live \in Int /\ acc.live \in Int
      /\ Trial(job[c]) \in {0, 1} /\ Cardinality(Held) \in Nat
  BY <1>2, StopTypes, HeldFinite DEF Trial
<1>6. \A x \in CPU : Rest'[x] = IF x \in todo \ {c} THEN Full[x] ELSE 0
  BY <1>1 DEF Rest
<1>7. PICK g, h : g = Rest /\ h = Rest'
  OBVIOUS
<1>8. PICK d \in Int : d = -Full[c]
  BY <1>5
<1>9. \A x \in CPU : g[x] \in Int /\ h[x] = IF x = c THEN g[x] + d ELSE g[x]
  BY <1>5, <1>6, <1>7, <1>8
<1>10. SumIs(g, v)
  BY <1>4, <1>7
<1>11. SumIs(h, v + d)
  BY <1>9, <1>10, SumMoves
<1>12. v + d \in Int /\ acc'.live + (v + d) >= Cardinality(Held')
  BY <1>1, <1>4, <1>5, <1>8
<1>13. ScanCovers'
  BY <1>7, <1>11, <1>12 DEF ScanCovers
<1> QED BY <1>1, <1>3, <1>13 DEF StopInv

(* The stopping process goes on to a place where it scans nothing.           *)
LEMMA GoesOn ==
    ASSUME StopInv, UNCHANGED <<cnt, job, st>>, acc' = acc, stop' \notin Scans, active' \in BOOLEAN,
           active' <=> stop' = "run", stop' = "clean" => Held = {}
    PROVE  StopInv'
<1>1. /\ OneHandler' /\ JobsOk' /\ NewCounted' /\ LiveCounted' /\ Held' = Held
  BY Untouched
<1>2. StopTypeOK
  BY DEF StopInv
<1>3. StopTypeOK' /\ FlagDown' /\ CleanHolds' /\ ScanCovers'
  BY <1>1, <1>2 DEF StopTypeOK, FlagDown, CleanHolds, ScanCovers
<1> QED BY <1>1, <1>3 DEF StopInv

(* A wait begins to read the CPUs.                                          *)
LEMMA ScansAgain ==
    ASSUME StopInv, UNCHANGED <<cnt, job, st, active>>, stop # "run", NEW l \in Scans, stop' = l,
           todo' = CPU, acc' \in CntSet, acc'.live \in Int, acc'.live >= 0, acc'.new >= 0
    PROVE  StopInv'
<1>1. /\ OneHandler' /\ JobsOk' /\ NewCounted' /\ LiveCounted'
  BY Untouched
<1>2. StopTypeOK /\ FlagDown
  BY DEF StopInv
<1>3. StopTypeOK' /\ FlagDown' /\ CleanHolds'
  BY <1>2 DEF StopTypeOK, FlagDown, CleanHolds, Scans
<1>4. ScanCovers'
  BY ScanBegins
<1> QED BY <1>1, <1>3, <1>4 DEF StopInv

(* The reset accumulator.                                                   *)
LEMMA ZeroIs == Zero \in CntSet /\ Zero.live = 0 /\ Zero.new = 0
  BY DEF Zero, CntSet

(* ss_stop clears the flag.                                                 *)
LEMMA ss_stopStep ==
    ASSUME StopInv, ss_stop
    PROVE  StopInv'
<1>1. /\ UNCHANGED <<cnt, job, st, acc>> /\ active' = FALSE /\ stop' = "release"
  BY DEF ss_stop, softVars, accVars
<1> QED BY <1>1, GoesOn DEF Scans

(* The listeners are closed and the first wait begins.                      *)
LEMMA ClntStopStep ==
    ASSUME StopInv, tfw_sock_clnt_stop
    PROVE  StopInv'
<1>1. /\ UNCHANGED <<cnt, job, st, active>> /\ stop = "release" /\ stop' = "newconn" /\ todo' = CPU
      /\ acc' = Zero
  BY DEF tfw_sock_clnt_stop, softVars, BeginScan
<1>2. "newconn" \in Scans /\ stop # "run"
  BY <1>1 DEF Scans
<1>3. /\ UNCHANGED <<cnt, job, st, active>> /\ acc' \in CntSet /\ acc'.live \in Int
      /\ acc'.live >= 0 /\ acc'.new >= 0
  BY <1>1, ZeroIs
<1> QED BY <1>1, <1>2, <1>3, ScansAgain

(* ss_wait_newconn reads one CPU.                                           *)
LEMMA ReadNewStep ==
    ASSUME StopInv, NEW c \in CPU, ReadNewConn(c)
    PROVE  StopInv'
<1>1. /\ UNCHANGED <<cnt, job, st, active, stop>> /\ stop \in Scans /\ c \in todo /\ todo' = todo \ {c}
      /\ acc' = [new |-> acc.new + cnt[c].new, live |-> acc.live + cnt[c].live]
  BY DEF ReadNewConn, softVars, Scans
<1>2. /\ acc.live \in Int /\ acc.new \in Int /\ cnt[c].live \in Int /\ cnt[c].new \in Int
      /\ StopTypeOK /\ ScanCovers /\ NewCounted
  BY StopTypes DEF StopInv
<1>3. acc.new >= 0 /\ cnt[c].new >= 0
  BY <1>1, <1>2 DEF ScanCovers, NewCounted, NewOf
<1>4. acc' \in CntSet /\ acc'.live = acc.live + cnt[c].live /\ acc'.new >= 0
  BY <1>1, <1>2, <1>3 DEF CntSet
<1> QED BY <1>1, <1>4, CpuRead

(* ss_synchronize reads one CPU.                                            *)
LEMMA ReadSyncStep ==
    ASSUME StopInv, NEW c \in CPU, ReadSync(c)
    PROVE  StopInv'
<1>1. /\ UNCHANGED <<cnt, job, st, active, stop>> /\ stop \in Scans /\ c \in todo /\ todo' = todo \ {c}
      /\ acc' = [acc EXCEPT !.live = @ + cnt[c].live]
  BY DEF ReadSync, softVars, Scans
<1>2. /\ acc.live \in Int /\ acc.new \in Int /\ cnt[c].live \in Int /\ acc \in CntSet
      /\ StopTypeOK /\ ScanCovers
  BY StopTypes DEF StopInv, StopTypeOK
<1>3. acc.new >= 0
  BY <1>1, <1>2 DEF ScanCovers
<1>4. acc' \in CntSet /\ acc'.live = acc.live + cnt[c].live /\ acc'.new >= 0
  BY <1>1, <1>2, <1>3 DEF CntSet
<1> QED BY <1>1, <1>4, CpuRead

(* ss_wait_newconn ends, gives up or reads again.                           *)
LEMMA WaitStep ==
    ASSUME StopInv, ss_wait_newconn
    PROVE  StopInv'
<1>1. /\ UNCHANGED <<cnt, job, st, active>> /\ stop = "newconn" /\ todo = {} /\ stop \in Scans
      /\ \/ stop' = "closeclnt" /\ acc' = acc
         \/ stop' = "warned" /\ acc' = acc
         \/ BeginScan("newconn", FALSE)
         \/ BeginScan("newconn", TRUE)
  BY DEF ss_wait_newconn, softVars, Scans
<1>2. active = FALSE /\ acc \in CntSet
  BY <1>1 DEF StopInv, FlagDown, StopTypeOK
<1>3. CASE stop' \in {"closeclnt", "warned"} /\ acc' = acc
  BY <1>1, <1>2, <1>3, GoesOn DEF Scans
<1>4. CASE BeginScan("newconn", FALSE) \/ BeginScan("newconn", TRUE)
  <2>1. stop' = "newconn" /\ todo' = CPU /\ acc' \in {acc, Zero}
    BY <1>4 DEF BeginScan
  <2>2. acc' \in CntSet /\ acc'.live \in Int /\ acc'.live >= 0 /\ acc'.new >= 0
    BY <1>1, <1>2, <2>1, ScanEnds, ZeroIs
  <2>3. "newconn" \in Scans /\ stop # "run" /\ UNCHANGED <<cnt, job, st, active>>
    BY <1>1 DEF Scans
  <2> QED BY <2>1, <2>2, <2>3, ScansAgain
<1> QED BY <1>1, <1>3, <1>4

(* The stop goes on after the warning.                                      *)
LEMMA WarnedStep ==
    ASSUME StopInv, NewConnWarned
    PROVE  StopInv'
<1>1. /\ UNCHANGED <<cnt, job, st, active, acc>> /\ stop = "warned" /\ stop' = "closeclnt"
  BY DEF NewConnWarned, softVars, accVars
<1>2. active = FALSE
  BY <1>1 DEF StopInv, FlagDown, StopTypeOK
<1> QED BY <1>1, <1>2, GoesOn DEF Scans

(* One close is pushed.                                                     *)
LEMMA CloseOneStep ==
    ASSUME StopInv, NEW c \in CPU, NEW k \in Conn, CloseOne(c, k)
    PROVE  StopInv'
<1>1. /\ UNCHANGED <<cnt, job, st, active, acc, stop>> /\ stop \in {"closeclnt", "closesrv"}
  BY DEF CloseOne, accVars
<1>2. active = FALSE
  BY <1>1 DEF StopInv, FlagDown, StopTypeOK
<1> QED BY <1>1, <1>2, GoesOn DEF Scans

(* All closes of a kind were pushed.                                        *)
LEMMA CloseNextStep ==
    ASSUME StopInv, CloseNext
    PROVE  StopInv'
<1>1. /\ UNCHANGED <<cnt, job, st, active>>
      /\ \/ stop = "closeclnt" /\ stop' = "closesrv" /\ acc' = acc
         \/ stop = "closesrv" /\ BeginScan("sync", TRUE)
  BY DEF CloseNext, softVars, accVars
<1>2. active = FALSE
  BY <1>1 DEF StopInv, FlagDown, StopTypeOK
<1>3. CASE stop' = "closesrv" /\ acc' = acc
  BY <1>1, <1>2, <1>3, GoesOn DEF Scans
<1>4. CASE stop = "closesrv" /\ BeginScan("sync", TRUE)
  <2>1. stop' = "sync" /\ todo' = CPU /\ acc' = Zero
    BY <1>4 DEF BeginScan
  <2>2. acc' \in CntSet /\ acc'.live \in Int /\ acc'.live >= 0 /\ acc'.new >= 0
    BY <2>1, ZeroIs
  <2>3. "sync" \in Scans /\ stop # "run" /\ UNCHANGED <<cnt, job, st, active>>
    BY <1>1, <1>4 DEF Scans
  <2> QED BY <2>1, <2>2, <2>3, ScansAgain
<1> QED BY <1>1, <1>3, <1>4

(* ss_synchronize returns, clean only when it counted nothing, or reads again.*)
LEMMA SynchronizeStep ==
    ASSUME StopInv, ss_synchronize
    PROVE  StopInv'
<1>1. /\ UNCHANGED <<cnt, job, st, active>> /\ stop = "sync" /\ todo = {} /\ stop \in Scans
      /\ \/ stop' = "clean" /\ acc' = acc /\ acc.live = 0
         \/ stop' = "leaked" /\ acc' = acc
         \/ BeginScan("sync", TRUE)
  BY DEF ss_synchronize, softVars, accVars, Scans
<1>2. active = FALSE
  BY <1>1 DEF StopInv, FlagDown, StopTypeOK
<1>3. CASE stop' = "clean" /\ acc' = acc /\ acc.live = 0
  <2>1. Cardinality(Held) = 0
    BY <1>1, <1>3, ScanEnds, HeldFinite
  <2>2. Held = {}
    BY <2>1, HeldFinite, FS_EmptySet
  <2> QED BY <1>1, <1>2, <1>3, <2>2, GoesOn DEF Scans
<1>4. CASE stop' = "leaked" /\ acc' = acc
  BY <1>1, <1>2, <1>4, GoesOn DEF Scans
<1>5. CASE BeginScan("sync", TRUE)
  <2>1. stop' = "sync" /\ todo' = CPU /\ acc' = Zero
    BY <1>5 DEF BeginScan
  <2>2. acc' \in CntSet /\ acc'.live \in Int /\ acc'.live >= 0 /\ acc'.new >= 0
    BY <2>1, ZeroIs
  <2>3. "sync" \in Scans /\ stop # "run" /\ UNCHANGED <<cnt, job, st, active>>
    BY <1>1 DEF Scans
  <2> QED BY <2>1, <2>2, <2>3, ScansAgain
<1> QED BY <1>1, <1>3, <1>4, <1>5

-----------------------------------------------------------------------------
(* The invariant holds at first.                                            *)
LEMMA StopStarts == StopInit => StopInv
<1> SUFFICES ASSUME StopInit PROVE StopInv
  OBVIOUS
<1>1. Idle \in JobSet /\ Idle.conn = NoConn /\ Idle.pc = "idle" /\ Idle.step = "test"
  BY DEF Idle, JobSet, Pcs
<1>2. /\ \A c \in CPU : job[c] = Idle /\ cnt[c] = Zero
      /\ \A k \in Conn : st[k] = "none"
      /\ active = TRUE /\ stop = "run" /\ acc = Zero
  BY DEF StopInit
<1>3. StopTypeOK
  BY <1>1, ZeroIs DEF StopInit, StopTypeOK, StSet, Scans
<1>4. OneHandler /\ NewCounted /\ FlagDown
  BY <1>1, <1>2, ZeroIs DEF OneHandler, NewCounted, NewOf, FlagDown
<1>5. JobsOk
  BY <1>1, <1>2 DEF JobsOk, JobOk
<1>6. Held = {}
  BY <1>1, <1>2 DEF Held, Up, Holding
<1>7. LiveCounted
  <2>1. \A c \in CPU : Full[c] = 0
    BY <1>1, <1>2, ZeroIs DEF Full, Trial
  <2>2. Cardinality(Held) = 0
    BY <1>6, FS_EmptySet
  <2>3. PICK g : g = Full
    OBVIOUS
  <2>4. SumIs(g, 0)
    BY <2>1, <2>3, SumOfZeros
  <2> QED BY <2>2, <2>3, <2>4 DEF LiveCounted
<1>8. ScanCovers /\ CleanHolds
  BY <1>2 DEF ScanCovers, CleanHolds, Scans
<1> QED BY <1>3, <1>4, <1>5, <1>7, <1>8 DEF StopInv

(* Every step of a handler keeps the invariant.                             *)
LEMMA JobSteps ==
    ASSUME StopInv, NEW c \in CPU, JobStep(c)
    PROVE  StopInv'
<1>1. CASE ConnectGuard(c)
  BY <1>1, ConnectGuardStep DEF ConnectGuard
<1>2. CASE ConnectDone(c)
  BY <1>2, ConnectDoneStep
<1>3. CASE EstablishedGuard(c)
  BY <1>3, NewGuardStep, LiveGuardStep DEF EstablishedGuard
<1>4. CASE EstablishedRefused(c)
  BY <1>4, RefusedStep
<1>5. CASE ConnectionNew(c)
  BY <1>5, NewStep
<1>6. CASE EstablishedExit(c)
  BY <1>6, ExitStep
<1>7. CASE ConnectionDrop(c)
  BY <1>7, DropStep
<1> QED BY <1>1, <1>2, <1>3, <1>4, <1>5, <1>6, <1>7 DEF JobStep

(* Every step of the stopping process keeps it.                             *)
LEMMA StopSteps ==
    ASSUME StopInv, StopStep
    PROVE  StopInv'
<1>1. CASE tfw_sock_clnt_stop
  BY <1>1, ClntStopStep
<1>2. CASE \E c \in CPU : ReadNewConn(c) \/ ReadSync(c)
  BY <1>2, ReadNewStep, ReadSyncStep
<1>3. CASE ss_wait_newconn \/ NewConnWarned
  BY <1>3, WaitStep, WarnedStep
<1>4. CASE \E c \in CPU, k \in Conn : CloseOne(c, k)
  BY <1>4, CloseOneStep
<1>5. CASE CloseNext \/ ss_synchronize
  BY <1>5, CloseNextStep, SynchronizeStep
<1> QED BY <1>1, <1>2, <1>3, <1>4, <1>5 DEF StopStep

(* Every step keeps it.                                                     *)
LEMMA StopKeeps == StopInv /\ [StopNext]_stopVars => StopInv'
<1> SUFFICES ASSUME StopInv, [StopNext]_stopVars PROVE StopInv'
  OBVIOUS
<1>1. CASE \E c \in CPU, k \in Srv : ss_connect(c, k)
  BY <1>1, ConnectStep
<1>2. CASE \E c \in CPU, k \in Conn : Established(c, k) \/ Reset(c, k) \/ TxClose(c, k)
  BY <1>2, EstablishedStep, ResetStep, TxCloseStep
<1>3. CASE \E c \in CPU : JobStep(c)
  BY <1>3, JobSteps
<1>4. CASE ss_stop
  BY <1>4, ss_stopStep
<1>5. CASE StopStep
  BY <1>5, StopSteps
<1>6. CASE Timeout
  <2>1. UNCHANGED <<cnt, job, st, active, stop, todo, acc>>
    BY <1>6 DEF Timeout, softVars, accVars
  <2> QED BY <2>1, NothingCounted
<1>7. CASE UNCHANGED stopVars
  <2>1. UNCHANGED <<cnt, job, st, active, stop, todo, acc>>
    BY <1>7 DEF stopVars
  <2> QED BY <2>1, NothingCounted
<1> QED BY <1>1, <1>2, <1>3, <1>4, <1>5, <1>6, <1>7 DEF StopNext

(* What the waits conclude follows.                                         *)
LEMMA StopGives == StopInv => ShutdownSafe
<1> SUFFICES ASSUME StopInv PROVE ShutdownSafe
  OBVIOUS
<1>1. SumNotNegative
  BY ScanEnds DEF SumNotNegative, Scans
<1>2. CleanIsQuiet
  <2> SUFFICES ASSUME stop = "clean"
               PROVE  (\A k \in Conn : ~Alive(k)) /\ \A c \in CPU : ~InUpcall(c)
    BY DEF CleanIsQuiet
  <2>1. Held = {}
    BY DEF StopInv, CleanHolds
  <2>2. \A k \in Conn : ~Up(st[k]) /\ \A c \in CPU : ~(job[c].conn = k /\ Holding(job[c]))
    BY <2>1 DEF Held
  <2>3. \A k \in Conn : ~Alive(k)
    BY <2>2 DEF Alive, Up
  <2>4. ASSUME NEW c \in CPU, job[c].pc \in {"hook", "drop"} PROVE FALSE
    <3>1. PICK o \in JobSet, m \in CntSet, k \in Conn, r \in StSet : Handles(c, o, m, k, r)
      BY <2>4, Handled
    <3>2. o = job[c] /\ k = o.conn /\ r = st[k] /\ JobOk(o, r)
      BY <3>1 DEF Handles
    <3>3. CASE o.pc = "hook"
      BY <2>2, <3>2, <3>3 DEF Holding
    <3>4. CASE o.pc = "drop"
      BY <2>2, <3>2, <3>4 DEF JobOk
    <3> QED BY <2>4, <3>2, <3>3, <3>4
  <2> QED BY <2>3, <2>4 DEF InUpcall
<1> QED BY <1>1, <1>2 DEF ShutdownSafe

(* What ss_wait_newconn and ss_synchronize conclude from counters they read  *)
(* one by one is right, for any number of CPUs and connections: the sums are *)
(* not negative, and a clean ss_synchronize means that no upcall can run.    *)
THEOREM StopSafe == StopSpec => []ShutdownSafe
<1>1. StopInit => StopInv
  BY StopStarts
<1>2. StopInv /\ [StopNext]_stopVars => StopInv'
  BY StopKeeps
<1>3. StopInv => ShutdownSafe
  BY StopGives
<1> QED BY <1>1, <1>2, <1>3, PTL DEF StopSpec
=============================================================================
