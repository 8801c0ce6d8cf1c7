-------------------------- MODULE ClientSide_proofs --------------------------
(***************************************************************************)
(* Proofs about client descriptors and client connections (the first part, *)
(* module ClientConn) and about the pipelined requests of a connection     *)
(* (the second part, module RespOrder): accounts are kept, timers stop,    *)
(* responses go out in the order of the requests and nothing is freed      *)
(* under anyone.                                                           *)
(***************************************************************************)
EXTENDS ClientConn, RespOrder, FiniteSetTheorems, SequenceTheorems, NaturalsInduction,
        WellFoundedInduction, TLAPS

-----------------------------------------------------------------------------
(* Client connections: the inductive invariant                              *)

ClientEntry ==
    [users : Int, expires : {"absent", "never", "set", "past"}, acct : Int]

CcTypeOK ==
    /\ ent \in [Client -> ClientEntry]
    /\ peer \in [Conn -> Client \cup {NoClient}]
    /\ st \in [Conn -> {"none", "up", "dropping", "dropped", "freed"}]
    /\ refs \in [Conn -> Int]
    /\ timer \in [Conn -> {"off", "armed", "running"}]
    /\ tlock \subseteq Conn
    /\ putting \subseteq Conn

(* A connection that was linked has a peer; the references on it are at     *)
(* least the one of its socket while it lives and none when it does not.    *)
LifeInv ==
    \A k \in Conn :
        /\ st[k] # "none" => peer[k] \in Client
        /\ st[k] \in {"up", "dropping", "dropped"} => refs[k] >= 1
        /\ st[k] \in {"none", "freed"} => refs[k] = 0
        /\ k \in putting => st[k] = "freed"

(* The timer and its lock are only busy while the connection is up.         *)
TimerInv ==
    \A k \in Conn :
        /\ timer[k] # "off" => st[k] = "up"
        /\ k \in tlock => st[k] = "up"

(* A descriptor counts its users exactly: one for every connection that is  *)
(* linked to it and not yet freed, so the unlocked atomic_dec_and_test() of *)
(* tfw_client_put() reaches zero once for the last of them and never        *)
(* passes it.                                                               *)
Users(a) == {k \in Conn : peer[k] = a /\ st[k] \in {"up", "dropping", "dropped"}}
UsersCounted == \A a \in Client : ent[a].users = Cardinality(Users(a))

(* An entry that has an expiration time has no users.                       *)
ExpireInv == \A a \in Client : ent[a].expires # "never" => ent[a].users = 0

CcInv == CcTypeOK /\ LifeInv /\ TimerInv /\ UsersCounted /\ ExpireInv

-----------------------------------------------------------------------------
(* Adding a member to, and taking one from, a set of connections.           *)

LEMMA ConnSubset ==
    ASSUME NEW S, S \subseteq Conn
    PROVE  IsFiniteSet(S) /\ Cardinality(S) \in Nat
BY ClientConnAssumption, FS_Subset, FS_CardinalityType

LEMMA ConnAdded ==
    ASSUME NEW S, S \subseteq Conn, NEW k \in Conn, k \notin S
    PROVE  Cardinality(S \cup {k}) = Cardinality(S) + 1
BY ConnSubset, FS_AddElement

LEMMA ConnTaken ==
    ASSUME NEW S, S \subseteq Conn, NEW k \in S
    PROVE  Cardinality(S \ {k}) = Cardinality(S) - 1
BY ConnSubset, FS_RemoveElement

(* A connection that becomes a user of a is counted there and nowhere else. *)
LEMMA UserAdded ==
    ASSUME CcTypeOK, UsersCounted, NEW k \in Conn, NEW a \in Client,
           st[k] = "none", st' = [st EXCEPT ![k] = "up"],
           peer' = [peer EXCEPT ![k] = a],
           NEW b \in Client
    PROVE  Cardinality(Users(b)') = ent[b].users + (IF b = a THEN 1 ELSE 0)
<1>1. CASE b = a
  <2>1. Users(b)' = Users(b) \cup {k} /\ k \notin Users(b) /\ Users(b) \subseteq Conn
    BY <1>1 DEF Users, CcTypeOK
  <2> QED BY <1>1, <2>1, ConnAdded, ConnSubset DEF UsersCounted
<1>2. CASE b # a
  <2>1. Users(b)' = Users(b) /\ Users(b) \subseteq Conn
    BY <1>2 DEF Users, CcTypeOK
  <2> QED BY <1>2, <2>1, ConnSubset DEF UsersCounted
<1> QED BY <1>1, <1>2

(* A connection that is freed is no longer counted by its peer.             *)
LEMMA UserTaken ==
    ASSUME CcTypeOK, UsersCounted, NEW k \in Conn,
           st[k] \in {"up", "dropping", "dropped"},
           st' = [st EXCEPT ![k] = "freed"], peer' = peer,
           NEW b \in Client
    PROVE  Cardinality(Users(b)') = ent[b].users - (IF b = peer[k] THEN 1 ELSE 0)
<1>1. CASE b = peer[k]
  <2>1. Users(b)' = Users(b) \ {k} /\ k \in Users(b) /\ Users(b) \subseteq Conn
    BY <1>1 DEF Users, CcTypeOK
  <2> QED BY <1>1, <2>1, ConnTaken, ConnSubset DEF UsersCounted
<1>2. CASE b # peer[k]
  <2>1. Users(b)' = Users(b) /\ Users(b) \subseteq Conn
    BY <1>2 DEF Users, CcTypeOK
  <2> QED BY <1>2, <2>1, ConnSubset DEF UsersCounted
<1> QED BY <1>1, <1>2

(* Steps that leave every connection among, or outside, the users.          *)
LEMMA UsersKept ==
    ASSUME CcTypeOK, UsersCounted, peer' = peer, ent' = ent,
           \A k \in Conn : st'[k] \in {"up", "dropping", "dropped"}
                             <=> st[k] \in {"up", "dropping", "dropped"}
    PROVE  UsersCounted'
<1>1. \A b \in Client : Users(b)' = Users(b)
  BY DEF Users
<1> QED BY <1>1 DEF UsersCounted

-----------------------------------------------------------------------------
(* The inductive invariant                                                  *)

LEMMA CcInit == Init => CcInv
<1> SUFFICES ASSUME Init PROVE CcInv
  OBVIOUS
<1>1. CcTypeOK
  BY DEF Init, CcTypeOK, ClientEntry
<1>2. LifeInv /\ TimerInv /\ ExpireInv
  BY DEF Init, LifeInv, TimerInv, ExpireInv
<1>3. UsersCounted
  <2>1. \A a \in Client : Users(a) = {}
    BY DEF Init, Users
  <2> QED BY <2>1, FS_EmptySet DEF Init, UsersCounted
<1> QED BY <1>1, <1>2, <1>3 DEF CcInv

(* The step of the last tfw_connection_put(): the references of k decrease, *)
(* and with the last one k is freed and its peer loses a user.              *)
LEMMA ConnPutStep ==
    ASSUME CcInv, NEW k \in Conn, NEW s,
           s = st[k] \/ (st[k] = "dropping" /\ s = "dropped"),
           st[k] \in {"up", "dropping", "dropped"},
           st[k] = "up" => s = "up" /\ refs[k] # 1,
           tfw_connection_put(k, s), UNCHANGED <<online, peer, timer, tlock>>
    PROVE  CcInv'
<1> USE DEF CcInv
<1>1. peer[k] \in Client /\ refs[k] \in Int /\ refs[k] >= 1 /\ timer[k] \in {"off", "armed", "running"}
  BY DEF LifeInv, CcTypeOK
<1>2. CASE refs[k] = 1 /\ Released(k)
  <2>1. /\ st' = [st EXCEPT ![k] = "freed"]
        /\ refs' = [refs EXCEPT ![k] = 0]
        /\ ent' = [ent EXCEPT ![peer[k]].users = @ - 1]
        /\ putting' \subseteq putting \cup {k}
    BY <1>1, <1>2 DEF tfw_connection_put, Released, Dec
  <2>2. \A b \in Client : /\ ent'[b].users = ent[b].users - (IF b = peer[k] THEN 1 ELSE 0)
                          /\ ent'[b].expires = ent[b].expires
                          /\ ent'[b] \in ClientEntry
    BY <1>1, <2>1 DEF CcTypeOK, ClientEntry
  <2>3. CcTypeOK'
    BY <1>1, <2>1, <2>2 DEF CcTypeOK
  <2>4. UsersCounted'
    BY <2>1, <2>2, UserTaken DEF UsersCounted
  <2>5. LifeInv'
    BY <1>1, <2>1 DEF LifeInv, CcTypeOK
  <2>6. TimerInv'
    BY <1>2, <2>1 DEF TimerInv, CcTypeOK
  <2>7. ExpireInv'
    <3>1. k \in Users(peer[k]) /\ Users(peer[k]) \subseteq Conn
      BY DEF Users
    <3>2. ent[peer[k]].users # 0
      BY <1>1, <3>1, ConnSubset, FS_EmptySet DEF UsersCounted
    <3> QED BY <1>1, <2>2, <3>2 DEF ExpireInv, CcTypeOK, ClientEntry
  <2> QED BY <2>3, <2>4, <2>5, <2>6, <2>7
<1>3. CASE refs[k] # 1 /\ st' = [st EXCEPT ![k] = s] /\ UNCHANGED <<ent, putting>>
  <2>1. refs' = [refs EXCEPT ![k] = refs[k] - 1]
    BY DEF tfw_connection_put
  <2>2. CcTypeOK'
    BY <1>1, <1>3, <2>1 DEF CcTypeOK
  <2>3. UsersCounted'
    <3>1. \A j \in Conn : st'[j] \in {"up", "dropping", "dropped"}
                             <=> st[j] \in {"up", "dropping", "dropped"}
      BY <1>3 DEF CcTypeOK
    <3> QED BY <1>3, <3>1, UsersKept
  <2>4. LifeInv'
    BY <1>1, <1>3, <2>1 DEF LifeInv, CcTypeOK
  <2>5. TimerInv' /\ ExpireInv'
    BY <1>3 DEF TimerInv, ExpireInv, CcTypeOK
  <2> QED BY <2>2, <2>3, <2>4, <2>5
<1> QED BY <1>2, <1>3 DEF tfw_connection_put

(* Steps of the timer, of its lock, of senders and of closers: they leave   *)
(* the life of the connections and the descriptors alone.                   *)
LEMMA TimerStep ==
    ASSUME CcInv, UNCHANGED <<ent, peer, st, refs, putting>>,
           NEW k \in Conn, NEW t \in {"off", "armed", "running"},
           timer' = timer \/ timer' = [timer EXCEPT ![k] = t],
           tlock' \subseteq tlock \cup {k},
           (timer' = timer /\ tlock' = tlock) \/ st[k] = "up"
    PROVE  CcInv'
<1> USE DEF CcInv
<1>1. CcTypeOK'
  BY DEF CcTypeOK
<1>2. UsersCounted'
  BY UsersKept
<1>3. LifeInv' /\ ExpireInv'
  BY DEF LifeInv, ExpireInv
<1>4. TimerInv'
  BY DEF TimerInv, CcTypeOK
<1> QED BY <1>1, <1>2, <1>3, <1>4

LEMMA CcNext == CcInv /\ [Next]_vars => CcInv'
<1> SUFFICES ASSUME CcInv, [Next]_vars PROVE CcInv'
  OBVIOUS
<1> USE DEF CcInv
<1>1. ASSUME NEW k \in Conn, NEW a \in Client, tfw_sock_clnt_new(k, a) PROVE CcInv'
  <2>1. /\ st[k] = "none" /\ st' = [st EXCEPT ![k] = "up"]
        /\ peer' = [peer EXCEPT ![k] = a] /\ refs' = [refs EXCEPT ![k] = 1]
        /\ timer' = [timer EXCEPT ![k] = "armed"]
        /\ UNCHANGED <<tlock, putting>>
    BY <1>1 DEF tfw_sock_clnt_new
  <2>2. \A b \in Client : /\ ent'[b].users = ent[b].users + (IF b = a THEN 1 ELSE 0)
                          /\ ent'[b].expires = IF b = a THEN "never" ELSE ent[b].expires
                          /\ ent'[b] \in ClientEntry
    BY <1>1 DEF tfw_sock_clnt_new, Obtained, CcTypeOK, ClientEntry
  <2>3. ent' \in [Client -> ClientEntry]
    BY <1>1, <2>2 DEF tfw_sock_clnt_new, CcTypeOK
  <2>4. CcTypeOK'
    BY <2>1, <2>3 DEF CcTypeOK
  <2>5. UsersCounted'
    BY <2>1, <2>2, UserAdded DEF UsersCounted
  <2>6. LifeInv' /\ TimerInv'
    BY <2>1 DEF LifeInv, TimerInv, CcTypeOK
  <2>7. ExpireInv'
    BY <2>2 DEF ExpireInv, CcTypeOK, ClientEntry
  <2> QED BY <2>4, <2>5, <2>6, <2>7
<1>2. ASSUME NEW k \in Conn, NEW a \in Client, ClntNewFailed(k, a) PROVE CcInv'
  <2>1. /\ st[k] = "none" /\ st' = [st EXCEPT ![k] = "freed"]
        /\ peer' = [peer EXCEPT ![k] = a]
        /\ putting' \subseteq putting \cup {k}
        /\ UNCHANGED <<refs, timer, tlock>>
    BY <1>2 DEF ClntNewFailed
  <2>2. \A b \in Client : /\ ent'[b].users = ent[b].users
                          /\ ent'[b].expires = IF b = a THEN "never" ELSE ent[b].expires
                          /\ ent'[b] \in ClientEntry
    BY <1>2 DEF ClntNewFailed, Obtained, CcTypeOK, ClientEntry
  <2>3. ent' \in [Client -> ClientEntry]
    BY <1>2, <2>2 DEF ClntNewFailed, CcTypeOK
  <2>4. CcTypeOK'
    BY <2>1, <2>3 DEF CcTypeOK
  <2>5. UsersCounted'
    <3>1. \A b \in Client : Users(b)' = Users(b)
      BY <2>1 DEF Users, CcTypeOK
    <3> QED BY <2>2, <3>1, Zenon DEF UsersCounted
  <2>6. LifeInv' /\ TimerInv'
    BY <2>1 DEF LifeInv, TimerInv, CcTypeOK
  <2>7. ExpireInv'
    BY <2>2 DEF ExpireInv, CcTypeOK, ClientEntry
  <2> QED BY <2>4, <2>5, <2>6, <2>7
<1>3. ASSUME NEW a \in Client, Expire(a) PROVE CcInv'
  <2>1. UNCHANGED <<peer, st, refs, timer, tlock, putting>>
    BY <1>3 DEF Expire, connVars
  <2>2. \A b \in Client : /\ ent'[b].users = ent[b].users
                          /\ ent'[b].expires # "never" => ent[b].expires # "never"
                          /\ ent'[b] \in ClientEntry
    BY <1>3 DEF Expire, CcTypeOK, ClientEntry
  <2>3. CcTypeOK'
    BY <1>3, <2>1, <2>2 DEF Expire, CcTypeOK
  <2>4. UsersCounted'
    <3>1. \A b \in Client : Users(b)' = Users(b)
      BY <2>1 DEF Users
    <3> QED BY <2>2, <3>1, Zenon DEF UsersCounted
  <2>5. LifeInv' /\ TimerInv' /\ ExpireInv'
    BY <2>1, <2>2 DEF LifeInv, TimerInv, ExpireInv, CcTypeOK, ClientEntry
  <2> QED BY <2>3, <2>4, <2>5
<1>4. ASSUME NEW k \in Conn, tfw_client_put(k) PROVE CcInv'
  <2>1. /\ UNCHANGED <<peer, st, refs, timer, tlock>>
        /\ putting' \subseteq putting /\ peer[k] \in Client
    BY <1>4 DEF tfw_client_put, connVars, LifeInv
  <2>2. \A b \in Client : /\ ent'[b].users = ent[b].users
                          /\ \/ ent'[b].expires = ent[b].expires
                             \/ ent'[b].expires = "set" /\ ent[b].users = 0
                          /\ ent'[b] \in ClientEntry
    BY <1>4, <2>1 DEF tfw_client_put, CcTypeOK, ClientEntry
  <2>3. CcTypeOK'
    BY <1>4, <2>1, <2>2 DEF tfw_client_put, CcTypeOK
  <2>4. UsersCounted'
    <3>1. \A b \in Client : Users(b)' = Users(b)
      BY <2>1 DEF Users
    <3> QED BY <2>2, <3>1, Zenon DEF UsersCounted
  <2>5. LifeInv' /\ TimerInv'
    BY <2>1 DEF LifeInv, TimerInv
  <2>6. ExpireInv'
    BY <2>2 DEF ExpireInv, CcTypeOK, ClientEntry
  <2> QED BY <2>3, <2>4, <2>5, <2>6
<1>5. ASSUME NEW k \in Conn, tfw_sock_clnt_drop(k) PROVE CcInv'
  <2>1. CcTypeOK'
    BY <1>5 DEF tfw_sock_clnt_drop, CcTypeOK
  <2>2. UsersCounted'
    <3>1. \A j \in Conn : st'[j] \in {"up", "dropping", "dropped"}
                             <=> st[j] \in {"up", "dropping", "dropped"}
      BY <1>5 DEF tfw_sock_clnt_drop, CcTypeOK
    <3> QED BY <1>5, <3>1, UsersKept DEF tfw_sock_clnt_drop
  <2>3. LifeInv' /\ TimerInv' /\ ExpireInv'
    BY <1>5 DEF tfw_sock_clnt_drop, CcTypeOK, LifeInv, TimerInv, ExpireInv
  <2> QED BY <2>1, <2>2, <2>3
<1>6. ASSUME NEW k \in Conn, ClntDropped(k) PROVE CcInv'
  BY <1>6, ConnPutStep DEF ClntDropped
<1>7. ASSUME NEW k \in Conn, ConnPut(k) PROVE CcInv'
  <2>1. refs[k] \in Int /\ st[k] \in {"up", "dropping", "dropped"}
    BY <1>7 DEF ConnPut, Held, LifeInv, CcTypeOK
  <2>2. st[k] = "up" => refs[k] # 1
    BY <1>7, <2>1 DEF ConnPut, Held
  <2> QED BY <1>7, <2>1, <2>2, ConnPutStep DEF ConnPut
<1>8. ASSUME NEW k \in Conn, ConnGet(k) PROVE CcInv'
  <2>1. CcTypeOK' /\ LifeInv' /\ TimerInv' /\ ExpireInv'
    BY <1>8 DEF ConnGet, CcTypeOK, LifeInv, TimerInv, ExpireInv
  <2>2. UsersCounted'
    BY <1>8, UsersKept DEF ConnGet
  <2> QED BY <2>1, <2>2
<1>9. ASSUME NEW k \in Conn, tfw_cli_conn_send(k) PROVE CcInv'
  <2>1. tlock' # tlock => st[k] = "up"
    BY <1>9 DEF tfw_cli_conn_send, TimerInv
  <2>2. tlock' \subseteq tlock \cup {k}
    BY <1>9 DEF tfw_cli_conn_send
  <2> QED BY <1>9, <2>1, <2>2, TimerStep DEF tfw_cli_conn_send
<1>10. ASSUME NEW k \in Conn, SendModTimer(k) PROVE CcInv'
  <2>1. st[k] = "up" /\ timer[k] \in {"off", "armed", "running"}
    BY <1>10 DEF SendModTimer, TimerInv, CcTypeOK
  <2>2. PICK t \in {"off", "armed", "running"} : timer' = [timer EXCEPT ![k] = t]
    BY <1>10, <2>1 DEF SendModTimer
  <2> QED BY <1>10, <2>1, <2>2, TimerStep DEF SendModTimer
<1>11. ASSUME NEW k \in Conn, TimerFires(k) PROVE CcInv'
  <2>1. st[k] = "up"
    BY <1>11 DEF TimerFires, TimerInv
  <2> QED BY <1>11, <2>1, TimerStep DEF TimerFires
<1>12. ASSUME NEW k \in Conn, tfw_sock_cli_keepalive_timer_cb(k) PROVE CcInv'
  <2>1. st[k] = "up"
    BY <1>12 DEF tfw_sock_cli_keepalive_timer_cb, TimerInv
  <2> QED BY <1>12, <2>1, TimerStep DEF tfw_sock_cli_keepalive_timer_cb
<1>13. ASSUME UNCHANGED <<ent, peer, st, refs, timer, tlock, putting>> PROVE CcInv'
  <2>1. CcTypeOK' /\ LifeInv' /\ TimerInv' /\ ExpireInv'
    BY <1>13 DEF CcTypeOK, LifeInv, TimerInv, ExpireInv
  <2> QED BY <1>13, <2>1, UsersKept
<1>14. ASSUME NEW a \in Client, CloseAll(a) PROVE CcInv'
  BY <1>13, <1>14 DEF CloseAll
<1>15. CASE UNCHANGED vars
  BY <1>13, <1>15 DEF vars
<1> QED
  BY <1>1, <1>2, <1>3, <1>4, <1>5, <1>6, <1>7, <1>8, <1>9, <1>10, <1>11, <1>12,
     <1>14, <1>15 DEF Next

(* The conjuncts of the inductive invariant hold of every execution.        *)
THEOREM CcInvariance == Spec => []CcInv
BY CcInit, CcNext, PTL DEF Spec

(* A descriptor's users are exactly its living connections, whatever the    *)
(* interleaving of new connections with the unlocked decrement of           *)
(* tfw_client_put().                                                        *)
THEOREM UsersAreConnections == Spec => []UsersCounted
<1>1. CcInv => UsersCounted
  BY DEF CcInv
<1> QED BY <1>1, CcInvariance, PTL

(* BUG_ON(timer_pending()) of tfw_cli_conn_free() never fires.              *)
THEOREM TimerStopped == Spec => []NoTimerAfterFree
<1>1. CcInv => NoTimerAfterFree
  BY DEF CcInv, TimerInv, NoTimerAfterFree, CcTypeOK
<1> QED BY <1>1, CcInvariance, PTL

(* A step that wipes the accounting of a client finds it without users: the *)
(* only step that does so is tfw_client_obtain() on an entry that has an    *)
(* expiration time.                                                         *)
THEOREM AccountingKept == Spec => AccountKept
<1> DEFINE Kept == \A a \in Client : ent[a].acct = 1 /\ ent'[a].acct = 0 => ent[a].users = 0
<1>1. CcInv /\ [Next]_vars => [Kept]_vars
  <2> SUFFICES ASSUME CcInv, Next, NEW b \in Client, ent[b].acct = 1, ent'[b].acct = 0
               PROVE  ent[b].users = 0
    BY DEF vars
  <2> USE DEF CcInv
  <2>1. SUFFICES ASSUME ent[b].expires = "never" PROVE FALSE
    BY DEF ExpireInv
  <2>2. ASSUME NEW k \in Conn, NEW a \in Client,
               tfw_sock_clnt_new(k, a) \/ ClntNewFailed(k, a)
        PROVE  FALSE
    BY <2>1, <2>2 DEF tfw_sock_clnt_new, ClntNewFailed, Obtained, CcTypeOK, ClientEntry
  <2>3. ASSUME NEW a \in Client, Expire(a) \/ CloseAll(a) PROVE FALSE
    BY <2>3 DEF Expire, CloseAll, CcTypeOK, ClientEntry
  <2>4. ASSUME NEW k \in Conn, tfw_client_put(k) PROVE FALSE
    BY <2>4 DEF tfw_client_put, CcTypeOK, ClientEntry
  <2>5. ASSUME NEW k \in Conn, NEW s, tfw_connection_put(k, s) PROVE FALSE
    BY <2>5 DEF tfw_connection_put, Released, Dec, CcTypeOK, ClientEntry
  <2>6. ASSUME ent' = ent PROVE FALSE
    BY <2>6
  <2>7. ASSUME NEW k \in Conn, ClntDropped(k) \/ ConnPut(k) PROVE FALSE
    BY <2>5, <2>7 DEF ClntDropped, ConnPut
  <2> QED
    BY <2>2, <2>3, <2>4, <2>6, <2>7
    DEF Next, tfw_sock_clnt_drop, ConnGet, tfw_cli_conn_send, SendModTimer, TimerFires,
        tfw_sock_cli_keepalive_timer_cb
<1> QED BY <1>1, CcInvariance, PTL DEF Spec, AccountKept

-----------------------------------------------------------------------------
(* Pipelined requests: the inductive invariant                              *)

Pc == {"idle", "adjust", "fwd", "clean", "wait", "send", "put"}
Ctx == [pc : Pc, req : 0..MaxReq, ret : Seq(Req)]

RoTypeOK ==
    /\ received \in 0..MaxReq
    /\ seqq \in Seq(Req)
    /\ flight \subseteq 1..received /\ ready \subseteq 1..received
    /\ ctx \in [Cpu -> Ctx]
    /\ work \in Seq(0..MaxReq) /\ delivered \in Seq(Req)
    /\ alive \in BOOLEAN /\ dropped \in BOOLEAN
    /\ reqRefs \in Int
    /\ freed \in [Req -> 0..1]

NoDup(q) == \A i, j \in 1..Len(q) : q[i] = q[j] => i = j

(* What the place of a CPU says of what it holds; seq_qlock and ret_qlock   *)
(* have one holder.                                                         *)
ShapeOf(c) ==
    /\ c.pc = "idle" => c = Idle
    /\ c.pc \in {"adjust", "fwd", "clean"} <=> c.req # NoReq
    /\ c.req # NoReq => c.ret = <<>>
Shapes == \A k \in Cpu : ShapeOf(ctx[k])
Locks == \A k, l \in Cpu : ctx[k].pc = ctx[l].pc /\ ctx[k].pc \in {"wait", "send"} => k = l

(* A request that is not freed is in flight, with one CPU, or ready and in  *)
(* one queue.                                                               *)
Live == {r \in 1..received : freed[r] = 0}
FlightInv == flight \subseteq Live /\ flight \cap ready = {}
HandInv == \A k \in Cpu : ctx[k].req # NoReq =>
               /\ ctx[k].req \in Live /\ ctx[k].req \notin flight \cup ready
               /\ \A l \in Cpu : ctx[l].req = ctx[k].req => l = k
RetInv == \A k \in Cpu :
               /\ NoDup(ctx[k].ret)
               /\ Range(ctx[k].ret) \subseteq (Live \cap ready) \ Range(seqq)
               /\ \A l \in Cpu : l # k => Range(ctx[l].ret) \cap Range(ctx[k].ret) = {}
QueueInv == NoDup(seqq) /\ Range(seqq) \subseteq Live
UnusedInv == \A r \in Req : r > received => freed[r] = 0

(* The drop empties the queue; until then what has no response yet is in it. *)
DropInv == IF dropped THEN ~alive /\ seqq = <<>>
           ELSE /\ flight \subseteq Range(seqq)
                /\ \A k \in Cpu : ctx[k].req # NoReq => ctx[k].req \in Range(seqq)

(* The connection is held by the socket, by each request and by a sender.   *)
Holding == {k \in Cpu : ctx[k].pc \in {"wait", "send", "put"}}
CountInv == reqRefs = (IF dropped THEN 0 ELSE 1) + Cardinality(Live) + Cardinality(Holding)

(* Until a close is queued the responses delivered, queued, being sent and  *)
(* cut off and the requests in the queue are 1, 2, ..., received: the       *)
(* sender's end at a, the waiting CPU's at b.                               *)
Clean == alive /\ \A i \in 1..Len(work) : work[i] # Close
Out == Len(delivered) + Len(work)
From(q, n) == \A i \in 1..Len(q) : q[i] = n + i
Ordered(a, b) ==
    /\ \/ a = Out /\ \A k \in Cpu : ctx[k].pc # "send"
       \/ \E k \in Cpu : ctx[k].pc = "send" /\ From(ctx[k].ret, Out) /\ a = Out + Len(ctx[k].ret)
    /\ \/ b = a /\ \A k \in Cpu : ctx[k].pc # "wait"
       \/ \E k \in Cpu : ctx[k].pc = "wait" /\ From(ctx[k].ret, a) /\ b = a + Len(ctx[k].ret)
    /\ From(seqq, b) /\ received = b + Len(seqq)
WorkInv == alive => \A i \in 1..Len(work) :
                       (\A j \in 1..i : work[j] # Close) => work[i] = Len(delivered) + i
CleanInv == \A k \in Cpu : ctx[k].pc = "clean" => ~Clean
OrderInv == InRequestOrder /\ WorkInv /\ CleanInv /\ (Clean => \E a, b \in Nat : Ordered(a, b))

PlaceInv == FlightInv /\ HandInv /\ RetInv /\ QueueInv /\ UnusedInv /\ DropInv
RoInv == RoTypeOK /\ Shapes /\ Locks /\ PlaceInv /\ CountInv /\ OrderInv

-----------------------------------------------------------------------------
(* Queues                                                                   *)

LEMMA RangeIs ==
    ASSUME NEW q \in Seq(Req)
    PROVE  /\ \A r : r \in Range(q) <=> \E i \in 1..Len(q) : q[i] = r
           /\ Len(q) \in Nat /\ \A i \in 1..Len(q) : q[i] \in Req
BY LenProperties, ElementOfSeq DEF Range

LEMMA NothingIn == <<>> \in Seq(Req) /\ Range(<<>>) = {} /\ NoDup(<<>>) /\ Len(<<>>) = 0
<1>1. <<>> \in Seq(Req) /\ Len(<<>>) = 0
  BY EmptySeq
<1>2. DOMAIN <<>> = {}
  BY <1>1
<1>3. Range(<<>>) = {}
  BY <1>2 DEF Range
<1>4. NoDup(<<>>)
  BY <1>1 DEF NoDup
<1> QED BY <1>1, <1>3, <1>4

(* A request is added.                                                      *)
LEMMA Added ==
    ASSUME NEW q \in Seq(Req), NoDup(q), NEW r \in Req, r \notin Range(q)
    PROVE  /\ Append(q, r) \in Seq(Req) /\ NoDup(Append(q, r))
           /\ Len(Append(q, r)) = Len(q) + 1 /\ Append(q, r)[Len(q) + 1] = r
           /\ \A i \in 1..Len(q) : Append(q, r)[i] = q[i]
           /\ Range(Append(q, r)) = Range(q) \cup {r}
<1> DEFINE n == Append(q, r)
<1>1. /\ n \in Seq(Req) /\ Len(n) = Len(q) + 1 /\ n[Len(q) + 1] = r
      /\ \A j \in 1..Len(q) : n[j] = q[j]
      /\ Len(q) \in Nat
  BY AppendProperties, LenProperties
<1> HIDE DEF n
<1>2. /\ \A j \in 1..Len(n) : j \in 1..Len(q) \/ j = Len(q) + 1
      /\ \A j \in 1..Len(q) : j \in 1..Len(n)
      /\ Len(q) + 1 \in 1..Len(n)
  BY <1>1
<1>3. NoDup(n)
  BY <1>1, <1>2, RangeIs DEF NoDup
<1>4. Range(n) = Range(q) \cup {r}
  BY <1>1, <1>2, RangeIs
<1> QED BY <1>1, <1>3, <1>4 DEF n

(* A queue is cut after its first n requests.                               *)
LEMMA Cut ==
    ASSUME NEW q \in Seq(Req), NoDup(q), NEW n \in 0..Len(q)
    PROVE  LET p == SubSeq(q, 1, n)
               s == SubSeq(q, n + 1, Len(q))
           IN  /\ p \in Seq(Req) /\ Len(p) = n /\ (\A i \in 1..n : p[i] = q[i]) /\ NoDup(p)
               /\ s \in Seq(Req) /\ Len(s) = Len(q) - n /\ NoDup(s)
               /\ (\A i \in 1 .. Len(q) - n : s[i] = q[n + i])
               /\ Range(p) \cup Range(s) = Range(q) /\ Range(p) \cap Range(s) = {}
<1> DEFINE p == SubSeq(q, 1, n)
           s == SubSeq(q, n + 1, Len(q))
<1>1. Len(q) \in Nat /\ \A j \in 1..Len(q) : q[j] \in Req
  BY RangeIs
<1>2. p \in Seq(Req) /\ Len(p) = n /\ \A i \in 1..n : p[i] = q[i]
  <2>1. 1 \in Int /\ n \in Int /\ \A j \in 1..n : q[j] \in Req
    BY <1>1
  <2>2. /\ p \in Seq(Req) /\ Len(p) = IF 1 <= n THEN n - 1 + 1 ELSE 0
        /\ \A j \in 1 .. n - 1 + 1 : p[j] = q[1 + j - 1]
    BY <2>1, SubSeqProperties
  <2> QED BY <1>1, <2>2
<1>3. s \in Seq(Req) /\ Len(s) = Len(q) - n /\ \A i \in 1 .. Len(q) - n : s[i] = q[n + i]
  <2>1. n + 1 \in Int /\ Len(q) \in Int /\ \A j \in n + 1 .. Len(q) : q[j] \in Req
    BY <1>1
  <2>2. /\ s \in Seq(Req) /\ Len(s) = IF n + 1 <= Len(q) THEN Len(q) - (n + 1) + 1 ELSE 0
        /\ \A j \in 1 .. Len(q) - (n + 1) + 1 : s[j] = q[n + 1 + j - 1]
    BY <2>1, SubSeqProperties
  <2> QED BY <1>1, <2>2
<1> HIDE DEF p, s
<1>4. /\ \A i \in 1..n : i \in 1..Len(q)
      /\ \A i \in 1 .. Len(q) - n : n + i \in 1..Len(q)
      /\ \A i \in 1..n, j \in 1 .. Len(q) - n : i # n + j
      /\ \A i, j \in 1 .. Len(q) - n : n + i = n + j => i = j
      /\ \A i \in 1..Len(q) : i \in 1..n \/ (i - n \in 1 .. Len(q) - n /\ n + (i - n) = i)
  BY <1>1
<1>5. NoDup(p) /\ NoDup(s)
  <2>1. ASSUME NEW i \in 1..Len(p), NEW j \in 1..Len(p), p[i] = p[j] PROVE i = j
    BY <1>2, <1>4, <2>1 DEF NoDup
  <2>2. ASSUME NEW i \in 1..Len(s), NEW j \in 1..Len(s), s[i] = s[j] PROVE i = j
    <3>1. q[n + i] = q[n + j] /\ n + i \in 1..Len(q) /\ n + j \in 1..Len(q)
      BY <1>3, <1>4, <2>2
    <3> QED BY <1>3, <1>4, <3>1 DEF NoDup
  <2> QED BY <2>1, <2>2 DEF NoDup
<1>6. ASSUME NEW r \in Range(p) PROVE r \notin Range(s) /\ r \in Range(q)
  <2>1. PICK i \in 1..n : q[i] = r
    BY <1>2, RangeIs
  <2>2. ASSUME NEW j \in 1..Len(s), s[j] = r PROVE FALSE
    <3>1. q[n + j] = r /\ n + j \in 1..Len(q) /\ n + j # i
      BY <1>3, <1>4, <2>2
    <3> QED BY <1>4, <2>1, <3>1 DEF NoDup
  <2> QED BY <1>3, <1>4, <2>1, <2>2, RangeIs
<1>7. ASSUME NEW r \in Range(s) PROVE r \in Range(q)
  <2>1. PICK i \in 1 .. Len(q) - n : s[i] = r
    BY <1>3, RangeIs
  <2> QED BY <1>3, <1>4, <2>1, RangeIs
<1>8. ASSUME NEW r \in Range(q) PROVE r \in Range(p) \cup Range(s)
  <2>1. PICK i \in 1..Len(q) : q[i] = r
    BY RangeIs
  <2>2. CASE i \in 1..n
    BY <1>2, <2>1, <2>2, RangeIs
  <2>3. CASE i - n \in 1 .. Len(q) - n /\ n + (i - n) = i
    <3>1. s[i - n] = r
      BY <1>3, <2>1, <2>3
    <3> QED BY <1>3, <2>3, <3>1, RangeIs
  <2> QED BY <1>4, <2>1, <2>2, <2>3
<1> QED BY <1>2, <1>3, <1>5, <1>6, <1>7, <1>8 DEF p, s

(* The first request is taken.                                              *)
LEMMA Taken ==
    ASSUME NEW q \in Seq(Req), NoDup(q), q # <<>>
    PROVE  /\ Tail(q) \in Seq(Req) /\ NoDup(Tail(q)) /\ Len(Tail(q)) = Len(q) - 1
           /\ \A j \in 1 .. Len(q) - 1 : Tail(q)[j] = q[j + 1]
           /\ Len(q) \in Nat \ {0} /\ q[1] = Head(q) /\ Head(q) \in Range(q)
           /\ Range(Tail(q)) = Range(q) \ {Head(q)}
<1> DEFINE n == Tail(q)
<1>1. /\ n \in Seq(Req) /\ Len(n) = Len(q) - 1 /\ Len(q) \in Nat \ {0}
      /\ \A j \in 1..Len(n) : n[j] = q[j + 1]
  BY HeadTailProperties, EmptySeq
<1>2. q[1] = Head(q) /\ 1 \in 1..Len(q)
  BY <1>1
<1> HIDE DEF n
<1>3. /\ \A j \in 1..Len(n) : j + 1 \in 1..Len(q) /\ j + 1 # 1
      /\ \A j, k \in 1..Len(n) : j + 1 = k + 1 => j = k
      /\ \A j \in 1..Len(q) : j = 1 \/ (j - 1 \in 1..Len(n) /\ (j - 1) + 1 = j)
  BY <1>1
<1>4. NoDup(n)
  BY <1>1, <1>3 DEF NoDup
<1>5. \A r : r \in Range(n) => r \in Range(q) /\ r # Head(q)
  BY <1>1, <1>2, <1>3, RangeIs DEF NoDup
<1>6. ASSUME NEW r \in Range(q), r # Head(q) PROVE r \in Range(n)
  <2>1. PICK j \in 1..Len(q) : q[j] = r
    BY RangeIs
  <2>2. j - 1 \in 1..Len(n) /\ (j - 1) + 1 = j
    BY <1>2, <1>3, <1>6, <2>1
  <2>3. n[j - 1] = r
    BY <1>1, <2>1, <2>2
  <2> QED BY <1>1, <2>2, <2>3, RangeIs
<1>7. Head(q) \in Range(q)
  BY <1>2, RangeIs
<1> QED BY <1>1, <1>2, <1>4, <1>5, <1>6, <1>7 DEF n

(* A request is unlinked.                                                   *)
LEMMA Unlinked ==
    ASSUME NEW q \in Seq(Req), NoDup(q), NEW i \in 1..Len(q)
    PROVE  /\ RemoveAt(q, i) \in Seq(Req) /\ NoDup(RemoveAt(q, i))
           /\ Range(RemoveAt(q, i)) = Range(q) \ {q[i]}
<1> DEFINE p == SubSeq(q, 1, i - 1)
           s == SubSeq(q, i + 1, Len(q))
           n == RemoveAt(q, i)
<1>1. Len(q) \in Nat /\ i - 1 \in 0..Len(q) /\ i \in 0..Len(q) /\ i - 1 + 1 = i
  BY RangeIs
<1>2. /\ p \in Seq(Req) /\ Len(p) = i - 1 /\ NoDup(p)
      /\ \A j \in 1 .. i - 1 : p[j] = q[j]
  <2>1. i - 1 \in 0..Len(q)
    BY <1>1
  <2> HIDE <1>1
  <2> QED BY <2>1, Cut
<1>3. /\ s \in Seq(Req) /\ Len(s) = Len(q) - i /\ NoDup(s)
      /\ \A j \in 1 .. Len(q) - i : s[j] = q[i + j]
  BY <1>1, Cut, Zenon
<1>4. n = p \o s
  BY DEF RemoveAt
<1> HIDE DEF p, s, n
<1>5. /\ n \in Seq(Req) /\ Len(n) = Len(q) - 1
      /\ \A j \in 1 .. Len(q) - 1 : n[j] = IF j < i THEN q[j] ELSE q[j + 1]
  <2>1. /\ p \o s \in Seq(Req) /\ Len(p \o s) = Len(p) + Len(s)
        /\ \A j \in 1 .. Len(p) + Len(s) : (p \o s)[j] = IF j <= Len(p) THEN p[j] ELSE s[j - Len(p)]
    BY <1>2, <1>3, ConcatProperties
  <2> QED BY <1>1, <1>2, <1>3, <1>4, <2>1
<1>6. NoDup(n)
  BY <1>1, <1>5 DEF NoDup
<1>7. ASSUME NEW r \in Range(n) PROVE r \in Range(q) /\ r # q[i]
  <2>1. PICK j \in 1..Len(n) : n[j] = r
    BY <1>5, RangeIs
  <2>2. PICK l \in 1..Len(q) : l # i /\ q[l] = r
    BY <1>1, <1>5, <2>1
  <2> QED BY <2>2, RangeIs DEF NoDup
<1>8. ASSUME NEW r \in Range(q), r # q[i] PROVE r \in Range(n)
  <2>1. PICK j \in 1..Len(q) : q[j] = r /\ j # i
    BY <1>8, RangeIs
  <2>2. PICK l \in 1..Len(n) : n[l] = r
    <3>1. CASE j < i
      BY <1>1, <1>5, <2>1, <3>1
    <3>2. CASE j > i
      <4>1. j - 1 \in 1..Len(n) /\ n[j - 1] = q[j]
        BY <1>1, <1>5, <2>1, <3>2
      <4> QED BY <2>1, <4>1
    <3> QED BY <1>1, <2>1, <3>1, <3>2
  <2> QED BY <1>5, <2>2, RangeIs
<1> QED BY <1>5, <1>6, <1>7, <1>8 DEF n

(* A queue has as many requests as its length.                              *)
LEMMA Counted ==
    ASSUME NEW q \in Seq(Req), NoDup(q)
    PROVE  IsFiniteSet(Range(q)) /\ Cardinality(Range(q)) = Len(q)
<1>1. Len(q) \in Nat /\ q \in [1..Len(q) -> Range(q)]
  BY RangeIs, LenProperties
<1>2. q \in Surjection(1..Len(q), Range(q))
  BY <1>1, RangeIs DEF Surjection
<1>3. q \in Injection(1..Len(q), Range(q))
  BY <1>1 DEF Injection, IsInjective, NoDup
<1>4. IsFiniteSet(1..Len(q)) /\ Cardinality(1..Len(q)) = Len(q)
  BY <1>1, FS_Interval
<1> QED BY <1>2, <1>3, <1>4, FS_Surjection

(* The ready requests at the head of a queue.                               *)
LEMMA Prefix ==
    ASSUME NEW q \in Seq(Req), NEW rd
    PROVE  \E n \in 0..Len(q) : /\ ReadyPrefix(q, rd) = SubSeq(q, 1, n)
                                /\ \A i \in 1..n : q[i] \in rd
<1> DEFINE S == {n \in 0..Len(q) : n = Len(q) \/ q[n + 1] \notin rd}
<1>1. Len(q) \in Nat
  BY RangeIs
<1>2. S \subseteq Nat /\ S # {}
  BY <1>1
<1>3. PICK x \in S : \A y \in S : ~ (<<y, x>> \in OpToRel(<, Nat))
  BY <1>2, NatLessThanWellFounded, WFMin, Zenon
<1>4. ASSUME NEW y \in S, y < x PROVE FALSE
  <2>1. <<y, x>> \in Nat \X Nat
    BY <1>2
  <2>2. <<y, x>> \in OpToRel(<, Nat)
    BY <1>4, <2>1, Zenon DEF OpToRel
  <2> QED BY <1>3, <2>2, Zenon
<1>5. x \in 0..Len(q) /\ (x < Len(q) => q[x + 1] \notin rd)
  BY <1>1
<1>6. ASSUME NEW i \in 1..x PROVE q[i] \in rd
  <2>1. i - 1 \in 0..Len(q) /\ i - 1 < x /\ i - 1 # Len(q) /\ (i - 1) + 1 = i
    BY <1>1, <1>5
  <2> QED BY <1>4, <2>1
<1> DEFINE P(n) == (\A i \in 1..n : q[i] \in rd) /\ (n < Len(q) => q[n + 1] \notin rd)
           m == CHOOSE n \in 0..Len(q) : P(n)
<1>7. m \in 0..Len(q) /\ P(m)
  BY <1>5, <1>6
<1> QED BY <1>7 DEF ReadyPrefix

-----------------------------------------------------------------------------
(* CPUs and counts                                                          *)

LEMMA IdleShape == Idle \in Ctx /\ ShapeOf(Idle) /\ Idle.pc = "idle" /\ Idle.req = NoReq /\ Idle.ret = <<>>
<1>1. 0 \in 0..MaxReq
  BY RespOrderAssumption
<1> QED BY <1>1, NothingIn DEF Idle, Ctx, Pc, ShapeOf, NoReq

(* A CPU takes a step.                                                      *)
LEMMA CtxAt ==
    ASSUME ctx \in [Cpu -> Ctx], NEW k \in Cpu, NEW c \in Ctx, ctx' = [ctx EXCEPT ![k] = c]
    PROVE  ctx' \in [Cpu -> Ctx] /\ ctx'[k] = c /\ \A l \in Cpu : l # k => ctx'[l] = ctx[l]
OBVIOUS

LEMMA ShapesAt ==
    ASSUME Shapes, NEW k \in Cpu, ShapeOf(ctx'[k]), \A l \in Cpu : l # k => ctx'[l] = ctx[l]
    PROVE  Shapes'
<1>1. ASSUME NEW l \in Cpu PROVE ShapeOf(ctx'[l])
  BY DEF Shapes
<1> QED BY <1>1 DEF Shapes, ShapeOf

LEMMA LocksAt ==
    ASSUME Locks, NEW k \in Cpu, \A l \in Cpu : l # k => ctx'[l] = ctx[l],
           ctx'[k].pc \in {"wait", "send"} => \A l \in Cpu : l # k => ctx[l].pc # ctx'[k].pc
    PROVE  Locks'
BY DEF Locks

(* A place that is not the start or the end of sending leaves the holders.  *)
LEMMA HoldingAt ==
    ASSUME NEW k \in Cpu, \A l \in Cpu : l # k => ctx'[l] = ctx[l]
    PROVE  /\ IsFiniteSet(Holding) /\ Cardinality(Holding) \in Nat
           /\ Cardinality(Holding') = Cardinality(Holding)
                 + (IF ctx'[k].pc \in {"wait", "send", "put"} THEN 1 ELSE 0)
                 - (IF ctx[k].pc \in {"wait", "send", "put"} THEN 1 ELSE 0)
<1>1. IsFiniteSet(Holding)
  BY RespOrderAssumption, FS_Subset DEF Holding
<1>2. Cardinality(Holding) \in Nat
  BY <1>1, FS_CardinalityType
<1>3. CASE ctx'[k].pc \in {"wait", "send", "put"} /\ ctx[k].pc \notin {"wait", "send", "put"}
  <2>1. Holding' = Holding \cup {k} /\ k \notin Holding
    BY <1>3 DEF Holding
  <2>2. Cardinality(Holding \cup {k}) = Cardinality(Holding) + 1
    BY <1>1, <2>1, FS_AddElement
  <2>3. Cardinality(Holding') = Cardinality(Holding) + 1
    BY <2>1, <2>2
  <2> QED BY <1>1, <1>2, <1>3, <2>3
<1>4. CASE ctx'[k].pc \notin {"wait", "send", "put"} /\ ctx[k].pc \in {"wait", "send", "put"}
  <2>1. Holding' = Holding \ {k} /\ k \in Holding
    BY <1>4 DEF Holding
  <2>2. Cardinality(Holding \ {k}) = Cardinality(Holding) - 1
    BY <1>1, <2>1, FS_RemoveElement
  <2>3. Cardinality(Holding') = Cardinality(Holding) - 1
    BY <2>1, <2>2
  <2> QED BY <1>1, <1>2, <1>4, <2>3
<1>5. CASE ctx'[k].pc \in {"wait", "send", "put"} <=> ctx[k].pc \in {"wait", "send", "put"}
  <2>1. Holding' = Holding
    BY <1>5 DEF Holding
  <2>2. Cardinality(Holding') = Cardinality(Holding)
    BY <2>1
  <2> QED BY <1>1, <1>2, <1>5, <2>2
<1> QED BY <1>1, <1>2, <1>3, <1>4, <1>5

LEMMA LiveCount == ASSUME RoTypeOK PROVE IsFiniteSet(Live) /\ Cardinality(Live) \in Nat
<1>1. IsFiniteSet(1..received)
  BY FS_Interval DEF RoTypeOK
<1> QED BY <1>1, FS_Subset, FS_CardinalityType DEF Live

(* Requests of the set S are freed.                                         *)
LEMMA Freeing ==
    ASSUME RoTypeOK, NEW S, S \subseteq Live, received' = received,
           freed' = [r \in Req |-> IF r \in S THEN freed[r] + 1 ELSE freed[r]]
    PROVE  /\ freed' \in [Req -> 0..1] /\ Live' = Live \ S
           /\ Cardinality(S) \in Nat /\ Cardinality(Live) \in Nat
           /\ Cardinality(Live') = Cardinality(Live) - Cardinality(S)
           /\ UnusedInv => UnusedInv'
<1>1. S \subseteq Req /\ \A r \in S : freed[r] = 0
  BY RespOrderAssumption DEF RoTypeOK, Live, Req
<1>2. freed' \in [Req -> 0..1]
  BY <1>1 DEF RoTypeOK
<1>3. 1..received \subseteq Req
  BY RespOrderAssumption DEF RoTypeOK, Req
<1>4. \A r \in Req : freed'[r] = 0 <=> freed[r] = 0 /\ r \notin S
  BY <1>1 DEF RoTypeOK
<1>5. Live' = Live \ S
  BY <1>3, <1>4 DEF Live
<1>6. Live \cap S = S
  OBVIOUS
<1>7. IsFiniteSet(S) /\ Cardinality(S) \in Nat
  BY LiveCount, FS_Subset, FS_CardinalityType
<1>8. Cardinality(Live') = Cardinality(Live) - Cardinality(S)
  <2>1. Cardinality(Live \ S) = Cardinality(Live) - Cardinality(Live \cap S)
    BY LiveCount, FS_Difference
  <2> QED BY <1>5, <1>6, <2>1
<1>9. ASSUME UnusedInv, NEW r \in Req, r > received PROVE freed'[r] = 0
  <2>1. r \notin S
    BY <1>9, RespOrderAssumption DEF Live, RoTypeOK, Req
  <2> QED BY <1>4, <1>9, <2>1 DEF UnusedInv
<1> QED BY <1>2, <1>5, <1>7, <1>8, <1>9, LiveCount DEF UnusedInv

LEMMA FreeOne ==
    ASSUME RoTypeOK, NEW r \in Live, received' = received, Free({r})
    PROVE  /\ freed' \in [Req -> 0..1] /\ Live' = Live \ {r}
           /\ Cardinality(Live') = Cardinality(Live) - 1 /\ reqRefs' = reqRefs - 1
           /\ UnusedInv => UnusedInv'
<1>1. Cardinality({r}) = 1
  BY FS_Singleton
<1> QED BY <1>1, Freeing DEF Free

-----------------------------------------------------------------------------
(* Order                                                                    *)

(* Once a close is queued only what is delivered counts.                    *)
LEMMA NotClean ==
    ASSUME OrderInv, ~Clean, UNCHANGED <<work, delivered, alive>>
    PROVE  OrderInv'
BY DEF OrderInv, InRequestOrder, WorkInv, CleanInv, Clean

LEMMA SockDead ==
    ASSUME OrderInv, ~alive', UNCHANGED delivered
    PROVE  OrderInv'
BY DEF OrderInv, InRequestOrder, WorkInv, CleanInv, Clean

LEMMA ClosePushed ==
    ASSUME RoTypeOK, OrderInv, work' = Append(work, Close), UNCHANGED <<delivered, alive>>
    PROVE  OrderInv'
<1>1. Close \in 0..MaxReq
  BY RespOrderAssumption DEF Close
<1>2. /\ Len(work) \in Nat /\ Len(work') = Len(work) + 1 /\ work'[Len(work) + 1] = Close
      /\ \A i \in 1..Len(work) : work'[i] = work[i]
  BY <1>1, AppendProperties, LenProperties DEF RoTypeOK
<1>3. ~Clean'
  <2>1. Len(work) + 1 \in 1..Len(work')
    BY <1>2
  <2> QED BY <1>2, <2>1 DEF Clean
<1>4. WorkInv'
  <2> SUFFICES ASSUME alive, NEW i \in 1..Len(work'), \A j \in 1..i : work'[j] # Close
               PROVE  work'[i] = Len(delivered) + i
    BY DEF WorkInv
  <2>1. i \in 1..Len(work) /\ \A j \in 1..i : j \in 1..Len(work)
    BY <1>2
  <2>2. \A j \in 1..i : work[j] # Close
    BY <1>2, <2>1
  <2> QED BY <1>2, <2>1, <2>2 DEF OrderInv, WorkInv
<1> QED BY <1>3, <1>4 DEF OrderInv, InRequestOrder, CleanInv

(* A CPU that neither waits nor sends takes a step.                         *)
LEMMA OrderKept ==
    ASSUME OrderInv, NEW k \in Cpu, \A l \in Cpu : l # k => ctx'[l] = ctx[l],
           ctx[k].pc \notin {"wait", "send"}, ctx'[k].pc \notin {"wait", "send"},
           ctx'[k].pc = "clean" => ~Clean,
           UNCHANGED <<received, seqq, work, delivered, alive>>
    PROVE  OrderInv'
<1>1. InRequestOrder' /\ WorkInv' /\ (Clean' <=> Clean)
  BY DEF OrderInv, InRequestOrder, WorkInv, Clean
<1>2. CleanInv'
  BY <1>1 DEF OrderInv, CleanInv
<1>3. ASSUME NEW a \in Nat, NEW b \in Nat, Ordered(a, b) PROVE Ordered(a, b)'
  <2>1. Out' = Out /\ \A l \in Cpu : ctx'[l].pc \in {"wait", "send"} => l # k /\ ctx'[l] = ctx[l]
    BY DEF Out
  <2>2. \A l \in Cpu : ctx[l].pc \in {"wait", "send"} => l # k /\ ctx'[l] = ctx[l]
    OBVIOUS
  <2>3. \/ a = Out /\ \A l \in Cpu : ctx'[l].pc # "send"
        \/ \E l \in Cpu : ctx'[l].pc = "send" /\ From(ctx'[l].ret, Out) /\ a = Out + Len(ctx'[l].ret)
    BY <1>3, <2>1, <2>2 DEF Ordered
  <2>4. \/ b = a /\ \A l \in Cpu : ctx'[l].pc # "wait"
        \/ \E l \in Cpu : ctx'[l].pc = "wait" /\ From(ctx'[l].ret, a) /\ b = a + Len(ctx'[l].ret)
    BY <1>3, <2>1, <2>2 DEF Ordered
  <2> QED BY <1>3, <2>1, <2>3, <2>4 DEF Ordered, From
<1> QED BY <1>1, <1>2, <1>3 DEF OrderInv

(* The socket layer carries out a work.                                     *)
LEMMA WorkOrder ==
    ASSUME RoTypeOK, OrderInv, SockWork
    PROVE  OrderInv'
<1>1. /\ Len(work) \in Nat \ {0} /\ Head(work) = work[1] /\ Len(work') = Len(work) - 1
      /\ \A i \in 1 .. Len(work) - 1 : work'[i] = work[i + 1]
      /\ work' \in Seq(0..MaxReq) /\ Head(work) \in 0..MaxReq
  <2>1. work \in Seq(0..MaxReq) /\ work # <<>> /\ work' = Tail(work)
    BY DEF RoTypeOK, SockWork
  <2>2. /\ Tail(work) \in Seq(0..MaxReq) /\ Len(Tail(work)) = Len(work) - 1 /\ Len(work) \in Nat \ {0}
        /\ \A i \in 1..Len(Tail(work)) : Tail(work)[i] = work[i + 1]
        /\ Head(work) \in 0..MaxReq
    BY <2>1, HeadTailProperties, EmptySeq
  <2>3. Head(work) = work[1]
    BY <2>1, <2>2
  <2> QED BY <2>1, <2>2, <2>3
<1>2. CASE ~alive
  BY <1>2, SockDead DEF SockWork
<1>3. CASE alive /\ Head(work) = Close
  BY <1>3, SockDead DEF SockWork
<1>4. CASE alive /\ Head(work) # Close
  <2>1. alive' /\ delivered' = Append(delivered, work[1]) /\ UNCHANGED <<received, seqq, ctx>>
    BY <1>1, <1>4 DEF SockWork
  <2>2. work[1] = Len(delivered) + 1 /\ work[1] \in Req
    <3>1. 1 \in 1..Len(work) /\ \A j \in 1..1 : work[j] # Close
      BY <1>1, <1>4
    <3> QED BY <1>1, <1>4, <3>1, RespOrderAssumption DEF OrderInv, WorkInv, Req, Close
  <2>3. /\ Len(delivered) \in Nat /\ Len(delivered') = Len(delivered) + 1
        /\ delivered'[Len(delivered) + 1] = work[1]
        /\ \A i \in 1..Len(delivered) : delivered'[i] = delivered[i]
    BY <2>1, <2>2, AppendProperties, LenProperties DEF RoTypeOK
  <2>4. InRequestOrder'
    BY <2>2, <2>3 DEF OrderInv, InRequestOrder
  <2>5. WorkInv'
    <3> SUFFICES ASSUME NEW i \in 1..Len(work'), \A j \in 1..i : work'[j] # Close
                 PROVE  work'[i] = Len(delivered') + i
      BY DEF WorkInv
    <3>1. i + 1 \in 1..Len(work) /\ work'[i] = work[i + 1]
      BY <1>1
    <3>2. ASSUME NEW j \in 1 .. i + 1 PROVE work[j] # Close
      <4>1. CASE j = 1
        BY <1>1, <1>4, <4>1
      <4>2. CASE j # 1
        <5>1. j - 1 \in 1..i /\ j - 1 \in 1 .. Len(work) - 1 /\ (j - 1) + 1 = j
          BY <1>1, <4>2
        <5> QED BY <1>1, <5>1
      <4> QED BY <4>1, <4>2
    <3>3. work[i + 1] = Len(delivered) + (i + 1)
      BY <1>4, <3>1, <3>2 DEF OrderInv, WorkInv
    <3> QED BY <1>1, <2>3, <3>1, <3>3
  <2>6. Clean' => Clean
    <3> SUFFICES ASSUME Clean', NEW j \in 1..Len(work) PROVE work[j] # Close
      BY <1>4 DEF Clean
    <3>1. CASE j = 1
      BY <1>1, <1>4, <3>1
    <3>2. CASE j # 1
      <4>1. j - 1 \in 1..Len(work') /\ (j - 1) + 1 = j
        BY <1>1, <3>2
      <4>2. work'[j - 1] # Close
        BY <4>1 DEF Clean
      <4> QED BY <1>1, <4>1, <4>2
    <3> QED BY <3>1, <3>2
  <2>7. Clean => Clean'
    <3> SUFFICES ASSUME Clean, NEW j \in 1..Len(work') PROVE work'[j] # Close
      BY <2>1 DEF Clean
    <3>1. j + 1 \in 1..Len(work) /\ work'[j] = work[j + 1]
      BY <1>1
    <3> QED BY <3>1 DEF Clean
  <2>8. Out' = Out
    BY <1>1, <2>3 DEF Out
  <2>9. ASSUME NEW a \in Nat, NEW b \in Nat, Ordered(a, b) PROVE Ordered(a, b)'
    BY <2>1, <2>8, <2>9 DEF Ordered, From
  <2> QED BY <2>1, <2>4, <2>5, <2>6, <2>7, <2>9 DEF OrderInv, CleanInv
<1> QED BY <1>2, <1>3, <1>4 DEF RoTypeOK

(* A request is received.                                                   *)
LEMMA AddOrder ==
    ASSUME RoTypeOK, QueueInv, OrderInv, tfw_http_req_add_seq_queue
    PROVE  OrderInv'
<1>1. /\ received' = received + 1 /\ received \in Nat /\ Len(seqq) \in Nat
      /\ Len(seqq') = Len(seqq) + 1 /\ seqq'[Len(seqq) + 1] = received + 1
      /\ \A i \in 1..Len(seqq) : seqq'[i] = seqq[i]
  <2>1. seqq \in Seq(Req) /\ received + 1 \in Req /\ received \in Nat
    BY RespOrderAssumption DEF RoTypeOK, Req, tfw_http_req_add_seq_queue
  <2> QED BY <2>1, AppendProperties, LenProperties DEF tfw_http_req_add_seq_queue
<1>2. UNCHANGED <<ctx, work, alive, delivered>> /\ Out' = Out
  BY DEF tfw_http_req_add_seq_queue, Out
<1>3. InRequestOrder' /\ WorkInv' /\ CleanInv' /\ (Clean' <=> Clean)
  BY <1>2 DEF OrderInv, InRequestOrder, WorkInv, CleanInv, Clean
<1>4. ASSUME NEW a \in Nat, NEW b \in Nat, Ordered(a, b) PROVE Ordered(a, b)'
  <2>1. From(seqq', b) /\ received' = b + Len(seqq')
    <3>1. From(seqq, b) /\ received = b + Len(seqq)
      BY <1>4 DEF Ordered
    <3>2. ASSUME NEW i \in 1..Len(seqq') PROVE seqq'[i] = b + i
      <4>1. CASE i \in 1..Len(seqq)
        BY <1>1, <3>1, <4>1 DEF From
      <4>2. CASE i = Len(seqq) + 1
        BY <1>1, <3>1, <4>2
      <4> QED BY <1>1, <4>1, <4>2
    <3>3. received' = b + Len(seqq')
      BY <1>1, <3>1
    <3> QED BY <3>2, <3>3 DEF From
  <2>2. /\ \/ a = Out' /\ \A k \in Cpu : ctx'[k].pc # "send"
           \/ \E k \in Cpu : ctx'[k].pc = "send" /\ From(ctx'[k].ret, Out') /\ a = Out' + Len(ctx'[k].ret)
        /\ \/ b = a /\ \A k \in Cpu : ctx'[k].pc # "wait"
           \/ \E k \in Cpu : ctx'[k].pc = "wait" /\ From(ctx'[k].ret, a) /\ b = a + Len(ctx'[k].ret)
    BY <1>2, <1>4 DEF Ordered
  <2> QED BY <2>1, <2>2 DEF Ordered, From
<1> QED BY <1>3, <1>4 DEF OrderInv

(* The first n requests of the queue are cut off by the CPU k, which then   *)
(* waits for ret_qlock.                                                     *)
LEMMA CutOrder ==
    ASSUME RoTypeOK, QueueInv, OrderInv, NEW k \in Cpu, NEW n \in 0..Len(seqq),
           ctx[k].pc \notin {"wait", "send"}, SeqUnlocked,
           \A l \in Cpu : l # k => ctx'[l] = ctx[l],
           ctx'[k].pc = "wait" /\ ctx'[k].ret = SubSeq(seqq, 1, n),
           seqq' = SubSeq(seqq, n + 1, Len(seqq)),
           UNCHANGED <<received, work, delivered, alive>>
    PROVE  OrderInv'
<1>1. /\ Len(seqq) \in Nat /\ Len(ctx'[k].ret) = n /\ (\A i \in 1..n : ctx'[k].ret[i] = seqq[i])
      /\ Len(seqq') = Len(seqq) - n /\ \A i \in 1 .. Len(seqq) - n : seqq'[i] = seqq[n + i]
  BY Cut, RangeIs DEF RoTypeOK, QueueInv
<1>2. InRequestOrder' /\ WorkInv' /\ (Clean' <=> Clean) /\ Out' = Out
  BY DEF OrderInv, InRequestOrder, WorkInv, Clean, Out
<1>3. CleanInv'
  BY <1>2 DEF OrderInv, CleanInv
<1>4. ASSUME NEW a \in Nat, NEW b \in Nat, Ordered(a, b) PROVE Ordered(a, a + n)'
  <2>1. b = a /\ From(seqq, a) /\ received = a + Len(seqq)
    BY <1>4 DEF Ordered, SeqUnlocked
  <2>2. From(ctx'[k].ret, a) /\ a + n = a + Len(ctx'[k].ret)
    BY <1>1, <2>1 DEF From
  <2>3. From(seqq', a + n) /\ received = a + n + Len(seqq')
    <3>1. ASSUME NEW i \in 1..Len(seqq') PROVE seqq'[i] = a + n + i
      <4>1. n + i \in 1..Len(seqq) /\ seqq'[i] = seqq[n + i]
        BY <1>1
      <4> QED BY <2>1, <4>1 DEF From
    <3> DEFINE m == Len(seqq')
    <3>2. m = Len(seqq) - n /\ Len(seqq) \in Nat /\ n \in Nat
      BY <1>1
    <3> HIDE DEF m
    <3>3. received = a + n + m
      BY <2>1, <3>2
    <3> QED BY <3>1, <3>3 DEF From, m
  <2>4. \/ a = Out /\ \A l \in Cpu : ctx'[l].pc # "send"
        \/ \E l \in Cpu : ctx'[l].pc = "send" /\ From(ctx'[l].ret, Out) /\ a = Out + Len(ctx'[l].ret)
    <3>1. CASE a = Out /\ \A l \in Cpu : ctx[l].pc # "send"
      BY <3>1
    <3>2. CASE \E l \in Cpu : ctx[l].pc = "send" /\ From(ctx[l].ret, Out) /\ a = Out + Len(ctx[l].ret)
      BY <3>2
    <3> QED BY <1>4, <3>1, <3>2 DEF Ordered
  <2> QED BY <1>2, <2>2, <2>3, <2>4 DEF Ordered, From
<1>5. \A a \in Nat : a + n \in Nat
  BY <1>1
<1> QED BY <1>2, <1>3, <1>4, <1>5 DEF OrderInv

(* The waiting CPU takes ret_qlock.                                         *)
LEMMA TakeOrder ==
    ASSUME RoTypeOK, Locks, OrderInv, NEW k \in Cpu, TakeRet(k)
    PROVE  OrderInv'
<1>1. /\ ctx[k].pc = "wait" /\ ctx'[k].pc = "send" /\ ctx'[k].ret = ctx[k].ret
      /\ \A l \in Cpu : l # k => ctx'[l] = ctx[l]
  BY DEF RoTypeOK, Ctx, TakeRet
<1>2. /\ \A l \in Cpu : ctx[l].pc = "wait" => l = k
      /\ \A l \in Cpu : ctx[l].pc # "send" /\ ctx'[l].pc # "wait"
  BY <1>1 DEF Locks, TakeRet, RetUnlocked
<1>3. UNCHANGED <<received, seqq, work, delivered, alive>> /\ Out' = Out
  BY DEF TakeRet, Out
<1>4. InRequestOrder' /\ WorkInv' /\ (Clean' <=> Clean)
  BY <1>3 DEF OrderInv, InRequestOrder, WorkInv, Clean
<1>5. CleanInv'
  BY <1>1, <1>4 DEF OrderInv, CleanInv
<1>6. ASSUME NEW a \in Nat, NEW b \in Nat, Ordered(a, b) PROVE Ordered(b, b)'
  <2>1. a = Out /\ From(ctx[k].ret, a) /\ b = a + Len(ctx[k].ret)
    BY <1>1, <1>2, <1>6 DEF Ordered
  <2>2. From(ctx'[k].ret, Out) /\ b = Out + Len(ctx'[k].ret)
    BY <1>1, <2>1
  <2> QED BY <1>1, <1>2, <1>3, <1>6, <2>2 DEF Ordered, From
<1> QED BY <1>4, <1>5, <1>6 DEF OrderInv

(* A response is queued in the socket layer.                                *)
LEMMA SendOrder ==
    ASSUME RoTypeOK, Locks, RetInv, OrderInv, NEW k \in Cpu, SendResp(k)
    PROVE  OrderInv'
<1> DEFINE q == ctx[k].ret
<1>1. /\ ctx[k].pc = "send" /\ ctx'[k].pc = "send" /\ ctx'[k].ret = Tail(q)
      /\ \A l \in Cpu : l # k => ctx'[l] = ctx[l]
      /\ q \in Seq(Req) /\ NoDup(q) /\ q # <<>>
  BY DEF RoTypeOK, Ctx, SendResp, RetInv
<1>2. /\ Len(Tail(q)) = Len(q) - 1 /\ (\A j \in 1 .. Len(q) - 1 : Tail(q)[j] = q[j + 1])
      /\ Len(q) \in Nat \ {0} /\ q[1] = Head(q)
  BY <1>1, Taken
<1>3. UNCHANGED <<received, seqq, delivered, alive>> /\ work' = Append(work, q[1])
  BY <1>2 DEF SendResp
<1>4. q[1] \in 1..MaxReq
  BY <1>1, <1>2, RangeIs DEF Req
<1> HIDE DEF q
<1>5. /\ Len(work) \in Nat /\ Len(work') = Len(work) + 1 /\ work'[Len(work) + 1] = q[1]
      /\ (\A i \in 1..Len(work) : work'[i] = work[i])
      /\ Len(delivered) \in Nat
  <2>1. q[1] \in 0..MaxReq
    BY <1>4, RespOrderAssumption
  <2> QED BY <1>3, <2>1, AppendProperties, LenProperties DEF RoTypeOK
<1>6. Clean' => Clean
  <2>1. \A i \in 1..Len(work) : i \in 1..Len(work')
    BY <1>5
  <2> QED BY <1>3, <1>5, <2>1 DEF Clean
<1>7. Out' = Out + 1 /\ Out \in Nat
  BY <1>3, <1>5 DEF Out
<1>8. CleanInv'
  BY <1>1, <1>6 DEF OrderInv, CleanInv
<1>9. ASSUME NEW a \in Nat, NEW b \in Nat, Ordered(a, b) PROVE q[1] = Out + 1 /\ Ordered(a, b)'
  <2>1. From(q, Out) /\ a = Out + Len(q)
    BY <1>1, <1>9 DEF Ordered, Locks, q
  <2>2. q[1] = Out + 1
    BY <1>2, <2>1 DEF From
  <2>3. From(Tail(q), Out') /\ a = Out' + Len(Tail(q))
    <3>1. ASSUME NEW i \in 1..Len(Tail(q)) PROVE Tail(q)[i] = Out' + i
      <4>1. i + 1 \in 1..Len(q) /\ Tail(q)[i] = q[i + 1]
        BY <1>2
      <4> QED BY <1>7, <2>1, <4>1 DEF From
    <3> QED BY <1>2, <1>7, <2>1, <3>1 DEF From
  <2>4. \/ b = a /\ \A l \in Cpu : ctx'[l].pc # "wait"
        \/ \E l \in Cpu : ctx'[l].pc = "wait" /\ From(ctx'[l].ret, a) /\ b = a + Len(ctx'[l].ret)
    <3>1. CASE b = a /\ \A l \in Cpu : ctx[l].pc # "wait"
      BY <1>1, <3>1
    <3>2. CASE \E l \in Cpu : ctx[l].pc = "wait" /\ From(ctx[l].ret, a) /\ b = a + Len(ctx[l].ret)
      BY <1>1, <3>2
    <3> QED BY <1>9, <3>1, <3>2 DEF Ordered
  <2>5. \E l \in Cpu : ctx'[l].pc = "send" /\ From(ctx'[l].ret, Out') /\ a = Out' + Len(ctx'[l].ret)
    BY <1>1, <2>3
  <2> QED BY <1>3, <1>9, <2>2, <2>4, <2>5 DEF Ordered, From
<1>10. WorkInv'
  <2> SUFFICES ASSUME alive', NEW i \in 1..Len(work'), \A j \in 1..i : work'[j] # Close
               PROVE  work'[i] = Len(delivered') + i
    BY DEF WorkInv
  <2>1. CASE i \in 1..Len(work)
    <3>1. \A j \in 1..i : work[j] # Close
      BY <1>5, <2>1
    <3> QED BY <1>3, <1>5, <2>1, <3>1 DEF OrderInv, WorkInv
  <2>2. CASE i = Len(work) + 1
    <3>1. ASSUME NEW j \in 1..Len(work) PROVE work[j] # Close
      BY <1>5, <2>2
    <3>2. Clean
      BY <1>3, <3>1 DEF Clean
    <3>3. q[1] = Out + 1
      BY <1>9, <3>2 DEF OrderInv
    <3> QED BY <1>3, <1>5, <2>2, <3>3 DEF Out
  <2> QED BY <1>5, <2>1, <2>2
<1> QED BY <1>3, <1>6, <1>8, <1>9, <1>10 DEF OrderInv, InRequestOrder

(* All responses are sent.                                                  *)
LEMMA DoneOrder ==
    ASSUME RoTypeOK, Locks, OrderInv, NEW k \in Cpu, SendDone(k)
    PROVE  OrderInv'
<1>1. /\ ctx[k].pc = "send" /\ ctx'[k].pc = "put" /\ Len(ctx[k].ret) = 0
      /\ \A l \in Cpu : l # k => ctx'[l] = ctx[l]
  BY EmptySeq DEF RoTypeOK, Ctx, SendDone
<1>2. \A l \in Cpu : ctx'[l].pc # "send"
  BY <1>1 DEF Locks
<1>3. UNCHANGED <<received, seqq, work, delivered, alive>> /\ Out' = Out /\ Out \in Nat
  BY LenProperties DEF SendDone, Out, RoTypeOK
<1>4. InRequestOrder' /\ WorkInv' /\ (Clean' <=> Clean)
  BY <1>3 DEF OrderInv, InRequestOrder, WorkInv, Clean
<1>5. CleanInv'
  BY <1>1, <1>4 DEF OrderInv, CleanInv
<1>6. ASSUME NEW a \in Nat, NEW b \in Nat, Ordered(a, b) PROVE Ordered(a, b)'
  <2>1. a = Out
    BY <1>1, <1>3, <1>6 DEF Ordered, Locks
  <2>2. \/ b = a /\ \A l \in Cpu : ctx'[l].pc # "wait"
        \/ \E l \in Cpu : ctx'[l].pc = "wait" /\ From(ctx'[l].ret, a) /\ b = a + Len(ctx'[l].ret)
    <3>1. CASE b = a /\ \A l \in Cpu : ctx[l].pc # "wait"
      BY <1>1, <3>1
    <3>2. CASE \E l \in Cpu : ctx[l].pc = "wait" /\ From(ctx[l].ret, a) /\ b = a + Len(ctx[l].ret)
      BY <1>1, <3>2
    <3> QED BY <1>6, <3>1, <3>2 DEF Ordered
  <2> QED BY <1>2, <1>3, <1>6, <2>1, <2>2 DEF Ordered, From
<1> QED BY <1>4, <1>5, <1>6 DEF OrderInv

-----------------------------------------------------------------------------
(* Places                                                                   *)

Base == RoTypeOK /\ Shapes /\ Locks /\ PlaceInv

(* Requests are known, and the CPU that has one has nothing to send.        *)
LEMMA Known ==
    ASSUME Base
    PROVE  /\ Live \subseteq 1..received /\ 1..received \subseteq Req /\ received \in Nat
           /\ seqq \in Seq(Req) /\ \A k \in Cpu : ctx[k] \in Ctx /\ ctx[k].ret \in Seq(Req)
           /\ \A k \in Cpu : ctx[k].req # NoReq => ctx[k].ret = <<>> /\ Range(ctx[k].ret) = {}
<1>1. /\ Live \subseteq 1..received /\ 1..received \subseteq Req /\ received \in Nat
  BY RespOrderAssumption DEF Base, RoTypeOK, Live, Req
<1>2. seqq \in Seq(Req) /\ \A k \in Cpu : ctx[k] \in Ctx /\ ctx[k].ret \in Seq(Req)
  BY DEF Base, RoTypeOK, Ctx
<1>3. \A k \in Cpu : ctx[k].req # NoReq => ctx[k].ret = <<>> /\ Range(ctx[k].ret) = {}
  BY NothingIn DEF Base, Shapes, ShapeOf
<1> QED BY <1>1, <1>2, <1>3

(* A response comes or an error is made: the CPU k takes r out of flight.   *)
LEMMA TakenUp ==
    ASSUME Base, NEW k \in Cpu, NEW r \in flight, ctx[k].pc = "idle",
           NEW p \in {"adjust", "clean"}, flight' = flight \ {r},
           ctx' = [ctx EXCEPT ![k] = [Idle EXCEPT !.pc = p, !.req = r]],
           UNCHANGED <<received, seqq, ready, alive, dropped, freed>>
    PROVE  /\ ctx' \in [Cpu -> Ctx] /\ ctx'[k].pc = p /\ \A l \in Cpu : l # k => ctx'[l] = ctx[l]
           /\ Shapes' /\ Locks' /\ PlaceInv' /\ (CountInv /\ UNCHANGED reqRefs => CountInv')
<1> DEFINE c == [Idle EXCEPT !.pc = p, !.req = r]
<1>1. r \in Live /\ r \notin ready /\ r \in 1..received /\ r \in Req /\ r # NoReq
  BY Known, RespOrderAssumption DEF Base, PlaceInv, FlightInv, Req, NoReq
<1>2. c \in Ctx /\ c.pc = p /\ c.req = r /\ c.ret = <<>> /\ ShapeOf(c)
  <2>1. r \in 0..MaxReq
    BY <1>1, RespOrderAssumption DEF Req
  <2> QED BY <1>1, <2>1, NothingIn DEF Idle, Ctx, Pc, ShapeOf
<1> HIDE DEF c
<1>3. ctx' \in [Cpu -> Ctx] /\ ctx'[k] = c /\ \A l \in Cpu : l # k => ctx'[l] = ctx[l]
  BY <1>2, CtxAt DEF Base, RoTypeOK, c
<1>4. Shapes' /\ Locks'
  <2>1. Shapes'
    BY <1>2, <1>3, ShapesAt DEF Base
  <2>2. Locks'
    BY <1>2, <1>3, LocksAt DEF Base
  <2> QED BY <2>1, <2>2
<1>5. Live' = Live
  BY DEF Live
<1>6. FlightInv' /\ UnusedInv' /\ QueueInv'
  BY <1>5 DEF Base, PlaceInv, FlightInv, UnusedInv, QueueInv
<1>7. HandInv'
  BY <1>1, <1>2, <1>3, <1>5 DEF Base, PlaceInv, HandInv, FlightInv
<1>8. RetInv'
  <2>1. Range(ctx'[k].ret) = {} /\ NoDup(ctx'[k].ret)
    BY <1>2, <1>3, NothingIn
  <2> QED BY <1>3, <1>5, <2>1 DEF Base, PlaceInv, RetInv
<1>9. DropInv'
  BY <1>2, <1>3 DEF Base, PlaceInv, DropInv
<1>10. CountInv /\ UNCHANGED reqRefs => CountInv'
  <2>1. Cardinality(Holding') = Cardinality(Holding)
    BY <1>2, <1>3, HoldingAt
  <2> QED BY <1>5, <2>1 DEF CountInv
<1> QED BY <1>2, <1>3, <1>4, <1>6, <1>7, <1>8, <1>9, <1>10 DEF PlaceInv

(* The CPU k frees the request it has.                                      *)
LEMMA HandFreed ==
    ASSUME Base, CountInv, NEW k \in Cpu, ctx[k].req # NoReq, Free({ctx[k].req}),
           ctx' = [ctx EXCEPT ![k] = Idle], UNCHANGED <<received, flight, ready, alive, dropped>>,
           seqq' \in Seq(Req), NoDup(seqq'), Range(seqq') = Range(seqq) \ {ctx[k].req},
           dropped => seqq' = <<>>
    PROVE  /\ ctx' \in [Cpu -> Ctx] /\ ctx'[k] = Idle /\ \A l \in Cpu : l # k => ctx'[l] = ctx[l]
           /\ freed' \in [Req -> 0..1] /\ reqRefs' = reqRefs - 1
           /\ Shapes' /\ Locks' /\ PlaceInv' /\ CountInv'
<1> DEFINE r == ctx[k].req
<1>1. r \in Live /\ r \notin flight \cup ready /\ \A l \in Cpu : ctx[l].req = r => l = k
  BY DEF Base, PlaceInv, HandInv
<1> HIDE DEF r
<1>2. ctx' \in [Cpu -> Ctx] /\ ctx'[k] = Idle /\ \A l \in Cpu : l # k => ctx'[l] = ctx[l]
  BY IdleShape, CtxAt DEF Base, RoTypeOK
<1>3. Shapes' /\ Locks'
  <2>1. Shapes'
    BY <1>2, IdleShape, ShapesAt DEF Base
  <2>2. Locks'
    BY <1>2, IdleShape, LocksAt DEF Base
  <2> QED BY <2>1, <2>2
<1>4. /\ freed' \in [Req -> 0..1] /\ Live' = Live \ {r} /\ reqRefs' = reqRefs - 1
      /\ Cardinality(Live') = Cardinality(Live) - 1 /\ UnusedInv'
  BY <1>1, FreeOne DEF Base, PlaceInv, r
<1>5. FlightInv' /\ QueueInv'
  BY <1>1, <1>4 DEF Base, PlaceInv, FlightInv, QueueInv, r
<1>6. HandInv'
  BY <1>1, <1>2, <1>4, IdleShape DEF Base, PlaceInv, HandInv, r
<1>7. RetInv'
  <2>1. Range(ctx'[k].ret) = {} /\ NoDup(ctx'[k].ret)
    BY <1>2, IdleShape, NothingIn
  <2> QED BY <1>1, <1>2, <1>4, <2>1 DEF Base, PlaceInv, RetInv, r
<1>8. DropInv'
  <2>1. CASE dropped
    BY <2>1 DEF Base, PlaceInv, DropInv
  <2>2. CASE ~dropped
    BY <1>1, <1>2, <2>2, IdleShape DEF Base, PlaceInv, DropInv, r
  <2> QED BY <2>1, <2>2
<1>9. CountInv'
  <2>1. Cardinality(Holding') = Cardinality(Holding) /\ Cardinality(Holding) \in Nat
    <3>1. ctx[k].pc \notin {"wait", "send", "put"}
      BY DEF Base, Shapes, ShapeOf
    <3> QED BY <1>2, <3>1, IdleShape, HoldingAt
  <2>2. Cardinality(Live) \in Nat /\ dropped' = dropped
    BY LiveCount DEF Base
  <2> QED BY <1>4, <2>1, <2>2 DEF CountInv
<1> QED BY <1>2, <1>3, <1>4, <1>5, <1>6, <1>7, <1>8, <1>9 DEF PlaceInv

(* The CPU k goes on and keeps what it has.                                 *)
LEMMA PlaceKept ==
    ASSUME Base, NEW k \in Cpu, NEW p \in Pc, ctx' = [ctx EXCEPT ![k].pc = p],
           \/ ctx[k].pc = "adjust" /\ p = "fwd"
           \/ ctx[k].pc = "wait" /\ p = "send" /\ RetUnlocked
           \/ ctx[k].pc = "send" /\ p = "put",
           UNCHANGED <<received, seqq, flight, ready, alive, dropped, freed>>
    PROVE  /\ ctx' \in [Cpu -> Ctx] /\ ctx'[k].pc = p /\ ctx'[k].ret = ctx[k].ret
           /\ \A l \in Cpu : l # k => ctx'[l] = ctx[l]
           /\ Shapes' /\ Locks' /\ PlaceInv' /\ (CountInv /\ UNCHANGED reqRefs => CountInv')
<1> DEFINE c == [ctx[k] EXCEPT !.pc = p]
<1>1. c \in Ctx /\ c.pc = p /\ c.req = ctx[k].req /\ c.ret = ctx[k].ret
  BY Known DEF Ctx
<1>2. ShapeOf(c)
  BY <1>1 DEF Base, Shapes, ShapeOf
<1>3. ctx' = [ctx EXCEPT ![k] = c]
  OBVIOUS
<1> HIDE DEF c
<1>4. ctx' \in [Cpu -> Ctx] /\ ctx'[k] = c /\ \A l \in Cpu : l # k => ctx'[l] = ctx[l]
  BY <1>1, <1>3, CtxAt DEF Base, RoTypeOK
<1>5. Shapes' /\ Locks'
  <2>1. Shapes'
    BY <1>2, <1>4, ShapesAt DEF Base
  <2>2. Locks'
    BY <1>1, <1>4, LocksAt DEF Base, RetUnlocked
  <2> QED BY <2>1, <2>2
<1>6. Live' = Live /\ \A l \in Cpu : ctx'[l].req = ctx[l].req /\ ctx'[l].ret = ctx[l].ret
  BY <1>1, <1>4 DEF Live
<1>7. FlightInv' /\ UnusedInv' /\ QueueInv'
  BY <1>6 DEF Base, PlaceInv, FlightInv, UnusedInv, QueueInv
<1>8. HandInv' /\ RetInv' /\ DropInv'
  <2>1. HandInv'
    BY <1>6 DEF Base, PlaceInv, HandInv
  <2>2. RetInv'
    BY <1>6 DEF Base, PlaceInv, RetInv
  <2>3. DropInv'
    BY <1>6 DEF Base, PlaceInv, DropInv
  <2> QED BY <2>1, <2>2, <2>3
<1>9. CountInv /\ UNCHANGED reqRefs => CountInv'
  <2>1. Cardinality(Holding') = Cardinality(Holding)
    BY <1>1, <1>4, HoldingAt
  <2> QED BY <1>6, <2>1 DEF CountInv
<1> QED BY <1>1, <1>4, <1>5, <1>7, <1>8, <1>9 DEF PlaceInv

-----------------------------------------------------------------------------
(* Steps                                                                    *)

LEMMA BaseOf == ASSUME RoInv PROVE Base
BY DEF RoInv, Base

(* tfw_http_req_add_seq_queue.                                              *)
LEMMA AddStep ==
    ASSUME RoInv, tfw_http_req_add_seq_queue
    PROVE  RoInv'
<1> DEFINE r == received + 1
<1>0. Base
  BY BaseOf
<1>1. /\ r \in Req /\ received' = r /\ flight' = flight \cup {r} /\ seqq' = Append(seqq, r)
      /\ received \in Nat /\ alive /\ reqRefs' = reqRefs + 1
      /\ UNCHANGED <<ready, ctx, work, alive, dropped, delivered, freed>>
  BY RespOrderAssumption DEF RoInv, RoTypeOK, Req, tfw_http_req_add_seq_queue
<1>2. r \notin 1..received /\ 1..received' = 1..received \cup {r}
  BY <1>1
<1> HIDE DEF r
<1>3. r \notin Live /\ r \notin ready /\ r \notin flight /\ r \notin Range(seqq) /\ freed[r] = 0
  <2>1. freed[r] = 0
    BY <1>1 DEF Base, PlaceInv, UnusedInv, RoInv, r
  <2> QED BY <1>0, <1>2, <2>1, Known DEF Base, RoTypeOK, PlaceInv, QueueInv
<1>4. seqq' \in Seq(Req) /\ NoDup(seqq') /\ Range(seqq') = Range(seqq) \cup {r}
  BY <1>0, <1>1, <1>3, Added, Known DEF Base, PlaceInv, QueueInv
<1>5. Live' = Live \cup {r}
  BY <1>1, <1>2, <1>3 DEF Live
<1>6. RoTypeOK'
  BY <1>0, <1>1, <1>2, <1>4, RespOrderAssumption DEF Base, RoTypeOK, Req
<1>7. Shapes' /\ Locks'
  BY <1>0, <1>1 DEF Base, Shapes, ShapeOf, Locks
<1>8. PlaceInv'
  <2>1. FlightInv' /\ QueueInv'
    BY <1>0, <1>1, <1>3, <1>4, <1>5 DEF Base, PlaceInv, FlightInv, QueueInv
  <2>2. HandInv'
    BY <1>0, <1>1, <1>3, <1>5 DEF Base, PlaceInv, HandInv
  <2>3. RetInv'
    BY <1>0, <1>1, <1>3, <1>4, <1>5 DEF Base, PlaceInv, RetInv
  <2>4. UnusedInv'
    BY <1>0, <1>1 DEF Base, PlaceInv, UnusedInv, Req, r
  <2>5. DropInv'
    BY <1>0, <1>1, <1>4 DEF Base, PlaceInv, DropInv
  <2> QED BY <2>1, <2>2, <2>3, <2>4, <2>5 DEF PlaceInv
<1>9. CountInv'
  <2>1. Cardinality(Live \cup {r}) = Cardinality(Live) + 1 /\ Cardinality(Live) \in Nat
    BY <1>0, <1>3, LiveCount, FS_AddElement DEF Base
  <2>2. Cardinality(Live') = Cardinality(Live) + 1
    BY <1>5, <2>1
  <2>3. Holding' = Holding
    BY <1>1 DEF Holding
  <2>4. Cardinality(Holding) \in Nat
    BY RespOrderAssumption, FS_Subset, FS_CardinalityType DEF Holding
  <2> QED BY <1>1, <2>1, <2>2, <2>3, <2>4 DEF RoInv, CountInv
<1>10. OrderInv'
  BY AddOrder DEF RoInv, PlaceInv
<1> QED BY <1>6, <1>7, <1>8, <1>9, <1>10 DEF RoInv

(* A response comes.                                                        *)
LEMMA RespondStep ==
    ASSUME RoInv, NEW k \in Cpu, NEW r \in Req, Respond(k, r)
    PROVE  RoInv'
<1>1. /\ ctx' \in [Cpu -> Ctx] /\ ctx'[k].pc = "adjust" /\ \A l \in Cpu : l # k => ctx'[l] = ctx[l]
      /\ Shapes' /\ Locks' /\ PlaceInv' /\ CountInv'
  BY BaseOf, TakenUp DEF RoInv, Respond
<1>2. RoTypeOK'
  BY <1>1 DEF RoInv, RoTypeOK, Respond
<1>3. OrderInv'
  BY <1>1, OrderKept DEF RoInv, Respond
<1> QED BY <1>1, <1>2, <1>3 DEF RoInv

(* No response can be made.                                                 *)
LEMMA ErrorStep ==
    ASSUME RoInv, NEW k \in Cpu, NEW r \in Req, tfw_http_resp_build_error(k, r)
    PROVE  RoInv'
<1>1. /\ ctx' \in [Cpu -> Ctx] /\ Shapes' /\ Locks' /\ PlaceInv' /\ CountInv'
  BY BaseOf, TakenUp DEF RoInv, tfw_http_resp_build_error
<1>2. work' \in Seq(0..MaxReq)
  BY RespOrderAssumption, AppendProperties DEF RoInv, RoTypeOK, tfw_http_resp_build_error, Close
<1>3. RoTypeOK'
  BY <1>1, <1>2 DEF RoInv, RoTypeOK, tfw_http_resp_build_error
<1>4. OrderInv'
  BY ClosePushed DEF RoInv, tfw_http_resp_build_error
<1> QED BY <1>1, <1>3, <1>4 DEF RoInv

(* The response of a request of a dropped connection is freed with it.      *)
LEMMA AdjustStep ==
    ASSUME RoInv, NEW k \in Cpu, tfw_h1_resp_adjust_fwd(k)
    PROVE  RoInv'
<1>1. Base /\ ctx[k].pc = "adjust" /\ ctx[k].req # NoReq
  BY BaseOf DEF RoInv, Shapes, ShapeOf, tfw_h1_resp_adjust_fwd
<1>2. CASE dropped /\ Free({ctx[k].req}) /\ ctx' = [ctx EXCEPT ![k] = Idle]
  <2>1. seqq = <<>> /\ seqq' = seqq /\ ~alive /\ ~alive' /\ delivered' = delivered
    BY <1>2 DEF RoInv, PlaceInv, DropInv, tfw_h1_resp_adjust_fwd
  <2>2. /\ ctx' \in [Cpu -> Ctx] /\ freed' \in [Req -> 0..1] /\ reqRefs' = reqRefs - 1
        /\ Shapes' /\ Locks' /\ PlaceInv' /\ CountInv'
    <3>1. seqq' \in Seq(Req) /\ NoDup(seqq') /\ Range(seqq') = Range(seqq) \ {ctx[k].req}
      BY <2>1, NothingIn
    <3> QED BY <1>1, <1>2, <2>1, <3>1, HandFreed DEF RoInv, tfw_h1_resp_adjust_fwd
  <2>3. RoTypeOK'
    BY <2>2 DEF RoInv, RoTypeOK, tfw_h1_resp_adjust_fwd
  <2> QED BY <2>1, <2>2, <2>3, SockDead DEF RoInv
<1>3. CASE ctx' = [ctx EXCEPT ![k].pc = "fwd"] /\ UNCHANGED <<reqRefs, freed>>
  <2>1. /\ ctx' \in [Cpu -> Ctx] /\ ctx'[k].pc = "fwd" /\ \A l \in Cpu : l # k => ctx'[l] = ctx[l]
        /\ Shapes' /\ Locks' /\ PlaceInv' /\ CountInv'
    BY <1>1, <1>3, PlaceKept DEF RoInv, tfw_h1_resp_adjust_fwd, Pc
  <2>2. RoTypeOK'
    BY <1>3, <2>1 DEF RoInv, RoTypeOK, tfw_h1_resp_adjust_fwd
  <2>3. OrderInv'
    BY <1>1, <2>1, OrderKept DEF RoInv, tfw_h1_resp_adjust_fwd
  <2> QED BY <2>1, <2>2, <2>3 DEF RoInv
<1> QED BY <1>2, <1>3 DEF tfw_h1_resp_adjust_fwd

(* tfw_http_conn_req_clean.                                                 *)
LEMMA CleanStep ==
    ASSUME RoInv, NEW k \in Cpu, tfw_http_conn_req_clean(k)
    PROVE  RoInv'
<1> DEFINE r == ctx[k].req
<1>1. Base /\ ctx[k].pc = "clean" /\ r # NoReq /\ Free({r}) /\ ctx' = [ctx EXCEPT ![k] = Idle]
  BY BaseOf DEF RoInv, Shapes, ShapeOf, tfw_http_conn_req_clean
<1>2. seqq' \in Seq(Req) /\ NoDup(seqq') /\ Range(seqq') = Range(seqq) \ {r} /\ (dropped => seqq' = <<>>)
  <2>1. seqq \in Seq(Req) /\ NoDup(seqq) /\ (dropped => seqq = <<>>)
    BY DEF RoInv, RoTypeOK, PlaceInv, QueueInv, DropInv
  <2>2. CASE r \notin Range(seqq)
    BY <2>1, <2>2 DEF tfw_http_conn_req_clean
  <2>3. CASE r \in Range(seqq)
    <3> DEFINE i == CHOOSE i \in 1..Len(seqq) : seqq[i] = r
    <3>1. i \in 1..Len(seqq) /\ seqq[i] = r
      BY <2>1, <2>3, RangeIs
    <3>2. seqq' = RemoveAt(seqq, i)
      BY <2>3 DEF tfw_http_conn_req_clean
    <3> HIDE DEF i
    <3>3. ~dropped
      BY <2>1, <2>3, NothingIn
    <3> QED BY <2>1, <3>1, <3>2, <3>3, Unlinked
  <2> QED BY <2>2, <2>3
<1>3. /\ ctx' \in [Cpu -> Ctx] /\ freed' \in [Req -> 0..1] /\ reqRefs' = reqRefs - 1
      /\ Shapes' /\ Locks' /\ PlaceInv' /\ CountInv'
  BY <1>1, <1>2, HandFreed DEF RoInv, tfw_http_conn_req_clean
<1>4. RoTypeOK'
  BY <1>2, <1>3 DEF RoInv, RoTypeOK, tfw_http_conn_req_clean
<1>5. OrderInv'
  BY <1>1, NotClean DEF RoInv, OrderInv, CleanInv, tfw_http_conn_req_clean
<1> QED BY <1>3, <1>4, <1>5 DEF RoInv

(* tfw_http_resp_fwd finds the queue emptied by the drop.                   *)
LEMMA FwdDroppedStep ==
    ASSUME RoInv, NEW k \in Cpu, RespFwdDropped(k)
    PROVE  RoInv'
<1>1. /\ Base /\ ctx[k].req # NoReq /\ Free({ctx[k].req}) /\ ctx' = [ctx EXCEPT ![k] = Idle]
      /\ seqq = <<>> /\ seqq' = seqq
  BY BaseOf DEF RoInv, Shapes, ShapeOf, RespFwdDropped
<1>2. seqq' \in Seq(Req) /\ NoDup(seqq') /\ Range(seqq') = Range(seqq) \ {ctx[k].req}
  BY <1>1, NothingIn
<1>3. /\ ctx' \in [Cpu -> Ctx] /\ freed' \in [Req -> 0..1] /\ reqRefs' = reqRefs - 1
      /\ Shapes' /\ Locks' /\ PlaceInv' /\ CountInv'
  BY <1>1, <1>2, HandFreed DEF RoInv, RespFwdDropped
<1>4. work' \in Seq(0..MaxReq)
  BY RespOrderAssumption, AppendProperties DEF RoInv, RoTypeOK, RespFwdDropped, Close
<1>5. RoTypeOK'
  BY <1>2, <1>3, <1>4 DEF RoInv, RoTypeOK, RespFwdDropped
<1>6. OrderInv'
  BY ClosePushed DEF RoInv, RespFwdDropped
<1> QED BY <1>3, <1>5, <1>6 DEF RoInv

(* tfw_http_resp_fwd cuts the ready prefix off the queue.                   *)
LEMMA FwdStep ==
    ASSUME RoInv, NEW k \in Cpu, tfw_http_resp_fwd(k)
    PROVE  RoInv'
<1> DEFINE r == ctx[k].req
           ret == ReadyPrefix(seqq, ready')
           c == IF ret = <<>> THEN Idle ELSE [Idle EXCEPT !.pc = "wait", !.ret = ret]
<1>0. /\ Base /\ ctx[k].pc = "fwd" /\ r # NoReq /\ SeqUnlocked /\ ready' = ready \cup {r}
      /\ seqq' = SubSeq(seqq, Len(ret) + 1, Len(seqq)) /\ ctx' = [ctx EXCEPT ![k] = c]
      /\ reqRefs' = IF ret = <<>> THEN reqRefs ELSE reqRefs + 1
      /\ UNCHANGED <<received, flight, work, alive, dropped, delivered, freed>>
  BY BaseOf DEF RoInv, Shapes, ShapeOf, tfw_http_resp_fwd
<1>1. ~dropped /\ r \in Live /\ r \notin flight \cup ready /\ \A l \in Cpu : ctx[l].req = r => l = k
  BY <1>0 DEF RoInv, PlaceInv, DropInv, HandInv, tfw_http_resp_fwd
<1>2. seqq \in Seq(Req) /\ NoDup(seqq) /\ Range(seqq) \subseteq Live
  BY <1>0, Known DEF Base, PlaceInv, QueueInv
<1>3. PICK n \in 0..Len(seqq) : ret = SubSeq(seqq, 1, n) /\ \A i \in 1..n : seqq[i] \in ready'
  BY <1>2, Prefix
<1> HIDE DEF r, ret
<1>4. /\ ret \in Seq(Req) /\ Len(ret) = n /\ (\A i \in 1..n : ret[i] = seqq[i]) /\ NoDup(ret)
  BY <1>2, <1>3, Cut
<1>5. seqq' = SubSeq(seqq, n + 1, Len(seqq))
  BY <1>0, <1>4
<1>6. /\ seqq' \in Seq(Req) /\ NoDup(seqq') /\ Range(ret) \cup Range(seqq') = Range(seqq)
      /\ Range(ret) \cap Range(seqq') = {}
  BY <1>2, <1>3, <1>5, Cut
<1>7. Range(ret) \subseteq ready'
  <2>1. ASSUME NEW x \in Range(ret) PROVE x \in ready'
    <3>1. PICK i \in 1..Len(ret) : ret[i] = x
      BY <1>4, RangeIs
    <3> QED BY <1>3, <1>4, <3>1
  <2> QED BY <2>1
<1>8. /\ c \in Ctx /\ ShapeOf(c) /\ c.req = NoReq /\ c.ret = ret
      /\ c.pc = IF ret = <<>> THEN "idle" ELSE "wait"
  <2>1. CASE ret = <<>>
    BY <2>1, IdleShape
  <2>2. CASE ret # <<>>
    <3> DEFINE w == [Idle EXCEPT !.pc = "wait", !.ret = ret]
    <3>1. c = w
      BY <2>2
    <3>2. 0 \in 0..MaxReq
      BY RespOrderAssumption
    <3>3. w \in Ctx /\ w.req = NoReq /\ w.ret = ret /\ w.pc = "wait"
      BY <1>4, <3>2 DEF Idle, Ctx, Pc, NoReq
    <3>4. ShapeOf(w)
      BY <3>3 DEF ShapeOf
    <3> HIDE DEF w
    <3> QED BY <2>2, <3>1, <3>3, <3>4
  <2> QED BY <2>1, <2>2
<1> HIDE DEF c
<1>9. ctx' \in [Cpu -> Ctx] /\ ctx'[k] = c /\ \A l \in Cpu : l # k => ctx'[l] = ctx[l]
  BY <1>0, <1>8, CtxAt DEF Base, RoTypeOK
<1>10. Shapes' /\ Locks'
  <2>1. Shapes'
    BY <1>0, <1>8, <1>9, ShapesAt DEF Base
  <2>2. Locks'
    BY <1>0, <1>8, <1>9, LocksAt DEF Base, SeqUnlocked
  <2> QED BY <2>1, <2>2
<1>11. Live' = Live /\ Live \subseteq 1..received
  BY <1>0, Known DEF Live
<1>12. RoTypeOK'
  <2>1. reqRefs' \in Int /\ ready' \subseteq 1..received
    BY <1>0, <1>1, <1>11 DEF Base, RoTypeOK
  <2> QED BY <1>0, <1>6, <1>9, <2>1 DEF Base, RoTypeOK
<1>13. PlaceInv'
  <2>1. FlightInv'
    BY <1>0, <1>1, <1>11 DEF Base, PlaceInv, FlightInv
  <2>2. QueueInv' /\ UnusedInv'
    BY <1>0, <1>2, <1>6, <1>11 DEF Base, PlaceInv, QueueInv, UnusedInv
  <2>3. HandInv'
    BY <1>0, <1>1, <1>8, <1>9, <1>11 DEF Base, PlaceInv, HandInv
  <2>4. RetInv'
    <3>1. \A l \in Cpu : /\ NoDup(ctx[l].ret)
                         /\ Range(ctx[l].ret) \subseteq (Live \cap ready) \ Range(seqq)
                         /\ \A m \in Cpu : m # l => Range(ctx[m].ret) \cap Range(ctx[l].ret) = {}
      BY <1>0 DEF Base, PlaceInv, RetInv
    <3>2. Range(ret) \subseteq (Live \cap ready') \ Range(seqq')
      BY <1>2, <1>6, <1>7
    <3>3. \A l \in Cpu : l # k => /\ Range(ctx'[l].ret) \subseteq (Live \cap ready') \ Range(seqq')
                                  /\ Range(ctx'[l].ret) \cap Range(ret) = {}
      BY <1>0, <1>6, <1>9, <3>1
    <3>4. \A l \in Cpu : NoDup(ctx'[l].ret)
      BY <1>4, <1>8, <1>9, <3>1
    <3> QED BY <1>8, <1>9, <1>11, <3>1, <3>2, <3>3, <3>4 DEF RetInv
  <2>5. DropInv'
    <3>1. /\ flight \subseteq Range(seqq)
          /\ \A l \in Cpu : ctx[l].req # NoReq => ctx[l].req \in Range(seqq)
      BY <1>0, <1>1 DEF Base, PlaceInv, DropInv
    <3>2. flight \subseteq Range(seqq')
      BY <1>0, <1>6, <1>7, <2>1, <3>1 DEF FlightInv
    <3>3. \A l \in Cpu : ctx'[l].req # NoReq => ctx'[l].req \in Range(seqq')
      BY <1>6, <1>7, <1>8, <1>9, <2>3, <3>1 DEF HandInv
    <3> QED BY <1>0, <1>1, <3>2, <3>3 DEF DropInv
  <2> QED BY <2>1, <2>2, <2>3, <2>4, <2>5 DEF PlaceInv
<1>14. CountInv'
  <2>1. /\ Cardinality(Holding') = Cardinality(Holding) + (IF ret = <<>> THEN 0 ELSE 1)
        /\ Cardinality(Holding) \in Nat
    BY <1>0, <1>8, <1>9, HoldingAt
  <2>2. Cardinality(Live) \in Nat
    BY <1>0, LiveCount DEF Base
  <2>3. reqRefs = 1 + Cardinality(Live) + Cardinality(Holding) /\ ~dropped'
    BY <1>0, <1>1 DEF RoInv, CountInv
  <2>4. reqRefs' = reqRefs + (IF ret = <<>> THEN 0 ELSE 1) /\ reqRefs \in Int
    BY <1>0 DEF Base, RoTypeOK
  <2>5. reqRefs' = 1 + Cardinality(Live) + Cardinality(Holding')
    <3> DEFINE e == IF ret = <<>> THEN 0 ELSE 1
    <3>1. Cardinality(Holding') = Cardinality(Holding) + e /\ reqRefs' = reqRefs + e /\ e \in Nat
      BY <2>1, <2>4
    <3> HIDE DEF e
    <3> QED BY <2>1, <2>2, <2>3, <3>1
  <2> QED BY <1>11, <2>3, <2>5 DEF CountInv
<1>15. OrderInv'
  <2>1. CASE ret = <<>>
    <3>1. n = 0
      BY <1>4, <2>1, NothingIn
    <3>2. seqq' = seqq
      BY <1>2, <1>5, <3>1, SubSeqFull
    <3> QED BY <1>0, <1>8, <1>9, <2>1, <3>2, OrderKept DEF RoInv
  <2>2. CASE ret # <<>>
    BY <1>0, <1>3, <1>5, <1>8, <1>9, <2>2, CutOrder DEF RoInv, PlaceInv
  <2> QED BY <2>1, <2>2
<1> QED BY <1>10, <1>12, <1>13, <1>14, <1>15 DEF RoInv

(* ret_qlock is taken.                                                      *)
LEMMA TakeStep ==
    ASSUME RoInv, NEW k \in Cpu, TakeRet(k)
    PROVE  RoInv'
<1>1. ctx' \in [Cpu -> Ctx] /\ Shapes' /\ Locks' /\ PlaceInv' /\ CountInv'
  BY BaseOf, PlaceKept DEF RoInv, TakeRet, Pc
<1>2. RoTypeOK'
  BY <1>1 DEF RoInv, RoTypeOK, TakeRet
<1> QED BY <1>1, <1>2, TakeOrder DEF RoInv

(* A send fails.                                                            *)
LEMMA FailedStep ==
    ASSUME RoInv, NEW k \in Cpu, SendFailed(k)
    PROVE  RoInv'
<1>1. ctx' \in [Cpu -> Ctx] /\ Shapes' /\ Locks' /\ PlaceInv' /\ CountInv'
  BY BaseOf, PlaceKept DEF RoInv, SendFailed, Pc
<1>2. work' \in Seq(0..MaxReq)
  BY RespOrderAssumption, AppendProperties DEF RoInv, RoTypeOK, SendFailed, Close
<1>3. RoTypeOK'
  BY <1>1, <1>2 DEF RoInv, RoTypeOK, SendFailed
<1>4. OrderInv'
  BY ClosePushed DEF RoInv, SendFailed
<1> QED BY <1>1, <1>3, <1>4 DEF RoInv

(* All responses are sent.                                                  *)
LEMMA DoneStep ==
    ASSUME RoInv, NEW k \in Cpu, SendDone(k)
    PROVE  RoInv'
<1>1. ctx' \in [Cpu -> Ctx] /\ Shapes' /\ Locks' /\ PlaceInv' /\ CountInv'
  BY BaseOf, PlaceKept DEF RoInv, SendDone, Pc
<1>2. RoTypeOK'
  BY <1>1 DEF RoInv, RoTypeOK, SendDone
<1> QED BY <1>1, <1>2, DoneOrder DEF RoInv

(* A response is queued in the socket layer, its request freed.             *)
LEMMA SendStep ==
    ASSUME RoInv, NEW k \in Cpu, SendResp(k)
    PROVE  RoInv'
<1> DEFINE q == ctx[k].ret
           h == Head(q)
<1>0. /\ Base /\ ctx[k].pc = "send" /\ q # <<>> /\ Free({h}) /\ work' = Append(work, h)
      /\ ctx' = [ctx EXCEPT ![k].ret = Tail(q)]
      /\ UNCHANGED <<received, seqq, flight, ready, alive, dropped, delivered>>
  BY BaseOf DEF SendResp
<1>1. \A l \in Cpu : /\ NoDup(ctx[l].ret)
                     /\ Range(ctx[l].ret) \subseteq (Live \cap ready) \ Range(seqq)
                     /\ \A m \in Cpu : m # l => Range(ctx[m].ret) \cap Range(ctx[l].ret) = {}
  BY <1>0 DEF Base, PlaceInv, RetInv
<1>2. q \in Seq(Req) /\ NoDup(q) /\ ctx[k] \in Ctx
  BY <1>0, <1>1, Known
<1> HIDE DEF q, h
<1>3. /\ Tail(q) \in Seq(Req) /\ NoDup(Tail(q)) /\ h \in Range(q)
      /\ Range(Tail(q)) = Range(q) \ {h}
  BY <1>0, <1>2, Taken DEF h
<1>4. h \in Live /\ h \in ready /\ h \notin Range(seqq) /\ h \in 0..MaxReq
  <2>1. h \in Live /\ h \in ready /\ h \notin Range(seqq)
    BY <1>1, <1>3 DEF q
  <2> QED BY <1>0, <2>1, Known, RespOrderAssumption DEF Req
<1> DEFINE c == [ctx[k] EXCEPT !.ret = Tail(q)]
<1>5. c \in Ctx /\ c.pc = "send" /\ c.req = ctx[k].req /\ c.ret = Tail(q)
  BY <1>0, <1>2, <1>3 DEF Ctx
<1>6. c.req = NoReq /\ ShapeOf(c)
  <2>1. ctx[k].req = NoReq
    BY <1>0 DEF Base, Shapes, ShapeOf
  <2> QED BY <1>5, <2>1 DEF ShapeOf
<1>7. ctx' = [ctx EXCEPT ![k] = c]
  BY <1>0
<1> HIDE DEF c
<1>8. ctx' \in [Cpu -> Ctx] /\ ctx'[k] = c /\ \A l \in Cpu : l # k => ctx'[l] = ctx[l]
  BY <1>0, <1>5, <1>7, CtxAt DEF Base, RoTypeOK
<1>9. Shapes' /\ Locks'
  <2>1. Shapes'
    BY <1>0, <1>6, <1>8, ShapesAt DEF Base
  <2>2. Locks'
    BY <1>0, <1>5, <1>8, LocksAt DEF Base, Locks
  <2> QED BY <2>1, <2>2
<1>10. /\ freed' \in [Req -> 0..1] /\ Live' = Live \ {h} /\ reqRefs' = reqRefs - 1
       /\ Cardinality(Live') = Cardinality(Live) - 1 /\ UnusedInv'
  BY <1>0, <1>4, FreeOne DEF Base, PlaceInv
<1>11. RoTypeOK'
  <2>1. reqRefs' \in Int
    BY <1>10 DEF RoInv, RoTypeOK
  <2>2. work' \in Seq(0..MaxReq)
    BY <1>0, <1>4, AppendProperties DEF RoInv, RoTypeOK
  <2> QED BY <1>0, <1>8, <1>10, <2>1, <2>2 DEF Base, RoTypeOK
<1>12. PlaceInv'
  <2>1. FlightInv' /\ QueueInv'
    BY <1>0, <1>4, <1>10 DEF Base, PlaceInv, FlightInv, QueueInv
  <2>2. HandInv'
    BY <1>0, <1>4, <1>6, <1>8, <1>10 DEF Base, PlaceInv, HandInv
  <2>3. RetInv'
    <3>1. \A l \in Cpu : /\ NoDup(ctx'[l].ret) /\ h \notin Range(ctx'[l].ret)
                         /\ Range(ctx'[l].ret) \subseteq Range(ctx[l].ret)
      BY <1>1, <1>3, <1>5, <1>8 DEF q
    <3>2. \A l \in Cpu : Range(ctx'[l].ret) \subseteq (Live' \cap ready') \ Range(seqq')
      BY <1>0, <1>1, <1>10, <3>1
    <3>3. \A l, m \in Cpu : m # l => Range(ctx'[m].ret) \cap Range(ctx'[l].ret) = {}
      BY <1>1, <3>1
    <3> QED BY <3>1, <3>2, <3>3, Zenon DEF RetInv
  <2>4. DropInv'
    BY <1>0, <1>6, <1>8 DEF Base, PlaceInv, DropInv
  <2> QED BY <1>10, <2>1, <2>2, <2>3, <2>4 DEF PlaceInv
<1>13. CountInv'
  <2>1. Cardinality(Holding') = Cardinality(Holding) /\ Cardinality(Holding) \in Nat
    BY <1>0, <1>5, <1>8, HoldingAt
  <2>2. Cardinality(Live) \in Nat /\ dropped' = dropped
    BY <1>0, LiveCount DEF Base
  <2> QED BY <1>10, <2>1, <2>2 DEF RoInv, CountInv
<1>14. OrderInv'
  BY SendOrder DEF RoInv, PlaceInv
<1> QED BY <1>9, <1>11, <1>12, <1>13, <1>14 DEF RoInv

(* The sender puts the connection and frees what it has not sent.           *)
LEMMA PutStep ==
    ASSUME RoInv, NEW k \in Cpu, PutAndZap(k)
    PROVE  RoInv'
<1> DEFINE q == ctx[k].ret
           S == Range(q)
<1>0. /\ Base /\ ctx[k].pc = "put" /\ ctx' = [ctx EXCEPT ![k] = Idle]
      /\ freed' = [r \in Req |-> IF r \in S THEN freed[r] + 1 ELSE freed[r]]
      /\ reqRefs' = reqRefs - 1 - Len(q)
      /\ UNCHANGED <<received, seqq, flight, ready, work, alive, dropped, delivered>>
  BY BaseOf DEF PutAndZap
<1>1. \A l \in Cpu : /\ NoDup(ctx[l].ret)
                     /\ Range(ctx[l].ret) \subseteq (Live \cap ready) \ Range(seqq)
                     /\ \A m \in Cpu : m # l => Range(ctx[m].ret) \cap Range(ctx[l].ret) = {}
  BY <1>0 DEF Base, PlaceInv, RetInv
<1>2. q \in Seq(Req) /\ NoDup(q) /\ S \subseteq (Live \cap ready) \ Range(seqq)
  BY <1>0, <1>1, Known
<1>3. Cardinality(S) = Len(q)
  BY <1>2, Counted
<1> HIDE DEF q, S
<1>4. /\ freed' \in [Req -> 0..1] /\ Live' = Live \ S /\ UnusedInv'
      /\ Cardinality(S) \in Nat /\ Cardinality(Live) \in Nat
      /\ Cardinality(Live') = Cardinality(Live) - Cardinality(S)
  <2>1. S \subseteq Live /\ RoTypeOK /\ UnusedInv /\ received' = received
    BY <1>0, <1>2 DEF Base, PlaceInv
  <2> QED BY <1>0, <2>1, Freeing
<1>5. ctx' \in [Cpu -> Ctx] /\ ctx'[k] = Idle /\ \A l \in Cpu : l # k => ctx'[l] = ctx[l]
  BY <1>0, IdleShape, CtxAt DEF Base, RoTypeOK
<1>6. Shapes' /\ Locks'
  <2>1. Shapes'
    BY <1>0, <1>5, IdleShape, ShapesAt DEF Base
  <2>2. Locks'
    BY <1>0, <1>5, IdleShape, LocksAt DEF Base
  <2> QED BY <2>1, <2>2
<1>7. RoTypeOK'
  <2>1. reqRefs' \in Int
    BY <1>0, <1>3, <1>4 DEF Base, RoTypeOK
  <2> QED BY <1>0, <1>4, <1>5, <2>1 DEF Base, RoTypeOK
<1>8. PlaceInv'
  <2>1. FlightInv' /\ QueueInv'
    BY <1>0, <1>2, <1>4 DEF Base, PlaceInv, FlightInv, QueueInv
  <2>2. HandInv'
    BY <1>0, <1>2, <1>4, <1>5, IdleShape DEF Base, PlaceInv, HandInv
  <2>3. RetInv'
    <3>1. Range(ctx'[k].ret) = {} /\ NoDup(ctx'[k].ret)
      BY <1>5, IdleShape, NothingIn
    <3>2. \A l \in Cpu : l # k => Range(ctx'[l].ret) \cap S = {}
      BY <1>1, <1>5 DEF q, S
    <3> QED BY <1>0, <1>1, <1>4, <1>5, <3>1, <3>2 DEF RetInv
  <2>4. DropInv'
    BY <1>0, <1>5, IdleShape DEF Base, PlaceInv, DropInv
  <2> QED BY <1>4, <2>1, <2>2, <2>3, <2>4 DEF PlaceInv
<1>9. CountInv'
  <2>1. Cardinality(Holding') = Cardinality(Holding) - 1 /\ Cardinality(Holding) \in Nat
    BY <1>0, <1>5, IdleShape, HoldingAt
  <2>2. dropped' = dropped
    BY <1>0
  <2> DEFINE d == IF dropped THEN 0 ELSE 1
  <2>3. reqRefs = d + Cardinality(Live) + Cardinality(Holding) /\ d \in Nat
    BY DEF RoInv, CountInv
  <2>4. reqRefs' = reqRefs - 1 - Cardinality(S)
    BY <1>0, <1>3
  <2> HIDE DEF d
  <2>5. reqRefs' = d + Cardinality(Live') + Cardinality(Holding')
    BY <1>4, <2>1, <2>3, <2>4
  <2> QED BY <2>2, <2>5 DEF CountInv, d
<1>10. OrderInv'
  BY <1>0, <1>5, IdleShape, OrderKept DEF RoInv
<1> QED BY <1>6, <1>7, <1>8, <1>9, <1>10 DEF RoInv

(* tfw_http_conn_cli_drop.                                                  *)
LEMMA DropStep ==
    ASSUME RoInv, tfw_http_conn_cli_drop
    PROVE  RoInv'
<1> DEFINE S == Range(seqq) \cap ready
<1>0. /\ Base /\ ~alive /\ ~dropped /\ dropped' = TRUE /\ seqq' = <<>>
      /\ freed' = [r \in Req |-> IF r \in S THEN freed[r] + 1 ELSE freed[r]]
      /\ reqRefs' = reqRefs - 1 - Cardinality(S)
      /\ UNCHANGED <<received, flight, ready, ctx, work, alive, delivered>>
  BY BaseOf DEF tfw_http_conn_cli_drop
<1> HIDE DEF S
<1>1. /\ freed' \in [Req -> 0..1] /\ Live' = Live \ S /\ UnusedInv'
      /\ Cardinality(S) \in Nat /\ Cardinality(Live) \in Nat
      /\ Cardinality(Live') = Cardinality(Live) - Cardinality(S)
  <2>1. S \subseteq Live /\ RoTypeOK /\ UnusedInv /\ received' = received
    BY <1>0 DEF Base, PlaceInv, QueueInv, S
  <2> QED BY <1>0, <2>1, Freeing
<1>2. seqq' \in Seq(Req) /\ NoDup(seqq') /\ Range(seqq') = {}
  BY <1>0, NothingIn
<1>3. RoTypeOK'
  <2>1. reqRefs' \in Int
    BY <1>0, <1>1 DEF Base, RoTypeOK
  <2> QED BY <1>0, <1>1, <1>2, <2>1 DEF Base, RoTypeOK
<1>4. Shapes' /\ Locks'
  BY <1>0 DEF Base, Shapes, ShapeOf, Locks
<1>5. PlaceInv'
  <2>1. FlightInv' /\ QueueInv'
    BY <1>0, <1>1, <1>2 DEF Base, PlaceInv, FlightInv, QueueInv, S
  <2>2. HandInv'
    BY <1>0, <1>1 DEF Base, PlaceInv, HandInv, S
  <2>3. RetInv'
    BY <1>0, <1>1, <1>2 DEF Base, PlaceInv, RetInv, S
  <2>4. DropInv'
    BY <1>0 DEF DropInv
  <2> QED BY <1>1, <2>1, <2>2, <2>3, <2>4 DEF PlaceInv
<1>6. CountInv'
  <2>1. Holding' = Holding
    BY <1>0 DEF Holding
  <2>2. Cardinality(Holding) \in Nat
    BY RespOrderAssumption, FS_Subset, FS_CardinalityType DEF Holding
  <2>3. reqRefs = 1 + Cardinality(Live) + Cardinality(Holding)
    BY <1>0 DEF RoInv, CountInv
  <2> QED BY <1>0, <1>1, <2>1, <2>2, <2>3 DEF CountInv
<1>7. OrderInv'
  BY <1>0, SockDead DEF RoInv
<1> QED BY <1>3, <1>4, <1>5, <1>6, <1>7 DEF RoInv

(* tfw_http_req_evict_dropped.                                              *)
LEMMA EvictStep ==
    ASSUME RoInv, NEW r \in Req, tfw_http_req_evict_dropped(r)
    PROVE  RoInv'
<1>0. /\ Base /\ dropped /\ r \in flight /\ flight' = flight \ {r} /\ Free({r})
      /\ UNCHANGED <<received, seqq, ready, ctx, work, alive, dropped, delivered>>
  BY BaseOf DEF tfw_http_req_evict_dropped
<1>1. r \in Live /\ r \notin ready /\ ~alive /\ seqq = <<>>
  BY <1>0 DEF Base, PlaceInv, FlightInv, DropInv
<1>2. /\ freed' \in [Req -> 0..1] /\ Live' = Live \ {r} /\ reqRefs' = reqRefs - 1
      /\ Cardinality(Live') = Cardinality(Live) - 1 /\ UnusedInv'
  BY <1>0, <1>1, FreeOne DEF Base, PlaceInv
<1>3. RoTypeOK'
  <2>1. reqRefs' \in Int
    BY <1>2 DEF RoInv, RoTypeOK
  <2> QED BY <1>0, <1>2, <2>1 DEF Base, RoTypeOK
<1>4. Shapes' /\ Locks'
  BY <1>0 DEF Base, Shapes, ShapeOf, Locks
<1>5. PlaceInv'
  <2>1. FlightInv' /\ QueueInv' /\ DropInv'
    BY <1>0, <1>1, <1>2, NothingIn DEF Base, PlaceInv, FlightInv, QueueInv, DropInv
  <2>2. HandInv'
    BY <1>0, <1>2 DEF Base, PlaceInv, HandInv
  <2>3. RetInv'
    BY <1>0, <1>1, <1>2 DEF Base, PlaceInv, RetInv
  <2> QED BY <1>2, <2>1, <2>2, <2>3 DEF PlaceInv
<1>6. CountInv'
  <2>1. Holding' = Holding /\ dropped' = dropped
    BY <1>0 DEF Holding
  <2>2. Cardinality(Holding) \in Nat /\ Cardinality(Live) \in Nat
    BY <1>0, LiveCount, RespOrderAssumption, FS_Subset, FS_CardinalityType DEF Holding, Base
  <2> QED BY <1>2, <2>1, <2>2 DEF RoInv, CountInv
<1>7. OrderInv'
  BY <1>0, <1>1, SockDead DEF RoInv
<1> QED BY <1>3, <1>4, <1>5, <1>6, <1>7 DEF RoInv

(* Nothing but the socket's state changes.                                  *)
LEMMA PlacesSame ==
    ASSUME RoInv, UNCHANGED <<received, seqq, flight, ready, ctx, dropped, reqRefs, freed>>,
           dropped => ~alive'
    PROVE  Shapes' /\ Locks' /\ PlaceInv' /\ CountInv'
<1>1. Shapes' /\ Locks'
  BY DEF RoInv, Shapes, ShapeOf, Locks
<1>2. Live' = Live /\ Holding' = Holding
  BY DEF Live, Holding
<1>3. PlaceInv'
  <2>1. FlightInv' /\ QueueInv' /\ UnusedInv'
    BY <1>2 DEF RoInv, PlaceInv, FlightInv, QueueInv, UnusedInv
  <2>2. HandInv' /\ RetInv'
    BY <1>2 DEF RoInv, PlaceInv, HandInv, RetInv
  <2>3. DropInv'
    BY DEF RoInv, PlaceInv, DropInv
  <2> QED BY <2>1, <2>2, <2>3 DEF PlaceInv
<1>4. CountInv'
  BY <1>2 DEF RoInv, CountInv
<1> QED BY <1>1, <1>3, <1>4

(* The socket layer carries out a work.                                     *)
LEMMA WorkStep ==
    ASSUME RoInv, SockWork
    PROVE  RoInv'
<1>1. dropped => ~alive'
  BY DEF RoInv, PlaceInv, DropInv, SockWork
<1>2. Shapes' /\ Locks' /\ PlaceInv' /\ CountInv'
  BY <1>1, PlacesSame DEF SockWork
<1>3. work' \in Seq(0..MaxReq) /\ Head(work) \in 0..MaxReq
  BY HeadTailProperties DEF RoInv, RoTypeOK, SockWork
<1>4. delivered' \in Seq(Req)
  <2>1. delivered \in Seq(Req)
    BY DEF RoInv, RoTypeOK
  <2>2. CASE alive /\ Head(work) # Close
    <3>1. Head(work) \in Req /\ delivered' = Append(delivered, Head(work))
      BY <1>3, <2>2, RespOrderAssumption DEF Close, Req, SockWork
    <3> QED BY <2>1, <3>1, AppendProperties
  <2>3. CASE ~(alive /\ Head(work) # Close)
    BY <2>1, <2>3 DEF SockWork
  <2> QED BY <2>2, <2>3
<1>5. alive' \in BOOLEAN
  BY DEF SockWork
<1>6. RoTypeOK'
  BY <1>3, <1>4, <1>5 DEF RoInv, RoTypeOK, SockWork
<1>7. OrderInv'
  BY WorkOrder DEF RoInv
<1> QED BY <1>2, <1>6, <1>7 DEF RoInv

(* The client closes the connection.                                        *)
LEMMA CloseStep ==
    ASSUME RoInv, ClientClose
    PROVE  RoInv'
<1>1. Shapes' /\ Locks' /\ PlaceInv' /\ CountInv'
  BY PlacesSame DEF ClientClose
<1>2. RoTypeOK'
  BY DEF RoInv, RoTypeOK, ClientClose
<1>3. OrderInv'
  BY SockDead DEF RoInv, ClientClose
<1> QED BY <1>1, <1>2, <1>3 DEF RoInv

-----------------------------------------------------------------------------
(* The invariant                                                            *)

LEMMA RoStart == ASSUME H1Init PROVE RoInv
<1>1. 0 \in 0..MaxReq /\ 1..0 = {}
  BY RespOrderAssumption
<1>2. <<>> \in Seq(Req) /\ Range(<<>>) = {} /\ NoDup(<<>>) /\ Len(<<>>) = 0 /\ <<>> \in Seq(0..MaxReq)
  BY NothingIn, EmptySeq
<1>3. \A k \in Cpu : /\ ctx[k] = Idle /\ ctx[k].pc = "idle" /\ ctx[k].req = NoReq
                     /\ ctx[k].ret = <<>> /\ ctx[k] \in Ctx /\ ShapeOf(ctx[k])
  BY IdleShape DEF H1Init
<1>4. ctx \in [Cpu -> Ctx] /\ freed \in [Req -> 0..1] /\ received = 0
  BY IdleShape DEF H1Init
<1>5. RoTypeOK
  <2>1. received \in 0..MaxReq
    BY <1>1, <1>4
  <2>2. reqRefs \in Int
    BY DEF H1Init
  <2>3. alive \in BOOLEAN /\ dropped \in BOOLEAN
    BY Zenon DEF H1Init
  <2>4. seqq \in Seq(Req) /\ delivered \in Seq(Req) /\ work \in Seq(0..MaxReq)
    BY <1>2 DEF H1Init
  <2>5. flight \subseteq 1..received /\ ready \subseteq 1..received
    BY DEF H1Init
  <2> QED BY <1>4, <2>1, <2>2, <2>3, <2>4, <2>5 DEF RoTypeOK
<1>6. Shapes /\ Locks
  BY <1>3 DEF Shapes, Locks
<1>7. Live = {} /\ Holding = {}
  <2>1. Live = {}
    BY <1>1, <1>4 DEF Live
  <2>2. Holding = {}
    BY <1>3 DEF Holding
  <2> QED BY <2>1, <2>2
<1>8. PlaceInv
  <2>1. FlightInv /\ UnusedInv /\ QueueInv
    BY <1>2, <1>7 DEF H1Init, FlightInv, UnusedInv, QueueInv
  <2>2. HandInv /\ RetInv
    BY <1>2, <1>3 DEF HandInv, RetInv
  <2>3. DropInv
    BY <1>3 DEF H1Init, DropInv
  <2> QED BY <2>1, <2>2, <2>3 DEF PlaceInv
<1>9. CountInv
  <2>1. Cardinality({}) = 0
    BY FS_EmptySet
  <2>2. reqRefs = 1 /\ ~dropped
    BY DEF H1Init
  <2> QED BY <1>7, <2>1, <2>2 DEF CountInv
<1>10. OrderInv
  <2>1. InRequestOrder /\ WorkInv /\ CleanInv
    BY <1>2, <1>3 DEF H1Init, InRequestOrder, WorkInv, CleanInv
  <2>2. Ordered(0, 0)
    BY <1>2, <1>3, <1>4 DEF H1Init, Ordered, Out, From
  <2> QED BY <2>1, <2>2 DEF OrderInv
<1> QED BY <1>5, <1>6, <1>8, <1>9, <1>10 DEF RoInv

LEMMA RoSteps == ASSUME RoInv, [H1Next]_h1Vars PROVE RoInv'
<1>1. CASE tfw_http_req_add_seq_queue
  BY <1>1, AddStep
<1>2. ASSUME NEW k \in Cpu, NEW r \in Req, Respond(k, r) PROVE RoInv'
  BY <1>2, RespondStep
<1>3. ASSUME NEW k \in Cpu, NEW r \in Req, tfw_http_resp_build_error(k, r) PROVE RoInv'
  BY <1>3, ErrorStep
<1>4. ASSUME NEW k \in Cpu, Forward(k) PROVE RoInv'
  BY <1>4, AdjustStep, CleanStep, FwdDroppedStep, FwdStep, TakeStep, SendStep, FailedStep,
     DoneStep, PutStep DEF Forward
<1>5. CASE tfw_http_conn_cli_drop
  BY <1>5, DropStep
<1>6. ASSUME NEW r \in Req, tfw_http_req_evict_dropped(r) PROVE RoInv'
  BY <1>6, EvictStep
<1>7. CASE SockWork
  BY <1>7, WorkStep
<1>8. CASE ClientClose
  BY <1>8, CloseStep
<1>9. CASE UNCHANGED h1Vars
  <2>1. UNCHANGED <<received, seqq, flight, ready, ctx, work, alive, dropped, delivered, reqRefs, freed>>
    BY <1>9 DEF h1Vars
  <2>2. Shapes' /\ Locks' /\ PlaceInv' /\ CountInv'
    BY <2>1, PlacesSame DEF RoInv, PlaceInv, DropInv
  <2>3. RoTypeOK'
    BY <2>1 DEF RoInv, RoTypeOK
  <2>4. InRequestOrder' /\ WorkInv' /\ CleanInv' /\ (Clean' <=> Clean)
    BY <2>1 DEF RoInv, OrderInv, InRequestOrder, WorkInv, CleanInv, Clean
  <2>5. \A a, b \in Nat : Ordered(a, b) => Ordered(a, b)'
    BY <2>1 DEF Ordered, Out, From
  <2> QED BY <2>2, <2>3, <2>4, <2>5 DEF RoInv, OrderInv
<1> QED BY <1>1, <1>2, <1>3, <1>4, <1>5, <1>6, <1>7, <1>8, <1>9 DEF H1Next

(* The connection is held while a CPU has anything of it.                   *)
LEMMA RefsHeld ==
    ASSUME RoInv
    PROVE  /\ reqRefs \in 0 .. MaxReq + 1 + Cardinality(Cpu)
           /\ \A k \in Cpu : ctx[k].pc # "idle" => reqRefs > 0
<1>1. IsFiniteSet(Live) /\ Cardinality(Live) \in Nat
  BY LiveCount DEF RoInv
<1>2. IsFiniteSet(Holding) /\ Cardinality(Holding) \in Nat /\ Holding \subseteq Cpu
  BY RespOrderAssumption, FS_Subset, FS_CardinalityType DEF Holding
<1>3. Cardinality(Cpu) \in Nat /\ Cardinality(Holding) <= Cardinality(Cpu)
  BY <1>2, RespOrderAssumption, FS_Subset, FS_CardinalityType
<1>4. Cardinality(Live) <= MaxReq
  <2>1. Live \subseteq 1..MaxReq
    BY RespOrderAssumption DEF RoInv, RoTypeOK, Live
  <2>2. IsFiniteSet(1..MaxReq) /\ Cardinality(1..MaxReq) = MaxReq
    BY RespOrderAssumption, FS_Interval
  <2> QED BY <2>1, <2>2, FS_Subset
<1> DEFINE d == IF dropped THEN 0 ELSE 1
<1>5. d \in 0..1 /\ reqRefs = d + Cardinality(Live) + Cardinality(Holding)
  BY DEF RoInv, CountInv
<1> HIDE DEF d
<1>6. reqRefs \in 0 .. MaxReq + 1 + Cardinality(Cpu)
  BY <1>1, <1>2, <1>3, <1>4, <1>5, RespOrderAssumption
<1>7. ASSUME NEW k \in Cpu, ctx[k].pc # "idle" PROVE Live # {} \/ Holding # {}
  <2>1. ctx[k].pc \in Pc
    BY DEF RoInv, RoTypeOK, Ctx
  <2>2. CASE ctx[k].pc \in {"wait", "send", "put"}
    BY <2>2 DEF Holding
  <2>3. CASE ctx[k].pc \in {"adjust", "fwd", "clean"}
    BY <2>3 DEF RoInv, Shapes, ShapeOf, PlaceInv, HandInv
  <2> QED BY <1>7, <2>1, <2>2, <2>3 DEF Pc
<1>8. (Live # {} => Cardinality(Live) # 0) /\ (Holding # {} => Cardinality(Holding) # 0)
  BY <1>1, <1>2, FS_EmptySet
<1>9. ASSUME NEW k \in Cpu, ctx[k].pc # "idle" PROVE reqRefs > 0
  <2>1. Cardinality(Live) # 0 \/ Cardinality(Holding) # 0
    BY <1>7, <1>8, <1>9
  <2> QED BY <1>1, <1>2, <1>5, <2>1
<1> QED BY <1>6, <1>9

LEMMA RoSafe == ASSUME RoInv PROVE ServedInOrder
<1>0. Base
  BY BaseOf
<1>1. TypeOK
  <2>1. received \in 0..MaxReq /\ alive \in BOOLEAN /\ dropped \in BOOLEAN /\ freed \in [Req -> 0..1]
    BY DEF RoInv, RoTypeOK
  <2>2. Range(seqq) \subseteq Req /\ flight \subseteq Req /\ ready \subseteq Req
    BY <1>0, Known, RangeIs DEF Base, RoTypeOK
  <2>3. \A k \in Cpu : /\ ctx[k].pc \in {"idle", "adjust", "fwd", "clean", "wait", "send", "put"}
                       /\ ctx[k].req \in Req \cup {NoReq}
                       /\ Range(ctx[k].ret) \subseteq Req
    <3> SUFFICES ASSUME NEW k \in Cpu
                 PROVE  /\ ctx[k].pc \in {"idle", "adjust", "fwd", "clean", "wait", "send", "put"}
                        /\ ctx[k].req \in Req \cup {NoReq}
                        /\ Range(ctx[k].ret) \subseteq Req
      OBVIOUS
    <3>1. ctx[k].pc \in Pc /\ ctx[k].req \in 0..MaxReq /\ ctx[k].ret \in Seq(Req)
      BY <1>0, Known DEF Ctx
    <3>2. Range(ctx[k].ret) \subseteq Req
      BY <3>1, RangeIs
    <3>3. ctx[k].req \in Req \cup {NoReq}
      BY <3>1, RespOrderAssumption DEF Req, NoReq
    <3> QED BY <3>1, <3>2, <3>3 DEF Pc
  <2>4. Range(work) \subseteq Req \cup {Close}
    <3>1. \A i \in 1..Len(work) : work[i] \in 0..MaxReq
      BY ElementOfSeq DEF RoInv, RoTypeOK
    <3>2. 0..MaxReq \subseteq Req \cup {Close}
      BY RespOrderAssumption DEF Req, Close
    <3>3. DOMAIN work = 1..Len(work)
      BY LenProperties DEF RoInv, RoTypeOK
    <3> QED BY <3>1, <3>2, <3>3 DEF Range
  <2> QED BY <2>1, <2>2, <2>3, <2>4, RefsHeld DEF TypeOK
<1>2. InRequestOrder
  BY DEF RoInv, OrderInv
<1>3. LinkedUntilForwarded
  <2> SUFFICES ASSUME NEW k \in Cpu, ctx[k].pc = "fwd"
               PROVE  IF seqq = <<>> THEN dropped ELSE ctx[k].req \in Range(seqq)
    BY DEF LinkedUntilForwarded
  <2>1. ctx[k].req # NoReq
    BY DEF RoInv, Shapes, ShapeOf
  <2> QED BY <2>1, NothingIn DEF RoInv, PlaceInv, DropInv
<1>4. NoUseAfterFree
  <2>1. ASSUME NEW r \in Req, freed[r] > 0
        PROVE  /\ r \notin Range(seqq) /\ r \notin flight
               /\ \A k \in Cpu : ctx[k].req # r /\ r \notin Range(ctx[k].ret)
    <3>1. r \notin Live /\ r # NoReq
      BY <2>1, RespOrderAssumption DEF Live, Req, NoReq
    <3>2. r \notin Range(seqq) /\ r \notin flight
      BY <1>0, <3>1 DEF Base, PlaceInv, QueueInv, FlightInv
    <3>3. \A k \in Cpu : ctx[k].req # r /\ r \notin Range(ctx[k].ret)
      BY <1>0, <3>1 DEF Base, PlaceInv, HandInv, RetInv
    <3> QED BY <3>2, <3>3
  <2> QED BY <2>1, RefsHeld DEF NoUseAfterFree
<1> QED BY <1>1, <1>2, <1>3, <1>4 DEF ServedInOrder

(* The client gets the responses in the order of its requests without a     *)
(* gap, whichever CPUs make them ready and whatever fails; the request of a *)
(* response that is to be forwarded is in seq_queue unless the drop emptied *)
(* it; no request is freed twice or in anybody's hands, and the connection  *)
(* outlives whoever uses it.                                                *)
THEOREM ResponsesInOrder == H1Spec => []ServedInOrder
<1>1. H1Spec => []RoInv
  BY RoStart, RoSteps, PTL DEF H1Spec
<1> QED BY <1>1, RoSafe, PTL
=============================================================================
