------------------------- MODULE HttpFwdWire_proofs -------------------------
(***************************************************************************)
(* Proofs about what is on the wire of a server connection, and that a     *)
(* non-idempotent request is sent once.  The schedulers look at a          *)
(* connection and take it in one step here: with a stale look none of      *)
(* these properties holds.                                                 *)
(***************************************************************************)
EXTENDS HttpFwd_proofs

(* The flags f of a connection that is u with the queue q and the lock      *)
(* holder x.                                                                *)
FlagsKept(q, f, u, x) ==
    /\ u \in {"idle", "revived"} => x.pc = "idle"
    /\ u = "idle" => f = {}
    /\ u = "revived" => f = {"resend"} /\ q # <<>>
    /\ "qforwd" \in f => "resend" \in f
    /\ x.pc = "unsent" => IF x.by \in {"popr", "repair"} THEN "qforwd" \in f ELSE "resend" \notin f
    /\ x.pc = "resend" => "resend" \in f /\ "qforwd" \notin f

(* The requests w on the wire are those before the cursor or, with no lock  *)
(* holder, those up to msg_sent.  The repair sends one request again.       *)
StartOf(w, q) == Len(w) <= Len(q) /\ \A k \in 1..Len(w) : w[k] = q[k]
SentUpTo(q, m, f, w) ==
    IF "resend" \in f /\ "qforwd" \notin f THEN Len(w) = 1 ELSE m = q[Len(w)]
OnWire(q, m, f, u, w, x) ==
    /\ u # "up" => w = <<>>
    /\ StartOf(w, q)
    /\ u = "up" /\ x.pc # "idle" => Len(w) = x.i - 1
    /\ u = "up" /\ x.pc = "idle" =>
          (q = <<>> /\ f = {}) \/ (Len(w) > 0 /\ m # NoReq /\ SentUpTo(q, m, f, w))
    /\ u = "up" /\ x.pc = "unsent" /\ x.by = "resched" /\ m = NoReq => Len(q) <= 1
    /\ x.pc = "resend" /\ x.by = "repair" /\ x.resent # NoReq => x.i = 2

Wired(c) ==
    /\ FlagsKept(queue[c], flags[c], up[c], ctx[c])
    /\ OnWire(queue[c], msgSent[c], flags[c], up[c], wire[c], ctx[c])

(* A connection that a request has got is not restricted.                   *)
HeldUp ==
    /\ \A r \in held : up[pick[r]] \in {"up", "closing", "down"} /\ "resend" \notin flags[pick[r]]
    /\ \A r \in Req : pick[r] # NoConn => r \in held

WireInv == (\A c \in Conn : Wired(c)) /\ HeldUp
-----------------------------------------------------------------------------
(* One connection: the steps of the loops                                   *)

UpState == {"up", "closing", "down", "idle", "revived"}
Flag == {"resend", "qforwd"}
Sound(q, m, f, u, w, x) ==
    /\ q \in Seq(Req) /\ NoDup(q) /\ Len(q) \in Nat
    /\ m \in MaybeReq /\ f \in SUBSET Flag /\ u \in UpState
    /\ w \in Seq(Req) /\ Len(w) \in Nat /\ x \in Ctx
    /\ CursorOf(q, m, x) /\ FlagsKept(q, f, u, x) /\ OnWire(q, m, f, u, w, x)

LEMMA NoFlags ==
    ASSUME NEW f \in SUBSET Flag, "resend" \notin f, "qforwd" \in f => "resend" \in f
    PROVE  f = {}
BY DEF Flag

LEMMA EmptyQueue ==
    ASSUME NEW q \in Seq(Req)
    PROVE  /\ Len(q) \in Nat /\ (q = <<>> <=> Len(q) = 0)
           /\ StartOf(<<>>, q) /\ Len(<<>>) = 0
BY LenProperties, EmptySeq DEF StartOf

LEMMA IdleFields == Idle.pc = "idle" /\ Idle.by = "none" /\ Idle.i = 0
BY DEF Idle

(* UnsentEnd, UnsentBroken.                                                 *)
LEMMA StopWired ==
    ASSUME NEW q, NEW m, NEW f, NEW u, NEW w, NEW x, Sound(q, m, f, u, w, x),
           x.pc = "unsent", x.i > Len(q) \/ u # "up" \/ m # NoReq,
           NEW g, g = IF x.by \in {"popr", "repair"} /\ q = <<>> THEN {} ELSE f
    PROVE  FlagsKept(q, g, u, Idle) /\ OnWire(q, m, g, u, w, Idle)
<1> USE IdleFields
<1>1. /\ q \in Seq(Req) /\ Len(q) \in Nat /\ w \in Seq(Req) /\ Len(w) \in Nat /\ x.i \in Nat
      /\ f \in SUBSET Flag /\ (q = <<>> <=> Len(q) = 0)
      /\ x.i \in 1 .. Len(q) + 1 /\ ((m = NoReq /\ x.i = 1) \/ (x.i > 1 /\ m = q[x.i - 1]))
  BY EmptyQueue DEF Sound, CursorOf, CursorUnsent, Ctx
<1>2. /\ u \notin {"idle", "revived"} /\ ("qforwd" \in f => "resend" \in f)
      /\ IF x.by \in {"popr", "repair"} THEN "qforwd" \in f ELSE "resend" \notin f
      /\ (u # "up" => w = <<>>) /\ StartOf(w, q) /\ (u = "up" => Len(w) = x.i - 1)
  BY DEF Sound, FlagsKept, OnWire
<1>3. FlagsKept(q, g, u, Idle)
  BY <1>2 DEF FlagsKept
<1>4. ASSUME u = "up" PROVE (q = <<>> /\ g = {}) \/ (Len(w) > 0 /\ m # NoReq /\ SentUpTo(q, m, g, w))
  <2>1. CASE q = <<>>
    <3>1. g = {}
      BY <1>1, <1>2, <2>1, NoFlags
    <3> QED BY <2>1, <3>1
  <2>2. CASE q # <<>>
    <3>1. g = f /\ Len(w) = x.i - 1
      BY <1>2, <1>4, <2>2
    <3>2. x.i > 1 /\ m = q[x.i - 1]
      BY <1>1, <1>4, <2>2
    <3>3. m \in Req
      <4>1. x.i - 1 \in 1..Len(q)
        BY <1>1, <3>2
      <4> QED BY <1>1, <3>2, <4>1, ElementOfSeq
    <3> QED BY <1>1, <1>2, <3>1, <3>2, <3>3, FwdAssumption DEF SentUpTo, FwdAssumption, NoReq
  <2> QED BY <2>1, <2>2
<1>5. OnWire(q, m, g, u, w, Idle)
  BY <1>2, <1>4 DEF OnWire
<1> QED BY <1>3, <1>5

(* What is before the cursor stays when the request at the cursor leaves.   *)
LEMMA StartStays ==
    ASSUME NEW q \in Seq(Req), NEW w \in Seq(Req), NEW i \in 1..Len(q), StartOf(w, q), Len(w) <= i - 1
    PROVE  StartOf(w, RemoveAt(q, i))
<1>1. Len(q) \in Nat /\ Len(w) \in Nat
  BY LenProperties
<1>2. /\ Len(RemoveAt(q, i)) = Len(q) - 1
      /\ \A j \in 1 .. Len(q) - 1 : RemoveAt(q, i)[j] = IF j < i THEN q[j] ELSE q[j + 1]
  BY RemovedAt
<1> QED BY <1>1, <1>2 DEF StartOf

(* UnsentEvict, ResendEvict.                                                *)
LEMMA EvictWired ==
    ASSUME NEW q, NEW m, NEW f, NEW u, NEW w, NEW x, Sound(q, m, f, u, w, x),
           x.i \in 1..Len(q), x.pc # "idle", NEW y, y.pc = x.pc, y.i = x.i, y.by = x.by, y.resent = x.resent,
           NEW n, n = RemoveAt(q, x.i)
    PROVE  FlagsKept(n, f, u, y) /\ OnWire(n, m, f, u, w, y)
<1>1. /\ q \in Seq(Req) /\ Len(q) \in Nat /\ w \in Seq(Req) /\ Len(w) \in Nat /\ x.i \in Nat
      /\ FlagsKept(q, f, u, x) /\ OnWire(q, m, f, u, w, x)
  BY DEF Sound, Ctx
<1>2. FlagsKept(n, f, u, y)
  BY <1>1 DEF FlagsKept
<1>3. Len(w) <= x.i - 1 /\ StartOf(w, q)
  <2>1. CASE u = "up"
    BY <1>1, <2>1 DEF OnWire
  <2>2. CASE u # "up"
    BY <1>1, <2>2, EmptyQueue DEF OnWire
  <2> QED BY <2>1, <2>2
<1>4. StartOf(w, n)
  BY <1>1, <1>3, StartStays
<1>5. Len(n) = Len(q) - 1
  BY <1>1, RemovedAt
<1>6. Len(q) <= 1 => Len(n) <= 1
  BY <1>1, <1>5
<1>7. OnWire(n, m, f, u, w, y)
  BY <1>1, <1>4, <1>6 DEF OnWire
<1> QED BY <1>2, <1>7

LEMMA StartGrows ==
    ASSUME NEW q \in Seq(Req), NEW w \in Seq(Req), NEW i \in 1..Len(q), StartOf(w, q), Len(w) = i - 1
    PROVE  /\ StartOf(Append(w, q[i]), q) /\ Len(Append(w, q[i])) = i /\ q[i] \in Req
<1>1. Len(q) \in Nat /\ Len(w) \in Nat /\ q[i] \in Req
  BY LenProperties, ElementOfSeq
<1> DEFINE n == Append(w, q[i])
<1>2. Len(n) = Len(w) + 1 /\ n[Len(w) + 1] = q[i] /\ \A k \in 1..Len(w) : n[k] = w[k]
  BY <1>1, AppendProperties
<1> HIDE DEF n
<1>3. \A k \in 1..Len(n) : n[k] = q[k]
  <2> SUFFICES ASSUME NEW k \in 1..Len(n) PROVE n[k] = q[k]
    OBVIOUS
  <2>1. CASE k \in 1..Len(w)
    BY <1>2, <2>1 DEF StartOf
  <2>2. CASE k = Len(w) + 1
    BY <1>1, <1>2, <2>2
  <2> QED BY <1>1, <1>2, <2>1, <2>2
<1> QED BY <1>1, <1>2, <1>3 DEF StartOf, n

(* UnsentSend: the loop goes on at y, or it ends.                           *)
LEMMA SendWired ==
    ASSUME NEW q, NEW m, NEW f, NEW u, NEW w, NEW x, Sound(q, m, f, u, w, x),
           x.pc = "unsent", x.i <= Len(q), u \in {"up", "revived"}
    PROVE  LET v == Append(w, q[x.i]) IN
           /\ FlagsKept(q, f, u, Idle) /\ OnWire(q, q[x.i], f, u, v, Idle)
           /\ \A y : y.pc = x.pc /\ y.by = x.by /\ y.i = x.i + 1 =>
                       FlagsKept(q, f, u, y) /\ OnWire(q, q[x.i], f, u, v, y)
<1> USE IdleFields
<1> DEFINE v == Append(w, q[x.i])
           r == q[x.i]
<1>1. /\ q \in Seq(Req) /\ Len(q) \in Nat /\ w \in Seq(Req) /\ Len(w) \in Nat /\ x.i \in Nat
      /\ x.i \in 1..Len(q)
  BY DEF Sound, CursorOf, CursorUnsent, Ctx
<1>2. /\ u = "up" /\ ("qforwd" \in f => "resend" \in f)
      /\ IF x.by \in {"popr", "repair"} THEN "qforwd" \in f ELSE "resend" \notin f
      /\ StartOf(w, q) /\ Len(w) = x.i - 1
  BY DEF Sound, FlagsKept, OnWire
<1>3. StartOf(v, q) /\ Len(v) = x.i /\ r \in Req
  BY <1>1, <1>2, StartGrows
<1>4. r # NoReq
  BY <1>3, FwdAssumption DEF FwdAssumption, NoReq
<1> HIDE DEF v
<1>5. FlagsKept(q, f, u, Idle)
  BY <1>2 DEF FlagsKept
<1>6. SentUpTo(q, r, f, v)
  BY <1>2, <1>3 DEF SentUpTo
<1>7. OnWire(q, r, f, u, v, Idle)
  BY <1>1, <1>2, <1>3, <1>4, <1>6 DEF OnWire
<1>8. ASSUME NEW y, y.pc = x.pc, y.by = x.by, y.i = x.i + 1
      PROVE  FlagsKept(q, f, u, y) /\ OnWire(q, r, f, u, v, y)
  <2>1. FlagsKept(q, f, u, y)
    BY <1>2, <1>8 DEF FlagsKept
  <2>2. OnWire(q, r, f, u, v, y)
    BY <1>1, <1>2, <1>3, <1>4, <1>8 DEF OnWire
  <2> QED BY <2>1, <2>2
<1> QED BY <1>5, <1>7, <1>8 DEF v

(* The queue is cut off: UnsentBusy and ResendBusy with no response awaited. *)
LEMMA CutWired ==
    ASSUME NEW u \in UpState, u \notin {"idle", "revived"}, NEW m
    PROVE  FlagsKept(<<>>, {}, u, Idle) /\ OnWire(<<>>, m, {}, u, <<>>, Idle)
<1>1. StartOf(<<>>, <<>>)
  BY EmptyQueue, NothingIn
<1> QED BY <1>1, IdleFields DEF FlagsKept, OnWire
LEMMA BusyWired ==
    ASSUME NEW q, NEW m, NEW f, NEW u, NEW w, NEW x, Sound(q, m, f, u, w, x),
           x.pc = "unsent", x.i <= Len(q), u \in {"up", "revived"}, m = NoReq
    PROVE  /\ u = "up" /\ w = <<>> /\ (x.by \notin {"popr", "repair"} => f = {})
           /\ x.by = "resched" => RemoveAt(q, IndexOf(x.req, q)) = <<>>
<1>1. /\ q \in Seq(Req) /\ NoDup(q) /\ Len(q) \in Nat /\ w \in Seq(Req) /\ Len(w) \in Nat /\ x.i \in Nat
      /\ f \in SUBSET Flag /\ x.i \in 1..Len(q)
      /\ (m = NoReq /\ x.i = 1) \/ (x.i > 1 /\ m = q[x.i - 1])
      /\ x.by = "resched" => q[Len(q)] = x.req
  BY DEF Sound, CursorOf, CursorUnsent, Ctx
<1>2. /\ u = "up" /\ ("qforwd" \in f => "resend" \in f)
      /\ IF x.by \in {"popr", "repair"} THEN "qforwd" \in f ELSE "resend" \notin f
      /\ Len(w) = x.i - 1 /\ (x.by = "resched" => Len(q) <= 1)
  BY DEF Sound, FlagsKept, OnWire
<1>3. x.i = 1
  <2> SUFFICES ASSUME x.i > 1 PROVE FALSE
    BY <1>1
  <2>1. x.i - 1 \in 1..Len(q)
    BY <1>1
  <2>2. q[x.i - 1] \in Req
    BY <1>1, <2>1, ElementOfSeq
  <2> QED BY <1>1, <2>2, FwdAssumption DEF FwdAssumption, NoReq
<1>4. w = <<>>
  BY <1>1, <1>2, <1>3, EmptyQueue
<1>5. x.by \notin {"popr", "repair"} => f = {}
  BY <1>1, <1>2, NoFlags
<1>6. ASSUME x.by = "resched" PROVE RemoveAt(q, IndexOf(x.req, q)) = <<>>
  <2>1. Len(q) = 1 /\ q[1] = x.req
    <3>1. Len(q) <= 1 /\ Len(q) \in Nat /\ 1 \in 1..Len(q) /\ q[Len(q)] = x.req
      BY <1>1, <1>2, <1>3, <1>6
    <3> DEFINE l == Len(q)
    <3> HIDE DEF l
    <3>2. l <= 1 /\ l \in Nat /\ l >= 1
      BY <3>1 DEF l
    <3>3. l = 1
      BY <3>2
    <3> QED BY <3>1, <3>3 DEF l
  <2>2. In(x.req, q)
    BY <2>1 DEF In
  <2>3. IndexOf(x.req, q) \in 1..Len(q)
    BY <1>1, <2>2, IndexFound
  <2> DEFINE n == RemoveAt(q, IndexOf(x.req, q))
  <2>4. n \in Seq(Req) /\ Len(n) = Len(q) - 1
    BY <1>1, <2>3, RemovedAt
  <2> HIDE DEF n
  <2>5. Len(n) = 0
    BY <2>1, <2>4
  <2>6. n = <<>>
    BY <2>4, <2>5, EmptyQueue
  <2> QED BY <2>6 DEF n
<1> QED BY <1>2, <1>4, <1>5, <1>6

(* ResendSend.                                                              *)
LEMMA ResendWired ==
    ASSUME NEW q, NEW m, NEW f, NEW u, NEW w, NEW x, Sound(q, m, f, u, w, x),
           x.pc = "resend", x.left > 0, u \in {"up", "revived"},
           NEW y, y.pc = "resend", y.i = x.i + 1, y.by = x.by
    PROVE  FlagsKept(q, f, u, y) /\ OnWire(q, m, f, u, Append(w, q[x.i]), y)
<1>1. /\ q \in Seq(Req) /\ Len(q) \in Nat /\ w \in Seq(Req) /\ Len(w) \in Nat
      /\ x.i \in Nat /\ x.left \in Nat /\ x.i >= 1 /\ x.i + x.left <= Len(q) + 1
      /\ (x.i = 1 /\ x.resent = NoReq) \/ (x.i > 1 /\ x.resent = q[x.i - 1])
      /\ x.by = "repair" => x.resent = NoReq
  BY DEF Sound, CursorOf, CursorResend, Ctx
<1>2. x.i \in 1..Len(q)
  BY <1>1
<1>3. /\ u = "up" /\ ("qforwd" \in f => "resend" \in f)
      /\ StartOf(w, q) /\ Len(w) = x.i - 1 /\ FlagsKept(q, f, u, x)
  BY DEF Sound, FlagsKept, OnWire
<1>4. StartOf(Append(w, q[x.i]), q) /\ Len(Append(w, q[x.i])) = x.i
  BY <1>1, <1>2, <1>3, StartGrows
<1>5. x.by = "repair" => x.i = 1
  <2> SUFFICES ASSUME x.i > 1, x.resent = q[x.i - 1], x.resent = NoReq PROVE FALSE
    BY <1>1
  <2>1. x.i - 1 \in 1..Len(q)
    BY <1>1
  <2> QED BY <1>1, <2>1, ElementOfSeq, FwdAssumption DEF FwdAssumption, NoReq
<1> DEFINE v == Append(w, q[x.i])
<1> HIDE DEF v
<1>6. FlagsKept(q, f, u, y)
  BY <1>3 DEF FlagsKept
<1>7. OnWire(q, m, f, u, v, y)
  BY <1>1, <1>3, <1>4, <1>5 DEF OnWire, v
<1> QED BY <1>6, <1>7 DEF v

(* After tfw_http_conn_resend, with msg_sent at n: the one request of the  *)
(* repair has been sent, or the unsent requests follow, or nothing does.    *)
LEMMA AfterResendWired ==
    ASSUME NEW q, NEW m, NEW f, NEW u, NEW w, NEW x, Sound(q, m, f, u, w, x), x.pc = "resend",
           NEW n, n = x.resent \/ (x.by = "repair" /\ x.resent # NoReq /\ n # NoReq), NoReq \notin nip
    PROVE  /\ n # NoReq /\ x.by = "repair" => FlagsKept(q, f, u, Idle) /\ OnWire(q, n, f, u, w, Idle)
           /\ n = x.resent /\ ~NeedFwd(q, n) /\ q # <<>> =>
                 LET g == f \cup {"qforwd"} IN
                 FlagsKept(q, g, u, Idle) /\ OnWire(q, n, g, u, w, Idle)
           /\ q = <<>> => FlagsKept(q, {}, u, Idle) /\ OnWire(q, n, {}, u, w, Idle)
           /\ n = x.resent =>
                 LET y == Unsent(q, n, x.by, NoReq)
                     g == f \cup {"qforwd"}
                 IN  FlagsKept(q, g, u, y) /\ OnWire(q, n, g, u, w, y)
<1> USE IdleFields
<1>1. /\ q \in Seq(Req) /\ NoDup(q) /\ Len(q) \in Nat /\ w \in Seq(Req) /\ Len(w) \in Nat /\ x.i \in Nat
      /\ x.i >= 1 /\ x.i <= Len(q) + 1 /\ x.by \in {"popr", "repair"} /\ x.resent \in MaybeReq
      /\ (x.i = 1 /\ x.resent = NoReq) \/ (x.i > 1 /\ x.resent = q[x.i - 1])
  <2>1. x.left \in Nat /\ x.i + x.left <= Len(q) + 1 /\ x.i \in Nat
    BY DEF Sound, CursorOf, CursorResend, Ctx
  <2> QED BY <2>1 DEF Sound, CursorOf, CursorResend, Ctx
<1>2. /\ u \notin {"idle", "revived"} /\ "resend" \in f /\ "qforwd" \notin f
      /\ (u # "up" => w = <<>>) /\ StartOf(w, q) /\ (u = "up" => Len(w) = x.i - 1)
      /\ x.by = "repair" /\ x.resent # NoReq => x.i = 2
  BY DEF Sound, FlagsKept, OnWire
<1>3. x.resent # NoReq => x.i > 1 /\ In(x.resent, q)
  <2> SUFFICES ASSUME x.i > 1, x.resent = q[x.i - 1] PROVE In(x.resent, q)
    BY <1>1
  <2>1. x.i - 1 \in 1..Len(q)
    BY <1>1
  <2> QED BY <2>1 DEF In
<1>4. ASSUME n # NoReq, x.by = "repair"
      PROVE  FlagsKept(q, f, u, Idle) /\ OnWire(q, n, f, u, w, Idle)
  <2>1. FlagsKept(q, f, u, Idle)
    BY <1>2 DEF FlagsKept
  <2>2. x.i = 2
    BY <1>2, <1>4
  <2>3. u = "up" => Len(w) > 0 /\ SentUpTo(q, n, f, w)
    BY <1>2, <2>2 DEF SentUpTo
  <2>4. OnWire(q, n, f, u, w, Idle)
    BY <1>2, <1>4, <2>3 DEF OnWire
  <2> QED BY <2>1, <2>4
<1>5. ASSUME n = x.resent, ~NeedFwd(q, n), q # <<>>
      PROVE  LET g == f \cup {"qforwd"} IN
             FlagsKept(q, g, u, Idle) /\ OnWire(q, n, g, u, w, Idle)
  <2> DEFINE g == f \cup {"qforwd"}
  <2>0. "resend" \in g /\ "qforwd" \in g
    BY <1>2
  <2> HIDE DEF g
  <2>1. FlagsKept(q, g, u, Idle)
    BY <1>2, <2>0 DEF FlagsKept
  <2>2. n # NoReq
    <3> SUFFICES ASSUME n = NoReq PROVE FALSE
      OBVIOUS
    <3> QED BY <1>5 DEF NeedFwd, OnHold, Drained
  <2>3. x.i > 1 /\ n = q[x.i - 1]
    BY <1>1, <1>5, <2>2
  <2>4. u = "up" => Len(w) > 0 /\ SentUpTo(q, n, g, w)
    BY <1>1, <1>2, <2>0, <2>3 DEF SentUpTo
  <2>5. OnWire(q, n, g, u, w, Idle)
    BY <1>2, <2>2, <2>4 DEF OnWire
  <2> QED BY <2>1, <2>5 DEF g
<1>6. ASSUME q = <<>> PROVE FlagsKept(q, {}, u, Idle) /\ OnWire(q, n, {}, u, w, Idle)
  <2>1. FlagsKept(q, {}, u, Idle)
    BY <1>2 DEF FlagsKept
  <2>2. OnWire(q, n, {}, u, w, Idle)
    BY <1>2, <1>6 DEF OnWire
  <2> QED BY <2>1, <2>2
<1>7. ASSUME n = x.resent
      PROVE  LET y == Unsent(q, n, x.by, NoReq)
                 g == f \cup {"qforwd"}
             IN  FlagsKept(q, g, u, y) /\ OnWire(q, n, g, u, w, y)
  <2> DEFINE g == f \cup {"qforwd"}
             y == Unsent(q, n, x.by, NoReq)
  <2>0. "resend" \in g /\ "qforwd" \in g
    BY <1>2
  <2>1. /\ y.pc = "unsent" /\ y.by = x.by /\ y.i \in 1 .. Len(q) + 1
        /\ (n = NoReq /\ y.i = 1) \/ (y.i > 1 /\ n = q[y.i - 1])
    <3>1. x.by \in By /\ NoReq \in MaybeReq /\ n \in MaybeReq /\ (n = NoReq \/ In(n, q))
      BY <1>1, <1>3, <1>7 DEF By, MaybeReq
    <3> QED BY <1>1, <3>1, UnsentShape
  <2> HIDE DEF g, y
  <2>2. y.i = x.i
    <3>1. CASE n = NoReq
      <4>1. x.i > 1 => x.i - 1 \in 1..Len(q)
        BY <1>1
      <4>2. y.i > 1 => y.i - 1 \in 1..Len(q)
        BY <1>1, <2>1
      <4>3. \A k \in 1..Len(q) : q[k] # NoReq
        BY <1>1, ElementOfSeq, FwdAssumption DEF FwdAssumption, NoReq
      <4> QED BY <1>1, <1>7, <2>1, <3>1, <4>1, <4>2, <4>3
    <3>2. CASE n # NoReq
      <4>1. x.i - 1 \in 1..Len(q) /\ y.i - 1 \in 1..Len(q) /\ q[x.i - 1] = q[y.i - 1]
        BY <1>1, <1>7, <2>1, <3>2
      <4>2. x.i - 1 = y.i - 1
        BY <1>1, <4>1 DEF NoDup
      <4> QED BY <1>1, <2>1, <4>2
    <3> QED BY <3>1, <3>2
  <2>3. FlagsKept(q, g, u, y)
    BY <1>1, <1>2, <2>0, <2>1 DEF FlagsKept
  <2>4. OnWire(q, n, g, u, w, y)
    BY <1>1, <1>2, <2>1, <2>2 DEF OnWire
  <2> QED BY <2>3, <2>4 DEF g, y
<1> QED BY <1>4, <1>5, <1>6, <1>7
-----------------------------------------------------------------------------
(* One connection: a new request, a response, the repair                    *)

LEMMA NotNoReq ==
    ASSUME NEW q \in Seq(Req), NEW k \in 1..Len(q) PROVE q[k] \in Req /\ q[k] # NoReq
BY ElementOfSeq, FwdAssumption DEF FwdAssumption, NoReq

(* The cursor follows the k requests that have been sent.                   *)
LEMMA UnsentAt ==
    ASSUME NEW q \in Seq(Req), NoDup(q), NEW m \in MaybeReq, NEW k \in Nat,
           (m = NoReq /\ k = 0) \/ (k \in 1..Len(q) /\ m = q[k]),
           NEW by \in By, NEW r \in MaybeReq
    PROVE  LET y == Unsent(q, m, by, r) IN
           y.i - 1 = k /\ y.pc = "unsent" /\ y.by = by
<1> DEFINE y == Unsent(q, m, by, r)
<1>1. m = NoReq \/ In(m, q)
  BY DEF In
<1>2. /\ y.pc = "unsent" /\ y.by = by /\ y.i \in 1 .. Len(q) + 1 /\ Len(q) \in Nat
      /\ (m = NoReq /\ y.i = 1) \/ (y.i > 1 /\ m = q[y.i - 1])
  BY <1>1, UnsentShape, LenProperties
<1> HIDE DEF y
<1>3. y.i > 1 => y.i - 1 \in 1..Len(q)
  BY <1>2
<1>4. ASSUME m = NoReq PROVE y.i - 1 = k
  BY <1>2, <1>3, <1>4, NotNoReq
<1>5. ASSUME m # NoReq PROVE y.i - 1 = k
  <2>1. y.i - 1 \in 1..Len(q) /\ k \in 1..Len(q) /\ q[y.i - 1] = q[k]
    BY <1>2, <1>3, <1>5
  <2> QED BY <1>2, <2>1 DEF NoDup
<1> QED BY <1>2, <1>4, <1>5 DEF y

LEMMA FwdWired ==
    ASSUME NEW q, NEW m, NEW f, NEW u, NEW w, Sound(q, m, f, u, w, Idle),
           u \in {"up", "closing", "down"}, "resend" \notin f, NEW r \in Req, ~In(r, q)
    PROVE  LET n == Append(q, r) IN
           /\ m # NoReq => FlagsKept(n, f, u, Idle) /\ OnWire(n, m, f, u, w, Idle)
           /\ \A by \in {"fwd", "resched"} :
                 LET y == Unsent(n, m, by, r) IN FlagsKept(n, f, u, y) /\ OnWire(n, m, f, u, w, y)
<1> USE IdleFields
<1> DEFINE n == Append(q, r)
<1>1. /\ q \in Seq(Req) /\ NoDup(q) /\ Len(q) \in Nat /\ w \in Seq(Req) /\ Len(w) \in Nat
      /\ m \in MaybeReq /\ (m = NoReq \/ In(m, q)) /\ (q = <<>> <=> Len(q) = 0)
      /\ f \in SUBSET Flag
  BY EmptyQueue DEF Sound, CursorOf, CursorIdle
<1>2. /\ n \in Seq(Req) /\ NoDup(n) /\ Len(n) = Len(q) + 1
      /\ \A j \in 1..Len(q) : n[j] = q[j]
  BY <1>1, WithNewReq
<1> HIDE DEF n
<1>3. /\ (u # "up" => w = <<>>) /\ StartOf(w, q) /\ ("qforwd" \in f => "resend" \in f)
      /\ u = "up" => (q = <<>> /\ f = {}) \/ (Len(w) > 0 /\ m # NoReq /\ SentUpTo(q, m, f, w))
  BY DEF Sound, FlagsKept, OnWire
<1>4. StartOf(w, n)
  BY <1>1, <1>2, <1>3 DEF StartOf
<1>5. u = "up" => (q = <<>> /\ m = NoReq /\ Len(w) = 0) \/ (Len(w) \in 1..Len(n) /\ m # NoReq /\ m = n[Len(w)])
  <2> SUFFICES ASSUME u = "up"
               PROVE  (q = <<>> /\ m = NoReq /\ Len(w) = 0) \/ (Len(w) \in 1..Len(n) /\ m # NoReq /\ m = n[Len(w)])
    OBVIOUS
  <2>1. CASE q = <<>>
    <3>1. ~In(m, q) /\ Len(w) = 0
      BY <1>1, <1>3, <2>1, NothingIn DEF StartOf
    <3> QED BY <1>1, <2>1, <3>1
  <2>2. CASE q # <<>>
    <3>1. Len(w) > 0 /\ m # NoReq /\ m = q[Len(w)]
      BY <1>3, <2>2 DEF SentUpTo
    <3>2. Len(w) \in 1..Len(q)
      BY <1>1, <1>3, <3>1 DEF StartOf
    <3>3. Len(w) \in 1..Len(n)
      BY <1>1, <1>2, <3>2
    <3> QED BY <1>2, <3>1, <3>2, <3>3
  <2> QED BY <2>1, <2>2
<1>6. ASSUME m # NoReq PROVE FlagsKept(n, f, u, Idle) /\ OnWire(n, m, f, u, w, Idle)
  <2>1. FlagsKept(n, f, u, Idle)
    BY <1>3 DEF FlagsKept
  <2>2. u = "up" => Len(w) > 0 /\ SentUpTo(n, m, f, w)
    BY <1>1, <1>2, <1>5, <1>6 DEF SentUpTo
  <2>3. OnWire(n, m, f, u, w, Idle)
    BY <1>3, <1>4, <1>6, <2>2 DEF OnWire
  <2> QED BY <2>1, <2>3
<1>7. ASSUME NEW by \in {"fwd", "resched"}
      PROVE  LET y == Unsent(n, m, by, r) IN FlagsKept(n, f, u, y) /\ OnWire(n, m, f, u, w, y)
  <2> DEFINE y == Unsent(n, m, by, r)
  <2>0. by \in By /\ r \in MaybeReq /\ by \notin {"popr", "repair"}
    BY DEF By, MaybeReq
  <2>1. y.pc = "unsent" /\ y.by = by
    BY DEF Unsent
  <2>2. u = "up" => y.i - 1 = Len(w)
    BY <1>1, <1>2, <1>5, <2>0, UnsentAt
  <2> HIDE DEF y
  <2>3. FlagsKept(n, f, u, y)
    BY <1>3, <2>0, <2>1 DEF FlagsKept
  <2>4. u = "up" /\ m = NoReq => Len(n) <= 1
    BY <1>1, <1>2, <1>5
  <2>5. OnWire(n, m, f, u, w, y)
    BY <1>3, <1>4, <2>1, <2>2, <2>4 DEF OnWire
  <2> QED BY <2>3, <2>5 DEF y
<1> QED BY <1>6, <1>7 DEF n

LEMMA PopWired ==
    ASSUME NEW q, NEW m, NEW f, NEW w, Sound(q, m, f, "up", w, Idle), NoReq \notin nip,
           q # <<>>, w # <<>>, NEW p, p = IF m = Head(q) THEN NoReq ELSE m
    PROVE  LET n == Tail(q)
               v == Tail(w)
               g == f \cup {"qforwd"}
           IN
           /\ n = <<>> => FlagsKept(n, {}, "up", Idle) /\ OnWire(n, p, {}, "up", v, Idle)
           /\ "resend" \in f /\ "qforwd" \notin f /\ p # NoReq =>
                 LET y == Resend(n, p, "popr") IN FlagsKept(n, f, "up", y) /\ OnWire(n, p, f, "up", v, y)
           /\ "resend" \in f /\ ("qforwd" \in f \/ p = NoReq) =>
                 LET y == Unsent(n, p, "popr", NoReq) IN
                 /\ FlagsKept(n, g, "up", y) /\ OnWire(n, p, g, "up", v, y)
                 /\ n # <<>> /\ ~NeedFwd(n, p) =>
                       FlagsKept(n, g, "up", Idle) /\ OnWire(n, p, g, "up", v, Idle)
           /\ "resend" \notin f =>
                 LET y == Unsent(n, p, "pop", NoReq) IN
                 /\ FlagsKept(n, f, "up", y) /\ OnWire(n, p, f, "up", v, y)
                 /\ ~NeedFwd(n, p) =>
                       FlagsKept(n, f, "up", Idle) /\ OnWire(n, p, f, "up", v, Idle)
<1> USE IdleFields
<1> DEFINE n == Tail(q)
           v == Tail(w)
<1>1. /\ q \in Seq(Req) /\ NoDup(q) /\ Len(q) \in Nat /\ w \in Seq(Req) /\ Len(w) \in Nat
      /\ m \in MaybeReq /\ (m = NoReq \/ In(m, q)) /\ f \in SUBSET Flag
  BY DEF Sound, CursorOf, CursorIdle
<1>2. /\ n \in Seq(Req) /\ NoDup(n) /\ Len(n) = Len(q) - 1
      /\ \A j \in 1 .. Len(q) - 1 : n[j] = q[j + 1]
      /\ q[1] = Head(q) /\ Len(q) > 0
      /\ \A s : In(s, n) <=> In(s, q) /\ s # Head(q)
  BY <1>1, WithoutHead
<1>3. v \in Seq(Req) /\ Len(v) = Len(w) - 1 /\ Len(w) > 0 /\ \A j \in 1 .. Len(v) : v[j] = w[j + 1]
  BY <1>1, HeadTailProperties, EmptySeq
<1> HIDE DEF n, v
<1>4. /\ StartOf(w, q) /\ ("qforwd" \in f => "resend" \in f)
      /\ m # NoReq /\ SentUpTo(q, m, f, w)
  BY DEF Sound, FlagsKept, OnWire
<1>5. StartOf(v, n)
  BY <1>1, <1>2, <1>3, <1>4 DEF StartOf
<1>6. /\ p \in MaybeReq /\ (p = NoReq \/ In(p, n)) /\ Len(v) \in Nat /\ (n = <<>> <=> Len(n) = 0)
  BY <1>1, <1>2, <1>3, EmptyQueue DEF MaybeReq
<1>7. ASSUME ~("resend" \in f /\ "qforwd" \notin f) \/ p = NoReq
      PROVE  (p = NoReq /\ Len(v) = 0) \/ (Len(v) \in 1..Len(n) /\ p # NoReq /\ p = n[Len(v)])
  <2>1. CASE "resend" \in f /\ "qforwd" \notin f
    BY <1>1, <1>3, <1>4, <1>7, <2>1 DEF SentUpTo
  <2>2. CASE ~("resend" \in f /\ "qforwd" \notin f)
    <3>1. m = q[Len(w)] /\ Len(w) \in 1..Len(q)
      BY <1>1, <1>3, <1>4, <2>2 DEF SentUpTo, StartOf
    <3>2. CASE Len(w) = 1
      BY <1>2, <1>3, <3>1, <3>2
    <3>3. CASE Len(w) > 1
      <4>1. 1 \in 1..Len(q) /\ Len(w) # 1 /\ Len(v) \in 1 .. Len(q) - 1 /\ Len(v) + 1 = Len(w)
        BY <1>1, <1>3, <3>1, <3>3
      <4>2. m # Head(q) /\ n[Len(v)] = m
        BY <1>1, <1>2, <3>1, <4>1 DEF NoDup
      <4> QED BY <1>2, <1>4, <4>1, <4>2
    <3> QED BY <1>3, <3>1, <3>2, <3>3
  <2> QED BY <2>1, <2>2
<1>8. ASSUME n = <<>> PROVE FlagsKept(n, {}, "up", Idle) /\ OnWire(n, p, {}, "up", v, Idle)
  <2>1. FlagsKept(n, {}, "up", Idle)
    BY DEF FlagsKept
  <2>2. OnWire(n, p, {}, "up", v, Idle)
    BY <1>5, <1>8 DEF OnWire
  <2> QED BY <2>1, <2>2
<1>9. ASSUME "resend" \in f, "qforwd" \notin f, p # NoReq
      PROVE  LET y == Resend(n, p, "popr") IN FlagsKept(n, f, "up", y) /\ OnWire(n, p, f, "up", v, y)
  <2> DEFINE y == Resend(n, p, "popr")
  <2>1. y.pc = "resend" /\ y.i = 1 /\ y.by = "popr"
    BY DEF Resend
  <2> HIDE DEF y
  <2>2. Len(v) = 0
    BY <1>1, <1>3, <1>4, <1>9 DEF SentUpTo
  <2>3. FlagsKept(n, f, "up", y)
    BY <1>9, <2>1 DEF FlagsKept
  <2>4. OnWire(n, p, f, "up", v, y)
    BY <1>5, <2>1, <2>2 DEF OnWire
  <2> QED BY <2>3, <2>4 DEF y
<1>10. ASSUME NEW g \in SUBSET Flag, NEW by \in {"pop", "popr"},
              ("qforwd" \in g => "resend" \in g), by = "popr" => "qforwd" \in g,
              by = "pop" => "resend" \notin g,
              (p = NoReq /\ Len(v) = 0) \/ (Len(v) \in 1..Len(n) /\ p # NoReq /\ p = n[Len(v)])
       PROVE  LET y == Unsent(n, p, by, NoReq) IN
              /\ FlagsKept(n, g, "up", y) /\ OnWire(n, p, g, "up", v, y)
              /\ ~NeedFwd(n, p) /\ (n = <<>> => g = {}) =>
                    FlagsKept(n, g, "up", Idle) /\ OnWire(n, p, g, "up", v, Idle)
  <2> DEFINE y == Unsent(n, p, by, NoReq)
  <2>0. by \in By /\ NoReq \in MaybeReq
    BY DEF By, MaybeReq
  <2>1. y.i - 1 = Len(v) /\ y.pc = "unsent" /\ y.by = by
    BY <1>2, <1>6, <1>10, <2>0, UnsentAt
  <2> HIDE DEF y
  <2>2. FlagsKept(n, g, "up", y)
    BY <1>10, <2>1 DEF FlagsKept
  <2>3. OnWire(n, p, g, "up", v, y)
    BY <1>5, <2>1 DEF OnWire
  <2>4. FlagsKept(n, g, "up", Idle)
    BY <1>10 DEF FlagsKept
  <2>5. ASSUME ~NeedFwd(n, p), n = <<>> => g = {} PROVE OnWire(n, p, g, "up", v, Idle)
    <3>1. CASE n = <<>>
      BY <1>5, <2>5, <3>1 DEF OnWire
    <3>2. CASE n # <<>>
      <4>1. p # NoReq
        BY <2>5, <3>2 DEF NeedFwd, OnHold, Drained
      <4>2. Len(v) > 0 /\ SentUpTo(n, p, g, v)
        BY <1>2, <1>6, <1>10, <4>1 DEF SentUpTo
      <4> QED BY <1>5, <4>1, <4>2 DEF OnWire
    <3> QED BY <3>1, <3>2
  <2> QED BY <2>2, <2>3, <2>4, <2>5 DEF y
<1>11. ASSUME "resend" \in f, "qforwd" \in f \/ p = NoReq
       PROVE  LET y == Unsent(n, p, "popr", NoReq)
                  g == f \cup {"qforwd"}
              IN  /\ FlagsKept(n, g, "up", y) /\ OnWire(n, p, g, "up", v, y)
                  /\ n # <<>> /\ ~NeedFwd(n, p) =>
                        FlagsKept(n, g, "up", Idle) /\ OnWire(n, p, g, "up", v, Idle)
  <2> DEFINE g == f \cup {"qforwd"}
  <2>1. g \in SUBSET Flag /\ "qforwd" \in g /\ "resend" \in g
    BY <1>1, <1>11 DEF Flag
  <2> HIDE DEF g
  <2>2. (p = NoReq /\ Len(v) = 0) \/ (Len(v) \in 1..Len(n) /\ p # NoReq /\ p = n[Len(v)])
    BY <1>7, <1>11
  <2> QED BY <1>10, <2>1, <2>2 DEF g
<1>12. ASSUME "resend" \notin f
       PROVE  LET y == Unsent(n, p, "pop", NoReq)
              IN  /\ FlagsKept(n, f, "up", y) /\ OnWire(n, p, f, "up", v, y)
                  /\ ~NeedFwd(n, p) =>
                        FlagsKept(n, f, "up", Idle) /\ OnWire(n, p, f, "up", v, Idle)
  <2>1. (p = NoReq /\ Len(v) = 0) \/ (Len(v) \in 1..Len(n) /\ p # NoReq /\ p = n[Len(v)])
    BY <1>7, <1>12
  <2>2. f = {}
    BY <1>1, <1>4, <1>12, NoFlags
  <2> QED BY <1>1, <1>4, <1>10, <1>12, <2>1, <2>2
<1> QED BY <1>8, <1>9, <1>11, <1>12 DEF n, v

LEMMA RepairWired ==
    ASSUME NEW q \in Seq(Req), NoDup(q), NEW m \in MaybeReq, m = NoReq \/ In(m, q),
           NEW f, f = {"resend"}
    PROVE  /\ m # NoReq =>
                 LET y == Resend(q, m, "repair") IN
                 FlagsKept(q, f, "up", y) /\ OnWire(q, m, f, "up", <<>>, y)
           /\ m = NoReq =>
                 LET y == Unsent(q, m, "repair", NoReq)
                     g == f \cup {"qforwd"}
                 IN  FlagsKept(q, g, "up", y) /\ OnWire(q, m, g, "up", <<>>, y)
           /\ q = <<>> => FlagsKept(q, {}, "up", Idle) /\ OnWire(q, m, {}, "up", <<>>, Idle)
<1> USE IdleFields
<1>1. StartOf(<<>>, q) /\ Len(<<>>) = 0
  BY EmptyQueue
<1>2. ASSUME m # NoReq
      PROVE  LET y == Resend(q, m, "repair") IN
             FlagsKept(q, f, "up", y) /\ OnWire(q, m, f, "up", <<>>, y)
  <2> DEFINE y == Resend(q, m, "repair")
  <2>1. y.pc = "resend" /\ y.i = 1 /\ y.by = "repair" /\ y.resent = NoReq
    BY DEF Resend
  <2> HIDE DEF y
  <2>2. FlagsKept(q, f, "up", y)
    BY <2>1 DEF FlagsKept
  <2>3. OnWire(q, m, f, "up", <<>>, y)
    BY <1>1, <2>1 DEF OnWire
  <2> QED BY <2>2, <2>3 DEF y
<1>3. ASSUME m = NoReq
      PROVE  LET y == Unsent(q, m, "repair", NoReq)
                 g == f \cup {"qforwd"}
             IN  FlagsKept(q, g, "up", y) /\ OnWire(q, m, g, "up", <<>>, y)
  <2> DEFINE y == Unsent(q, m, "repair", NoReq)
             g == f \cup {"qforwd"}
  <2>1. y.pc = "unsent" /\ y.i = 1 /\ y.by = "repair"
    BY <1>3 DEF Unsent
  <2>2. "resend" \in g /\ "qforwd" \in g
    OBVIOUS
  <2> HIDE DEF y, g
  <2>3. FlagsKept(q, g, "up", y)
    BY <2>1, <2>2 DEF FlagsKept
  <2>4. OnWire(q, m, g, "up", <<>>, y)
    BY <1>1, <2>1 DEF OnWire
  <2> QED BY <2>3, <2>4 DEF y, g
<1>4. ASSUME q = <<>> PROVE FlagsKept(q, {}, "up", Idle) /\ OnWire(q, m, {}, "up", <<>>, Idle)
  BY <1>1, <1>4 DEF FlagsKept, OnWire
<1> QED BY <1>2, <1>3, <1>4
-----------------------------------------------------------------------------
(* The steps of the specification                                           *)

LEMMA SoundConn ==
    ASSUME BaseInv, WireInv, NEW c \in Conn
    PROVE  /\ Sound(queue[c], msgSent[c], flags[c], up[c], wire[c], ctx[c])
           /\ flags \in [Conn -> SUBSET Flag] /\ up \in [Conn -> UpState]
           /\ wire \in [Conn -> Seq(Req)]
<1>1. /\ flags \in [Conn -> SUBSET Flag] /\ up \in [Conn -> UpState]
      /\ wire \in [Conn -> Seq(Req)]
  BY DEF BaseInv, QueueTypeOK, NetTypeOK, Flag, UpState
<1>2. Len(wire[c]) \in Nat
  BY <1>1, LenProperties
<1>3. Wired(c)
  BY DEF WireInv
<1> QED BY <1>1, <1>2, <1>3, HolderFacts DEF Sound, Wired

LEMMA NipIsReq == ASSUME BaseInv PROVE NoReq \notin nip /\ nip \subseteq Req
BY FwdAssumption DEF BaseInv, ReqTypeOK, FwdAssumption, NoReq

LEMMA WireStep ==
    ASSUME WireInv, NEW c \in Conn,
           \A d \in Conn \ {c} : /\ queue'[d] = queue[d] /\ msgSent'[d] = msgSent[d]
                                 /\ flags'[d] = flags[d] /\ up'[d] = up[d]
                                 /\ wire'[d] = wire[d] /\ ctx'[d] = ctx[d],
           FlagsKept(queue'[c], flags'[c], up'[c], ctx'[c]),
           OnWire(queue'[c], msgSent'[c], flags'[c], up'[c], wire'[c], ctx'[c]),
           HeldUp'
    PROVE  WireInv'
<1>1. ASSUME NEW d \in Conn PROVE Wired(d)'
  <2>1. CASE d = c
    BY <2>1 DEF Wired
  <2>2. CASE d # c
    BY <2>2 DEF WireInv, Wired
  <2> QED BY <2>1, <2>2
<1> QED BY <1>1 DEF WireInv

LEMMA QuietWire ==
    ASSUME WireInv, UNCHANGED <<queue, msgSent, flags, up, wire, ctx, pick, held>>
    PROVE  WireInv'
BY DEF WireInv, Wired, HeldUp

LEMMA HeldUpStays ==
    ASSUME BaseInv, WireInv, UNCHANGED <<held, pick>>,
           \A d \in Conn : /\ up'[d] = up[d] \/ up'[d] \in {"closing", "down"}
                           /\ "resend" \in flags'[d] => "resend" \in flags[d]
    PROVE  HeldUp'
<1>1. \A r \in held : pick[r] \in Conn
  BY DEF BaseInv, HeldInv
<1> QED BY <1>1 DEF WireInv, HeldUp

LEMMA UnlockUp ==
    ASSUME BaseInv, WireInv, NEW c \in Conn, Unlock(c), up' = up,
           \A d \in Conn : "resend" \in flags'[d] => "resend" \in flags[d]
    PROVE  HeldUp'
<1>1. /\ \A r \in held' : r \in held /\ pick'[r] = pick[r]
      /\ \A r \in Req : pick'[r] # NoConn => pick[r] # NoConn /\ r # ctx[c].req
  BY DEF Unlock, BaseInv, ReqTypeOK
<1>2. \A r \in held : pick[r] \in Conn
  BY DEF BaseInv, HeldInv
<1>3. \A r \in Req : pick'[r] # NoConn => r \in held'
  BY <1>1 DEF WireInv, HeldUp, Unlock
<1> QED BY <1>1, <1>2, <1>3 DEF WireInv, HeldUp

LEMMA ScheduleWire ==
    ASSUME ~StaleCheck, BaseInv, WireInv, NEW r \in Req,
           \/ \E c \in Conn : tfw_srv_conn_restricted(r, c)
           \/ GetIfLiveLate(r)
           \/ \E c \in Conn : tfw_http_get_srv_conn(r, c)
           \/ NoSrvConn(r) \/ tfw_http_fwdq_resched(r) \/ tfw_http_req_zap_error(r) \/ ClearNip(r)
    PROVE  WireInv'
<1>1. ~\E c \in Conn : tfw_srv_conn_restricted(r, c)
  BY DEF tfw_srv_conn_restricted
<1>2. ~GetIfLiveLate(r)
  BY DEF WireInv, HeldUp, GetIfLiveLate
<1>3. ASSUME NEW c \in Conn, tfw_http_get_srv_conn(r, c) PROVE WireInv'
  <2>1. /\ r \in fresh /\ pick[r] = NoConn /\ ~Restricted(c) /\ Live(c)
        /\ pick' = [pick EXCEPT ![r] = c] /\ held' = held \cup {r}
        /\ UNCHANGED <<queue, msgSent, flags, up, wire, ctx>>
    BY <1>3 DEF tfw_http_get_srv_conn, qVars
  <2>2. up[c] \in {"up", "closing"} /\ "resend" \notin flags[c]
    BY <2>1, SoundConn DEF Sound, FlagsKept, Restricted, Live, Active
  <2>3. pick \in [Req -> Conn \cup {NoConn}]
    BY DEF BaseInv, ReqTypeOK
  <2>4. HeldUp'
    BY <2>1, <2>2, <2>3 DEF WireInv, HeldUp
  <2>5. \A d \in Conn : Wired(d)'
    BY <2>1 DEF WireInv, Wired
  <2> QED BY <2>4, <2>5 DEF WireInv
<1>4. ASSUME NoSrvConn(r) \/ tfw_http_fwdq_resched(r) \/ tfw_http_req_zap_error(r) \/ ClearNip(r)
      PROVE  WireInv'
  <2>1. UNCHANGED <<queue, msgSent, flags, up, wire, ctx, pick, held>>
    BY <1>4 DEF NoSrvConn, tfw_http_fwdq_resched, tfw_http_req_zap_error, ClearNip, qVars, reqVars
  <2> QED BY <2>1, QuietWire
<1> QED BY <1>1, <1>2, <1>3, <1>4

LEMMA FwdWire ==
    ASSUME BaseInv, BaseInv', WireInv, NEW r \in Req, NEW c \in Conn, tfw_http_req_fwd(r, c)
    PROVE  WireInv'
<1>1. /\ r \in held /\ pick[r] = c /\ ctx[c].pc = "idle"
      /\ UNCHANGED <<msgSent, flags, up, wire>>
  BY DEF tfw_http_req_fwd, Unlocked
<1>2. up[c] \in {"up", "closing", "down"} /\ "resend" \notin flags[c]
  BY <1>1 DEF WireInv, HeldUp
<1>3. ctx[c] = Idle /\ queue \in [Conn -> Seq(Req)] /\ ctx \in [Conn -> Ctx]
  BY <1>1, HolderFacts DEF CursorOf, CursorIdle
<1>4. r \in fresh
  BY <1>1, <1>3, IdleShape, FwdAssumption DEF BaseInv, HeldInv, FwdAssumption, NoReq
<1>5. ~In(r, queue[c])
  BY <1>4 DEF BaseInv, HomeInv, Placed, InQ
<1>6. Sound(queue[c], msgSent[c], flags[c], up[c], wire[c], Idle)
  BY <1>3, SoundConn
<1>7. pick \in [Req -> Conn \cup {NoConn}] /\ pick' \in [Req -> Conn \cup {NoConn}]
  BY DEF BaseInv, ReqTypeOK
<1>8. ASSUME held' = held \ {r}, pick' = [pick EXCEPT ![r] = NoConn] PROVE HeldUp'
  <2>1. \A s \in Req : pick'[s] # NoConn => s # r /\ pick[s] # NoConn
    BY <1>7, <1>8
  <2>2. \A s \in held' : s \in held /\ s # r /\ pick'[s] = pick[s]
    BY <1>7, <1>8 DEF BaseInv, ReqTypeOK
  <2> QED BY <1>1, <1>8, <2>1, <2>2 DEF WireInv, HeldUp
<1>9. CASE /\ OnHold(msgSent[c]) /\ tfw_http_req_enlist(c, r)
           /\ held' = held \ {r} /\ pick' = [pick EXCEPT ![r] = NoConn] /\ ctx' = ctx
  <2>1. queue'[c] = Append(queue[c], r) /\ \A d \in Conn \ {c} : queue'[d] = queue[d]
    BY <1>3, <1>9 DEF tfw_http_req_enlist
  <2>2. msgSent[c] # NoReq
    BY <1>9, NipIsReq DEF OnHold
  <2>3. /\ FlagsKept(queue'[c], flags[c], up[c], Idle)
        /\ OnWire(queue'[c], msgSent[c], flags[c], up[c], wire[c], Idle)
    BY <1>2, <1>5, <1>6, <2>1, <2>2, FwdWired
  <2> QED BY <1>1, <1>3, <1>8, <1>9, <2>1, <2>3, WireStep
<1>10. CASE /\ held' = held \ {r} /\ pick' = [pick EXCEPT ![r] = NoConn] /\ UNCHANGED <<queue, ctx>>
  <2>1. HeldUp'
    BY <1>8, <1>10
  <2>2. \A d \in Conn : Wired(d)'
    BY <1>1, <1>10 DEF WireInv, Wired
  <2> QED BY <2>1, <2>2 DEF WireInv
<1>11. CASE /\ tfw_http_req_enlist(c, r)
            /\ ctx' = [ctx EXCEPT ![c] =
                          Unsent(queue'[c], msgSent[c], IF retries[r] > 0 THEN "resched" ELSE "fwd", r)]
            /\ UNCHANGED <<pick, held>>
  <2> DEFINE by == IF retries[r] > 0 THEN "resched" ELSE "fwd"
             y == Unsent(queue'[c], msgSent[c], by, r)
  <2>0. by \in {"fwd", "resched"} /\ ctx' = [ctx EXCEPT ![c] = y]
    BY <1>11
  <2> HIDE DEF by
  <2>1. queue'[c] = Append(queue[c], r) /\ \A d \in Conn \ {c} : queue'[d] = queue[d]
    BY <1>3, <1>11 DEF tfw_http_req_enlist
  <2>2. /\ FlagsKept(queue'[c], flags[c], up[c], y)
        /\ OnWire(queue'[c], msgSent[c], flags[c], up[c], wire[c], y)
    BY <1>2, <1>5, <1>6, <2>0, <2>1, FwdWired
  <2> HIDE DEF y
  <2>3. ctx'[c] = y /\ \A d \in Conn \ {c} : ctx'[d] = ctx[d]
    BY <1>3, <2>0
  <2>4. HeldUp'
    BY <1>1, <1>11, HeldUpStays
  <2> QED BY <1>1, <2>1, <2>2, <2>3, <2>4, WireStep
<1> QED BY <1>9, <1>10, <1>11 DEF tfw_http_req_fwd
LEMMA UnlockedCtx ==
    ASSUME BaseInv, NEW c \in Conn, Unlock(c)
    PROVE  ctx'[c] = Idle /\ \A d \in Conn \ {c} : ctx'[d] = ctx[d]
BY HolderFacts DEF Unlock

LEMMA DoneSets ==
    ASSUME BaseInv, NEW c \in Conn, UnsentDone(c)
    PROVE  /\ Unlock(c)
           /\ flags'[c] = IF ctx[c].by \in {"popr", "repair"} /\ queue[c] = <<>> THEN {} ELSE flags[c]
           /\ \A d \in Conn \ {c} : flags'[d] = flags[d]
           /\ \A d \in Conn : "resend" \in flags'[d] => "resend" \in flags[d]
<1>1. flags \in [Conn -> SUBSET {"resend", "qforwd"}]
  BY DEF BaseInv, QueueTypeOK
<1>2. /\ flags'[c] = IF ctx[c].by \in {"popr", "repair"} /\ queue[c] = <<>> THEN {} ELSE flags[c]
      /\ \A d \in Conn \ {c} : flags'[d] = flags[d]
  BY <1>1 DEF UnsentDone, Reenabled
<1> QED BY <1>2 DEF UnsentDone

LEMMA UnsentStopWire ==
    ASSUME BaseInv, WireInv, NEW c \in Conn, UnsentEnd(c) \/ UnsentBroken(c)
    PROVE  WireInv'
<1>1. /\ ctx[c].pc = "unsent" /\ UnsentDone(c)
      /\ UNCHANGED <<queue, msgSent, up, wire>>
  BY DEF UnsentEnd, UnsentBroken
<1>2. ctx[c].i > Len(queue[c]) \/ up[c] # "up" \/ msgSent[c] # NoReq
  BY DEF UnsentEnd, UnsentBroken, Active
<1>3. /\ FlagsKept(queue[c], flags'[c], up[c], Idle)
      /\ OnWire(queue[c], msgSent[c], flags'[c], up[c], wire[c], Idle)
  BY <1>1, <1>2, SoundConn, DoneSets, StopWired
<1>4. ctx'[c] = Idle /\ \A d \in Conn \ {c} : ctx'[d] = ctx[d]
  BY <1>1, DoneSets, UnlockedCtx
<1>5. HeldUp'
  BY <1>1, DoneSets, UnlockUp
<1> QED BY <1>1, <1>3, <1>4, <1>5, DoneSets, WireStep

LEMMA UnsentEvictWire ==
    ASSUME BaseInv, WireInv, NEW c \in Conn, UnsentEvict(c)
    PROVE  WireInv'
<1>1. /\ ctx[c].pc = "unsent" /\ ctx[c].i <= Len(queue[c])
      /\ queue' = [queue EXCEPT ![c] = RemoveAt(@, IndexOf(queue[c][ctx[c].i], @))]
      /\ UNCHANGED <<msgSent, flags, up, wire, ctx, pick, held>>
  BY DEF UnsentEvict, Delisted, Cur
<1>2. ctx[c].i \in 1..Len(queue[c]) /\ IndexOf(queue[c][ctx[c].i], queue[c]) = ctx[c].i
  <2>1. ctx[c].i \in 1..Len(queue[c])
    BY <1>1, HolderFacts DEF CursorOf, CursorUnsent
  <2>2. IndexOf(queue[c][ctx[c].i], queue[c]) = ctx[c].i
    BY <1>1, HolderFacts, UnsentDrops
  <2> QED BY <2>1, <2>2
<1>3. queue'[c] = RemoveAt(queue[c], ctx[c].i) /\ \A d \in Conn \ {c} : queue'[d] = queue[d]
  BY <1>1, <1>2, HolderFacts
<1>4. /\ FlagsKept(queue'[c], flags[c], up[c], ctx[c])
      /\ OnWire(queue'[c], msgSent[c], flags[c], up[c], wire[c], ctx[c])
  BY <1>1, <1>2, <1>3, SoundConn, EvictWired
<1>5. HeldUp'
  BY <1>1, HeldUpStays
<1> QED BY <1>1, <1>3, <1>4, <1>5, WireStep

LEMMA UnsentSendWire ==
    ASSUME BaseInv, WireInv, NEW c \in Conn, UnsentSend(c)
    PROVE  WireInv'
<1> DEFINE r == queue[c][ctx[c].i]
<1>1. /\ ctx[c].pc = "unsent" /\ ctx[c].i <= Len(queue[c]) /\ up[c] \in {"up", "revived"}
      /\ wire' = [wire EXCEPT ![c] = Append(@, r)]
      /\ msgSent' = [msgSent EXCEPT ![c] = r]
      /\ UNCHANGED <<queue, up>>
  BY DEF UnsentSend, Cur, Transmit, Active
<1>2. /\ wire'[c] = Append(wire[c], r) /\ msgSent'[c] = r
      /\ \A d \in Conn \ {c} : wire'[d] = wire[d] /\ msgSent'[d] = msgSent[d]
  BY <1>1, SoundConn, HolderFacts
<1>3. /\ FlagsKept(queue[c], flags[c], up[c], Idle)
      /\ OnWire(queue[c], r, flags[c], up[c], wire'[c], Idle)
      /\ \A y : y.pc = ctx[c].pc /\ y.by = ctx[c].by /\ y.i = ctx[c].i + 1 =>
                   FlagsKept(queue[c], flags[c], up[c], y) /\ OnWire(queue[c], r, flags[c], up[c], wire'[c], y)
  <2> DEFINE q == queue[c]
             m == msgSent[c]
             f == flags[c]
             u == up[c]
             w == wire[c]
             x == ctx[c]
  <2>1. Sound(q, m, f, u, w, x) /\ x.pc = "unsent" /\ x.i <= Len(q) /\ u \in {"up", "revived"}
    BY <1>1, SoundConn
  <2>2. wire'[c] = Append(w, q[x.i]) /\ r = q[x.i]
    BY <1>2
  <2> HIDE DEF q, m, f, u, w, x, r
  <2>3. LET v == Append(w, q[x.i]) IN
        /\ FlagsKept(q, f, u, Idle) /\ OnWire(q, q[x.i], f, u, v, Idle)
        /\ \A y : y.pc = x.pc /\ y.by = x.by /\ y.i = x.i + 1 =>
                    FlagsKept(q, f, u, y) /\ OnWire(q, q[x.i], f, u, v, y)
    BY <2>1, SendWired
  <2> QED BY <2>2, <2>3 DEF q, f, u, x
<1>4. ctx[c].i \in 1..Len(queue[c])
  BY <1>1, HolderFacts DEF CursorOf, CursorUnsent
<1> HIDE DEF r
<1>5. CASE UnsentDone(c)
  <2>1. queue[c] # <<>>
    BY <1>4, HolderFacts, EmptyQueue
  <2>2. flags'[c] = flags[c]
    BY <1>5, <2>1, DoneSets
  <2>3. ctx'[c] = Idle /\ \A d \in Conn \ {c} : ctx'[d] = ctx[d]
    BY <1>5, DoneSets, UnlockedCtx
  <2>4. HeldUp'
    BY <1>1, <1>5, DoneSets, UnlockUp
  <2> QED BY <1>1, <1>2, <1>3, <1>5, <2>2, <2>3, <2>4, DoneSets, WireStep
<1>6. CASE /\ ctx' = [ctx EXCEPT ![c].i = @ + 1] /\ UNCHANGED <<flags, pick, held>>
  <2> DEFINE y == [ctx[c] EXCEPT !.i = @ + 1]
  <2>1. y.pc = ctx[c].pc /\ y.by = ctx[c].by /\ y.i = ctx[c].i + 1
    BY <1>1, HolderFacts, UnsentMoves
  <2>2. ctx' = [ctx EXCEPT ![c] = y]
    BY <1>6
  <2> HIDE DEF y
  <2>3. ctx'[c] = y /\ \A d \in Conn \ {c} : ctx'[d] = ctx[d]
    BY <2>2, HolderFacts
  <2>4. FlagsKept(queue[c], flags[c], up[c], y) /\ OnWire(queue[c], r, flags[c], up[c], wire'[c], y)
    BY <1>3, <2>1
  <2>5. HeldUp'
    BY <1>1, <1>6, HeldUpStays
  <2> QED BY <1>1, <1>2, <1>6, <2>3, <2>4, <2>5, WireStep
<1> QED BY <1>5, <1>6 DEF UnsentSend

LEMMA UnsentBusyWire ==
    ASSUME BaseInv, WireInv, NEW c \in Conn, UnsentBusy(c)
    PROVE  WireInv'
<1>1. /\ ctx[c].pc = "unsent" /\ ctx[c].i <= Len(queue[c]) /\ up[c] \in {"up", "revived"}
      /\ msgSent[c] = NoReq /\ Unlock(c) /\ UNCHANGED <<up, wire>>
  BY DEF UnsentBusy, Active
<1>2. /\ up[c] = "up" /\ wire[c] = <<>> /\ (ctx[c].by \notin {"popr", "repair"} => flags[c] = {})
      /\ ctx[c].by = "resched" => RemoveAt(queue[c], IndexOf(ctx[c].req, queue[c])) = <<>>
  BY <1>1, SoundConn, BusyWired
<1>3. ctx'[c] = Idle /\ \A d \in Conn \ {c} : ctx'[d] = ctx[d]
  BY <1>1, UnlockedCtx
<1>4. ASSUME queue'[c] = <<>>, flags'[c] = {}, msgSent'[c] = NoReq,
             \A d \in Conn \ {c} : queue'[d] = queue[d] /\ flags'[d] = flags[d] /\ msgSent'[d] = msgSent[d]
      PROVE  WireInv'
  <2>1. /\ FlagsKept(queue'[c], flags'[c], up[c], Idle)
        /\ OnWire(queue'[c], msgSent'[c], flags'[c], up[c], wire[c], Idle)
    BY <1>2, <1>4, CutWired DEF UpState
  <2>2. HeldUp'
    BY <1>1, <1>4, UnlockUp
  <2> QED BY <1>1, <1>3, <1>4, <2>1, <2>2, WireStep
<1>5. CASE ctx[c].by = "resched" /\ Delisted(c, ctx[c].req) /\ UNCHANGED <<msgSent, flags>>
  <2>1. queue'[c] = <<>> /\ \A d \in Conn \ {c} : queue'[d] = queue[d]
    BY <1>2, <1>5, HolderFacts DEF Delisted
  <2>2. flags[c] = {}
    BY <1>2, <1>5
  <2> QED BY <1>1, <1>4, <1>5, <2>1, <2>2
<1>6. CASE /\ ctx[c].by # "resched" /\ QueueReset(c)
           /\ flags' = [flags EXCEPT ![c] = IF ctx[c].by = "fwd" THEN @ ELSE {}]
  <2>1. /\ queue'[c] = <<>> /\ msgSent'[c] = NoReq
        /\ \A d \in Conn \ {c} : queue'[d] = queue[d] /\ msgSent'[d] = msgSent[d]
    BY <1>6, HolderFacts DEF QueueReset
  <2>2. flags'[c] = {} /\ \A d \in Conn \ {c} : flags'[d] = flags[d]
    BY <1>2, <1>6, HolderFacts
  <2> QED BY <1>4, <2>1, <2>2
<1> QED BY <1>5, <1>6 DEF UnsentBusy

LEMMA ResendEvictWire ==
    ASSUME BaseInv, WireInv, NEW c \in Conn, ResendEvict(c)
    PROVE  WireInv'
<1> DEFINE y == [ctx[c] EXCEPT !.left = @ - 1]
<1>1. /\ ctx[c].pc = "resend" /\ ctx[c].left > 0
      /\ queue' = [queue EXCEPT ![c] = RemoveAt(@, IndexOf(queue[c][ctx[c].i], @))]
      /\ ctx' = [ctx EXCEPT ![c] = y]
      /\ UNCHANGED <<msgSent, flags, up, wire, pick, held>>
  BY DEF ResendEvict, Delisted, Cur
<1>2. /\ ctx[c].i \in 1..Len(queue[c]) /\ IndexOf(queue[c][ctx[c].i], queue[c]) = ctx[c].i
      /\ y.pc = ctx[c].pc /\ y.i = ctx[c].i /\ y.resent = ctx[c].resent /\ y.by = ctx[c].by
  BY <1>1, HolderFacts, ResendDrops
<1> HIDE DEF y
<1>3. queue'[c] = RemoveAt(queue[c], ctx[c].i) /\ \A d \in Conn \ {c} : queue'[d] = queue[d]
  BY <1>1, <1>2, HolderFacts
<1>4. ctx'[c] = y /\ \A d \in Conn \ {c} : ctx'[d] = ctx[d]
  BY <1>1, HolderFacts
<1>5. /\ FlagsKept(queue'[c], flags[c], up[c], y)
      /\ OnWire(queue'[c], msgSent[c], flags[c], up[c], wire[c], y)
  BY <1>1, <1>2, <1>3, SoundConn, EvictWired
<1>6. HeldUp'
  BY <1>1, HeldUpStays
<1> QED BY <1>1, <1>3, <1>4, <1>5, <1>6, WireStep

LEMMA ResendSendWire ==
    ASSUME BaseInv, WireInv, NEW c \in Conn, ResendSend(c)
    PROVE  WireInv'
<1> DEFINE r == queue[c][ctx[c].i]
           y == [ctx[c] EXCEPT !.resent = r, !.i = ctx[c].i + 1,
                               !.left = IF ctx[c].by = "repair" THEN 0 ELSE ctx[c].left - 1]
<1>1. /\ ctx[c].pc = "resend" /\ ctx[c].left > 0 /\ up[c] \in {"up", "revived"}
      /\ wire' = [wire EXCEPT ![c] = Append(@, r)]
      /\ UNCHANGED <<queue, msgSent, flags, up, pick, held>>
  BY DEF ResendSend, Cur, Transmit, Active
<1>2. ctx' = [ctx EXCEPT ![c] = y]
  BY HolderFacts DEF ResendSend, Cur
<1>3. y.pc = "resend" /\ y.i = ctx[c].i + 1 /\ y.by = ctx[c].by
  <2> DEFINE x == ctx[c]
             i == x.i + 1
             l == IF x.by = "repair" THEN 0 ELSE x.left - 1
  <2>1. x \in Ctx /\ x.pc = "resend"
    BY <1>1, HolderFacts
  <2> HIDE DEF x, i, l, r
  <2>2. LET z == [x EXCEPT !.resent = r, !.i = i, !.left = l] IN z.pc = "resend" /\ z.i = i /\ z.by = x.by
    BY <2>1 DEF Ctx
  <2> QED BY <2>2 DEF x, i, l
<1>4. wire'[c] = Append(wire[c], r) /\ \A d \in Conn \ {c} : wire'[d] = wire[d]
  BY <1>1, SoundConn
<1> HIDE DEF y
<1>5. ctx'[c] = y /\ \A d \in Conn \ {c} : ctx'[d] = ctx[d]
  BY <1>2, HolderFacts
<1>6. /\ FlagsKept(queue[c], flags[c], up[c], y)
      /\ OnWire(queue[c], msgSent[c], flags[c], up[c], wire'[c], y)
  <2> DEFINE q == queue[c]
             m == msgSent[c]
             f == flags[c]
             u == up[c]
             w == wire[c]
             x == ctx[c]
  <2>1. /\ Sound(q, m, f, u, w, x) /\ x.pc = "resend" /\ x.left > 0 /\ u \in {"up", "revived"}
        /\ y.pc = "resend" /\ y.i = x.i + 1 /\ y.by = x.by
    BY <1>1, <1>3, SoundConn
  <2>2. wire'[c] = Append(w, q[x.i])
    BY <1>4
  <2> HIDE DEF q, m, f, u, w, x
  <2>3. FlagsKept(q, f, u, y) /\ OnWire(q, m, f, u, Append(w, q[x.i]), y)
    BY <2>1, ResendWired
  <2> QED BY <2>2, <2>3 DEF q, m, f, u
<1>7. HeldUp'
  BY <1>1, HeldUpStays
<1> QED BY <1>1, <1>4, <1>5, <1>6, <1>7, WireStep
LEMMA ResendBrokenWire ==
    ASSUME BaseInv, WireInv, NEW c \in Conn, ResendBroken(c)
    PROVE  WireInv'
<1>1. /\ ctx[c].pc = "resend" /\ up[c] \notin {"up", "revived"} /\ Unlock(c)
      /\ UNCHANGED <<queue, msgSent, flags, up, wire>>
  BY DEF ResendBroken, Active, qVars
<1>2. ctx'[c] = Idle /\ \A d \in Conn \ {c} : ctx'[d] = ctx[d]
  BY <1>1, UnlockedCtx
<1>3. /\ FlagsKept(queue[c], flags[c], up[c], Idle)
      /\ OnWire(queue[c], msgSent[c], flags[c], up[c], wire[c], Idle)
  BY <1>1, SoundConn, IdleFields DEF Sound, FlagsKept, OnWire
<1>4. HeldUp'
  BY <1>1, UnlockUp
<1> QED BY <1>1, <1>2, <1>3, <1>4, WireStep

LEMMA AfterResendWire ==
    ASSUME BaseInv, WireInv, NEW c \in Conn, ctx[c].pc = "resend",
           NEW n, n = ctx[c].resent \/ (ctx[c].by = "repair" /\ ctx[c].resent # NoReq /\ n # NoReq),
           AfterResend(c, n), msgSent' = [msgSent EXCEPT ![c] = n],
           UNCHANGED <<queue, up, wire>>
    PROVE  WireInv'
<1> DEFINE q == queue[c]
           f == flags[c]
           u == up[c]
           w == wire[c]
           x == ctx[c]
           g == f \cup {"qforwd"}
           y == Unsent(q, n, x.by, NoReq)
<1>1. /\ n # NoReq /\ x.by = "repair" => FlagsKept(q, f, u, Idle) /\ OnWire(q, n, f, u, w, Idle)
      /\ n = x.resent /\ ~NeedFwd(q, n) /\ q # <<>> =>
            FlagsKept(q, g, u, Idle) /\ OnWire(q, n, g, u, w, Idle)
      /\ q = <<>> => FlagsKept(q, {}, u, Idle) /\ OnWire(q, n, {}, u, w, Idle)
      /\ n = x.resent => FlagsKept(q, g, u, y) /\ OnWire(q, n, g, u, w, y)
  <2> DEFINE m == msgSent[c]
  <2>1. /\ Sound(q, m, f, u, w, x) /\ x.pc = "resend" /\ NoReq \notin nip
        /\ n = x.resent \/ (x.by = "repair" /\ x.resent # NoReq /\ n # NoReq)
    BY SoundConn, NipIsReq
  <2> HIDE DEF q, m, f, u, w, x
  <2> QED BY <2>1, AfterResendWired
<1>2. msgSent'[c] = n /\ \A d \in Conn \ {c} : msgSent'[d] = msgSent[d]
  BY HolderFacts
<1>3. x.by \in {"popr", "repair"}
  BY HolderFacts DEF CursorOf, CursorResend
<1>4. (x.by = "popr" \/ n = NoReq) => n = x.resent
  BY <1>3
<1> HIDE DEF g, y
<1>5. ASSUME Unlock(c), FlagsKept(q, flags'[c], u, Idle), OnWire(q, n, flags'[c], u, w, Idle),
             \A d \in Conn \ {c} : flags'[d] = flags[d], "resend" \in f
      PROVE  WireInv'
  <2>1. ctx'[c] = Idle /\ \A d \in Conn \ {c} : ctx'[d] = ctx[d]
    BY <1>5, UnlockedCtx
  <2>2. \A d \in Conn : "resend" \in flags'[d] => "resend" \in flags[d]
    BY <1>5
  <2>3. HeldUp'
    BY <1>5, <2>2, UnlockUp
  <2> QED BY <1>2, <1>5, <2>1, <2>3, WireStep
<1>6. "resend" \in f /\ flags \in [Conn -> SUBSET Flag]
  BY SoundConn DEF Sound, FlagsKept
<1>7. CASE x.by = "repair" /\ n # NoReq /\ Unlock(c) /\ UNCHANGED flags
  BY <1>1, <1>5, <1>6, <1>7
<1>8. CASE /\ x.by = "popr" \/ n = NoReq
           /\ ctx' = [ctx EXCEPT ![c] = y] /\ flags' = [flags EXCEPT ![c] = g]
           /\ UNCHANGED <<pick, held>>
  <2>1. ctx'[c] = y /\ \A d \in Conn \ {c} : ctx'[d] = ctx[d]
    BY <1>8, HolderFacts
  <2>2. flags'[c] = g /\ \A d \in Conn \ {c} : flags'[d] = flags[d]
    BY <1>6, <1>8
  <2>3. FlagsKept(q, g, u, y) /\ OnWire(q, n, g, u, w, y)
    BY <1>1, <1>4, <1>8
  <2>4. HeldUp'
    BY <1>6, <1>8, <2>2, HeldUpStays
  <2> QED BY <1>2, <2>1, <2>2, <2>3, <2>4, WireStep
<1>9. CASE /\ x.by = "popr" \/ n = NoReq
           /\ ~NeedFwd(q, n) /\ Unlock(c)
           /\ flags' = [flags EXCEPT ![c] = IF q = <<>> THEN {} ELSE g]
  <2>1. flags'[c] = (IF q = <<>> THEN {} ELSE g) /\ \A d \in Conn \ {c} : flags'[d] = flags[d]
    BY <1>6, <1>9
  <2>2. FlagsKept(q, flags'[c], u, Idle) /\ OnWire(q, n, flags'[c], u, w, Idle)
    <3>1. CASE q = <<>>
      BY <1>1, <2>1, <3>1
    <3>2. CASE q # <<>>
      BY <1>1, <1>4, <1>9, <2>1, <3>2
    <3> QED BY <3>1, <3>2
  <2> QED BY <1>5, <1>6, <1>9, <2>1, <2>2
<1> QED BY <1>7, <1>8, <1>9 DEF AfterResend, g, y

LEMMA ResendBusyWire ==
    ASSUME BaseInv, WireInv, NEW c \in Conn, ResendBusy(c)
    PROVE  WireInv'
<1>1. /\ ctx[c].pc = "resend" /\ ctx[c].left > 0 /\ up[c] \in {"up", "revived"}
      /\ UNCHANGED <<up, wire>>
  BY DEF ResendBusy, Active
<1>2. CASE ctx[c].by = "repair" /\ RepairFailed(c)
  <2>1. /\ Unlock(c) /\ QueueReset(c) /\ flags' = [flags EXCEPT ![c] = {}]
    BY <1>2 DEF RepairFailed
  <2>2. /\ queue'[c] = <<>> /\ msgSent'[c] = NoReq /\ flags'[c] = {}
        /\ \A d \in Conn \ {c} : queue'[d] = queue[d] /\ msgSent'[d] = msgSent[d] /\ flags'[d] = flags[d]
    BY <2>1, HolderFacts DEF QueueReset
  <2>3. up[c] = "up" /\ wire[c] = <<>>
    <3>1. up[c] = "up" /\ Len(wire[c]) = ctx[c].i - 1 /\ wire[c] \in Seq(Req)
      BY <1>1, SoundConn DEF Sound, FlagsKept, OnWire
    <3>2. ctx[c].resent = NoReq /\ Len(queue[c]) \in Nat /\ ctx[c].i \in Nat /\ ctx[c].left \in Nat
          /\ ctx[c].i >= 1 /\ ctx[c].i + ctx[c].left <= Len(queue[c]) + 1
          /\ (ctx[c].i = 1 \/ ctx[c].resent = queue[c][ctx[c].i - 1])
      BY <1>1, <1>2, HolderFacts DEF CursorOf, CursorResend, Ctx
    <3>3. ctx[c].i = 1
      <4> SUFFICES ASSUME ctx[c].i # 1, queue[c][ctx[c].i - 1] = NoReq PROVE FALSE
        BY <3>2
      <4>1. ctx[c].i - 1 \in 1..Len(queue[c])
        BY <1>1, <3>2
      <4> QED BY <4>1, HolderFacts, NotNoReq
    <3>4. Len(wire[c]) = 0
      BY <3>1, <3>3
    <3> QED BY <3>1, <3>4, EmptyQueue
  <2>4. /\ FlagsKept(queue'[c], flags'[c], up[c], Idle)
        /\ OnWire(queue'[c], msgSent'[c], flags'[c], up[c], wire[c], Idle)
    BY <2>2, <2>3, CutWired DEF UpState
  <2>5. ctx'[c] = Idle /\ \A d \in Conn \ {c} : ctx'[d] = ctx[d]
    BY <2>1, UnlockedCtx
  <2>6. HeldUp'
    BY <1>1, <2>1, <2>2, UnlockUp
  <2> QED BY <1>1, <2>2, <2>4, <2>5, <2>6, WireStep
<1>3. CASE /\ msgSent' = [msgSent EXCEPT ![c] = ctx[c].resent]
           /\ AfterResend(c, ctx[c].resent) /\ UNCHANGED queue
  BY <1>1, <1>3, AfterResendWire
<1> QED BY <1>2, <1>3 DEF ResendBusy

LEMMA ResendEndWire ==
    ASSUME BaseInv, WireInv, NEW c \in Conn, ResendEnd(c)
    PROVE  WireInv'
<1> DEFINE m == IF ctx[c].by = "popr" \/ ctx[c].resent = NoReq
                THEN ctx[c].resent ELSE msgSent[c]
<1>1. /\ ctx[c].pc = "resend" /\ msgSent' = [msgSent EXCEPT ![c] = m] /\ AfterResend(c, m)
      /\ UNCHANGED <<queue, up, wire>>
  BY DEF ResendEnd
<1>2. m = ctx[c].resent \/ (ctx[c].by = "repair" /\ ctx[c].resent # NoReq /\ m # NoReq)
  <2>1. CASE ctx[c].by = "popr" \/ ctx[c].resent = NoReq
    BY <2>1
  <2>2. CASE ~(ctx[c].by = "popr" \/ ctx[c].resent = NoReq)
    <3>1. ctx[c].by = "repair" /\ In(msgSent[c], queue[c])
      BY <1>1, <2>2, HolderFacts DEF CursorOf, CursorResend
    <3>2. msgSent[c] # NoReq
      BY <3>1, HolderFacts, NotNoReq DEF In
    <3> QED BY <2>2, <3>1, <3>2
  <2> QED BY <2>1, <2>2
<1> HIDE DEF m
<1> QED BY <1>1, <1>2, AfterResendWire

LEMMA RespWire ==
    ASSUME BaseInv, WireInv, NEW c \in Conn, tfw_http_resp_cache(c)
    PROVE  WireInv'
<1> DEFINE q == queue[c]
           m == msgSent[c]
           f == flags[c]
           w == wire[c]
           n == queue'[c]
           p == msgSent'[c]
           v == wire'[c]
           g == f \cup {"qforwd"}
<1>1. /\ up[c] = "up" /\ ctx[c].pc = "idle" /\ w # <<>> /\ q # <<>>
      /\ queue' = [queue EXCEPT ![c] = Tail(@)]
      /\ msgSent' = [msgSent EXCEPT ![c] = IF @ = Head(queue[c]) THEN NoReq ELSE @]
      /\ wire' = [wire EXCEPT ![c] = Tail(@)]
      /\ AfterPop(c, n, p) /\ UNCHANGED <<up, pick, held>>
  BY DEF tfw_http_resp_cache, Unlocked, Popped
<1>2. /\ n = Tail(q) /\ v = Tail(w) /\ p = IF m = Head(q) THEN NoReq ELSE m
      /\ \A d \in Conn \ {c} : queue'[d] = queue[d] /\ msgSent'[d] = msgSent[d] /\ wire'[d] = wire[d]
  BY <1>1, SoundConn, HolderFacts
<1>3. ctx[c] = Idle /\ ctx \in [Conn -> Ctx] /\ flags \in [Conn -> SUBSET Flag]
  BY <1>1, HolderFacts, SoundConn DEF CursorOf, CursorIdle
<1>4. Sound(q, m, f, "up", w, Idle) /\ NoReq \notin nip
  BY <1>1, <1>3, SoundConn, NipIsReq
<1>h. HeldUp'
  <2>1. \/ flags' = flags \/ flags' = [flags EXCEPT ![c] = {}]
        \/ Restricted(c) /\ flags' = [flags EXCEPT ![c] = @ \cup {"qforwd"}]
    BY <1>1 DEF AfterPop
  <2>2. \A d \in Conn : "resend" \in flags'[d] => "resend" \in flags[d]
    BY <1>3, <2>1 DEF Restricted
  <2> QED BY <1>1, <2>2, HeldUpStays
<1> HIDE DEF q, m, w, n, p, v
<1>5. /\ n = <<>> => FlagsKept(n, {}, "up", Idle) /\ OnWire(n, p, {}, "up", v, Idle)
      /\ "resend" \in f /\ "qforwd" \notin f /\ p # NoReq =>
            LET y == Resend(n, p, "popr") IN FlagsKept(n, f, "up", y) /\ OnWire(n, p, f, "up", v, y)
      /\ "resend" \in f /\ ("qforwd" \in f \/ p = NoReq) =>
            LET y == Unsent(n, p, "popr", NoReq) IN
            /\ FlagsKept(n, g, "up", y) /\ OnWire(n, p, g, "up", v, y)
            /\ n # <<>> /\ ~NeedFwd(n, p) =>
                  FlagsKept(n, g, "up", Idle) /\ OnWire(n, p, g, "up", v, Idle)
      /\ "resend" \notin f =>
            LET y == Unsent(n, p, "pop", NoReq) IN
            /\ FlagsKept(n, f, "up", y) /\ OnWire(n, p, f, "up", v, y)
            /\ ~NeedFwd(n, p) =>
                  FlagsKept(n, f, "up", Idle) /\ OnWire(n, p, f, "up", v, Idle)
  BY <1>1, <1>2, <1>4, PopWired
<1>6. ASSUME NEW y, NEW h, FlagsKept(n, h, "up", y), OnWire(n, p, h, "up", v, y),
             ctx'[c] = y, \A d \in Conn \ {c} : ctx'[d] = ctx[d],
             flags'[c] = h, \A d \in Conn \ {c} : flags'[d] = flags[d]
      PROVE  WireInv'
  BY <1>1, <1>2, <1>6, <1>h, WireStep DEF n, p, v
<1>7. ASSUME NEW y, ctx' = [ctx EXCEPT ![c] = y]
      PROVE  ctx'[c] = y /\ \A d \in Conn \ {c} : ctx'[d] = ctx[d]
  BY <1>3, <1>7
<1>8. ASSUME NEW h, flags' = [flags EXCEPT ![c] = h]
      PROVE  flags'[c] = h /\ \A d \in Conn \ {c} : flags'[d] = flags[d]
  BY <1>3, <1>8
<1> HIDE DEF g
<1>9. CASE Restricted(c) /\ n = <<>> /\ flags' = [flags EXCEPT ![c] = {}] /\ ctx' = ctx
  BY <1>3, <1>5, <1>6, <1>8, <1>9
<1>10. CASE /\ Restricted(c) /\ "qforwd" \notin flags[c] /\ p # NoReq
            /\ ctx' = [ctx EXCEPT ![c] = Resend(n, p, "popr")] /\ flags' = flags
  <2> DEFINE y == Resend(n, p, "popr")
  <2>1. FlagsKept(n, f, "up", y) /\ OnWire(n, p, f, "up", v, y)
    BY <1>5, <1>10 DEF Restricted
  <2>2. ctx'[c] = y /\ \A d \in Conn \ {c} : ctx'[d] = ctx[d]
    BY <1>7, <1>10
  <2> HIDE DEF y
  <2> QED BY <1>6, <1>10, <2>1, <2>2
<1>11. CASE /\ Restricted(c) /\ n # <<>> /\ ("qforwd" \in flags[c] \/ p = NoReq)
            /\ flags' = [flags EXCEPT ![c] = g]
            /\ ctx' = IF NeedFwd(n, p) THEN [ctx EXCEPT ![c] = Unsent(n, p, "popr", NoReq)] ELSE ctx
  <2> DEFINE y == Unsent(n, p, "popr", NoReq)
  <2>1. /\ FlagsKept(n, g, "up", y) /\ OnWire(n, p, g, "up", v, y)
        /\ ~NeedFwd(n, p) => FlagsKept(n, g, "up", Idle) /\ OnWire(n, p, g, "up", v, Idle)
    BY <1>5, <1>11 DEF Restricted
  <2>2. flags'[c] = g /\ \A d \in Conn \ {c} : flags'[d] = flags[d]
    BY <1>8, <1>11
  <2>3. CASE NeedFwd(n, p)
    <3>1. ctx'[c] = y /\ \A d \in Conn \ {c} : ctx'[d] = ctx[d]
      BY <1>7, <1>11, <2>3
    <3> HIDE DEF y
    <3> QED BY <1>6, <2>1, <2>2, <3>1
  <2>4. CASE ~NeedFwd(n, p)
    BY <1>3, <1>6, <1>11, <2>1, <2>2, <2>4
  <2> QED BY <2>3, <2>4
<1>12. CASE /\ ~Restricted(c) /\ flags' = flags
            /\ ctx' = IF NeedFwd(n, p) THEN [ctx EXCEPT ![c] = Unsent(n, p, "pop", NoReq)] ELSE ctx
  <2> DEFINE y == Unsent(n, p, "pop", NoReq)
  <2>1. /\ FlagsKept(n, f, "up", y) /\ OnWire(n, p, f, "up", v, y)
        /\ ~NeedFwd(n, p) => FlagsKept(n, f, "up", Idle) /\ OnWire(n, p, f, "up", v, Idle)
    BY <1>5, <1>12 DEF Restricted
  <2>3. CASE NeedFwd(n, p)
    <3>1. ctx'[c] = y /\ \A d \in Conn \ {c} : ctx'[d] = ctx[d]
      BY <1>7, <1>12, <2>3
    <3> HIDE DEF y
    <3> QED BY <1>6, <1>12, <2>1, <3>1
  <2>4. CASE ~NeedFwd(n, p)
    BY <1>3, <1>6, <1>12, <2>1, <2>4
  <2> QED BY <2>3, <2>4
<1>13. AfterPop(c, n, p)
  BY <1>1
<1> QED BY <1>9, <1>10, <1>11, <1>12, <1>13 DEF AfterPop, g
(* BadResponse, SockClose, PutToDeath: nothing is on the wire any more.     *)
LEMMA ClosedWired ==
    ASSUME NEW q, NEW m, NEW f, NEW u, NEW w, NEW x, Sound(q, m, f, u, w, x),
           u \in {"up", "closing"}, NEW v \in {"closing", "down"}, NEW n \in Seq(Req), NEW p
    PROVE  FlagsKept(n, f, v, x) /\ OnWire(n, p, f, v, <<>>, x)
<1>1. /\ FlagsKept(q, f, u, x) /\ OnWire(q, m, f, u, w, x) /\ StartOf(<<>>, n)
  BY EmptyQueue DEF Sound
<1>2. FlagsKept(n, f, v, x)
  BY <1>1 DEF FlagsKept
<1>3. OnWire(n, p, f, v, <<>>, x)
  BY <1>1 DEF OnWire
<1> QED BY <1>2, <1>3

LEMMA DropWire ==
    ASSUME BaseInv, BaseInv', WireInv, NEW c \in Conn,
           BadResponse(c) \/ SockClose(c) \/ PutToDeath(c)
    PROVE  WireInv'
<1>1. /\ up[c] \in {"up", "closing"} /\ up[c] # up'[c]
      /\ \E v \in {"closing", "down"} : up' = [up EXCEPT ![c] = v]
      /\ UNCHANGED <<flags, ctx, pick, held>>
  <2>1. up \in [Conn -> UpState]
    BY SoundConn
  <2> QED BY <2>1 DEF BadResponse, SockClose, PutToDeath, qVars, reqVars
<1>2. /\ up'[c] \in {"closing", "down"} /\ \A d \in Conn \ {c} : up'[d] = up[d]
  BY <1>1, SoundConn
<1>3. /\ wire'[c] = <<>> /\ \A d \in Conn \ {c} : wire'[d] = wire[d]
  <2>1. wire \in [Conn -> Seq(Req)] /\ (up[c] # "up" => wire[c] = <<>>)
    BY SoundConn DEF Sound, OnWire
  <2>2. wire' = [wire EXCEPT ![c] = <<>>] \/ (up[c] # "up" /\ wire' = wire)
    BY DEF BadResponse, SockClose, PutToDeath
  <2> QED BY <2>1, <2>2
<1>4. /\ queue'[c] \in Seq(Req)
      /\ \A d \in Conn \ {c} : queue'[d] = queue[d] /\ msgSent'[d] = msgSent[d]
  <2>1. \/ UNCHANGED <<queue, msgSent>>
        \/ /\ queue' = [queue EXCEPT ![c] = Tail(@)]
           /\ msgSent' = [msgSent EXCEPT ![c] = IF @ = Head(queue[c]) THEN NoReq ELSE @]
    BY DEF BadResponse, SockClose, PutToDeath, qVars, Popped
  <2>2. queue' \in [Conn -> Seq(Req)]
    BY DEF BaseInv, QueueTypeOK
  <2> QED BY <2>1, <2>2, HolderFacts
<1>5. /\ FlagsKept(queue'[c], flags[c], up'[c], ctx[c])
      /\ OnWire(queue'[c], msgSent'[c], flags[c], up'[c], <<>>, ctx[c])
  <2> DEFINE v == up'[c]
             n == queue'[c]
             p == msgSent'[c]
  <2>1. v \in {"closing", "down"} /\ n \in Seq(Req)
    BY <1>2, <1>4
  <2> HIDE DEF v, n, p
  <2>2. FlagsKept(n, flags[c], v, ctx[c]) /\ OnWire(n, p, flags[c], v, <<>>, ctx[c])
    BY <1>1, <2>1, SoundConn, ClosedWired
  <2> QED BY <2>2 DEF v, n, p
<1>6. HeldUp'
  BY <1>1, <1>2, HeldUpStays
<1> QED BY <1>1, <1>2, <1>3, <1>4, <1>5, <1>6, WireStep

(* The requests that hold a connection do not hold c.                       *)
LEMMA NotHeldStays ==
    ASSUME BaseInv, WireInv, UNCHANGED <<held, pick>>, NEW c \in Conn, \A r \in held : pick[r] # c,
           \A d \in Conn \ {c} : up'[d] = up[d] /\ flags'[d] = flags[d]
    PROVE  HeldUp'
<1>1. \A r \in held : pick[r] \in Conn
  BY DEF BaseInv, HeldInv
<1> QED BY <1>1 DEF WireInv, HeldUp

LEMMA ReleaseWire ==
    ASSUME BaseInv, WireInv, NEW c \in Conn, tfw_http_conn_release(c)
    PROVE  WireInv'
<1>1. /\ up[c] = "down" /\ ctx[c].pc = "idle" /\ \A r \in held : pick[r] # c
      /\ up' = [up EXCEPT ![c] = "idle"] /\ flags' = [flags EXCEPT ![c] = {}]
      /\ UNCHANGED <<queue, msgSent, wire, ctx, pick, held>>
  BY DEF tfw_http_conn_release, Unlocked, reqVars
<1>2. /\ up'[c] = "idle" /\ flags'[c] = {}
      /\ \A d \in Conn \ {c} : up'[d] = up[d] /\ flags'[d] = flags[d]
  BY <1>1, SoundConn
<1>3. /\ FlagsKept(queue[c], {}, "idle", ctx[c])
      /\ OnWire(queue[c], msgSent[c], {}, "idle", wire[c], ctx[c])
  <2>1. FlagsKept(queue[c], {}, "idle", ctx[c])
    BY <1>1 DEF FlagsKept
  <2>2. OnWire(queue[c], msgSent[c], flags[c], up[c], wire[c], ctx[c])
    BY SoundConn DEF Sound
  <2>3. OnWire(queue[c], msgSent[c], {}, "idle", wire[c], ctx[c])
    BY <1>1, <2>2 DEF OnWire
  <2> QED BY <2>1, <2>3
<1>4. HeldUp'
  BY <1>1, <1>2, NotHeldStays
<1> QED BY <1>1, <1>2, <1>3, <1>4, WireStep

LEMMA ConnInitWire ==
    ASSUME BaseInv, WireInv, NEW c \in Conn, tfw_http_conn_init(c)
    PROVE  WireInv'
<1>1. /\ up[c] = "idle"
      /\ UNCHANGED <<queue, msgSent, wire, ctx, pick, held>>
      /\ \/ queue[c] = <<>> /\ up' = [up EXCEPT ![c] = "up"] /\ flags' = flags
         \/ /\ queue[c] # <<>> /\ up' = [up EXCEPT ![c] = "revived"]
            /\ flags' = [flags EXCEPT ![c] = {"resend"}]
  BY DEF tfw_http_conn_init, reqVars
<1>2. ctx[c].pc = "idle" /\ \A r \in held : pick[r] # c
  BY <1>1 DEF BaseInv, IdleInv
<1>3. /\ flags[c] = {} /\ wire[c] = <<>> /\ StartOf(wire[c], queue[c])
  BY <1>1, SoundConn DEF Sound, FlagsKept, OnWire
<1>4. /\ \A d \in Conn \ {c} : up'[d] = up[d] /\ flags'[d] = flags[d]
      /\ \/ queue[c] = <<>> /\ up'[c] = "up" /\ flags'[c] = {}
         \/ queue[c] # <<>> /\ up'[c] = "revived" /\ flags'[c] = {"resend"}
  BY <1>1, <1>3, SoundConn
<1>5. FlagsKept(queue[c], flags'[c], up'[c], ctx[c])
  BY <1>2, <1>4 DEF FlagsKept
<1>6. OnWire(queue[c], msgSent[c], flags'[c], up'[c], wire[c], ctx[c])
  BY <1>2, <1>3, <1>4 DEF OnWire
<1>7. HeldUp'
  BY <1>1, <1>2, <1>4, NotHeldStays
<1> QED BY <1>1, <1>4, <1>5, <1>6, <1>7, WireStep

LEMMA ShrinkWire ==
    ASSUME BaseInv, BaseInv', WireInv, NEW c \in Conn,
           tfw_http_conn_shrink_fwdq(c) \/ tfw_http_conn_shrink_fwdq_resched(c)
    PROVE  WireInv'
<1>1. /\ up[c] = "idle" /\ UNCHANGED <<flags, up, wire, ctx, pick, held>>
      /\ \A d \in Conn \ {c} : queue'[d] = queue[d] /\ msgSent'[d] = msgSent[d]
  <2>1. /\ up[c] = "idle" /\ UNCHANGED <<flags, up, wire, ctx, pick, held>>
    BY DEF tfw_http_conn_shrink_fwdq, tfw_http_conn_shrink_fwdq_resched
  <2>2. CASE tfw_http_conn_shrink_fwdq(c)
    <3>1. PICK r \in Range(queue[c]) :
             /\ Delisted(c, r)
             /\ msgSent' = [msgSent EXCEPT ![c] = IF @ = r THEN MsgSentPrev(queue[c], r) ELSE @]
      BY <2>2 DEF tfw_http_conn_shrink_fwdq
    <3>2. queue' = [queue EXCEPT ![c] = RemoveAt(@, IndexOf(r, @))]
      BY <3>1 DEF Delisted
    <3>3. queue \in [Conn -> Seq(Req)] /\ msgSent \in [Conn -> MaybeReq]
      BY HolderFacts
    <3> QED BY <2>1, <3>1, <3>2, <3>3
  <2>3. CASE tfw_http_conn_shrink_fwdq_resched(c)
    BY <2>1, <2>3, HolderFacts DEF tfw_http_conn_shrink_fwdq_resched, QueueReset
  <2> QED BY <2>2, <2>3
<1>2. ctx[c].pc = "idle"
  BY <1>1 DEF BaseInv, IdleInv
<1>3. queue'[c] \in Seq(Req)
  BY DEF BaseInv, QueueTypeOK
<1>4. StartOf(<<>>, queue'[c])
  <2> DEFINE n == queue'[c]
  <2>1. n \in Seq(Req)
    BY <1>3
  <2> HIDE DEF n
  <2>2. StartOf(<<>>, n)
    BY <2>1, EmptyQueue
  <2> QED BY <2>2 DEF n
<1>5. flags[c] = {} /\ wire[c] = <<>>
  BY <1>1, SoundConn DEF Sound, FlagsKept, OnWire
<1>6. FlagsKept(queue'[c], flags[c], up[c], ctx[c])
  BY <1>1, <1>2, <1>5 DEF FlagsKept
<1>7. OnWire(queue'[c], msgSent'[c], flags[c], up[c], wire[c], ctx[c])
  BY <1>1, <1>2, <1>4, <1>5 DEF OnWire
<1>8. HeldUp'
  BY <1>1, HeldUpStays
<1> QED BY <1>1, <1>6, <1>7, <1>8, WireStep
LEMMA RepairWire ==
    ASSUME BaseInv, BaseInv', WireInv, NEW c \in Conn, tfw_http_conn_repair(c)
    PROVE  WireInv'
<1> DEFINE n == queue'[c]
           p == msgSent'[c]
           f == flags[c]
<1>1. /\ up[c] = "revived" /\ ctx[c].pc = "idle" /\ up' = [up EXCEPT ![c] = "up"]
      /\ UNCHANGED <<wire, pick, held>>
  BY DEF tfw_http_conn_repair, Unlocked
<1>2. /\ n \in Seq(Req) /\ p \in MaybeReq /\ NoDup(n) /\ (p = NoReq \/ In(p, n))
      /\ \A d \in Conn \ {c} : queue'[d] = queue[d] /\ msgSent'[d] = msgSent[d]
      /\ RepairStart(c, n, p)
  BY FwdAssumption, RepairQueue
<1>3. f = {"resend"} /\ wire[c] = <<>> /\ flags \in [Conn -> SUBSET Flag] /\ ctx \in [Conn -> Ctx] /\ ctx[c] = Idle
  BY <1>1, SoundConn, HolderFacts DEF Sound, FlagsKept, OnWire, CursorOf, CursorIdle
<1>4. up'[c] = "up" /\ \A d \in Conn \ {c} : up'[d] = up[d]
  BY <1>1, SoundConn
<1>5. \A r \in held : pick[r] # c
  BY <1>1 DEF WireInv, HeldUp
<1> HIDE DEF n, p
<1>6. /\ p # NoReq =>
            LET y == Resend(n, p, "repair") IN
            FlagsKept(n, f, "up", y) /\ OnWire(n, p, f, "up", <<>>, y)
      /\ p = NoReq =>
            LET y == Unsent(n, p, "repair", NoReq)
                g == f \cup {"qforwd"}
            IN  FlagsKept(n, g, "up", y) /\ OnWire(n, p, g, "up", <<>>, y)
      /\ n = <<>> => FlagsKept(n, {}, "up", Idle) /\ OnWire(n, p, {}, "up", <<>>, Idle)
  BY <1>2, <1>3, RepairWired
<1>7. ASSUME NEW y, NEW h, FlagsKept(n, h, "up", y), OnWire(n, p, h, "up", <<>>, y),
             ctx'[c] = y, \A d \in Conn \ {c} : ctx'[d] = ctx[d],
             flags'[c] = h, \A d \in Conn \ {c} : flags'[d] = flags[d]
      PROVE  WireInv'
  <2>1. HeldUp'
    BY <1>1, <1>4, <1>5, <1>7, NotHeldStays
  <2> QED BY <1>1, <1>2, <1>3, <1>4, <1>7, <2>1, WireStep DEF n, p
<1>8. ASSUME NEW y, ctx' = [ctx EXCEPT ![c] = y]
      PROVE  ctx'[c] = y /\ \A d \in Conn \ {c} : ctx'[d] = ctx[d]
  BY <1>3, <1>8
<1>9. ASSUME NEW h, flags' = [flags EXCEPT ![c] = h]
      PROVE  flags'[c] = h /\ \A d \in Conn \ {c} : flags'[d] = flags[d]
  BY <1>3, <1>9
<1>10. CASE p # NoReq /\ ctx' = [ctx EXCEPT ![c] = Resend(n, p, "repair")] /\ flags' = flags
  <2> DEFINE y == Resend(n, p, "repair")
  <2>1. FlagsKept(n, f, "up", y) /\ OnWire(n, p, f, "up", <<>>, y)
    BY <1>6, <1>10
  <2>2. ctx'[c] = y /\ \A d \in Conn \ {c} : ctx'[d] = ctx[d]
    BY <1>8, <1>10
  <2> HIDE DEF y
  <2> QED BY <1>7, <1>10, <2>1, <2>2
<1>11. CASE /\ p = NoReq /\ ctx' = [ctx EXCEPT ![c] = Unsent(n, p, "repair", NoReq)]
            /\ flags' = [flags EXCEPT ![c] = f \cup {"qforwd"}]
  <2> DEFINE y == Unsent(n, p, "repair", NoReq)
             g == f \cup {"qforwd"}
  <2>1. FlagsKept(n, g, "up", y) /\ OnWire(n, p, g, "up", <<>>, y)
    BY <1>6, <1>11
  <2>2. ctx'[c] = y /\ \A d \in Conn \ {c} : ctx'[d] = ctx[d]
    BY <1>8, <1>11
  <2>3. flags'[c] = g /\ \A d \in Conn \ {c} : flags'[d] = flags[d]
    BY <1>9, <1>11
  <2> HIDE DEF y, g
  <2> QED BY <1>7, <2>1, <2>2, <2>3
<1>12. CASE n = <<>> /\ flags' = [flags EXCEPT ![c] = {}] /\ ctx' = ctx
  <2>1. flags'[c] = {} /\ \A d \in Conn \ {c} : flags'[d] = flags[d]
    BY <1>9, <1>12
  <2> QED BY <1>3, <1>6, <1>7, <1>12, <2>1
<1> QED BY <1>2, <1>10, <1>11, <1>12 DEF RepairStart
-----------------------------------------------------------------------------
(* The theorems                                                             *)

LEMMA InitWire == ASSUME Init PROVE WireInv
<1>1. ASSUME NEW c \in Conn PROVE Wired(c)
  <2>1. FlagsKept(<<>>, {}, "up", Idle) /\ OnWire(<<>>, NoReq, {}, "up", <<>>, Idle)
    BY CutWired DEF UpState
  <2> QED BY <2>1 DEF Init, Wired
<1>2. HeldUp
  BY DEF Init, HeldUp
<1> QED BY <1>1, <1>2 DEF WireInv

LEMMA NextWire ==
    ASSUME FwdAssumption, ~StaleCheck, BaseInv, BaseInv', WireInv, Next
    PROVE  WireInv'
<1>1. ASSUME NEW r \in Req, Schedule(r) \/ ClearNip(r) PROVE WireInv'
  BY <1>1, ScheduleWire, FwdWire DEF Schedule
<1>2. ASSUME NEW c \in Conn, LockHolder(c) PROVE WireInv'
  BY <1>2, UnsentStopWire, UnsentEvictWire, UnsentSendWire, UnsentBusyWire, ResendEvictWire,
     ResendSendWire, ResendBrokenWire, ResendBusyWire, ResendEndWire DEF LockHolder
<1>3. ASSUME NEW c \in Conn, Failover(c) PROVE WireInv'
  BY <1>3, DropWire, ReleaseWire, ConnInitWire, RepairWire, ShrinkWire DEF Failover
<1>4. ASSUME NEW c \in Conn, tfw_http_resp_cache(c) \/ BadResponse(c) \/ SockClose(c) PROVE WireInv'
  BY <1>4, RespWire, DropWire
<1> QED BY <1>1, <1>2, <1>3, <1>4 DEF Next

(* With no lock holder, what is on the wire of an established connection    *)
(* drives the queue.                                                        *)
LEMMA WireIsDriven ==
    ASSUME BaseInv, WireInv
    PROVE  QueueIsDriven /\ NotRestrictedForever
<1> SUFFICES ASSUME NEW c \in Conn, up[c] = "up", ctx[c].pc = "idle"
             PROVE  /\ queue[c] # <<>> => wire[c] # <<>>
                    /\ queue[c] = <<>> => "resend" \notin flags[c]
  BY DEF QueueIsDriven, NotRestrictedForever, Unlocked, Restricted
<1> DEFINE q == queue[c]
           w == wire[c]
<1>1. /\ (q = <<>> /\ flags[c] = {}) \/ Len(w) > 0
      /\ StartOf(w, q) /\ q \in Seq(Req) /\ Len(q) \in Nat /\ w \in Seq(Req) /\ Len(w) \in Nat
  BY SoundConn DEF Sound, OnWire
<1>2. (q = <<>> <=> Len(q) = 0) /\ (w = <<>> <=> Len(w) = 0)
  BY <1>1, EmptyQueue
<1> HIDE DEF q, w
<1>3. /\ q # <<>> => w # <<>>
      /\ q = <<>> => "resend" \notin flags[c]
  BY <1>1, <1>2 DEF StartOf
<1> QED BY <1>3 DEF q, w

LEMMA StartIsPrefix ==
    ASSUME NEW q \in Seq(Req), NEW w \in Seq(Req), StartOf(w, q)
    PROVE  IsPrefix(w, q)
<1>1. /\ Len(w) \in Nat /\ Len(q) \in Nat /\ Len(w) <= Len(q)
      /\ \A k \in 1..Len(w) : w[k] = q[k] /\ w[k] \in Req /\ q[k] \in Req
  BY LenProperties, ElementOfSeq DEF StartOf
<1> DEFINE l == Len(w)
           a == SubSeq(w, 1, l)
           b == SubSeq(q, 1, l)
<1>2. l \in Nat /\ l \in Int /\ 1 \in Int /\ \A k \in 1..l : w[k] \in Req /\ q[k] \in Req /\ w[k] = q[k]
  BY <1>1
<1> HIDE DEF l
<1>3. a \in Seq(Req) /\ Len(a) = (IF 1 <= l THEN l - 1 + 1 ELSE 0) /\ \A k \in 1 .. l - 1 + 1 : a[k] = w[1 + k - 1]
  BY <1>2, SubSeqProperties
<1>4. b \in Seq(Req) /\ Len(b) = (IF 1 <= l THEN l - 1 + 1 ELSE 0) /\ \A k \in 1 .. l - 1 + 1 : b[k] = q[1 + k - 1]
  BY <1>2, SubSeqProperties
<1> HIDE DEF a, b
<1>5. Len(a) = l /\ Len(b) = l
  BY <1>2, <1>3, <1>4
<1>6. \A k \in 1..l : a[k] = b[k]
  BY <1>2, <1>3, <1>4
<1>7. a = b
  BY <1>3, <1>4, <1>5, <1>6, SeqEqual
<1> QED BY <1>1, <1>7 DEF IsPrefix, a, b, l

LEMMA WireIsMatched == ASSUME BaseInv, WireInv PROVE WireMatchesQueue
<1> SUFFICES ASSUME NEW c \in Conn
             PROVE  /\ IsPrefix(wire[c], queue[c])
                    /\ up[c] = "up" /\ ctx[c].pc = "idle" /\ ("resend" \notin flags[c] \/ "qforwd" \in flags[c])
                       => Len(wire[c]) = IF msgSent[c] = NoReq THEN 0 ELSE IndexOf(msgSent[c], queue[c])
  BY DEF WireMatchesQueue, Unlocked, Restricted
<1> DEFINE q == queue[c]
           w == wire[c]
           m == msgSent[c]
<1>1. /\ q \in Seq(Req) /\ NoDup(q) /\ Len(q) \in Nat /\ w \in Seq(Req) /\ Len(w) \in Nat
      /\ StartOf(w, q)
      /\ up[c] = "up" /\ ctx[c].pc = "idle" =>
            (q = <<>> /\ flags[c] = {}) \/ (Len(w) > 0 /\ m # NoReq /\ SentUpTo(q, m, flags[c], w))
      /\ ctx[c].pc = "idle" => m = NoReq \/ In(m, q)
  BY SoundConn, HolderFacts DEF Sound, OnWire, CursorOf, CursorIdle
<1> HIDE DEF q, w, m
<1>2. IsPrefix(w, q)
  BY <1>1, StartIsPrefix
<1>3. ASSUME up[c] = "up", ctx[c].pc = "idle", "resend" \notin flags[c] \/ "qforwd" \in flags[c]
      PROVE  Len(w) = IF m = NoReq THEN 0 ELSE IndexOf(m, q)
  <2>1. CASE q = <<>>
    <3>1. m = NoReq
      BY <1>1, <1>3, <2>1, NothingIn DEF In
    <3>2. Len(q) = 0
      BY <1>1, <2>1, EmptyQueue
    <3> QED BY <1>1, <3>1, <3>2 DEF StartOf
  <2>2. CASE q # <<>>
    <3>1. Len(w) \in 1..Len(q) /\ m = q[Len(w)] /\ m # NoReq
      BY <1>1, <1>3, <2>2 DEF SentUpTo, StartOf
    <3>2. IndexOf(q[Len(w)], q) = Len(w)
      BY <1>1, <3>1, IndexIs
    <3> QED BY <3>1, <3>2
  <2> QED BY <2>1, <2>2
<1> QED BY <1>2, <1>3 DEF q, w, m

(* The inductive invariant of the wire.                                     *)
THEOREM WireInvariance == ASSUME ~StaleCheck PROVE Spec => [](BaseInv /\ WireInv)
<1>1. Init => BaseInv /\ WireInv
  BY FwdAssumption, InitBase, InitWire
<1>2. BaseInv /\ WireInv /\ [Next]_vars => (BaseInv /\ WireInv)'
  <2>1. ASSUME BaseInv, WireInv, UNCHANGED vars PROVE (BaseInv /\ WireInv)'
    <3>1. BaseInv'
      BY <2>1, StutterBase
    <3>2. WireInv'
      BY <2>1, QuietWire DEF vars, qVars, reqVars
    <3> QED BY <3>1, <3>2
  <2> QED BY <2>1, FwdAssumption, NextBase, NextWire
<1> QED BY <1>1, <1>2, PTL DEF Spec

(* While a scheduler's look at a connection is not stale, no request is     *)
(* lost, in two places or stuck: an established connection with requests    *)
(* and no lock holder has one on the wire whose response moves the queue    *)
(* on, and with an empty queue it can be scheduled again.                   *)
THEOREM NoRequestIsLost == ASSUME ~StaleCheck PROVE Spec => []NoneLost
<1>1. BaseInv /\ WireInv => NoneLost
  BY FwdAssumption, BaseIsTypeOK, BaseIsOneHome, WireIsDriven DEF NoneLost
<1>2. Spec => [](BaseInv /\ WireInv)
  BY WireInvariance
<1> QED BY <1>1, <1>2, PTL

(* While a scheduler's look at a connection is not stale, the requests on   *)
(* the wire are how the forwarding queue begins: responses are paired with  *)
(* the right requests through evictions, errors, drops and re-sending.      *)
THEOREM WireAlwaysMatches == ASSUME ~StaleCheck PROVE Spec => []WireMatchesQueue
<1>1. BaseInv /\ WireInv => WireMatchesQueue
  BY WireIsMatched
<1>2. Spec => [](BaseInv /\ WireInv)
  BY WireInvariance
<1> QED BY <1>1, <1>2, PTL
LEMMA NextOwn ==
    ASSUME BaseInv, WireInv, OwnResponse, Next
    PROVE  OwnResponse'
<1>1. \/ UNCHANGED got
      \/ \E r \in Req : got' = [got EXCEPT ![r] = "error"]
      \/ \E c \in Conn : tfw_http_resp_cache(c)
  <2>1. ASSUME NEW r \in Req, Schedule(r) \/ ClearNip(r)
        PROVE  UNCHANGED got \/ got' = [got EXCEPT ![r] = "error"]
    BY <2>1 DEF Schedule, tfw_srv_conn_restricted, GetIfLiveLate, tfw_http_get_srv_conn, NoSrvConn,
         tfw_http_req_fwd, tfw_http_fwdq_resched, tfw_http_req_zap_error, ClearNip, reqVars
  <2>2. ASSUME NEW c \in Conn, LockHolder(c) PROVE UNCHANGED got
    BY <2>2 DEF LockHolder, UnsentEnd, UnsentEvict, UnsentSend, UnsentBroken, UnsentBusy,
         ResendEvict, ResendSend, ResendBroken, ResendBusy, ResendEnd
  <2>3. ASSUME NEW c \in Conn, Failover(c) \/ BadResponse(c) \/ SockClose(c) PROVE UNCHANGED got
    BY <2>3 DEF Failover, PutToDeath, tfw_http_conn_release, tfw_http_conn_init, tfw_http_conn_repair,
         tfw_http_conn_shrink_fwdq, tfw_http_conn_shrink_fwdq_resched, BadResponse, SockClose, reqVars
  <2> QED BY <2>1, <2>2, <2>3 DEF Next
<1>2. got \in [Req -> Req \cup {NoReq, "error"}]
  BY DEF BaseInv, ReqTypeOK
<1>3. ASSUME NEW c \in Conn, tfw_http_resp_cache(c) PROVE OwnResponse'
  <2> DEFINE q == queue[c]
             w == wire[c]
  <2>1. /\ q # <<>> /\ w # <<>> /\ q \in Seq(Req) /\ w \in Seq(Req) /\ StartOf(w, q)
        /\ got' = [got EXCEPT ![Head(q)] = Head(w)]
    BY <1>3, SoundConn DEF tfw_http_resp_cache, Sound, OnWire
  <2> HIDE DEF q, w
  <2>2. Len(w) \in Nat /\ Len(w) > 0 /\ Head(w) = w[1] /\ Head(q) = q[1] /\ Head(q) \in Req
    BY <2>1, HeadTailProperties, EmptyQueue
  <2>3. Head(w) = Head(q)
    BY <2>1, <2>2 DEF StartOf
  <2> QED BY <1>2, <2>1, <2>2, <2>3 DEF OwnResponse
<1> QED BY <1>1, <1>2, <1>3 DEF OwnResponse

(* While a scheduler's look at a connection is not stale, a request gets an *)
(* error response or the one that the server sent for it.  The stale look   *)
(* is what breaks this in the code.                                         *)
THEOREM ResponsesAreOwn == ASSUME ~StaleCheck PROVE Spec => []OwnResponse
<1>1. Init => OwnResponse
  BY DEF Init, OwnResponse
<1>2. BaseInv /\ WireInv /\ OwnResponse /\ [Next]_vars => OwnResponse'
  BY NextOwn DEF OwnResponse, vars, reqVars
<1>3. Spec => [](BaseInv /\ WireInv)
  BY WireInvariance
<1> QED BY <1>1, <1>2, <1>3, PTL DEF Spec

-----------------------------------------------------------------------------
(* Non-idempotent requests, with TFW_SRV_RETRY_NIP off                      *)

Sent == {r \in Req : sent[r] > 0}
Hot == Sent \cap nip

(* A queue is cold when no request in it is both sent and non-idempotent.   *)
Cold(q, H) == \A k \in 1..Len(q) : q[k] \notin H
Repairing(f, u) == "resend" \in f /\ "qforwd" \notin f /\ u # "revived"

(* Requests are sent, at first or again, from cold queues only; msg_sent    *)
(* alone may be hot, and what is before it or before the end of the         *)
(* re-sending loop has been sent.                                           *)
NipOf(q, m, f, u, x, S, H) ==
    /\ x.pc # "idle" \/ Repairing(f, u) => Cold(q, H)
    /\ \A k \in 1..Len(q) : q[k] \in H => q[k] = m
    /\ \A k \in 1..Len(q) : q[k] = m => \A j \in 1..k : q[j] \in S
    /\ x.pc = "resend" => \A k \in 1..Len(q) : k < x.i + x.left => q[k] \in S
Nipped(c) == NipOf(queue[c], msgSent[c], flags[c], up[c], ctx[c], Sent, Hot)
NipInv ==
    /\ \A c \in Conn : Nipped(c)
    /\ \A r \in nip : sent[r] <= 1
    /\ fresh \cap Hot = {}
-----------------------------------------------------------------------------
(* One connection                                                           *)

LEMMA ColdIsNipped ==
    ASSUME NEW q, NEW m, NEW f, NEW u, NEW x, NEW S, NEW H, Cold(q, H), x.pc # "resend",
           \A k \in 1..Len(q) : q[k] = m => \A j \in 1..k : q[j] \in S
    PROVE  NipOf(q, m, f, u, x, S, H)
BY DEF NipOf, Cold

(* A request leaves the queue.                                              *)
LEMMA NipRemoved ==
    ASSUME NEW q \in Seq(Req), NEW i \in 1..Len(q), NEW m, NEW S, NEW H
    PROVE  LET n == RemoveAt(q, i) IN
           /\ Cold(q, H) => Cold(n, H)
           /\ (\A k \in 1..Len(q) : q[k] \in H => q[k] = m) =>
                 /\ \A k \in 1..Len(n) : n[k] \in H => n[k] = m
                 /\ NoDup(q) /\ q[i] = m => Cold(n, H)
           /\ (\A k \in 1..Len(q) : q[k] = m => \A j \in 1..k : q[j] \in S) =>
                 \A k \in 1..Len(n) : n[k] = m => \A j \in 1..k : n[j] \in S
           /\ \A b \in Nat : i < b /\ (\A k \in 1..Len(q) : k < b => q[k] \in S) =>
                                 \A k \in 1..Len(n) : k < b - 1 => n[k] \in S
<1> DEFINE n == RemoveAt(q, i)
<1>1. /\ Len(q) \in Nat /\ Len(n) = Len(q) - 1
      /\ \A j \in 1 .. Len(q) - 1 : n[j] = IF j < i THEN q[j] ELSE q[j + 1]
  BY LenProperties, RemovedAt
<1> HIDE DEF n
<1>2. \A k \in 1..Len(n) : \E j \in 1..Len(q) : n[k] = q[j] /\ j # i /\ (j = k \/ j = k + 1)
  BY <1>1
<1>3. Cold(q, H) => Cold(n, H)
  BY <1>2 DEF Cold
<1>4. (\A k \in 1..Len(q) : q[k] \in H => q[k] = m) =>
                 /\ \A k \in 1..Len(n) : n[k] \in H => n[k] = m
                 /\ NoDup(q) /\ q[i] = m => Cold(n, H)
  BY <1>2 DEF Cold, NoDup
<1>5. ASSUME \A k \in 1..Len(q) : q[k] = m => \A j \in 1..k : q[j] \in S,
             NEW k \in 1..Len(n), n[k] = m, NEW j \in 1..k
      PROVE  n[j] \in S
  <2>1. PICK a \in 1..Len(q) : n[k] = q[a] /\ (IF k < i THEN a = k ELSE a = k + 1)
    BY <1>1
  <2>2. PICK b \in 1..Len(q) : n[j] = q[b] /\ (IF j < i THEN b = j ELSE b = j + 1)
    BY <1>1
  <2>3. b \in 1..a
    BY <1>1, <2>1, <2>2
  <2> QED BY <1>5, <2>1, <2>2, <2>3
<1>6. ASSUME NEW b \in Nat, i < b, \A k \in 1..Len(q) : k < b => q[k] \in S,
             NEW k \in 1..Len(n), k < b - 1
      PROVE  n[k] \in S
  BY <1>1, <1>6
<1> QED BY <1>3, <1>4, <1>5, <1>6 DEF n

(* The loop of tfw_http_conn_resend starts at the first request that was    *)
(* sent, and that of tfw_http_conn_fwd_unsent behind the last one.          *)
LEMMA ResendStarts ==
    ASSUME NEW q \in Seq(Req), NoDup(q), NEW m, In(m, q), NEW f, NEW u, NEW S, NEW H, Cold(q, H),
           \A k \in 1..Len(q) : q[k] = m => \A j \in 1..k : q[j] \in S, NEW by
    PROVE  NipOf(q, m, f, u, Resend(q, m, by), S, H)
<1> DEFINE y == Resend(q, m, by)
<1>1. y.pc = "resend" /\ y.i = 1 /\ y.left = IndexOf(m, q)
  BY DEF Resend
<1>2. IndexOf(m, q) \in 1..Len(q) /\ q[IndexOf(m, q)] = m /\ Len(q) \in Nat
  BY IndexFound, LenProperties
<1> HIDE DEF y
<1>3. \A k \in 1..Len(q) : k < y.i + y.left => k \in 1..IndexOf(m, q)
  BY <1>1, <1>2
<1>4. \A k \in 1..Len(q) : k < y.i + y.left => q[k] \in S
  BY <1>2, <1>3
<1>5. NipOf(q, m, f, u, y, S, H)
  BY <1>4 DEF NipOf, Cold
<1> QED BY <1>5 DEF y

LEMMA UnsentStarts ==
    ASSUME NEW q, NEW m, NEW f, NEW u, NEW S, NEW H, Cold(q, H),
           \A k \in 1..Len(q) : q[k] = m => \A j \in 1..k : q[j] \in S, NEW by, NEW r
    PROVE  NipOf(q, m, f, u, Unsent(q, m, by, r), S, H)
<1>1. Unsent(q, m, by, r).pc # "resend"
  BY DEF Unsent
<1> QED BY <1>1, ColdIsNipped

(* A queue whose msg_sent is not on hold is cold.                           *)
LEMMA NotOnHold ==
    ASSUME BaseInv, NEW q, NEW m, ~OnHold(m), \A k \in 1..Len(q) : q[k] \in Hot => q[k] = m
    PROVE  Cold(q, Hot)
BY DEF OnHold, Cold, Hot
-----------------------------------------------------------------------------
(* The steps of the specification                                           *)

LEMMA NipFacts ==
    ASSUME BaseInv, WireInv, NipInv, NEW c \in Conn
    PROVE  /\ Nipped(c)
           /\ NipOf(queue[c], msgSent[c], flags[c], up[c], ctx[c], Sent, Hot)
           /\ FlagsKept(queue[c], flags[c], up[c], ctx[c])
           /\ sent \in [Req -> 0..2] /\ nip \subseteq Req /\ fresh \subseteq Req
<1>1. sent \in [Req -> 0..2] /\ fresh \subseteq Req
  BY DEF BaseInv, ReqTypeOK
<1> QED BY <1>1, NipIsReq, SoundConn DEF NipInv, Nipped, Sound

(* Nothing is sent.                                                         *)
LEMMA Unsending ==
    ASSUME BaseInv, NipInv, sent' = sent, nip' = nip, fresh' \subseteq fresh
    PROVE  /\ Sent' = Sent /\ Hot' = Hot /\ fresh' \cap Hot' = {}
           /\ \A r \in nip' : sent'[r] <= 1
BY DEF NipInv, Sent, Hot

LEMMA NipStep ==
    ASSUME NipInv, sent' = sent, nip' = nip, fresh' \subseteq fresh, BaseInv, NEW c \in Conn,
           \A d \in Conn \ {c} : /\ queue'[d] = queue[d] /\ msgSent'[d] = msgSent[d]
                                 /\ flags'[d] = flags[d] /\ up'[d] = up[d] /\ ctx'[d] = ctx[d],
           NipOf(queue'[c], msgSent'[c], flags'[c], up'[c], ctx'[c], Sent, Hot)
    PROVE  NipInv'
<1>1. /\ Sent' = Sent /\ Hot' = Hot /\ fresh' \cap Hot' = {}
      /\ \A r \in nip' : sent'[r] <= 1
  BY Unsending
<1>2. ASSUME NEW d \in Conn PROVE Nipped(d)'
  <2>1. CASE d = c
    BY <1>1, <2>1 DEF Nipped
  <2>2. CASE d # c
    BY <1>1, <2>2 DEF NipInv, Nipped
  <2> QED BY <2>1, <2>2
<1> QED BY <1>1, <1>2 DEF NipInv

(* Steps that leave the queues alone.                                       *)
LEMMA NipLess ==
    ASSUME BaseInv, NipInv, UNCHANGED <<queue, msgSent, flags, up, ctx, sent>>,
           nip' \subseteq nip, fresh' \cap nip' \cap Sent = {}
    PROVE  NipInv'
<1>1. Sent' = Sent /\ Hot' \subseteq Hot /\ Hot' = Sent \cap nip'
  BY DEF Sent, Hot
<1>2. ASSUME NEW c \in Conn PROVE Nipped(c)'
  <2>1. NipOf(queue[c], msgSent[c], flags[c], up[c], ctx[c], Sent, Hot)
    BY DEF NipInv, Nipped
  <2> DEFINE q == queue[c]
             m == msgSent[c]
             x == ctx[c]
             f == flags[c]
             u == up[c]
             S == Sent
             H == Hot
             G == Hot'
  <2>2. NipOf(q, m, f, u, x, S, H) /\ G \subseteq H
    BY <1>1, <2>1
  <2> HIDE DEF q, m, x, f, u, S, H, G
  <2>3. NipOf(q, m, f, u, x, S, G)
    BY <2>2 DEF NipOf, Cold
  <2> QED BY <1>1, <2>3 DEF Nipped, q, m, x, f, u, S, G
<1>3. \A r \in nip' : sent'[r] <= 1
  BY DEF NipInv
<1> QED BY <1>1, <1>2, <1>3 DEF NipInv

LEMMA ScheduleNip ==
    ASSUME ~RetryNip, BaseInv, NipInv, NEW r \in Req,
           \/ \E c \in Conn : tfw_srv_conn_restricted(r, c)
           \/ GetIfLiveLate(r)
           \/ \E c \in Conn : tfw_http_get_srv_conn(r, c)
           \/ NoSrvConn(r) \/ tfw_http_fwdq_resched(r) \/ tfw_http_req_zap_error(r) \/ ClearNip(r)
    PROVE  NipInv'
<1>1. /\ UNCHANGED <<queue, msgSent, flags, up, ctx, sent>>
      /\ nip' \subseteq nip
      /\ fresh' \subseteq fresh \/ (nip' = nip /\ r \notin nip /\ fresh' = fresh \cup {r})
  BY DEF tfw_srv_conn_restricted, GetIfLiveLate, tfw_http_get_srv_conn, NoSrvConn,
         tfw_http_fwdq_resched, tfw_http_req_zap_error, ClearNip, qVars, reqVars
<1>2. fresh' \cap nip' \cap Sent = {}
  BY <1>1 DEF NipInv, Hot
<1> QED BY <1>1, <1>2, NipLess
LEMMA NipEnlisted ==
    ASSUME NEW q \in Seq(Req), NEW r \in Req, ~In(r, q), NEW m, m = NoReq \/ In(m, q),
           NEW S, NEW H, r \notin H
    PROVE  LET n == Append(q, r) IN
           /\ Cold(q, H) => Cold(n, H)
           /\ (\A k \in 1..Len(q) : q[k] \in H => q[k] = m) =>
                 \A k \in 1..Len(n) : n[k] \in H => n[k] = m
           /\ (\A k \in 1..Len(q) : q[k] = m => \A j \in 1..k : q[j] \in S) =>
                 \A k \in 1..Len(n) : n[k] = m => \A j \in 1..k : n[j] \in S
<1> DEFINE n == Append(q, r)
<1>1. /\ Len(q) \in Nat /\ Len(n) = Len(q) + 1 /\ n[Len(q) + 1] = r
      /\ \A k \in 1..Len(q) : n[k] = q[k]
  BY AppendProperties, LenProperties
<1>2. r # m
  BY FwdAssumption DEF FwdAssumption, NoReq
<1> HIDE DEF n
<1>3. \A k \in 1..Len(n) : (k \in 1..Len(q) /\ n[k] = q[k]) \/ n[k] = r
  BY <1>1
<1>4. Cold(q, H) => Cold(n, H)
  BY <1>3 DEF Cold
<1>5. (\A k \in 1..Len(q) : q[k] \in H => q[k] = m) =>
                 \A k \in 1..Len(n) : n[k] \in H => n[k] = m
  BY <1>3
<1>6. ASSUME \A k \in 1..Len(q) : q[k] = m => \A j \in 1..k : q[j] \in S,
             NEW k \in 1..Len(n), n[k] = m, NEW j \in 1..k
      PROVE  n[j] \in S
  <2>1. k \in 1..Len(q) /\ q[k] = m
    BY <1>2, <1>3, <1>6
  <2>2. j \in 1..Len(q)
    BY <1>1, <2>1
  <2> QED BY <1>1, <1>6, <2>1, <2>2
<1> QED BY <1>4, <1>5, <1>6 DEF n

LEMMA FwdNip ==
    ASSUME BaseInv, WireInv, NipInv, NEW r \in Req, NEW c \in Conn, tfw_http_req_fwd(r, c)
    PROVE  NipInv'
<1>1. /\ r \in held /\ pick[r] = c /\ ctx[c].pc = "idle" /\ fresh' \subseteq fresh
      /\ UNCHANGED <<msgSent, flags, up, nip, sent>>
  BY DEF tfw_http_req_fwd, Unlocked
<1>2. ctx[c] = Idle /\ (msgSent[c] = NoReq \/ In(msgSent[c], queue[c]))
  BY <1>1, HolderFacts DEF CursorOf, CursorIdle
<1>3. r \in fresh /\ r \notin Hot /\ ~In(r, queue[c])
  <2>1. r \in fresh
    BY <1>1, FwdAssumption DEF BaseInv, HeldInv, Owner, FwdAssumption, NoReq
  <2>2. ~InQ(r, queue)
    BY <2>1 DEF BaseInv, HomeInv, Placed
  <2> QED BY <2>1, <2>2 DEF NipInv, InQ
<1> DEFINE q == queue[c]
           m == msgSent[c]
           f == flags[c]
           u == up[c]
           n == Append(q, r)
<1>4. /\ Cold(q, Hot) => Cold(n, Hot)
      /\ \A k \in 1..Len(n) : n[k] \in Hot => n[k] = m
      /\ \A k \in 1..Len(n) : n[k] = m => \A j \in 1..k : n[j] \in Sent
      /\ NipOf(q, m, f, u, Idle, Sent, Hot)
      /\ \A k \in 1..Len(q) : q[k] \in Hot => q[k] = m
  <2>1. NipOf(q, m, f, u, Idle, Sent, Hot) /\ q \in Seq(Req)
    BY <1>2, NipFacts, HolderFacts
  <2>2. /\ \A k \in 1..Len(q) : q[k] \in Hot => q[k] = m
        /\ \A k \in 1..Len(q) : q[k] = m => \A j \in 1..k : q[j] \in Sent
    BY <2>1 DEF NipOf
  <2>3. ~In(r, q) /\ (m = NoReq \/ In(m, q))
    BY <1>2, <1>3
  <2> DEFINE S == Sent
             H == Hot
  <2> HIDE DEF q, m, S, H
  <2> QED BY <1>3, <2>1, <2>2, <2>3, NipEnlisted DEF S, H
<1>5. queue' = [queue EXCEPT ![c] = Append(@, r)] => queue'[c] = n /\ \A d \in Conn \ {c} : queue'[d] = queue[d]
  BY HolderFacts
<1> HIDE DEF n
<1>6. CASE queue' = [queue EXCEPT ![c] = Append(@, r)] /\ ctx' = ctx
  <2>1. NipOf(n, m, f, u, Idle, Sent, Hot)
    BY <1>4, IdleFields DEF NipOf
  <2> QED BY <1>1, <1>2, <1>5, <1>6, <2>1, NipStep
<1>7. CASE queue' = queue /\ ctx' = ctx
  BY <1>1, <1>2, <1>4, <1>7, NipStep
<1>8. CASE /\ ~OnHold(m) /\ queue' = [queue EXCEPT ![c] = Append(@, r)]
           /\ \E by : ctx' = [ctx EXCEPT ![c] = Unsent(queue'[c], m, by, r)]
  <2>1. PICK by : ctx' = [ctx EXCEPT ![c] = Unsent(n, m, by, r)]
    BY <1>5, <1>8
  <2>2. ctx'[c] = Unsent(n, m, by, r) /\ \A d \in Conn \ {c} : ctx'[d] = ctx[d]
    BY <2>1, HolderFacts
  <2>3. Cold(q, Hot)
    BY <1>4, <1>8, NotOnHold
  <2>4. NipOf(n, m, f, u, Unsent(n, m, by, r), Sent, Hot)
    BY <1>4, <2>3, UnsentStarts
  <2> QED BY <1>1, <1>5, <1>8, <2>2, <2>4, NipStep
<1> QED BY <1>6, <1>7, <1>8 DEF tfw_http_req_fwd, tfw_http_req_enlist

LEMMA UnsentNotRepairing ==
    ASSUME NEW q, NEW f, NEW u, NEW x, FlagsKept(q, f, u, x), x.pc = "unsent", NEW v
    PROVE  ~Repairing(f, v) /\ ~Repairing({}, v)
BY DEF FlagsKept, Repairing

LEMMA UnsentStopNip ==
    ASSUME BaseInv, WireInv, NipInv, NEW c \in Conn, UnsentEnd(c) \/ UnsentBroken(c)
    PROVE  NipInv'
<1>1. /\ ctx[c].pc = "unsent" /\ UnsentDone(c)
      /\ UNCHANGED <<queue, msgSent, up, nip, sent, fresh>>
  BY DEF UnsentEnd, UnsentBroken
<1>2. /\ ctx'[c] = Idle /\ \A d \in Conn \ {c} : ctx'[d] = ctx[d]
  BY <1>1, UnlockedCtx DEF UnsentDone
<1>3. /\ flags'[c] \in {flags[c], {}} /\ \A d \in Conn \ {c} : flags'[d] = flags[d]
  BY <1>1, HolderFacts DEF UnsentDone, Reenabled
<1>4. NipOf(queue[c], msgSent[c], flags'[c], up[c], Idle, Sent, Hot)
  BY <1>1, <1>3, NipFacts, IdleFields, ColdIsNipped DEF NipOf
<1> QED BY <1>1, <1>2, <1>3, <1>4, NipStep

LEMMA UnsentEvictNip ==
    ASSUME BaseInv, WireInv, NipInv, NEW c \in Conn, UnsentEvict(c)
    PROVE  NipInv'
<1> DEFINE q == queue[c]
           m == msgSent[c]
           f == flags[c]
           u == up[c]
           x == ctx[c]
           n == RemoveAt(q, x.i)
<1>1. /\ x.pc = "unsent" /\ x.i <= Len(q)
      /\ queue' = [queue EXCEPT ![c] = RemoveAt(@, IndexOf(queue[c][ctx[c].i], @))]
      /\ UNCHANGED <<msgSent, flags, up, ctx, nip, sent, fresh>>
  BY DEF UnsentEvict, Delisted, Cur
<1>2. x.i \in 1..Len(q) /\ q \in Seq(Req) /\ NoDup(q) /\ Len(q) \in Nat
  BY <1>1, HolderFacts DEF CursorOf, CursorUnsent
<1>3. queue'[c] = n /\ \A d \in Conn \ {c} : queue'[d] = queue[d]
  BY <1>1, <1>2, IndexIs, HolderFacts
<1>4. NipOf(q, m, f, u, x, Sent, Hot)
  BY NipFacts
<1> DEFINE S == Sent
           H == Hot
           i == x.i
<1> HIDE DEF q, m, f, u, S, H, i
<1>5. /\ Cold(q, H)
      /\ \A k \in 1..Len(q) : q[k] = m => \A j \in 1..k : q[j] \in S
  BY <1>1, <1>4 DEF NipOf, S, H
<1>6. LET z == RemoveAt(q, i) IN Cold(z, H) /\ \A k \in 1..Len(z) : z[k] = m => \A j \in 1..k : z[j] \in S
  <2>1. q \in Seq(Req) /\ i \in 1..Len(q)
    BY <1>2 DEF i
  <2> QED BY <1>5, <2>1, NipRemoved
<1>7. NipOf(n, m, f, u, x, S, H)
  BY <1>1, <1>6, ColdIsNipped DEF i
<1> QED BY <1>1, <1>3, <1>7, NipStep DEF q, m, f, u, S, H
(* A request is sent from a cold queue.                                     *)
LEMMA NipSent ==
    ASSUME BaseInv, WireInv, NipInv, NEW c \in Conn, NEW i \in 1..Len(queue[c]), NEW r, r = queue[c][i],
           Transmit(c, r), r \notin Hot, UNCHANGED <<queue, up, nip, fresh>>,
           \A d \in Conn \ {c} : /\ msgSent'[d] = msgSent[d] /\ flags'[d] = flags[d] /\ ctx'[d] = ctx[d],
           NipOf(queue[c], msgSent'[c], flags'[c], up[c], ctx'[c], Sent \cup {r}, Hot \cup ({r} \cap nip))
    PROVE  NipInv'
<1>1. r \in Req /\ In(r, queue[c]) /\ InQ(r, queue)
  <2>1. r \in Req /\ In(r, queue[c])
    BY HolderFacts, NotNoReq DEF In
  <2> QED BY <2>1 DEF InQ
<1>2. sent \in [Req -> 0..2] /\ sent' = [sent EXCEPT ![r] = IF @ < 2 THEN @ + 1 ELSE @] /\ nip \subseteq Req
  BY NipFacts DEF Transmit
<1>3. /\ \A s \in Req : sent'[s] > 0 <=> sent[s] > 0 \/ s = r
      /\ r \in nip => sent[r] = 0 /\ sent'[r] = 1
      /\ \A s \in Req \ {r} : sent'[s] = sent[s]
  BY <1>1, <1>2 DEF Hot, Sent
<1>4. Sent' = Sent \cup {r} /\ Hot' = Hot \cup ({r} \cap nip)
  BY <1>1, <1>3 DEF Sent, Hot
<1>5. ASSUME NEW d \in Conn PROVE Nipped(d)'
  <2>1. CASE d = c
    BY <1>4, <2>1 DEF Nipped
  <2>2. CASE d # c
    <3>1. \A k \in 1..Len(queue[d]) : queue[d][k] # r
      BY <1>1, <2>2, HolderFacts DEF Distinct
    <3> DEFINE q == queue[d]
               m == msgSent[d]
               x == ctx[d]
               f == flags[d]
               u == up[d]
               S == Sent
               H == Hot
               T == Sent'
               G == Hot'
    <3>2. /\ NipOf(q, m, f, u, x, S, H) /\ S \subseteq T
          /\ \A k \in 1..Len(q) : q[k] \in G => q[k] \in H
      BY <1>4, <3>1, NipFacts
    <3> HIDE DEF q, m, x, f, u, S, H, T, G
    <3>3. NipOf(q, m, f, u, x, T, G)
      BY <3>2 DEF NipOf, Cold
    <3> QED BY <2>2, <3>3 DEF Nipped, q, m, x, f, u, T, G
  <2> QED BY <2>1, <2>2
<1>6. \A s \in nip' : sent'[s] <= 1
  BY <1>2, <1>3 DEF NipInv
<1>7. r \notin fresh
  BY <1>1 DEF BaseInv, HomeInv, Placed
<1> QED BY <1>4, <1>5, <1>6, <1>7 DEF NipInv

LEMMA UnsentSendNip ==
    ASSUME BaseInv, WireInv, NipInv, NEW c \in Conn, UnsentSend(c)
    PROVE  NipInv'
<1> DEFINE q == queue[c]
           m == msgSent[c]
           f == flags[c]
           u == up[c]
           x == ctx[c]
           r == q[x.i]
           S == Sent
           H == Hot
           T == Sent \cup {r}
           G == Hot \cup ({r} \cap nip)
<1>1. /\ x.pc = "unsent" /\ x.i <= Len(q) /\ Transmit(c, r)
      /\ msgSent' = [msgSent EXCEPT ![c] = r]
      /\ UNCHANGED <<queue, up, nip, fresh>>
  BY DEF UnsentSend, Cur
<1>2. /\ x.i \in 1..Len(q) /\ q \in Seq(Req) /\ NoDup(q) /\ Len(q) \in Nat
      /\ (m = NoReq /\ x.i = 1) \/ (x.i > 1 /\ m = q[x.i - 1])
  BY <1>1, HolderFacts DEF CursorOf, CursorUnsent
<1>3. msgSent'[c] = r /\ \A d \in Conn \ {c} : msgSent'[d] = msgSent[d]
  BY <1>1, HolderFacts
<1>4. /\ Cold(q, H)
      /\ \A k \in 1..Len(q) : q[k] = m => \A j \in 1..k : q[j] \in S
  BY <1>1, NipFacts DEF NipOf
<1>5. r \notin Hot
  BY <1>2, <1>4 DEF Cold
<1>6. ~Repairing(f, u) /\ ~Repairing({}, u)
  BY <1>1, NipFacts, UnsentNotRepairing
<1> DEFINE i == x.i
<1>i. i \in 1..Len(q) /\ r = q[i] /\ ((m = NoReq /\ i = 1) \/ (i > 1 /\ m = q[i - 1]))
  BY <1>2
<1> HIDE DEF q, m, f, u, S, H, r, i
<1>7. \A k \in 1..Len(q) : q[k] \in G => q[k] = r
  BY <1>4 DEF Cold, H
<1>8. \A k \in 1..Len(q) : q[k] = r => \A j \in 1..k : q[j] \in T
  <2> SUFFICES ASSUME NEW k \in 1..Len(q), q[k] = r, NEW j \in 1..k PROVE q[j] \in T
    OBVIOUS
  <2>1. k = i
    BY <1>2, <1>i DEF NoDup
  <2>2. CASE j = i
    BY <1>i, <2>2
  <2>3. CASE j # i
    <3>1. j \in 1 .. i - 1 /\ i > 1 /\ i - 1 \in 1..Len(q)
      BY <1>2, <1>i, <2>1, <2>3
    <3>2. q[i - 1] = m
      BY <1>i, <3>1
    <3> QED BY <1>4, <3>1, <3>2 DEF S
  <2> QED BY <2>2, <2>3
<1>9. CASE r \in nip /\ UnsentDone(c)
  <2>1. /\ ctx'[c] = Idle /\ \A d \in Conn \ {c} : ctx'[d] = ctx[d]
    BY <1>9, UnlockedCtx DEF UnsentDone
  <2>2. /\ flags'[c] \in {f, {}} /\ \A d \in Conn \ {c} : flags'[d] = flags[d]
    BY <1>9, HolderFacts DEF UnsentDone, Reenabled, f
  <2>3. NipOf(q, r, flags'[c], u, Idle, T, G)
    BY <1>6, <1>7, <1>8, <2>2, IdleFields DEF NipOf
  <2> HIDE DEF T, G
  <2> QED BY <1>1, <1>3, <1>5, <1>i, <2>1, <2>2, <2>3, NipSent DEF q, u, T, G
<1>10. CASE r \notin nip /\ ctx' = [ctx EXCEPT ![c].i = @ + 1] /\ flags' = flags
  <2>1. ctx'[c].pc = "unsent" /\ \A d \in Conn \ {c} : ctx'[d] = ctx[d]
    <3>1. ctx \in [Conn -> Ctx] /\ ctx[c] \in Ctx
      BY HolderFacts
    <3> QED BY <1>1, <1>10, <3>1 DEF Ctx
  <2>2. Cold(q, G)
    BY <1>4, <1>10 DEF H
  <2> DEFINE y == ctx'[c]
  <2>3. y.pc = "unsent"
    BY <2>1
  <2> HIDE DEF T, G, y
  <2>4. NipOf(q, r, f, u, y, T, G)
    BY <1>8, <2>2, <2>3, ColdIsNipped
  <2> QED BY <1>1, <1>3, <1>5, <1>i, <1>10, <2>1, <2>4, NipSent DEF q, u, T, G, f, y
<1> QED BY <1>9, <1>10 DEF UnsentSend, Cur, r, q

LEMMA NothingNipped ==
    ASSUME NEW f, NEW u, NEW S, NEW H, NEW m, NEW x, x.pc # "resend"
    PROVE  NipOf(<<>>, m, f, u, x, S, H)
BY EmptyQueue, NothingIn DEF NipOf, Cold

LEMMA UnsentBusyNip ==
    ASSUME BaseInv, WireInv, NipInv, NEW c \in Conn, UnsentBusy(c)
    PROVE  NipInv'
<1>1. /\ ctx[c].pc = "unsent" /\ ctx[c].i <= Len(queue[c]) /\ up[c] \in {"up", "revived"}
      /\ msgSent[c] = NoReq /\ Unlock(c) /\ UNCHANGED <<up, nip, sent, fresh>>
  BY DEF UnsentBusy, Active
<1>2. /\ ctx'[c] = Idle /\ \A d \in Conn \ {c} : ctx'[d] = ctx[d]
  BY <1>1, UnlockedCtx
<1>3. CASE ctx[c].by = "resched" /\ Delisted(c, ctx[c].req) /\ UNCHANGED <<msgSent, flags>>
  <2>1. queue' = [queue EXCEPT ![c] = RemoveAt(@, IndexOf(ctx[c].req, @))]
    BY <1>3 DEF Delisted
  <2>2. RemoveAt(queue[c], IndexOf(ctx[c].req, queue[c])) = <<>>
    BY <1>1, <1>3, SoundConn, BusyWired
  <2>3. queue'[c] = <<>> /\ \A d \in Conn \ {c} : queue'[d] = queue[d]
    BY <2>1, <2>2, HolderFacts
  <2>4. NipOf(<<>>, msgSent[c], flags[c], up[c], Idle, Sent, Hot)
    BY IdleFields, NothingNipped
  <2> QED BY <1>1, <1>2, <1>3, <2>3, <2>4, NipStep
<1>4. CASE QueueReset(c) /\ flags' = [flags EXCEPT ![c] = IF ctx[c].by = "fwd" THEN @ ELSE {}]
  <2>1. /\ queue'[c] = <<>>
        /\ \A d \in Conn \ {c} : queue'[d] = queue[d] /\ msgSent'[d] = msgSent[d] /\ flags'[d] = flags[d]
    BY <1>4, HolderFacts DEF QueueReset
  <2>2. NipOf(<<>>, msgSent'[c], flags'[c], up[c], Idle, Sent, Hot)
    BY IdleFields, NothingNipped
  <2> QED BY <1>1, <1>2, <2>1, <2>2, NipStep
<1> QED BY <1>3, <1>4 DEF UnsentBusy

LEMMA ResendEvictNip ==
    ASSUME BaseInv, WireInv, NipInv, NEW c \in Conn, ResendEvict(c)
    PROVE  NipInv'
<1> DEFINE q == queue[c]
           m == msgSent[c]
           f == flags[c]
           u == up[c]
           x == ctx[c]
           S == Sent
           H == Hot
           y == [ctx[c] EXCEPT !.left = ctx[c].left - 1]
<1>1. /\ x.pc = "resend" /\ x.left > 0
      /\ queue' = [queue EXCEPT ![c] = RemoveAt(@, IndexOf(queue[c][ctx[c].i], @))]
      /\ ctx' = [ctx EXCEPT ![c] = y]
      /\ UNCHANGED <<msgSent, flags, up, nip, sent, fresh>>
  BY HolderFacts DEF ResendEvict, Delisted, Cur
<1>2. /\ x.i \in Nat /\ x.left \in Nat /\ Len(q) \in Nat /\ q \in Seq(Req) /\ NoDup(q)
      /\ x.i >= 1 /\ x.i + x.left <= Len(q) + 1
  BY <1>1, HolderFacts DEF CursorOf, CursorResend, Ctx
<1>3. x.i \in 1..Len(q)
  BY <1>1, <1>2
<1>4. queue'[c] = RemoveAt(q, x.i) /\ \A d \in Conn \ {c} : queue'[d] = queue[d]
  BY <1>1, <1>2, <1>3, IndexIs, HolderFacts
<1>5. y.pc = "resend" /\ y.i = x.i /\ y.left = x.left - 1
  <2>1. x \in Ctx
    BY HolderFacts
  <2> QED BY <1>1, <2>1 DEF Ctx
<1>6. /\ Cold(q, H)
      /\ \A k \in 1..Len(q) : q[k] = m => \A j \in 1..k : q[j] \in S
      /\ \A k \in 1..Len(q) : k < x.i + x.left => q[k] \in S
  BY <1>1, NipFacts DEF NipOf
<1> HIDE DEF y
<1>7. ctx'[c] = y /\ \A d \in Conn \ {c} : ctx'[d] = ctx[d]
  BY <1>1, HolderFacts
<1> DEFINE i == x.i
           b == x.i + x.left
           n == RemoveAt(q, i)
<1>8. i \in 1..Len(q) /\ b \in Nat /\ i < b /\ y.i + y.left = b - 1
  <2> DEFINE l == x.left
  <2>1. i \in Nat /\ l \in Nat /\ l > 0 /\ y.i = i /\ y.left = l - 1 /\ b = i + l /\ i \in 1..Len(q)
    BY <1>1, <1>2, <1>3, <1>5
  <2> HIDE DEF i, b, l
  <2> QED BY <2>1
<1>9. \A k \in 1..Len(q) : k < b => q[k] \in S
  BY <1>6
<1> HIDE DEF q, m, f, u, S, H, i, b
<1>10. /\ Cold(n, H)
       /\ \A k \in 1..Len(n) : n[k] = m => \A j \in 1..k : n[j] \in S
       /\ \A k \in 1..Len(n) : k < b - 1 => n[k] \in S
  BY <1>2, <1>6, <1>8, <1>9, NipRemoved
<1> HIDE DEF n
<1>11. NipOf(n, m, f, u, y, S, H)
  BY <1>8, <1>10 DEF NipOf, Cold
<1> QED BY <1>1, <1>4, <1>7, <1>11, NipStep DEF q, m, f, u, S, H, i, n
LEMMA ResendSendNip ==
    ASSUME BaseInv, WireInv, NipInv, NEW c \in Conn, ResendSend(c)
    PROVE  NipInv'
<1> DEFINE q == queue[c]
           m == msgSent[c]
           f == flags[c]
           u == up[c]
           x == ctx[c]
           r == q[x.i]
           S == Sent
           H == Hot
           y == [ctx[c] EXCEPT !.resent = r, !.i = ctx[c].i + 1,
                               !.left = IF ctx[c].by = "repair" THEN 0 ELSE ctx[c].left - 1]
<1>1. /\ x.pc = "resend" /\ x.left > 0 /\ Transmit(c, r)
      /\ UNCHANGED <<queue, msgSent, flags, up, nip, fresh>>
  BY DEF ResendSend, Cur
<1>2. /\ x.i \in Nat /\ x.left \in Nat /\ Len(q) \in Nat /\ q \in Seq(Req) /\ NoDup(q)
      /\ x.i >= 1 /\ x.i + x.left <= Len(q) + 1
  BY <1>1, HolderFacts DEF CursorOf, CursorResend, Ctx
<1>3. x.i \in 1..Len(q) /\ x.i < x.i + x.left
  BY <1>1, <1>2
<1>4. /\ Cold(q, H)
      /\ \A k \in 1..Len(q) : q[k] = m => \A j \in 1..k : q[j] \in S
      /\ \A k \in 1..Len(q) : k < x.i + x.left => q[k] \in S
  BY <1>1, NipFacts DEF NipOf
<1>5. r \in Sent /\ r \notin Hot /\ r \notin nip
  <2>1. r \in Sent /\ r \notin Hot
    BY <1>3, <1>4 DEF Cold
  <2> QED BY <2>1 DEF Hot
<1>6. Sent \cup {r} = S /\ Hot \cup ({r} \cap nip) = H
  BY <1>5
<1>7. ctx' = [ctx EXCEPT ![c] = y]
  BY HolderFacts DEF ResendSend, Cur
<1>8. /\ y.pc = "resend" /\ y.i = x.i + 1 /\ y.left = IF x.by = "repair" THEN 0 ELSE x.left - 1
  <2> DEFINE z == ctx[c]
             i == z.i + 1
             l == IF z.by = "repair" THEN 0 ELSE z.left - 1
  <2>1. z \in Ctx /\ z.pc = "resend"
    BY <1>1, HolderFacts
  <2> HIDE DEF z, i, l, r
  <2>2. LET w == [z EXCEPT !.resent = r, !.i = i, !.left = l] IN w.pc = "resend" /\ w.i = i /\ w.left = l
    BY <2>1 DEF Ctx
  <2> QED BY <2>2 DEF z, i, l
<1> HIDE DEF y
<1>9. ctx'[c] = y /\ \A d \in Conn \ {c} : ctx'[d] = ctx[d]
  BY <1>7, HolderFacts
<1>10. y.i + y.left <= x.i + x.left /\ y.i \in Nat /\ y.left \in Nat
  <2> DEFINE i == x.i
             l == x.left
  <2>1. i \in Nat /\ l \in Nat /\ l > 0 /\ y.i = i + 1 /\ (y.left = 0 \/ y.left = l - 1)
    BY <1>1, <1>2, <1>8
  <2> HIDE DEF i, l
  <2>2. y.i + y.left <= i + l /\ y.i \in Nat /\ y.left \in Nat
    BY <2>1
  <2> QED BY <2>2 DEF i, l
<1>11. \A k \in 1..Len(q) : k < y.i + y.left => q[k] \in S
  BY <1>2, <1>4, <1>10
<1> HIDE DEF q, m, f, u, S, H, r
<1>12. NipOf(q, m, f, u, y, S, H)
  BY <1>4, <1>8, <1>11 DEF NipOf, Cold
<1>13. NipOf(queue[c], msgSent'[c], flags'[c], up[c], ctx'[c], Sent \cup {r}, Hot \cup ({r} \cap nip))
  BY <1>1, <1>6, <1>9, <1>12 DEF q, m, f, u
<1> QED BY <1>1, <1>3, <1>5, <1>9, <1>13, NipSent DEF q, r

LEMMA ResendBrokenNip ==
    ASSUME BaseInv, WireInv, NipInv, NEW c \in Conn, ResendBroken(c)
    PROVE  NipInv'
<1>1. /\ ctx[c].pc = "resend" /\ Unlock(c)
      /\ UNCHANGED <<queue, msgSent, flags, up, nip, sent, fresh>>
  BY DEF ResendBroken, qVars
<1>2. /\ ctx'[c] = Idle /\ \A d \in Conn \ {c} : ctx'[d] = ctx[d]
  BY <1>1, UnlockedCtx
<1>3. NipOf(queue[c], msgSent[c], flags[c], up[c], Idle, Sent, Hot)
  BY <1>1, NipFacts, IdleFields, ColdIsNipped DEF NipOf
<1> QED BY <1>1, <1>2, <1>3, NipStep

LEMMA AfterResendNip ==
    ASSUME BaseInv, WireInv, NipInv, NEW c \in Conn, ctx[c].pc = "resend",
           NEW n, n = ctx[c].resent \/ n = msgSent[c],
           AfterResend(c, n), msgSent' = [msgSent EXCEPT ![c] = n],
           UNCHANGED <<queue, up, nip, sent, fresh>>
    PROVE  NipInv'
<1> DEFINE q == queue[c]
           u == up[c]
           x == ctx[c]
           S == Sent
           H == Hot
           y == Unsent(q, n, x.by, NoReq)
<1>1. /\ Cold(q, H)
      /\ \A k \in 1..Len(q) : q[k] = msgSent[c] => \A j \in 1..k : q[j] \in S
      /\ \A k \in 1..Len(q) : k < x.i + x.left => q[k] \in S
  BY NipFacts DEF NipOf
<1>2. \A k \in 1..Len(q) : q[k] = n => \A j \in 1..k : q[j] \in S
  <2>1. CASE n = msgSent[c]
    BY <1>1, <2>1
  <2>2. CASE n = x.resent
    <3>1. /\ x.i \in Nat /\ x.left \in Nat /\ Len(q) \in Nat /\ q \in Seq(Req) /\ NoDup(q)
          /\ x.i >= 1 /\ x.i + x.left <= Len(q) + 1
          /\ (x.i = 1 /\ x.resent = NoReq) \/ (x.i > 1 /\ x.resent = q[x.i - 1])
      BY HolderFacts DEF CursorOf, CursorResend, Ctx
    <3> SUFFICES ASSUME NEW k \in 1..Len(q), q[k] = n, NEW j \in 1..k PROVE q[j] \in S
      OBVIOUS
    <3>2. n # NoReq
      BY <3>1, NotNoReq
    <3>3. x.i - 1 \in 1..Len(q) /\ q[x.i - 1] = n
      BY <2>2, <3>1, <3>2
    <3>4. k = x.i - 1
      BY <3>1, <3>3 DEF NoDup
    <3>5. j \in 1..Len(q) /\ j < x.i + x.left
      BY <3>1, <3>4
    <3> QED BY <1>1, <3>5
  <2> QED BY <2>1, <2>2
<1>3. msgSent'[c] = n /\ \A d \in Conn \ {c} : msgSent'[d] = msgSent[d]
  BY HolderFacts
<1>4. /\ \A f : NipOf(q, n, f, u, Idle, S, H)
      /\ \A f : NipOf(q, n, f, u, y, S, H)
  <2> HIDE DEF q, u, S, H
  <2> QED BY <1>1, <1>2, IdleFields, ColdIsNipped, UnsentStarts
<1>5. /\ \A d \in Conn \ {c} : flags'[d] = flags[d]
  BY HolderFacts DEF AfterResend
<1>6. CASE Unlock(c)
  <2>1. /\ ctx'[c] = Idle /\ \A d \in Conn \ {c} : ctx'[d] = ctx[d]
    BY <1>6, UnlockedCtx
  <2> QED BY <1>3, <1>4, <1>5, <2>1, NipStep
<1>7. CASE ctx' = [ctx EXCEPT ![c] = y]
  <2> HIDE DEF y
  <2>1. /\ ctx'[c] = y /\ \A d \in Conn \ {c} : ctx'[d] = ctx[d]
    BY <1>7, HolderFacts
  <2> QED BY <1>3, <1>4, <1>5, <2>1, NipStep
<1> QED BY <1>6, <1>7 DEF AfterResend

LEMMA ResendBusyNip ==
    ASSUME BaseInv, WireInv, NipInv, NEW c \in Conn, ResendBusy(c)
    PROVE  NipInv'
<1>1. ctx[c].pc = "resend" /\ UNCHANGED <<up, nip, sent, fresh>>
  BY DEF ResendBusy
<1>2. CASE RepairFailed(c)
  <2>1. /\ Unlock(c) /\ QueueReset(c) /\ flags' = [flags EXCEPT ![c] = {}]
    BY <1>2 DEF RepairFailed
  <2>2. /\ queue'[c] = <<>>
        /\ \A d \in Conn \ {c} : queue'[d] = queue[d] /\ msgSent'[d] = msgSent[d] /\ flags'[d] = flags[d]
    BY <2>1, HolderFacts DEF QueueReset
  <2>3. /\ ctx'[c] = Idle /\ \A d \in Conn \ {c} : ctx'[d] = ctx[d]
    BY <2>1, UnlockedCtx
  <2>4. NipOf(<<>>, msgSent'[c], flags'[c], up[c], Idle, Sent, Hot)
    BY IdleFields, NothingNipped
  <2> QED BY <1>1, <2>2, <2>3, <2>4, NipStep
<1>3. CASE /\ msgSent' = [msgSent EXCEPT ![c] = ctx[c].resent]
           /\ AfterResend(c, ctx[c].resent) /\ UNCHANGED queue
  BY <1>1, <1>3, AfterResendNip
<1> QED BY <1>2, <1>3 DEF ResendBusy

LEMMA ResendEndNip ==
    ASSUME BaseInv, WireInv, NipInv, NEW c \in Conn, ResendEnd(c)
    PROVE  NipInv'
<1> DEFINE m == IF ctx[c].by = "popr" \/ ctx[c].resent = NoReq
                THEN ctx[c].resent ELSE msgSent[c]
<1>1. /\ ctx[c].pc = "resend" /\ msgSent' = [msgSent EXCEPT ![c] = m] /\ AfterResend(c, m)
      /\ UNCHANGED <<queue, up, nip, sent, fresh>>
  BY DEF ResendEnd
<1>2. m = ctx[c].resent \/ m = msgSent[c]
  OBVIOUS
<1> HIDE DEF m
<1> QED BY <1>1, <1>2, AfterResendNip
LEMMA PoppedNip ==
    ASSUME BaseInv, WireInv, NipInv, NEW c \in Conn, ctx[c].pc = "idle", queue[c] # <<>>,
           Popped(c, Head(queue[c]))
    PROVE  LET n == queue'[c]
               p == msgSent'[c]
           IN  /\ n \in Seq(Req) /\ NoDup(n) /\ (p = NoReq \/ In(p, n))
               /\ Cold(queue[c], Hot) => Cold(n, Hot)
               /\ \A k \in 1..Len(n) : n[k] \in Hot => n[k] = p
               /\ \A k \in 1..Len(n) : n[k] = p => \A j \in 1..k : n[j] \in Sent
               /\ \A d \in Conn \ {c} : queue'[d] = queue[d] /\ msgSent'[d] = msgSent[d]
<1> DEFINE q == queue[c]
           m == msgSent[c]
           n == queue'[c]
           p == msgSent'[c]
<1>1. /\ n = Tail(q) /\ p = IF m = Head(q) THEN NoReq ELSE m
      /\ \A d \in Conn \ {c} : queue'[d] = queue[d] /\ msgSent'[d] = msgSent[d]
  BY HolderFacts DEF Popped
<1>2. /\ q \in Seq(Req) /\ NoDup(q) /\ q # <<>> /\ (m = NoReq \/ In(m, q))
  BY HolderFacts DEF CursorOf, CursorIdle
<1>3. /\ \A k \in 1..Len(q) : q[k] \in Hot => q[k] = m
      /\ \A k \in 1..Len(q) : q[k] = m => \A j \in 1..k : q[j] \in Sent
  BY NipFacts DEF NipOf
<1> DEFINE S == Sent
           H == Hot
<1> HIDE DEF q, m, n, p, S, H
<1>4. /\ n \in Seq(Req) /\ NoDup(n) /\ (p = NoReq \/ In(p, n))
  BY <1>1, <1>2, WithoutHead
<1>5. /\ Cold(q, H) => Cold(n, H)
      /\ \A k \in 1..Len(n) : n[k] \in H => n[k] = p
      /\ \A k \in 1..Len(n) : n[k] = p => \A j \in 1..k : n[j] \in S
  <2>1. /\ \A k \in 1..Len(q) : q[k] \in H => q[k] = m
        /\ \A k \in 1..Len(q) : q[k] = m => \A j \in 1..k : q[j] \in S
    BY <1>3 DEF S, H
  <2>2. /\ Len(n) = Len(q) - 1 /\ Len(q) \in Nat /\ Len(n) \in Nat
        /\ \A j \in 1 .. Len(q) - 1 : n[j] = q[j + 1]
        /\ q[1] = Head(q) /\ Len(q) > 0
    BY <1>1, <1>2, WithoutHead, LenProperties
  <2>3. \A k \in 1..Len(n) : n[k] # NoReq
    BY <1>4, NotNoReq
  <2>4. \A k \in 1..Len(n) : k + 1 \in 1..Len(q) /\ n[k] = q[k + 1] /\ n[k] # Head(q)
    BY <1>2, <2>2 DEF NoDup
  <2>5. Cold(q, H) => Cold(n, H)
    BY <2>4 DEF Cold
  <2>6. \A k \in 1..Len(n) : n[k] \in H => n[k] = p
    BY <1>1, <2>1, <2>4
  <2>7. ASSUME NEW k \in 1..Len(n), n[k] = p, NEW j \in 1..k
        PROVE  n[j] \in S
    <3>1. q[k + 1] = m /\ k + 1 \in 1..Len(q)
      BY <1>1, <2>3, <2>4, <2>7
    <3>2. j + 1 \in 1 .. k + 1 /\ j \in 1..Len(n)
      BY <2>2, <2>7
    <3> QED BY <2>1, <2>4, <3>1, <3>2
  <2> QED BY <2>5, <2>6, <2>7
<1> QED BY <1>1, <1>4, <1>5 DEF q, n, p, S, H

LEMMA RespNip ==
    ASSUME BaseInv, WireInv, NipInv, NEW c \in Conn, tfw_http_resp_cache(c)
    PROVE  NipInv'
<1> DEFINE n == queue'[c]
           p == msgSent'[c]
           f == flags[c]
<1>1. /\ up[c] = "up" /\ ctx[c].pc = "idle" /\ queue[c] # <<>> /\ Popped(c, Head(queue[c]))
      /\ AfterPop(c, n, p) /\ UNCHANGED <<up, nip, sent, fresh>>
  BY DEF tfw_http_resp_cache, Unlocked
<1>2. /\ n \in Seq(Req) /\ NoDup(n) /\ (p = NoReq \/ In(p, n))
      /\ Cold(queue[c], Hot) => Cold(n, Hot)
      /\ \A k \in 1..Len(n) : n[k] \in Hot => n[k] = p
      /\ \A k \in 1..Len(n) : n[k] = p => \A j \in 1..k : n[j] \in Sent
      /\ \A d \in Conn \ {c} : queue'[d] = queue[d] /\ msgSent'[d] = msgSent[d]
  BY <1>1, PoppedNip
<1>3. ctx[c] = Idle /\ ctx \in [Conn -> Ctx] /\ flags \in [Conn -> SUBSET Flag]
  BY <1>1, HolderFacts, SoundConn DEF CursorOf, CursorIdle
<1>4. \A d \in Conn \ {c} : flags'[d] = flags[d]
  BY <1>1, <1>3 DEF AfterPop
<1>5. ASSUME NEW y, NipOf(n, p, flags'[c], "up", y, Sent, Hot),
             ctx'[c] = y, \A d \in Conn \ {c} : ctx'[d] = ctx[d]
      PROVE  NipInv'
  BY <1>1, <1>2, <1>4, <1>5, NipStep
<1>6. ASSUME NEW y, ctx' = [ctx EXCEPT ![c] = y]
      PROVE  ctx'[c] = y /\ \A d \in Conn \ {c} : ctx'[d] = ctx[d]
  BY <1>3, <1>6
<1> HIDE DEF n, p
<1>7. CASE n = <<>> /\ ctx' = ctx
  <2>1. NipOf(n, p, flags'[c], "up", Idle, Sent, Hot)
    BY <1>7, IdleFields, NothingNipped
  <2> QED BY <1>3, <1>5, <1>7, <2>1
<1>8. CASE /\ Restricted(c) /\ "qforwd" \notin flags[c] /\ p # NoReq
           /\ ctx' = [ctx EXCEPT ![c] = Resend(n, p, "popr")]
  <2> DEFINE y == Resend(n, p, "popr")
  <2>1. Repairing(f, up[c])
    BY <1>1, <1>8 DEF Restricted, Repairing
  <2>2. Cold(n, Hot)
    BY <1>2, <2>1, NipFacts DEF NipOf
  <2>3. NipOf(n, p, flags'[c], "up", y, Sent, Hot)
    BY <1>2, <1>8, <2>2, ResendStarts
  <2>4. ctx'[c] = y /\ \A d \in Conn \ {c} : ctx'[d] = ctx[d]
    BY <1>6, <1>8
  <2> HIDE DEF y
  <2> QED BY <1>5, <2>3, <2>4
<1>9. ASSUME NEW by, ~Repairing(flags'[c], "up"),
             ctx' = IF NeedFwd(n, p) THEN [ctx EXCEPT ![c] = Unsent(n, p, by, NoReq)] ELSE ctx
      PROVE  NipInv'
  <2>1. CASE NeedFwd(n, p)
    <3> DEFINE y == Unsent(n, p, by, NoReq)
    <3>1. Cold(n, Hot)
      BY <1>2, <2>1, NotOnHold DEF NeedFwd
    <3>2. NipOf(n, p, flags'[c], "up", y, Sent, Hot)
      BY <1>2, <3>1, UnsentStarts
    <3>3. ctx'[c] = y /\ \A d \in Conn \ {c} : ctx'[d] = ctx[d]
      BY <1>6, <1>9, <2>1
    <3> HIDE DEF y
    <3> QED BY <1>5, <3>2, <3>3
  <2>2. CASE ~NeedFwd(n, p)
    <3>1. NipOf(n, p, flags'[c], "up", Idle, Sent, Hot)
      BY <1>2, <1>9, IdleFields DEF NipOf
    <3> QED BY <1>3, <1>5, <1>9, <2>2, <3>1
  <2> QED BY <2>1, <2>2
<1>10. CASE /\ flags' = [flags EXCEPT ![c] = @ \cup {"qforwd"}]
            /\ ctx' = IF NeedFwd(n, p) THEN [ctx EXCEPT ![c] = Unsent(n, p, "popr", NoReq)] ELSE ctx
  <2>1. "qforwd" \in flags'[c]
    BY <1>3, <1>10
  <2> QED BY <1>9, <1>10, <2>1 DEF Repairing
<1>11. CASE /\ ~Restricted(c) /\ flags' = flags
            /\ ctx' = IF NeedFwd(n, p) THEN [ctx EXCEPT ![c] = Unsent(n, p, "pop", NoReq)] ELSE ctx
  BY <1>9, <1>11 DEF Repairing, Restricted
<1>12. AfterPop(c, n, p)
  BY <1>1
<1> QED BY <1>7, <1>8, <1>10, <1>11, <1>12 DEF AfterPop

LEMMA BadRespNip ==
    ASSUME BaseInv, WireInv, NipInv, NEW c \in Conn, BadResponse(c)
    PROVE  NipInv'
<1> DEFINE n == queue'[c]
           p == msgSent'[c]
<1>1. /\ up[c] = "up" /\ ctx[c].pc = "idle" /\ queue[c] # <<>> /\ Popped(c, Head(queue[c]))
      /\ up' = [up EXCEPT ![c] = "closing"] /\ UNCHANGED <<flags, ctx, nip, sent, fresh>>
  BY DEF BadResponse, Unlocked
<1>2. /\ Cold(queue[c], Hot) => Cold(n, Hot)
      /\ \A k \in 1..Len(n) : n[k] \in Hot => n[k] = p
      /\ \A k \in 1..Len(n) : n[k] = p => \A j \in 1..k : n[j] \in Sent
      /\ \A d \in Conn \ {c} : queue'[d] = queue[d] /\ msgSent'[d] = msgSent[d]
  BY <1>1, PoppedNip
<1>3. up'[c] = "closing" /\ \A d \in Conn \ {c} : up'[d] = up[d]
  BY <1>1, SoundConn
<1>4. Repairing(flags[c], "closing") => Repairing(flags[c], up[c])
  BY <1>1 DEF Repairing
<1>5. Repairing(flags[c], "closing") => Cold(n, Hot)
  BY <1>2, <1>4, NipFacts DEF NipOf
<1> HIDE DEF n, p
<1>6. NipOf(n, p, flags[c], "closing", ctx[c], Sent, Hot)
  BY <1>1, <1>2, <1>5 DEF NipOf
<1> QED BY <1>1, <1>2, <1>3, <1>6, NipStep DEF n, p

LEMMA EventNip ==
    ASSUME BaseInv, WireInv, NipInv, NEW c \in Conn,
           \/ SockClose(c) \/ PutToDeath(c) \/ tfw_http_conn_release(c) \/ tfw_http_conn_init(c)
    PROVE  NipInv'
<1>1. UNCHANGED <<queue, msgSent, ctx, nip, sent, fresh>>
  BY DEF SockClose, PutToDeath, tfw_http_conn_release, tfw_http_conn_init, qVars, reqVars
<1>2. flags \in [Conn -> SUBSET Flag] /\ up \in [Conn -> UpState]
  BY SoundConn
<1>3. /\ \A d \in Conn \ {c} : flags'[d] = flags[d] /\ up'[d] = up[d]
      /\ \/ flags'[c] = flags[c] /\ up[c] # "revived"
         \/ flags'[c] = {} \/ up'[c] = "revived"
  BY <1>2 DEF SockClose, PutToDeath, tfw_http_conn_release, tfw_http_conn_init, qVars
<1>4. Repairing(flags'[c], up'[c]) => Repairing(flags[c], up[c])
  BY <1>3 DEF Repairing
<1>5. NipOf(queue[c], msgSent[c], flags'[c], up'[c], ctx[c], Sent, Hot)
  BY <1>4, NipFacts DEF NipOf
<1> QED BY <1>1, <1>3, <1>5, NipStep

(* A request leaves the queue of a connection that nobody holds; msg_sent   *)
(* goes back if it was the last one sent.                                   *)
LEMMA DelistedNip ==
    ASSUME BaseInv, WireInv, NipInv, NEW c \in Conn, ctx[c].pc = "idle", NEW r, In(r, queue[c]),
           queue' = [queue EXCEPT ![c] = RemoveAt(@, IndexOf(r, @))],
           msgSent' = [msgSent EXCEPT ![c] = IF @ = r THEN MsgSentPrev(queue[c], r) ELSE @]
    PROVE  LET n == queue'[c]
               p == msgSent'[c]
           IN  /\ msgSent[c] = r => Cold(n, Hot)
               /\ Cold(queue[c], Hot) => Cold(n, Hot)
               /\ \A k \in 1..Len(n) : n[k] \in Hot => n[k] = p
               /\ \A k \in 1..Len(n) : n[k] = p => \A j \in 1..k : n[j] \in Sent
               /\ \A d \in Conn \ {c} : queue'[d] = queue[d] /\ msgSent'[d] = msgSent[d]
<1> DEFINE q == queue[c]
           m == msgSent[c]
           i == IndexOf(r, q)
           n == queue'[c]
           p == msgSent'[c]
           S == Sent
           H == Hot
<1>1. /\ n = RemoveAt(q, i) /\ p = IF m = r THEN MsgSentPrev(q, r) ELSE m
      /\ \A d \in Conn \ {c} : queue'[d] = queue[d] /\ msgSent'[d] = msgSent[d]
  BY HolderFacts
<1>2. /\ q \in Seq(Req) /\ NoDup(q) /\ Len(q) \in Nat /\ i \in 1..Len(q) /\ q[i] = r
  BY HolderFacts, IndexFound
<1>3. /\ \A k \in 1..Len(q) : q[k] \in H => q[k] = m
      /\ \A k \in 1..Len(q) : q[k] = m => \A j \in 1..k : q[j] \in S
  BY NipFacts DEF NipOf
<1>4. p = IF m # r THEN m ELSE IF i = 1 THEN NoReq ELSE q[i - 1]
  <2>1. q[1] = Head(q) /\ q # <<>> /\ 1 \in 1..Len(q)
    <3>1. q # <<>> /\ 1 \in 1..Len(q)
      BY <1>2, EmptyQueue
    <3> QED BY <1>2, <3>1, WithoutHead
  <2>2. Head(q) = r <=> i = 1
    BY <1>2, <2>1 DEF NoDup
  <2> QED BY <1>1, <2>2 DEF MsgSentPrev
<1> HIDE DEF q, m, i, n, p, S, H
<1>5. /\ Cold(q, H) => Cold(n, H)
      /\ \A k \in 1..Len(n) : n[k] \in H => n[k] = m
      /\ m = r => Cold(n, H)
      /\ \A k \in 1..Len(n) : n[k] = m => \A j \in 1..k : n[j] \in S
  <2>1. LET z == RemoveAt(q, i) IN
        /\ Cold(q, H) => Cold(z, H)
        /\ \A k \in 1..Len(z) : z[k] \in H => z[k] = m
        /\ q[i] = m => Cold(z, H)
        /\ \A k \in 1..Len(z) : z[k] = m => \A j \in 1..k : z[j] \in S
    BY <1>2, <1>3, NipRemoved
  <2> QED BY <1>1, <1>2, <2>1
<1>6. CASE m # r
  BY <1>1, <1>4, <1>5, <1>6 DEF q, n, p, m, S, H
<1>7. CASE m = r
  <2>1. \A k \in 1..Len(n) : n[k] \in H => n[k] = p
    BY <1>5, <1>7 DEF Cold
  <2>2. ASSUME NEW k \in 1..Len(n), n[k] = p, NEW j \in 1..k PROVE n[j] \in S
    <3>1. /\ n \in Seq(Req) /\ Len(n) = Len(q) - 1
          /\ \A a \in 1 .. Len(q) - 1 : n[a] = IF a < i THEN q[a] ELSE q[a + 1]
      BY <1>1, <1>2, RemovedAt
    <3>2. n[k] # NoReq
      BY <3>1, NotNoReq
    <3>3. i > 1 /\ i - 1 \in 1..Len(q) /\ n[k] = q[i - 1]
      BY <1>2, <1>4, <1>7, <2>2, <3>2
    <3>4. k = i - 1
      <4>1. CASE k < i
        <5>1. k \in 1 .. Len(q) - 1 /\ k \in 1..Len(q)
          BY <1>2, <2>2, <3>1
        <5>2. n[k] = q[k]
          BY <3>1, <4>1, <5>1
        <5> QED BY <1>2, <3>3, <5>1, <5>2 DEF NoDup
      <4>2. CASE k >= i
        <5>1. n[k] = q[k + 1] /\ k + 1 \in 1..Len(q) /\ k + 1 # i - 1
          BY <1>2, <3>1, <4>2
        <5> QED BY <1>2, <3>3, <5>1 DEF NoDup
      <4> QED BY <1>2, <4>1, <4>2
    <3>5. j < i /\ j \in 1..Len(n) /\ n[j] = q[j] /\ j \in 1..i
      BY <1>2, <3>1, <3>4
    <3> QED BY <1>2, <1>3, <1>7, <3>5
  <2> QED BY <1>1, <1>5, <2>1, <2>2 DEF q, n, p, m, S, H
<1> QED BY <1>6, <1>7

LEMMA ShrinkNip ==
    ASSUME BaseInv, WireInv, NipInv, NEW c \in Conn,
           tfw_http_conn_shrink_fwdq(c) \/ tfw_http_conn_shrink_fwdq_resched(c)
    PROVE  NipInv'
<1>1. /\ up[c] = "idle" /\ UNCHANGED <<flags, up, ctx, nip, sent, fresh>>
  BY DEF tfw_http_conn_shrink_fwdq, tfw_http_conn_shrink_fwdq_resched
<1>2. ctx[c].pc = "idle" /\ ctx[c] = Idle /\ flags[c] = {} /\ queue[c] \in Seq(Req)
  <2>1. ctx[c].pc = "idle"
    BY <1>1 DEF BaseInv, IdleInv
  <2> QED BY <1>1, <2>1, HolderFacts, NipFacts DEF CursorOf, CursorIdle, FlagsKept
<1>3. CASE tfw_http_conn_shrink_fwdq(c)
  <2>1. PICK r \in Range(queue[c]) :
           /\ Delisted(c, r)
           /\ msgSent' = [msgSent EXCEPT ![c] = IF @ = r THEN MsgSentPrev(queue[c], r) ELSE @]
    BY <1>3 DEF tfw_http_conn_shrink_fwdq
  <2>2. In(r, queue[c]) /\ queue' = [queue EXCEPT ![c] = RemoveAt(@, IndexOf(r, @))]
    BY <1>2, <2>1, RangeIn DEF Delisted
  <2> DEFINE n == queue'[c]
             p == msgSent'[c]
  <2>3. /\ \A k \in 1..Len(n) : n[k] \in Hot => n[k] = p
        /\ \A k \in 1..Len(n) : n[k] = p => \A j \in 1..k : n[j] \in Sent
        /\ \A d \in Conn \ {c} : queue'[d] = queue[d] /\ msgSent'[d] = msgSent[d]
    BY <1>2, <2>1, <2>2, DelistedNip
  <2> HIDE DEF n, p
  <2>4. NipOf(n, p, flags[c], up[c], Idle, Sent, Hot)
    BY <1>2, <2>3, IdleFields DEF NipOf, Repairing
  <2> QED BY <1>1, <1>2, <2>3, <2>4, NipStep DEF n, p
<1>4. CASE tfw_http_conn_shrink_fwdq_resched(c)
  <2>1. /\ queue'[c] = <<>>
        /\ \A d \in Conn \ {c} : queue'[d] = queue[d] /\ msgSent'[d] = msgSent[d]
    BY <1>4, HolderFacts DEF QueueReset, tfw_http_conn_shrink_fwdq_resched
  <2>2. NipOf(<<>>, msgSent'[c], flags[c], up[c], Idle, Sent, Hot)
    BY IdleFields, NothingNipped
  <2> QED BY <1>1, <1>2, <2>1, <2>2, NipStep
<1> QED BY <1>3, <1>4

LEMMA RepairNip ==
    ASSUME ~RetryNip, BaseInv, WireInv, NipInv, NEW c \in Conn, tfw_http_conn_repair(c)
    PROVE  NipInv'
<1> DEFINE n == queue'[c]
           p == msgSent'[c]
<1>1. /\ ctx[c].pc = "idle" /\ up' = [up EXCEPT ![c] = "up"]
      /\ UNCHANGED <<nip, sent, fresh>>
  BY DEF tfw_http_conn_repair, Unlocked
<1>2. /\ n \in Seq(Req) /\ NoDup(n) /\ (p = NoReq \/ In(p, n))
      /\ \A d \in Conn \ {c} : queue'[d] = queue[d] /\ msgSent'[d] = msgSent[d]
      /\ RepairStart(c, n, p)
  BY FwdAssumption, RepairQueue
<1>3. ctx[c] = Idle /\ ctx \in [Conn -> Ctx] /\ flags \in [Conn -> SUBSET Flag]
  BY <1>1, HolderFacts, SoundConn DEF CursorOf, CursorIdle
<1>4. up'[c] = "up" /\ \A d \in Conn \ {c} : up'[d] = up[d]
  BY <1>1, SoundConn
<1>5. /\ Cold(n, Hot)
      /\ \A k \in 1..Len(n) : n[k] = p => \A j \in 1..k : n[j] \in Sent
  <2>1. CASE /\ OnHold(msgSent[c]) /\ Delisted(c, msgSent[c])
             /\ msgSent' = [msgSent EXCEPT ![c] = MsgSentPrev(queue[c], @)]
    <3>1. In(msgSent[c], queue[c])
      <4>1. msgSent[c] # NoReq
        BY <2>1, NipIsReq DEF OnHold
      <4> QED BY <1>1, <4>1, HolderFacts DEF CursorOf, CursorIdle
    <3>2. msgSent' = [msgSent EXCEPT ![c] = IF @ = msgSent[c] THEN MsgSentPrev(queue[c], msgSent[c]) ELSE @]
      BY <2>1
    <3>3. queue' = [queue EXCEPT ![c] = RemoveAt(@, IndexOf(msgSent[c], @))]
      BY <2>1 DEF Delisted
    <3> QED BY <1>1, <3>1, <3>2, <3>3, DelistedNip
  <2>2. CASE ~OnHold(msgSent[c]) /\ UNCHANGED <<queue, msgSent>>
    <3>1. /\ \A k \in 1..Len(queue[c]) : queue[c][k] \in Hot => queue[c][k] = msgSent[c]
          /\ \A k \in 1..Len(queue[c]) : queue[c][k] = msgSent[c] => \A j \in 1..k : queue[c][j] \in Sent
      BY NipFacts DEF NipOf
    <3> QED BY <2>2, <3>1, NotOnHold
  <2> QED BY <2>1, <2>2 DEF tfw_http_conn_repair
<1> HIDE DEF n, p
<1>6. \A d \in Conn \ {c} : flags'[d] = flags[d]
  BY <1>2, <1>3 DEF RepairStart
<1>7. ASSUME NEW y, NipOf(n, p, flags'[c], "up", y, Sent, Hot),
             ctx'[c] = y, \A d \in Conn \ {c} : ctx'[d] = ctx[d]
      PROVE  NipInv'
  BY <1>1, <1>2, <1>4, <1>6, <1>7, NipStep DEF n, p
<1>8. ASSUME NEW y, ctx' = [ctx EXCEPT ![c] = y]
      PROVE  ctx'[c] = y /\ \A d \in Conn \ {c} : ctx'[d] = ctx[d]
  BY <1>3, <1>8
<1>9. CASE p # NoReq /\ ctx' = [ctx EXCEPT ![c] = Resend(n, p, "repair")]
  <2> DEFINE y == Resend(n, p, "repair")
  <2>1. NipOf(n, p, flags'[c], "up", y, Sent, Hot)
    BY <1>2, <1>5, <1>9, ResendStarts
  <2>2. ctx'[c] = y /\ \A d \in Conn \ {c} : ctx'[d] = ctx[d]
    BY <1>8, <1>9
  <2> HIDE DEF y
  <2> QED BY <1>7, <2>1, <2>2
<1>10. CASE ctx' = [ctx EXCEPT ![c] = Unsent(n, p, "repair", NoReq)]
  <2> DEFINE y == Unsent(n, p, "repair", NoReq)
  <2>1. NipOf(n, p, flags'[c], "up", y, Sent, Hot)
    BY <1>5, UnsentStarts
  <2>2. ctx'[c] = y /\ \A d \in Conn \ {c} : ctx'[d] = ctx[d]
    BY <1>8, <1>10
  <2> HIDE DEF y
  <2> QED BY <1>7, <2>1, <2>2
<1>11. CASE n = <<>> /\ ctx' = ctx
  <2>1. NipOf(n, p, flags'[c], "up", Idle, Sent, Hot)
    BY <1>11, IdleFields, NothingNipped
  <2> QED BY <1>3, <1>7, <1>11, <2>1
<1> QED BY <1>2, <1>9, <1>10, <1>11 DEF RepairStart
-----------------------------------------------------------------------------
(* The theorems                                                             *)

LEMMA InitNip == ASSUME Init PROVE NipInv
<1>1. Sent = {} /\ Hot = {}
  BY DEF Init, Sent, Hot
<1>2. ASSUME NEW c \in Conn PROVE Nipped(c)
  <2>1. NipOf(<<>>, NoReq, {}, "up", Idle, Sent, Hot)
    BY IdleFields, NothingNipped
  <2> QED BY <2>1 DEF Init, Nipped
<1>3. \A r \in nip : sent[r] <= 1
  BY FwdAssumption DEF Init, FwdAssumption
<1> QED BY <1>1, <1>2, <1>3 DEF NipInv

LEMMA NextNip ==
    ASSUME FwdAssumption, ~RetryNip, BaseInv, WireInv, NipInv, Next
    PROVE  NipInv'
<1>1. ASSUME NEW r \in Req, Schedule(r) \/ ClearNip(r) PROVE NipInv'
  BY <1>1, ScheduleNip, FwdNip DEF Schedule
<1>2. ASSUME NEW c \in Conn, LockHolder(c) PROVE NipInv'
  BY <1>2, UnsentStopNip, UnsentEvictNip, UnsentSendNip, UnsentBusyNip, ResendEvictNip,
     ResendSendNip, ResendBrokenNip, ResendBusyNip, ResendEndNip DEF LockHolder
<1>3. ASSUME NEW c \in Conn, Failover(c) PROVE NipInv'
  BY <1>3, EventNip, RepairNip, ShrinkNip DEF Failover
<1>4. ASSUME NEW c \in Conn, tfw_http_resp_cache(c) \/ BadResponse(c) \/ SockClose(c) PROVE NipInv'
  BY <1>4, RespNip, BadRespNip, EventNip
<1> QED BY <1>1, <1>2, <1>3, <1>4 DEF Next

(* While a scheduler's look at a connection is not stale and the group does *)
(* not set TFW_SRV_RETRY_NIP, a request that is still non-idempotent has    *)
(* been sent at most once, whatever is evicted, dropped, repaired, re-sent  *)
(* or rescheduled; with TFW_SRV_RETRY_NIP nothing is promised.              *)
THEOREM NonIdempotentSentOnce == ASSUME ~StaleCheck PROVE Spec => []NipSentOnce
<1>1. ASSUME ~RetryNip PROVE Spec => [](WireInv /\ NipInv)
  <2>1. Init => BaseInv /\ WireInv /\ NipInv
    BY FwdAssumption, InitBase, InitWire, InitNip
  <2>2. BaseInv /\ WireInv /\ NipInv /\ [Next]_vars => (BaseInv /\ WireInv /\ NipInv)'
    <3>1. ASSUME BaseInv, WireInv, NipInv, UNCHANGED vars PROVE (BaseInv /\ WireInv /\ NipInv)'
      <4>1. BaseInv'
        BY <3>1, StutterBase
      <4>2. WireInv'
        BY <3>1, QuietWire DEF vars, qVars, reqVars
      <4>3. fresh' \cap nip' \cap Sent = {} /\ nip' = nip /\ UNCHANGED <<queue, msgSent, flags, up, ctx, sent>>
        BY <3>1 DEF vars, qVars, reqVars, NipInv, Hot
      <4>4. NipInv'
        BY <3>1, <4>3, NipLess
      <4> QED BY <4>1, <4>2, <4>4
    <3> QED BY <1>1, <3>1, FwdAssumption, NextBase, NextWire, NextNip
  <2> QED BY <2>1, <2>2, PTL DEF Spec
<1>2. CASE RetryNip
  <2>1. NipSentOnce
    BY <1>2 DEF NipSentOnce
  <2> QED BY <1>2, PTL DEF NipSentOnce
<1>3. CASE ~RetryNip
  <2>1. NipInv => NipSentOnce
    BY DEF NipInv, NipSentOnce
  <2> QED BY <1>1, <1>3, <2>1, PTL
<1> QED BY <1>2, <1>3
=============================================================================
