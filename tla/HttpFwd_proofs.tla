--------------------------- MODULE HttpFwd_proofs ---------------------------
(***************************************************************************)
(* Proofs about the forwarding of requests: types, cursors, and that a     *)
(* request is in one place.  Nothing is assumed here of the schedulers.    *)
(***************************************************************************)
EXTENDS HttpFwd, SequenceTheorems, TLAPS

MaybeReq == Req \cup {NoReq}
By == {"none", "fwd", "resched", "pop", "popr", "repair"}
Ctx == [pc : {"idle", "unsent", "resend"}, i : Nat, left : Nat, resent : MaybeReq,
        by : By, req : MaybeReq]

QueueTypeOK ==
    /\ queue \in [Conn -> Seq(Req)] /\ msgSent \in [Conn -> MaybeReq]
    /\ nipq \in [Conn -> SUBSET Req] /\ flags \in [Conn -> SUBSET {"resend", "qforwd"}]
    /\ ctx \in [Conn -> Ctx]
NetTypeOK ==
    /\ up \in [Conn -> {"up", "closing", "down", "idle", "revived"}]
    /\ wire \in [Conn -> Seq(Req)]
    /\ drops \in 0..MaxDrop
ReqTypeOK ==
    /\ nip \in SUBSET NonIdemp
    /\ retries \in [Req -> 0 .. MaxRefwd + 1] /\ sent \in [Req -> 0..2]
    /\ fresh \in SUBSET Req /\ held \in SUBSET Req /\ limbo \in SUBSET Req /\ errq \in SUBSET Req
    /\ pick \in [Req -> Conn \cup {NoConn}]
    /\ got \in [Req -> Req \cup {NoReq, "error"}]

In(m, q) == \E k \in 1..Len(q) : q[k] = m
InQ(r, all) == \E c \in Conn : In(r, all[c])
NoDup(q) == \A j, k \in 1..Len(q) : q[j] = q[k] => j = k

(* The queues share no request, and a request is in one place.              *)
Distinct ==
    \A c, d \in Conn : \A j \in 1..Len(queue[c]), k \in 1..Len(queue[d]) :
        queue[c][j] = queue[d][k] => c = d /\ j = k
Placed(r) ==
    /\ r \in fresh \/ InQ(r, queue) \/ r \in limbo \/ r \in errq \/ got[r] # NoReq
    /\ r \in fresh => ~InQ(r, queue) /\ r \notin limbo /\ r \notin errq /\ got[r] = NoReq
    /\ InQ(r, queue) => r \notin limbo /\ r \notin errq /\ got[r] = NoReq
    /\ r \in limbo => r \notin errq /\ got[r] = NoReq
    /\ r \in errq => got[r] = NoReq
HomeInv == Distinct /\ \A r \in Req : Placed(r)

(* The cursor of the lock holder x in a queue q whose msg_sent is m.        *)
CursorIdle(q, m, x) == x.pc = "idle" => x = Idle /\ (m = NoReq \/ In(m, q))
CursorUnsent(q, m, x) ==
    x.pc = "unsent" =>
        /\ x.i \in 1 .. Len(q) + 1 /\ x.left = 0
        /\ (m = NoReq /\ x.i = 1) \/ (x.i > 1 /\ m = q[x.i - 1])
        /\ x.by # "none" /\ (x.by \in {"fwd", "resched"} <=> x.req # NoReq)
        /\ x.by = "resched" /\ x.i <= Len(q) => q[Len(q)] = x.req
CursorResend(q, m, x) ==
    x.pc = "resend" =>
        /\ x.i >= 1 /\ x.i + x.left <= Len(q) + 1
        /\ x.by \in {"popr", "repair"} /\ x.req = NoReq
        /\ (x.i = 1 /\ x.resent = NoReq) \/ (x.i > 1 /\ x.resent = q[x.i - 1])
        /\ x.left > 0 => m = q[x.i + x.left - 1]
        /\ x.by = "repair" /\ x.resent # NoReq => x.left = 0 /\ In(m, q)
CursorOf(q, m, x) == CursorIdle(q, m, x) /\ CursorUnsent(q, m, x) /\ CursorResend(q, m, x)
CursorInv == \A c \in Conn : CursorOf(queue[c], msgSent[c], ctx[c])

(* A held connection has a request to be scheduled, or the one that the     *)
(* lock holder works for.                                                   *)
Owner(x) == IF x.pc = "unsent" THEN x.req ELSE NoReq
HeldInv ==
    /\ \A r \in held : pick[r] \in Conn /\ (r \in fresh \/ Owner(ctx[pick[r]]) = r)
    /\ \A c \in Conn : Owner(ctx[c]) # NoReq =>
                          Owner(ctx[c]) \in held /\ pick[Owner(ctx[c])] = c

(* A released connection is neither locked nor held.                        *)
IdleInv ==
    \A c \in Conn : up[c] = "idle" => ctx[c].pc = "idle" /\ \A r \in held : pick[r] # c
RetriesInv == \A r \in Req : retries[r] > MaxRefwd => r \in errq \/ got[r] # NoReq
NipqInv == \A c \in Conn : \A r \in nipq[c] : In(r, queue[c])

BaseInv ==
    /\ QueueTypeOK /\ NetTypeOK /\ ReqTypeOK
    /\ HomeInv /\ CursorInv /\ HeldInv /\ IdleInv /\ RetriesInv /\ NipqInv

-----------------------------------------------------------------------------
(* Sequences                                                                *)

LEMMA RangeIn ==
    ASSUME NEW q \in Seq(Req), NEW r
    PROVE  r \in Range(q) <=> In(r, q)
BY LenProperties DEF Range, In

LEMMA IndexFound ==
    ASSUME NEW q \in Seq(Req), NEW r, In(r, q)
    PROVE  IndexOf(r, q) \in 1..Len(q) /\ q[IndexOf(r, q)] = r
BY DEF IndexOf, In

LEMMA IndexIs ==
    ASSUME NEW q \in Seq(Req), NoDup(q), NEW k \in 1..Len(q)
    PROVE  IndexOf(q[k], q) = k
<1>1. In(q[k], q)
  BY DEF In
<1> QED BY <1>1, IndexFound DEF NoDup

LEMMA RemovedAt ==
    ASSUME NEW q \in Seq(Req), NEW i \in 1..Len(q)
    PROVE  /\ RemoveAt(q, i) \in Seq(Req)
           /\ Len(RemoveAt(q, i)) = Len(q) - 1
           /\ \A j \in 1 .. Len(q) - 1 : RemoveAt(q, i)[j] = IF j < i THEN q[j] ELSE q[j + 1]
<1> DEFINE a == SubSeq(q, 1, i - 1)
           b == SubSeq(q, i + 1, Len(q))
<1>1. Len(q) \in Nat /\ \A j \in 1..Len(q) : q[j] \in Req
  BY LenProperties, ElementOfSeq
<1>2. /\ a \in Seq(Req) /\ Len(a) = i - 1
      /\ \A j \in 1 .. i - 1 : a[j] = q[j]
  <2>1. \A j \in 1 .. i - 1 : q[j] \in Req
    BY <1>1
  <2>2. 1 \in Int /\ i - 1 \in Int
    OBVIOUS
  <2>3. /\ a \in Seq(Req) /\ Len(a) = IF 1 <= i - 1 THEN i - 1 - 1 + 1 ELSE 0
        /\ \A j \in 1 .. i - 1 - 1 + 1 : a[j] = q[1 + j - 1]
    BY <2>1, <2>2, SubSeqProperties
  <2> QED BY <2>3, <1>1
<1>3. /\ b \in Seq(Req) /\ Len(b) = Len(q) - i
      /\ \A j \in 1 .. Len(q) - i : b[j] = q[i + j]
  <2>1. \A j \in i + 1 .. Len(q) : q[j] \in Req
    BY <1>1
  <2>2. i + 1 \in Int /\ Len(q) \in Int
    BY <1>1
  <2>3. /\ b \in Seq(Req) /\ Len(b) = IF i + 1 <= Len(q) THEN Len(q) - (i + 1) + 1 ELSE 0
        /\ \A j \in 1 .. Len(q) - (i + 1) + 1 : b[j] = q[i + 1 + j - 1]
    BY <2>1, <2>2, SubSeqProperties
  <2> QED BY <2>3, <1>1
<1>4. RemoveAt(q, i) = a \o b
  BY DEF RemoveAt
<1> HIDE DEF a, b
<1>5. /\ a \o b \in Seq(Req) /\ Len(a \o b) = Len(a) + Len(b)
      /\ \A j \in 1 .. Len(a) + Len(b) : (a \o b)[j] = IF j <= Len(a) THEN a[j] ELSE b[j - Len(a)]
  BY <1>2, <1>3, ConcatProperties
<1> QED BY <1>1, <1>2, <1>3, <1>4, <1>5

(* The queue without r.                                                     *)
LEMMA WithoutReq ==
    ASSUME NEW q \in Seq(Req), NoDup(q), NEW r, In(r, q)
    PROVE  LET n == RemoveAt(q, IndexOf(r, q)) IN
           /\ n \in Seq(Req) /\ Len(n) = Len(q) - 1 /\ NoDup(n)
           /\ \A j \in 1 .. Len(n) : n[j] = IF j < IndexOf(r, q) THEN q[j] ELSE q[j + 1]
           /\ \A s : In(s, n) <=> In(s, q) /\ s # r
<1> DEFINE i == IndexOf(r, q)
           n == RemoveAt(q, i)
<1>1. i \in 1..Len(q) /\ q[i] = r /\ Len(q) \in Nat
  BY IndexFound, LenProperties
<1> HIDE DEF i
<1>2. /\ n \in Seq(Req) /\ Len(n) = Len(q) - 1
      /\ \A j \in 1 .. Len(q) - 1 : n[j] = IF j < i THEN q[j] ELSE q[j + 1]
  BY <1>1, RemovedAt
<1> HIDE DEF n
<1>3. NoDup(n)
  BY <1>1, <1>2 DEF NoDup
<1>4. ASSUME NEW s, In(s, n) PROVE In(s, q) /\ s # r
  <2>1. PICK j \in 1..Len(n) : n[j] = s
    BY <1>4 DEF In
  <2>2. CASE j < i
    BY <1>1, <1>2, <2>1, <2>2 DEF In, NoDup
  <2>3. CASE ~(j < i)
    BY <1>1, <1>2, <2>1, <2>3 DEF In, NoDup
  <2> QED BY <2>2, <2>3
<1>5. ASSUME NEW s, In(s, q), s # r PROVE In(s, n)
  <2>1. PICK j \in 1..Len(q) : q[j] = s
    BY <1>5 DEF In
  <2>2. CASE j < i
    BY <1>1, <1>2, <2>1, <2>2 DEF In
  <2>3. CASE j > i
    <3>1. j - 1 \in 1..Len(n) /\ n[j - 1] = q[j]
      BY <1>1, <1>2, <2>1, <2>3
    <3> QED BY <2>1, <3>1 DEF In
  <2>4. j # i
    BY <1>1, <1>5, <2>1
  <2> QED BY <1>1, <2>1, <2>2, <2>3, <2>4
<1>6. \A j \in 1 .. Len(n) : n[j] = IF j < i THEN q[j] ELSE q[j + 1]
  BY <1>2
<1> QED BY <1>2, <1>3, <1>4, <1>5, <1>6 DEF n, i

LEMMA WithNewReq ==
    ASSUME NEW q \in Seq(Req), NoDup(q), NEW r \in Req, ~In(r, q)
    PROVE  /\ Append(q, r) \in Seq(Req) /\ NoDup(Append(q, r))
           /\ Len(Append(q, r)) = Len(q) + 1
           /\ \A j \in 1..Len(q) : Append(q, r)[j] = q[j]
           /\ Append(q, r)[Len(q) + 1] = r
           /\ \A s : In(s, Append(q, r)) <=> In(s, q) \/ s = r
<1> DEFINE n == Append(q, r)
<1>1. /\ n \in Seq(Req) /\ Len(n) = Len(q) + 1 /\ n[Len(q) + 1] = r
      /\ \A j \in 1..Len(q) : n[j] = q[j]
      /\ Len(q) \in Nat
  BY AppendProperties, LenProperties
<1> HIDE DEF n
<1>2. \A j \in 1..Len(n) : j \in 1..Len(q) \/ j = Len(q) + 1
  BY <1>1
<1>3. NoDup(n)
  BY <1>1, <1>2 DEF NoDup, In
<1>4. \A s : In(s, n) <=> In(s, q) \/ s = r
  <2>1. \A j \in 1..Len(q) : j \in 1..Len(n)
    BY <1>1
  <2>2. Len(q) + 1 \in 1..Len(n)
    BY <1>1
  <2> QED BY <1>1, <1>2, <2>1, <2>2 DEF In
<1> QED BY <1>1, <1>3, <1>4 DEF n

LEMMA WithoutHead ==
    ASSUME NEW q \in Seq(Req), NoDup(q), q # <<>>
    PROVE  /\ Tail(q) \in Seq(Req) /\ NoDup(Tail(q)) /\ Len(Tail(q)) = Len(q) - 1
           /\ \A j \in 1 .. Len(q) - 1 : Tail(q)[j] = q[j + 1]
           /\ Len(q) \in Nat \ {0} /\ q[1] = Head(q) /\ Head(q) \in Req
           /\ \A s : In(s, Tail(q)) <=> In(s, q) /\ s # Head(q)
<1> DEFINE n == Tail(q)
<1>1. /\ n \in Seq(Req) /\ Len(n) = Len(q) - 1 /\ Len(q) \in Nat \ {0}
      /\ \A j \in 1..Len(n) : n[j] = q[j + 1]
      /\ Head(q) \in Req
  BY HeadTailProperties, EmptySeq
<1>a. q[1] = Head(q)
  BY <1>1
<1> HIDE DEF n
<1>2. NoDup(n)
  <2>1. \A j \in 1..Len(n) : j + 1 \in 1..Len(q)
    BY <1>1
  <2>2. \A j, k \in 1..Len(n) : j + 1 = k + 1 => j = k
    BY <1>1
  <2> QED BY <1>1, <2>1, <2>2 DEF NoDup
<1>3. ASSUME NEW s, In(s, n) PROVE In(s, q) /\ s # Head(q)
  <2>1. PICK j \in 1..Len(n) : n[j] = s
    BY <1>3 DEF In
  <2>2. j + 1 \in 1..Len(q) /\ 1 \in 1..Len(q) /\ j + 1 # 1 /\ q[j + 1] = s
    BY <1>1, <2>1
  <2> QED BY <1>a, <2>2 DEF In, NoDup
<1>4. ASSUME NEW s, In(s, q), s # Head(q) PROVE In(s, n)
  <2>1. PICK j \in 1..Len(q) : q[j] = s
    BY <1>4 DEF In
  <2>2. j - 1 \in 1..Len(n) /\ n[j - 1] = q[j]
    BY <1>1, <1>a, <1>4, <2>1
  <2> QED BY <2>1, <2>2 DEF In
<1> QED BY <1>1, <1>a, <1>2, <1>3, <1>4 DEF n

LEMMA NothingIn ==
    ASSUME NEW s
    PROVE  ~In(s, <<>>) /\ NoDup(<<>>) /\ <<>> \in Seq(Req)
BY EmptySeq DEF In, NoDup
-----------------------------------------------------------------------------
(* Cursors                                                                  *)

LEMMA IdleShape == Idle \in Ctx /\ Idle.pc = "idle" /\ Idle.req = NoReq /\ Owner(Idle) = NoReq
BY DEF Idle, Ctx, By, MaybeReq, Owner

LEMMA UnsentShape ==
    ASSUME NEW q \in Seq(Req), NoDup(q), NEW m \in MaybeReq, m = NoReq \/ In(m, q),
           NEW by \in By, NEW r \in MaybeReq
    PROVE  LET x == Unsent(q, m, by, r) IN
           /\ x \in Ctx /\ x.pc = "unsent" /\ x.left = 0 /\ x.resent = NoReq
           /\ x.by = by /\ x.req = r
           /\ x.i \in 1 .. Len(q) + 1
           /\ (m = NoReq /\ x.i = 1) \/ (x.i > 1 /\ m = q[x.i - 1])
<1> DEFINE k == IF m = NoReq THEN 1 ELSE IndexOf(m, q) + 1
<1>1. Len(q) \in Nat
  BY LenProperties
<1>2. k \in 1 .. Len(q) + 1 /\ ((m = NoReq /\ k = 1) \/ (k > 1 /\ m = q[k - 1]))
  <2>1. CASE m = NoReq
    BY <1>1, <2>1
  <2>2. CASE m # NoReq
    <3>1. IndexOf(m, q) \in 1..Len(q) /\ q[IndexOf(m, q)] = m
      BY <2>2, IndexFound
    <3> QED BY <1>1, <2>2, <3>1
  <2> QED BY <2>1, <2>2
<1> HIDE DEF k
<1>3. Unsent(q, m, by, r) = [pc |-> "unsent", i |-> k, left |-> 0, resent |-> NoReq,
                             by |-> by, req |-> r]
  BY DEF Unsent, Idle, k
<1>4. k \in Nat /\ NoReq \in MaybeReq
  BY <1>1, <1>2 DEF MaybeReq
<1> QED BY <1>2, <1>3, <1>4 DEF Ctx

LEMMA UnsentCursor ==
    ASSUME NEW q \in Seq(Req), NoDup(q), NEW m \in MaybeReq, m = NoReq \/ In(m, q),
           NEW by \in By \ {"none"}, NEW r \in MaybeReq,
           by \in {"fwd", "resched"} <=> r # NoReq,
           by = "resched" => q[Len(q)] = r
    PROVE  CursorOf(q, m, Unsent(q, m, by, r))
BY UnsentShape DEF CursorOf, CursorIdle, CursorUnsent, CursorResend

LEMMA ResendCursor ==
    ASSUME NEW q \in Seq(Req), NoDup(q), NEW m \in Req, In(m, q), NEW by \in {"popr", "repair"},
           FwdAssumption
    PROVE  LET x == Resend(q, m, by) IN
           /\ x \in Ctx /\ x.pc = "resend" /\ x.i = 1 /\ x.left = IndexOf(m, q) /\ x.resent = NoReq
           /\ x.by = by /\ x.req = NoReq
           /\ CursorOf(q, m, x)
<1>1. IndexOf(m, q) \in 1..Len(q) /\ q[IndexOf(m, q)] = m /\ Len(q) \in Nat
  BY IndexFound, LenProperties
<1> DEFINE k == IndexOf(m, q)
<1>2. Resend(q, m, by) = [pc |-> "resend", i |-> 1, left |-> k, resent |-> NoReq,
                          by |-> by, req |-> NoReq]
  BY DEF Resend, Idle
<1> HIDE DEF k
<1>3. k \in Nat /\ NoReq \in MaybeReq /\ by \in By
  BY <1>1 DEF MaybeReq, By, k
<1>4. Resend(q, m, by) \in Ctx
  BY <1>2, <1>3 DEF Ctx
<1>5. CursorOf(q, m, Resend(q, m, by))
  BY <1>1, <1>2, <1>3 DEF CursorOf, CursorIdle, CursorUnsent, CursorResend, k
<1> QED BY <1>2, <1>4, <1>5 DEF k

(* The loops move on: UnsentSend, UnsentEvict, ResendSend, ResendEvict.     *)
LEMMA UnsentMoves ==
    ASSUME NEW q \in Seq(Req), NEW m, NEW x \in Ctx, CursorOf(q, m, x), x.pc = "unsent",
           x.i <= Len(q)
    PROVE  LET y == [x EXCEPT !.i = @ + 1] IN
           /\ y \in Ctx /\ y.pc = "unsent" /\ y.i = x.i + 1 /\ y.left = 0 /\ y.resent = x.resent
           /\ y.by = x.by /\ y.req = x.req
           /\ CursorOf(q, q[x.i], y)
<1> DEFINE d == x.i + 1
           y == [x EXCEPT !.i = d]
<1>1. Len(q) \in Nat /\ x.i \in 1..Len(q) /\ x.left = 0
  BY LenProperties DEF CursorOf, CursorUnsent, Ctx
<1>2. d \in Nat /\ d \in 2 .. Len(q) + 1 /\ d - 1 = x.i
  BY <1>1
<1> HIDE DEF d
<1>3. y \in Ctx /\ y.pc = "unsent" /\ y.i = d /\ y.left = 0 /\ y.resent = x.resent
      /\ y.by = x.by /\ y.req = x.req
  BY <1>1, <1>2 DEF Ctx
<1> HIDE DEF y
<1>4. CursorOf(q, q[x.i], y)
  BY <1>1, <1>2, <1>3 DEF CursorOf, CursorIdle, CursorUnsent, CursorResend
<1> QED BY <1>3, <1>4 DEF y, d

LEMMA UnsentDrops ==
    ASSUME NEW q \in Seq(Req), NoDup(q), NEW m, NEW x \in Ctx, CursorOf(q, m, x), x.pc = "unsent",
           x.i <= Len(q)
    PROVE  /\ In(q[x.i], q) /\ IndexOf(q[x.i], q) = x.i /\ q[x.i] \in Req
           /\ CursorOf(RemoveAt(q, IndexOf(q[x.i], q)), m, x)
<1>1. Len(q) \in Nat /\ x.i \in 1..Len(q) /\ x.left = 0
  BY LenProperties DEF CursorOf, CursorUnsent, Ctx
<1>2. In(q[x.i], q) /\ IndexOf(q[x.i], q) = x.i /\ q[x.i] \in Req
  BY <1>1, IndexIs, ElementOfSeq DEF In
<1> DEFINE n == RemoveAt(q, IndexOf(q[x.i], q))
<1>3. /\ n \in Seq(Req) /\ Len(n) = Len(q) - 1
      /\ \A j \in 1 .. Len(n) : n[j] = IF j < x.i THEN q[j] ELSE q[j + 1]
  BY <1>2, WithoutReq
<1> HIDE DEF n
<1>4. CursorUnsent(n, m, x)
  <2>1. x.i \in 1 .. Len(n) + 1
    BY <1>1, <1>3
  <2>2. x.i > 1 => n[x.i - 1] = q[x.i - 1]
    BY <1>1, <1>3
  <2>3. x.i <= Len(n) => n[Len(n)] = q[Len(q)]
    BY <1>1, <1>3
  <2> QED BY <1>1, <2>1, <2>2, <2>3 DEF CursorOf, CursorUnsent
<1> QED BY <1>2, <1>4 DEF CursorOf, CursorIdle, CursorResend, n

LEMMA ResendMoves ==
    ASSUME NEW q \in Seq(Req), NoDup(q), NEW m, NEW x \in Ctx, CursorOf(q, m, x), x.pc = "resend",
           x.left > 0, FwdAssumption
    PROVE  LET y == [x EXCEPT !.resent = q[x.i], !.i = x.i + 1,
                              !.left = IF x.by = "repair" THEN 0 ELSE x.left - 1] IN
           /\ y \in Ctx /\ y.pc = "resend" /\ y.i = x.i + 1 /\ y.resent = q[x.i]
           /\ y.left = IF x.by = "repair" THEN 0 ELSE x.left - 1
           /\ y.by = x.by /\ y.req = NoReq
           /\ CursorOf(q, m, y)
           /\ x.i \in 1..Len(q) /\ q[x.i] \in Req
<1> DEFINE d == x.i + 1
           l == IF x.by = "repair" THEN 0 ELSE x.left - 1
           r == q[x.i]
           y == [x EXCEPT !.resent = r, !.i = d, !.left = l]
<1>1. /\ Len(q) \in Nat /\ x.i \in Nat /\ x.left \in Nat /\ x.i \in 1..Len(q)
      /\ x.i + x.left <= Len(q) + 1 /\ x.req = NoReq /\ x.by \in {"popr", "repair"}
      /\ m = q[x.i + x.left - 1]
  BY LenProperties DEF CursorOf, CursorResend, Ctx
<1>2. d \in Nat /\ l \in Nat /\ r \in Req /\ r \in MaybeReq /\ d > 1 /\ r = q[d - 1]
      /\ d + l <= Len(q) + 1 /\ (l > 0 => m = q[d + l - 1]) /\ In(m, q) /\ r # NoReq
      /\ (x.by = "repair" => l = 0)
  <2>1. r \in Req /\ r \in MaybeReq /\ r # NoReq
    BY <1>1, ElementOfSeq DEF MaybeReq, FwdAssumption, NoReq
  <2>2. In(m, q)
    <3>1. x.i + x.left - 1 \in 1..Len(q)
      BY <1>1
    <3> QED BY <1>1, <3>1 DEF In
  <2>3. d \in Nat /\ d > 1 /\ d - 1 = x.i /\ r = q[x.i]
    BY <1>1
  <2>4. l \in Nat /\ (x.by = "repair" => l = 0) /\ (l > 0 => l = x.left - 1)
    BY <1>1
  <2> HIDE DEF d, l, r
  <2>5. d + l <= Len(q) + 1
    BY <1>1, <2>3, <2>4
  <2>6. l > 0 => d + l - 1 = x.i + x.left - 1
    BY <1>1, <2>3, <2>4
  <2>7. r = q[d - 1] /\ (l > 0 => m = q[d + l - 1])
    BY <1>1, <2>3, <2>6
  <2> QED BY <2>1, <2>2, <2>3, <2>4, <2>5, <2>7
<1> HIDE DEF d, l, r
<1>3. y \in Ctx /\ y.pc = "resend" /\ y.i = d /\ y.left = l /\ y.resent = r
      /\ y.by = x.by /\ y.req = NoReq
  BY <1>1, <1>2 DEF Ctx
<1> HIDE DEF y
<1>4. CursorOf(q, m, y)
  BY <1>1, <1>2, <1>3 DEF CursorOf, CursorIdle, CursorUnsent, CursorResend
<1> QED BY <1>1, <1>2, <1>3, <1>4 DEF d, l, r, y

LEMMA ResendDrops ==
    ASSUME NEW q \in Seq(Req), NoDup(q), NEW m, NEW x \in Ctx, CursorOf(q, m, x), x.pc = "resend",
           x.left > 0
    PROVE  LET y == [x EXCEPT !.left = @ - 1] IN
           /\ In(q[x.i], q) /\ IndexOf(q[x.i], q) = x.i /\ q[x.i] \in Req /\ x.i \in 1..Len(q)
           /\ y \in Ctx /\ y.pc = "resend" /\ y.i = x.i /\ y.left = x.left - 1
           /\ y.resent = x.resent /\ y.by = x.by /\ y.req = NoReq
           /\ CursorOf(RemoveAt(q, IndexOf(q[x.i], q)), m, y)
<1> DEFINE l == x.left - 1
           y == [x EXCEPT !.left = l]
<1>1. /\ Len(q) \in Nat /\ x.i \in Nat /\ x.left \in Nat /\ x.i \in 1..Len(q)
      /\ x.i + x.left <= Len(q) + 1 /\ x.req = NoReq /\ x.by \in {"popr", "repair"}
      /\ m = q[x.i + x.left - 1]
      /\ (x.i = 1 /\ x.resent = NoReq) \/ (x.i > 1 /\ x.resent = q[x.i - 1])
      /\ ~(x.by = "repair" /\ x.resent # NoReq)
  BY LenProperties DEF CursorOf, CursorResend, Ctx
<1>2. In(q[x.i], q) /\ IndexOf(q[x.i], q) = x.i /\ q[x.i] \in Req
  BY <1>1, IndexIs, ElementOfSeq DEF In
<1> DEFINE n == RemoveAt(q, IndexOf(q[x.i], q))
<1>3. /\ n \in Seq(Req) /\ Len(n) = Len(q) - 1
      /\ \A j \in 1 .. Len(n) : n[j] = IF j < x.i THEN q[j] ELSE q[j + 1]
  BY <1>2, WithoutReq
<1> HIDE DEF n
<1>4. l \in Nat /\ x.left = l + 1
  BY <1>1
<1>5. [x EXCEPT !.left = @ - 1] = y
  BY DEF Ctx
<1> HIDE DEF l
<1>6. y \in Ctx /\ y.pc = "resend" /\ y.i = x.i /\ y.left = l /\ y.resent = x.resent
      /\ y.by = x.by /\ y.req = NoReq
  BY <1>1, <1>4 DEF Ctx
<1> HIDE DEF y
<1>7. CursorResend(n, m, y)
  <2>1. x.i + l <= Len(n) + 1
    BY <1>1, <1>3, <1>4
  <2>2. x.i > 1 => n[x.i - 1] = q[x.i - 1]
    BY <1>1, <1>3
  <2>3. l > 0 => n[x.i + l - 1] = m
    BY <1>1, <1>3, <1>4
  <2> QED BY <1>1, <1>6, <2>1, <2>2, <2>3 DEF CursorResend
<1>8. y.left = x.left - 1
  BY <1>6 DEF l
<1> QED BY <1>1, <1>2, <1>5, <1>6, <1>7, <1>8 DEF CursorOf, CursorIdle, CursorUnsent, n
-----------------------------------------------------------------------------
(* A queue changes                                                          *)

LEMMA QueueSwap ==
    ASSUME queue \in [Conn -> Seq(Req)], Distinct, NEW c \in Conn,
           NEW n \in Seq(Req), NoDup(n), queue' = [queue EXCEPT ![c] = n],
           \A s : In(s, n) => In(s, queue[c]) \/ ~InQ(s, queue)
    PROVE  /\ queue' \in [Conn -> Seq(Req)] /\ queue'[c] = n
           /\ \A d \in Conn \ {c} : queue'[d] = queue[d]
           /\ Distinct'
           /\ \A s : InQ(s, queue') <=> In(s, n) \/ (InQ(s, queue) /\ ~In(s, queue[c]))
<1>1. /\ queue' \in [Conn -> Seq(Req)] /\ queue'[c] = n
      /\ \A d \in Conn \ {c} : queue'[d] = queue[d]
  OBVIOUS
<1>2. \A d \in Conn \ {c} : \A s : ~(In(s, queue[d]) /\ In(s, n))
  <2> SUFFICES ASSUME NEW d \in Conn \ {c}, NEW s, In(s, queue[d]), In(s, n) PROVE FALSE
    OBVIOUS
  <2>1. InQ(s, queue)
    BY DEF InQ
  <2>2. In(s, queue[c])
    BY <2>1
  <2> QED BY <2>2 DEF In, Distinct
<1>3. Distinct'
  <2> SUFFICES ASSUME NEW d \in Conn, NEW e \in Conn,
                      NEW j \in 1..Len(queue'[d]), NEW k \in 1..Len(queue'[e]),
                      queue'[d][j] = queue'[e][k]
               PROVE  d = e /\ j = k
    BY DEF Distinct
  <2>1. CASE d = c /\ e = c
    BY <1>1, <2>1 DEF NoDup
  <2>2. CASE d = c /\ e # c
    BY <1>1, <1>2, <2>2 DEF In
  <2>3. CASE d # c /\ e = c
    BY <1>1, <1>2, <2>3 DEF In
  <2>4. CASE d # c /\ e # c
    BY <1>1, <2>4 DEF Distinct
  <2> QED BY <2>1, <2>2, <2>3, <2>4
<1>4. ASSUME NEW s PROVE InQ(s, queue') <=> In(s, n) \/ (InQ(s, queue) /\ ~In(s, queue[c]))
  <2>1. \A d \in Conn : In(s, queue[d]) /\ In(s, queue[c]) => d = c
    BY DEF In, Distinct
  <2>2. InQ(s, queue') => In(s, n) \/ (InQ(s, queue) /\ ~In(s, queue[c]))
    BY <1>1, <1>2, <2>1 DEF InQ
  <2>3. In(s, n) => InQ(s, queue')
    BY <1>1 DEF InQ
  <2>4. InQ(s, queue) /\ ~In(s, queue[c]) => InQ(s, queue')
    BY <1>1 DEF InQ
  <2> QED BY <2>2, <2>3, <2>4
<1> QED BY <1>1, <1>3, <1>4

LEMMA NoDupQueue == ASSUME Distinct, NEW c \in Conn PROVE NoDup(queue[c])
BY DEF Distinct, NoDup

LEMMA QueueLess ==
    ASSUME queue \in [Conn -> Seq(Req)], Distinct, NEW c \in Conn, NEW r, In(r, queue[c]),
           queue' = [queue EXCEPT ![c] = RemoveAt(@, IndexOf(r, @))]
    PROVE  /\ queue' \in [Conn -> Seq(Req)]
           /\ queue'[c] = RemoveAt(queue[c], IndexOf(r, queue[c]))
           /\ \A d \in Conn \ {c} : queue'[d] = queue[d]
           /\ Distinct'
           /\ \A s : In(s, queue'[c]) <=> In(s, queue[c]) /\ s # r
           /\ \A s : InQ(s, queue') <=> InQ(s, queue) /\ s # r
<1> DEFINE n == RemoveAt(queue[c], IndexOf(r, queue[c]))
<1>1. NoDup(queue[c]) /\ queue[c] \in Seq(Req)
  BY NoDupQueue
<1>2. n \in Seq(Req) /\ NoDup(n) /\ \A s : In(s, n) <=> In(s, queue[c]) /\ s # r
  BY <1>1, WithoutReq
<1>3. queue' = [queue EXCEPT ![c] = n]
  OBVIOUS
<1> HIDE DEF n
<1>4. /\ queue' \in [Conn -> Seq(Req)] /\ queue'[c] = n
      /\ \A d \in Conn \ {c} : queue'[d] = queue[d]
      /\ Distinct'
      /\ \A s : InQ(s, queue') <=> In(s, n) \/ (InQ(s, queue) /\ ~In(s, queue[c]))
  BY <1>2, <1>3, QueueSwap
<1>5. \A s : In(s, queue[c]) => InQ(s, queue)
  BY DEF InQ
<1> QED BY <1>2, <1>4, <1>5 DEF n

LEMMA QueueTail ==
    ASSUME queue \in [Conn -> Seq(Req)], Distinct, NEW c \in Conn, queue[c] # <<>>,
           queue' = [queue EXCEPT ![c] = Tail(@)]
    PROVE  /\ queue' \in [Conn -> Seq(Req)]
           /\ queue'[c] = Tail(queue[c])
           /\ \A d \in Conn \ {c} : queue'[d] = queue[d]
           /\ Distinct'
           /\ Head(queue[c]) \in Req /\ In(Head(queue[c]), queue[c])
           /\ \A s : In(s, queue'[c]) <=> In(s, queue[c]) /\ s # Head(queue[c])
           /\ \A s : InQ(s, queue') <=> InQ(s, queue) /\ s # Head(queue[c])
<1> DEFINE n == Tail(queue[c])
           r == Head(queue[c])
<1>1. NoDup(queue[c]) /\ queue[c] \in Seq(Req)
  BY NoDupQueue
<1>2. /\ n \in Seq(Req) /\ NoDup(n) /\ \A s : In(s, n) <=> In(s, queue[c]) /\ s # r
      /\ r \in Req /\ Len(queue[c]) \in Nat \ {0} /\ queue[c][1] = r
  BY <1>1, WithoutHead
<1>3. In(r, queue[c])
  <2>1. 1 \in 1..Len(queue[c])
    BY <1>2
  <2> QED BY <1>2, <2>1 DEF In
<1>4. queue' = [queue EXCEPT ![c] = n]
  OBVIOUS
<1> HIDE DEF n, r
<1>5. /\ queue' \in [Conn -> Seq(Req)] /\ queue'[c] = n
      /\ \A d \in Conn \ {c} : queue'[d] = queue[d]
      /\ Distinct'
      /\ \A s : InQ(s, queue') <=> In(s, n) \/ (InQ(s, queue) /\ ~In(s, queue[c]))
  BY <1>2, <1>4, QueueSwap
<1>6. \A s : In(s, queue[c]) => InQ(s, queue)
  BY DEF InQ
<1> QED BY <1>2, <1>3, <1>5, <1>6 DEF n, r

LEMMA QueueMore ==
    ASSUME queue \in [Conn -> Seq(Req)], Distinct, NEW c \in Conn, NEW r \in Req, ~InQ(r, queue),
           queue' = [queue EXCEPT ![c] = Append(@, r)]
    PROVE  /\ queue' \in [Conn -> Seq(Req)]
           /\ queue'[c] = Append(queue[c], r)
           /\ \A d \in Conn \ {c} : queue'[d] = queue[d]
           /\ Distinct'
           /\ \A s : In(s, queue'[c]) <=> In(s, queue[c]) \/ s = r
           /\ \A s : InQ(s, queue') <=> InQ(s, queue) \/ s = r
           /\ Len(queue'[c]) = Len(queue[c]) + 1 /\ Len(queue[c]) \in Nat
           /\ \A j \in 1..Len(queue[c]) : queue'[c][j] = queue[c][j]
           /\ queue'[c][Len(queue[c]) + 1] = r
<1> DEFINE n == Append(queue[c], r)
<1>1. NoDup(queue[c]) /\ queue[c] \in Seq(Req) /\ ~In(r, queue[c]) /\ Len(queue[c]) \in Nat
  BY NoDupQueue, LenProperties DEF InQ
<1>2. /\ n \in Seq(Req) /\ NoDup(n) /\ \A s : In(s, n) <=> In(s, queue[c]) \/ s = r
      /\ Len(n) = Len(queue[c]) + 1 /\ n[Len(queue[c]) + 1] = r
      /\ \A j \in 1..Len(queue[c]) : n[j] = queue[c][j]
  BY <1>1, WithNewReq
<1>3. queue' = [queue EXCEPT ![c] = n]
  OBVIOUS
<1> HIDE DEF n
<1>a. \A s : In(s, n) => In(s, queue[c]) \/ ~InQ(s, queue)
  BY <1>2
<1>4. /\ queue' \in [Conn -> Seq(Req)] /\ queue'[c] = n
      /\ \A d \in Conn \ {c} : queue'[d] = queue[d]
      /\ Distinct'
      /\ \A s : InQ(s, queue') <=> In(s, n) \/ (InQ(s, queue) /\ ~In(s, queue[c]))
  BY <1>2, <1>3, <1>a, QueueSwap
<1>5. \A s : In(s, queue[c]) => InQ(s, queue)
  BY DEF InQ
<1> QED BY <1>1, <1>2, <1>4, <1>5 DEF n

LEMMA QueueGone ==
    ASSUME queue \in [Conn -> Seq(Req)], Distinct, NEW c \in Conn,
           queue' = [queue EXCEPT ![c] = <<>>]
    PROVE  /\ queue' \in [Conn -> Seq(Req)] /\ queue'[c] = <<>>
           /\ \A d \in Conn \ {c} : queue'[d] = queue[d]
           /\ Distinct'
           /\ \A s : InQ(s, queue') <=> InQ(s, queue) /\ s \notin Range(queue[c])
           /\ Range(queue[c]) \subseteq Req
           /\ \A s \in Range(queue[c]) : InQ(s, queue)
<1>1. /\ queue' \in [Conn -> Seq(Req)] /\ queue'[c] = <<>>
      /\ \A d \in Conn \ {c} : queue'[d] = queue[d]
      /\ Distinct'
      /\ \A s : InQ(s, queue') <=> In(s, <<>>) \/ (InQ(s, queue) /\ ~In(s, queue[c]))
  BY NothingIn, QueueSwap
<1>2. \A s : ~In(s, <<>>)
  BY NothingIn
<1>3. queue[c] \in Seq(Req)
  OBVIOUS
<1>4. \A s : s \in Range(queue[c]) <=> In(s, queue[c])
  BY <1>3, RangeIn
<1>5. \A s : In(s, queue[c]) => s \in Req /\ InQ(s, queue)
  BY <1>3, ElementOfSeq DEF In, InQ
<1> QED BY <1>1, <1>2, <1>4, <1>5
-----------------------------------------------------------------------------
(* Steps that leave the queues alone: scheduling, error responses, clients  *)

LEMMA QuietQueues ==
    ASSUME BaseInv, UNCHANGED <<queue, msgSent, nipq, ctx>>
    PROVE  /\ CursorInv' /\ NipqInv' /\ Distinct'
           /\ \A s : InQ(s, queue') <=> InQ(s, queue)
BY DEF BaseInv, HomeInv, CursorInv, NipqInv, Distinct

LEMMA LookBase ==
    ASSUME FwdAssumption, BaseInv, NEW r \in Req, NEW c \in Conn, tfw_srv_conn_restricted(r, c)
    PROVE  BaseInv'
<1> USE DEF tfw_srv_conn_restricted, qVars
<1>1. CursorInv' /\ NipqInv' /\ Distinct' /\ \A s : InQ(s, queue') <=> InQ(s, queue)
  BY QuietQueues
<1>2. HomeInv'
  BY <1>1 DEF BaseInv, HomeInv, Placed
<1>3. HeldInv'
  BY DEF BaseInv, HeldInv, ReqTypeOK, FwdAssumption, NoConn
<1>4. QueueTypeOK' /\ NetTypeOK' /\ ReqTypeOK' /\ RetriesInv'
  BY DEF BaseInv, QueueTypeOK, NetTypeOK, ReqTypeOK, RetriesInv
<1>i. IdleInv'
  BY DEF BaseInv, IdleInv, HeldInv, ReqTypeOK, FwdAssumption, NoConn
<1> QED BY <1>i, <1>1, <1>2, <1>3, <1>4 DEF BaseInv

LEMMA LateBase ==
    ASSUME FwdAssumption, BaseInv, NEW r \in Req, GetIfLiveLate(r)
    PROVE  BaseInv'
<1> USE DEF GetIfLiveLate, qVars
<1>1. CursorInv' /\ NipqInv' /\ Distinct' /\ \A s : InQ(s, queue') <=> InQ(s, queue)
  BY QuietQueues
<1>2. HomeInv'
  BY <1>1 DEF BaseInv, HomeInv, Placed
<1>3. HeldInv'
  <2>1. pick[r] \in Conn /\ r \in fresh \ held
    BY DEF BaseInv, ReqTypeOK
  <2>2. CASE held' = held \cup {r} /\ pick' = pick
    BY <2>1, <2>2 DEF BaseInv, HeldInv
  <2>3. CASE held' = held /\ pick' = [pick EXCEPT ![r] = NoConn]
    BY <2>1, <2>3 DEF BaseInv, HeldInv, ReqTypeOK
  <2> QED BY <2>2, <2>3
<1>4. QueueTypeOK' /\ NetTypeOK' /\ ReqTypeOK' /\ RetriesInv'
  BY DEF BaseInv, QueueTypeOK, NetTypeOK, ReqTypeOK, RetriesInv
<1>i. IdleInv'
  BY DEF BaseInv, IdleInv, ReqTypeOK, Live, Active
<1> QED BY <1>i, <1>1, <1>2, <1>3, <1>4 DEF BaseInv

LEMMA GetBase ==
    ASSUME FwdAssumption, BaseInv, NEW r \in Req, NEW c \in Conn, tfw_http_get_srv_conn(r, c)
    PROVE  BaseInv'
<1> USE DEF tfw_http_get_srv_conn, qVars
<1>1. CursorInv' /\ NipqInv' /\ Distinct' /\ \A s : InQ(s, queue') <=> InQ(s, queue)
  BY QuietQueues
<1>2. HomeInv'
  BY <1>1 DEF BaseInv, HomeInv, Placed
<1>3. HeldInv'
  BY DEF BaseInv, HeldInv, ReqTypeOK, FwdAssumption, NoConn
<1>4. QueueTypeOK' /\ NetTypeOK' /\ ReqTypeOK' /\ RetriesInv'
  BY DEF BaseInv, QueueTypeOK, NetTypeOK, ReqTypeOK, RetriesInv
<1>i. IdleInv'
  BY DEF BaseInv, IdleInv, HeldInv, ReqTypeOK, FwdAssumption, NoConn, Live, Active
<1> QED BY <1>i, <1>1, <1>2, <1>3, <1>4 DEF BaseInv

LEMMA NoConnBase ==
    ASSUME FwdAssumption, BaseInv, NEW r \in Req, NoSrvConn(r)
    PROVE  BaseInv'
<1> USE DEF NoSrvConn, qVars
<1>1. CursorInv' /\ NipqInv' /\ Distinct' /\ \A s : InQ(s, queue') <=> InQ(s, queue)
  BY QuietQueues
<1>2. HomeInv'
  BY <1>1 DEF BaseInv, HomeInv, Placed
<1>3. HeldInv'
  BY DEF BaseInv, HeldInv, FwdAssumption, NoConn
<1>4. QueueTypeOK' /\ NetTypeOK' /\ ReqTypeOK' /\ RetriesInv'
  BY DEF BaseInv, QueueTypeOK, NetTypeOK, ReqTypeOK, RetriesInv
<1>i. IdleInv'
  BY DEF BaseInv, IdleInv
<1> QED BY <1>i, <1>1, <1>2, <1>3, <1>4 DEF BaseInv

LEMMA ReschedBase ==
    ASSUME FwdAssumption, BaseInv, NEW r \in Req, tfw_http_fwdq_resched(r)
    PROVE  BaseInv'
<1> USE DEF tfw_http_fwdq_resched, qVars
<1>1. CursorInv' /\ NipqInv' /\ Distinct' /\ \A s : InQ(s, queue') <=> InQ(s, queue)
  BY QuietQueues
<1>2. HomeInv'
  BY <1>1 DEF BaseInv, HomeInv, Placed
<1>3. HeldInv'
  BY DEF BaseInv, HeldInv
<1>4. QueueTypeOK' /\ NetTypeOK'
  BY DEF BaseInv, QueueTypeOK, NetTypeOK
<1>5. retries[r] \in 0..MaxRefwd
  BY DEF BaseInv, RetriesInv, ReqTypeOK, HomeInv, Placed, FwdAssumption
<1>6. ReqTypeOK'
  BY <1>5 DEF BaseInv, ReqTypeOK, FwdAssumption
<1>7. RetriesInv'
  BY <1>5 DEF BaseInv, RetriesInv, ReqTypeOK, FwdAssumption
<1>i. IdleInv'
  BY DEF BaseInv, IdleInv
<1> QED BY <1>i, <1>1, <1>2, <1>3, <1>4, <1>6, <1>7 DEF BaseInv

LEMMA ZapBase ==
    ASSUME FwdAssumption, BaseInv, NEW r \in Req, tfw_http_req_zap_error(r)
    PROVE  BaseInv'
<1> USE DEF tfw_http_req_zap_error, qVars
<1>1. CursorInv' /\ NipqInv' /\ Distinct' /\ \A s : InQ(s, queue') <=> InQ(s, queue)
  BY QuietQueues
<1>0. /\ got'[r] = "error" /\ \A s \in Req \ {r} : got'[s] = got[s]
      /\ got' \in [Req -> Req \cup {NoReq, "error"}]
  BY DEF BaseInv, ReqTypeOK
<1>2. HomeInv'
  BY <1>0, <1>1 DEF BaseInv, HomeInv, Placed, NoReq
<1>3. HeldInv'
  BY DEF BaseInv, HeldInv
<1>4. QueueTypeOK' /\ NetTypeOK' /\ ReqTypeOK'
  BY <1>0 DEF BaseInv, QueueTypeOK, NetTypeOK, ReqTypeOK
<1>5. RetriesInv'
  BY <1>0 DEF BaseInv, RetriesInv, NoReq
<1>i. IdleInv'
  BY DEF BaseInv, IdleInv
<1> QED BY <1>i, <1>1, <1>2, <1>3, <1>4, <1>5 DEF BaseInv

LEMMA ClearNipBase ==
    ASSUME FwdAssumption, BaseInv, NEW r \in Req, ClearNip(r)
    PROVE  BaseInv'
<1> USE DEF ClearNip, qVars, reqVars
<1>1. CursorInv' /\ NipqInv' /\ Distinct' /\ \A s : InQ(s, queue') <=> InQ(s, queue)
  BY QuietQueues
<1>2. HomeInv'
  BY <1>1 DEF BaseInv, HomeInv, Placed
<1>3. QueueTypeOK' /\ NetTypeOK' /\ ReqTypeOK' /\ RetriesInv' /\ HeldInv'
  BY DEF BaseInv, QueueTypeOK, NetTypeOK, ReqTypeOK, RetriesInv, HeldInv
<1>i. IdleInv'
  BY DEF BaseInv, IdleInv
<1> QED BY <1>i, <1>1, <1>2, <1>3 DEF BaseInv
-----------------------------------------------------------------------------
(* Connection events that leave the queue alone                             *)

LEMMA EventBase ==
    ASSUME FwdAssumption, BaseInv, NEW c \in Conn,
           SockClose(c) \/ PutToDeath(c) \/ tfw_http_conn_release(c) \/ tfw_http_conn_init(c)
    PROVE  BaseInv'
<1> USE DEF SockClose, PutToDeath, tfw_http_conn_release, tfw_http_conn_init, qVars, reqVars
<1>1. CursorInv' /\ NipqInv' /\ Distinct' /\ \A s : InQ(s, queue') <=> InQ(s, queue)
  BY QuietQueues
<1>2. HomeInv' /\ HeldInv' /\ RetriesInv' /\ ReqTypeOK'
  BY <1>1 DEF BaseInv, HomeInv, Placed, HeldInv, RetriesInv, ReqTypeOK
<1>3. QueueTypeOK'
  <2>1. flags \in [Conn -> SUBSET {"resend", "qforwd"}]
    BY DEF BaseInv, QueueTypeOK
  <2>2. \/ flags' = flags \/ flags' = [flags EXCEPT ![c] = {}]
        \/ flags' = [flags EXCEPT ![c] = {"resend"}]
    OBVIOUS
  <2>3. flags' \in [Conn -> SUBSET {"resend", "qforwd"}]
    BY <2>1, <2>2
  <2> QED BY <2>3 DEF BaseInv, QueueTypeOK
<1>4. NetTypeOK'
  <2>1. /\ up \in [Conn -> {"up", "closing", "down", "idle", "revived"}]
        /\ wire \in [Conn -> Seq(Req)] /\ drops \in 0..MaxDrop /\ <<>> \in Seq(Req)
    BY NothingIn DEF BaseInv, NetTypeOK
  <2>a. \/ wire' = wire /\ drops' = drops
        \/ wire' = [wire EXCEPT ![c] = <<>>] /\ drops < MaxDrop /\ drops' = drops + 1
    OBVIOUS
  <2>2. wire' \in [Conn -> Seq(Req)] /\ drops' \in 0..MaxDrop
    <3>1. wire' \in [Conn -> Seq(Req)]
      BY <2>1, <2>a
    <3>2. drops' \in 0..MaxDrop
      BY <2>1, <2>a DEF FwdAssumption
    <3> QED BY <3>1, <3>2
  <2>3. up' \in [Conn -> {"up", "closing", "down", "idle", "revived"}]
    BY <2>1
  <2> QED BY <2>2, <2>3 DEF NetTypeOK
<1>i. IdleInv'
  BY DEF BaseInv, IdleInv, NetTypeOK, Unlocked
<1> QED BY <1>i, <1>1, <1>2, <1>3, <1>4 DEF BaseInv

-----------------------------------------------------------------------------
(* Steps on the queue of one connection                                     *)

LEMMA ConnStep ==
    ASSUME BaseInv, NEW c \in Conn,
           \A d \in Conn \ {c} : /\ queue'[d] = queue[d] /\ msgSent'[d] = msgSent[d]
                                 /\ nipq'[d] = nipq[d] /\ ctx'[d] = ctx[d],
           CursorOf(queue'[c], msgSent'[c], ctx'[c]),
           \A r \in nipq'[c] : In(r, queue'[c])
    PROVE  CursorInv' /\ NipqInv'
BY DEF BaseInv, CursorInv, NipqInv

(* The request of the lock holder is let go with the lock.                  *)
LEMMA HeldUnlock ==
    ASSUME FwdAssumption, BaseInv, NEW c \in Conn, ctx[c].pc # "idle", Unlock(c), fresh' = fresh
    PROVE  /\ HeldInv' /\ (up' = up => IdleInv')
           /\ held' \in SUBSET Req /\ pick' \in [Req -> Conn \cup {NoConn}]
           /\ ctx' \in [Conn -> Ctx] /\ ctx'[c] = Idle
           /\ \A d \in Conn \ {c} : ctx'[d] = ctx[d]
<1>1. ctx \in [Conn -> Ctx] /\ held \in SUBSET Req /\ pick \in [Req -> Conn \cup {NoConn}]
  BY DEF BaseInv, QueueTypeOK, ReqTypeOK
<1>2. /\ ctx' \in [Conn -> Ctx] /\ ctx'[c] = Idle
      /\ \A d \in Conn \ {c} : ctx'[d] = ctx[d]
      /\ held' \in SUBSET Req /\ pick' \in [Req -> Conn \cup {NoConn}]
  BY <1>1, IdleShape DEF Unlock
<1>3. CursorOf(queue[c], msgSent[c], ctx[c]) /\ ctx[c].pc \in {"idle", "unsent", "resend"}
  BY <1>1 DEF BaseInv, CursorInv, Ctx
<1>4. ctx[c].req = Owner(ctx[c])
  BY <1>3 DEF CursorOf, CursorResend, Owner
<1>5. \A r \in held : pick[r] \in Conn /\ (r \in fresh \/ Owner(ctx[pick[r]]) = r)
  BY DEF BaseInv, HeldInv
<1>6. \A d \in Conn : Owner(ctx[d]) # NoReq => Owner(ctx[d]) \in held /\ pick[Owner(ctx[d])] = d
  BY DEF BaseInv, HeldInv
<1>7. \A r \in held' : r \in held /\ r # ctx[c].req /\ pick'[r] = pick[r]
  BY <1>1 DEF Unlock
<1>8. ASSUME NEW r \in held' PROVE pick'[r] \in Conn /\ (r \in fresh \/ Owner(ctx'[pick'[r]]) = r)
  BY <1>2, <1>4, <1>5, <1>7
<1>9. ASSUME NEW d \in Conn, Owner(ctx'[d]) # NoReq
      PROVE  Owner(ctx'[d]) \in held' /\ pick'[Owner(ctx'[d])] = d
  <2>1. d # c
    BY <1>2, <1>9, IdleShape
  <2>2. ctx'[d] = ctx[d] /\ Owner(ctx[d]) \in held /\ pick[Owner(ctx[d])] = d
    BY <1>2, <1>6, <1>9, <2>1
  <2>3. Owner(ctx[d]) # ctx[c].req
    <3> SUFFICES ASSUME Owner(ctx[d]) = Owner(ctx[c]) PROVE FALSE
      BY <1>4
    <3> QED BY <1>6, <2>1, <2>2, <1>9
  <2> QED BY <1>1, <2>2, <2>3 DEF Unlock
<1>10. HeldInv'
  BY <1>8, <1>9 DEF HeldInv
<1>11. up' = up => IdleInv'
  <2>1. \A d \in Conn : ctx[d].pc = "idle" => ctx'[d].pc = "idle"
    BY <1>2, IdleShape
  <2> QED BY <1>7, <2>1 DEF BaseInv, IdleInv
<1> QED BY <1>2, <1>10, <1>11

(* It stays with the lock holder as long as the loop goes on.               *)
LEMMA HeldStays ==
    ASSUME BaseInv, UNCHANGED <<held, pick, fresh>>,
           \A d \in Conn : Owner(ctx'[d]) = Owner(ctx[d]), NEW c \in Conn,
           \A d \in Conn \ {c} : ctx'[d] = ctx[d], up[c] # "idle" \/ ctx[c].pc # "idle", up' = up
    PROVE  HeldInv' /\ IdleInv'
<1>1. HeldInv'
  BY DEF BaseInv, HeldInv
<1>2. IdleInv'
  BY DEF BaseInv, IdleInv
<1> QED BY <1>1, <1>2
LEMMA FwdBase ==
    ASSUME FwdAssumption, BaseInv, NEW r \in Req, NEW c \in Conn, tfw_http_req_fwd(r, c)
    PROVE  BaseInv'
<1>1. /\ r \in held /\ pick[r] = c /\ ctx[c].pc = "idle"
      /\ UNCHANGED <<msgSent, flags, up, wire, nip, retries, sent, errq, got, drops>>
  BY DEF tfw_http_req_fwd, Unlocked
<1>t. /\ queue \in [Conn -> Seq(Req)] /\ msgSent \in [Conn -> MaybeReq]
      /\ nipq \in [Conn -> SUBSET Req] /\ ctx \in [Conn -> Ctx]
      /\ held \in SUBSET Req /\ pick \in [Req -> Conn \cup {NoConn}]
      /\ fresh \in SUBSET Req /\ limbo \in SUBSET Req /\ Distinct
  BY DEF BaseInv, QueueTypeOK, ReqTypeOK, HomeInv
<1>2. CursorOf(queue[c], msgSent[c], ctx[c]) /\ (msgSent[c] = NoReq \/ In(msgSent[c], queue[c]))
      /\ ctx[c] = Idle
  BY <1>1 DEF BaseInv, CursorInv, CursorOf, CursorIdle
<1>3. Owner(ctx[c]) = NoReq /\ r # NoReq
  BY <1>2, IdleShape DEF FwdAssumption, NoReq
<1>4. r \in fresh
  BY <1>1, <1>3 DEF BaseInv, HeldInv
<1>5. ~InQ(r, queue) /\ r \notin limbo /\ r \notin errq /\ got[r] = NoReq
  BY <1>4 DEF BaseInv, HomeInv, Placed
<1>6. NetTypeOK' /\ RetriesInv'
  BY <1>1 DEF BaseInv, NetTypeOK, RetriesInv
<1>e. ASSUME tfw_http_req_enlist(c, r)
      PROVE  /\ queue' \in [Conn -> Seq(Req)] /\ Distinct'
             /\ \A d \in Conn \ {c} : queue'[d] = queue[d] /\ nipq'[d] = nipq[d]
             /\ \A s : In(s, queue'[c]) <=> In(s, queue[c]) \/ s = r
             /\ \A s : InQ(s, queue') <=> InQ(s, queue) \/ s = r
             /\ Len(queue'[c]) = Len(queue[c]) + 1 /\ queue'[c][Len(queue'[c])] = r
             /\ nipq' \in [Conn -> SUBSET Req]
             /\ \A s \in nipq'[c] : In(s, queue'[c])
  <2>1. queue' = [queue EXCEPT ![c] = Append(@, r)]
    BY <1>e DEF tfw_http_req_enlist
  <2>2. /\ queue' \in [Conn -> Seq(Req)] /\ Distinct'
        /\ \A d \in Conn \ {c} : queue'[d] = queue[d]
        /\ \A s : In(s, queue'[c]) <=> In(s, queue[c]) \/ s = r
        /\ \A s : InQ(s, queue') <=> InQ(s, queue) \/ s = r
        /\ Len(queue'[c]) = Len(queue[c]) + 1 /\ queue'[c][Len(queue[c]) + 1] = r
    BY <1>t, <1>5, <2>1, QueueMore
  <2>3. /\ nipq' \in [Conn -> SUBSET Req] /\ \A d \in Conn \ {c} : nipq'[d] = nipq[d]
        /\ \A s \in nipq'[c] : s \in nipq[c] \/ s = r
    BY <1>e, <1>t DEF tfw_http_req_enlist
  <2>4. \A s \in nipq[c] : In(s, queue[c])
    BY DEF BaseInv, NipqInv
  <2> QED BY <2>2, <2>3, <2>4
<1>7. CASE /\ tfw_http_req_enlist(c, r) /\ fresh' = fresh \ {r}
           /\ held' = held \ {r} /\ pick' = [pick EXCEPT ![r] = NoConn] /\ UNCHANGED <<ctx, limbo>>
  <2>1. CursorOf(queue'[c], msgSent'[c], ctx'[c])
    BY <1>1, <1>2, <1>7, <1>e, IdleShape DEF CursorOf, CursorIdle, CursorUnsent, CursorResend
  <2>2. CursorInv' /\ NipqInv'
    BY <1>1, <1>7, <1>e, <2>1, ConnStep
  <2>3. HomeInv'
    BY <1>1, <1>5, <1>7, <1>e DEF BaseInv, HomeInv, Placed
  <2>4. HeldInv' /\ IdleInv'
    BY <1>1, <1>3, <1>7, <1>t DEF BaseInv, HeldInv, IdleInv
  <2>5. QueueTypeOK' /\ ReqTypeOK'
    BY <1>1, <1>7, <1>e, <1>t DEF BaseInv, QueueTypeOK, ReqTypeOK
  <2> QED BY <1>6, <2>2, <2>3, <2>4, <2>5 DEF BaseInv
<1>8. CASE /\ fresh' = fresh \ {r} /\ limbo' = limbo \cup {r}
           /\ held' = held \ {r} /\ pick' = [pick EXCEPT ![r] = NoConn]
           /\ UNCHANGED <<queue, nipq, ctx>>
  <2>1. CursorInv' /\ NipqInv' /\ Distinct' /\ \A s : InQ(s, queue') <=> InQ(s, queue)
    BY <1>1, <1>8, QuietQueues
  <2>3. HomeInv'
    BY <1>1, <1>5, <1>8, <2>1 DEF BaseInv, HomeInv, Placed
  <2>4. HeldInv' /\ IdleInv'
    BY <1>1, <1>3, <1>8, <1>t DEF BaseInv, HeldInv, IdleInv
  <2>5. QueueTypeOK' /\ ReqTypeOK'
    BY <1>1, <1>8, <1>t DEF BaseInv, QueueTypeOK, ReqTypeOK
  <2> QED BY <1>6, <2>1, <2>3, <2>4, <2>5 DEF BaseInv
<1>9. CASE /\ tfw_http_req_enlist(c, r) /\ fresh' = fresh \ {r}
           /\ ctx' = [ctx EXCEPT ![c] =
                         Unsent(queue'[c], msgSent[c], IF retries[r] > 0 THEN "resched" ELSE "fwd", r)]
           /\ UNCHANGED <<pick, held, limbo>>
  <2> DEFINE by == IF retries[r] > 0 THEN "resched" ELSE "fwd"
             x == Unsent(queue'[c], msgSent[c], by, r)
  <2>0. by \in By /\ by # "none" /\ by \in {"fwd", "resched"} /\ r \in MaybeReq
    BY DEF By, MaybeReq
  <2>a. ctx' = [ctx EXCEPT ![c] = x]
    BY <1>9
  <2> HIDE DEF by
  <2>1. /\ queue'[c] \in Seq(Req) /\ NoDup(queue'[c]) /\ msgSent[c] \in MaybeReq
        /\ msgSent[c] = NoReq \/ In(msgSent[c], queue'[c])
    BY <1>2, <1>9, <1>e, <1>t, NoDupQueue DEF Distinct, NoDup
  <2>2. x \in Ctx /\ x.pc = "unsent" /\ x.req = r
    BY <2>0, <2>1, UnsentShape
  <2>3. CursorOf(queue'[c], msgSent[c], x)
    BY <1>3, <1>9, <1>e, <2>0, <2>1, UnsentCursor
  <2> HIDE DEF x
  <2>4. ctx' \in [Conn -> Ctx] /\ ctx'[c] = x /\ \A d \in Conn \ {c} : ctx'[d] = ctx[d]
    BY <1>t, <2>2, <2>a
  <2>5. CursorInv' /\ NipqInv'
    BY <1>1, <1>9, <1>e, <2>3, <2>4, ConnStep
  <2>6. HomeInv'
    BY <1>1, <1>5, <1>9, <1>e DEF BaseInv, HomeInv, Placed
  <2>7. HeldInv'
    <3>1. Owner(ctx'[c]) = r
      BY <2>2, <2>4 DEF Owner
    <3>2. \A s \in held' : pick'[s] \in Conn /\ (s \in fresh' \/ Owner(ctx'[pick'[s]]) = s)
      <4> SUFFICES ASSUME NEW s \in held, s # r
                   PROVE  pick[s] \in Conn /\ (s \in fresh \/ Owner(ctx'[pick[s]]) = s)
        BY <1>1, <1>9, <3>1
      <4>1. pick[s] \in Conn /\ (s \in fresh \/ Owner(ctx[pick[s]]) = s)
        BY DEF BaseInv, HeldInv
      <4>2. s # NoReq
        BY <1>t DEF FwdAssumption, NoReq
      <4> QED BY <1>3, <2>4, <4>1, <4>2
    <3>3. \A d \in Conn : Owner(ctx'[d]) # NoReq =>
                             Owner(ctx'[d]) \in held' /\ pick'[Owner(ctx'[d])] = d
      BY <1>1, <1>9, <2>4, <3>1 DEF BaseInv, HeldInv
    <3> QED BY <3>2, <3>3 DEF HeldInv
  <2>8. QueueTypeOK' /\ ReqTypeOK'
    BY <1>1, <1>9, <1>e, <1>t, <2>4 DEF BaseInv, QueueTypeOK, ReqTypeOK
  <2>9. IdleInv'
    BY <1>1, <1>9, <2>4 DEF BaseInv, IdleInv
  <2> QED BY <1>6, <2>5, <2>6, <2>7, <2>8, <2>9 DEF BaseInv
<1> QED BY <1>7, <1>8, <1>9 DEF tfw_http_req_fwd
-----------------------------------------------------------------------------
(* The loop of tfw_http_conn_fwd_unsent                                     *)

LEMMA IdleCursor ==
    ASSUME NEW q, NEW m, m = NoReq \/ In(m, q)
    PROVE  CursorOf(q, m, Idle)
BY IdleShape DEF CursorOf, CursorIdle, CursorUnsent, CursorResend

LEMMA UnsentSentIn ==
    ASSUME NEW q \in Seq(Req), NEW m, NEW x \in Ctx, CursorOf(q, m, x), x.pc = "unsent"
    PROVE  m = NoReq \/ In(m, q)
<1>1. Len(q) \in Nat /\ x.i \in 1 .. Len(q) + 1 /\ (m = NoReq \/ (x.i > 1 /\ m = q[x.i - 1]))
  BY LenProperties DEF CursorOf, CursorUnsent
<1>2. CASE x.i > 1 /\ m = q[x.i - 1]
  <2>1. x.i - 1 \in 1..Len(q)
    BY <1>1, <1>2
  <2> QED BY <1>2, <2>1 DEF In
<1> QED BY <1>1, <1>2

(* What every step of a lock holder starts from.                            *)
LEMMA HolderFacts ==
    ASSUME BaseInv, NEW c \in Conn
    PROVE  /\ queue \in [Conn -> Seq(Req)] /\ msgSent \in [Conn -> MaybeReq]
           /\ nipq \in [Conn -> SUBSET Req] /\ flags \in [Conn -> SUBSET {"resend", "qforwd"}]
           /\ ctx \in [Conn -> Ctx] /\ Distinct /\ NoDup(queue[c])
           /\ queue[c] \in Seq(Req) /\ ctx[c] \in Ctx /\ msgSent[c] \in MaybeReq
           /\ Len(queue[c]) \in Nat
           /\ CursorOf(queue[c], msgSent[c], ctx[c])
           /\ \A r \in nipq[c] : In(r, queue[c])
BY NoDupQueue, LenProperties DEF BaseInv, QueueTypeOK, HomeInv, CursorInv, NipqInv

LEMMA FlagsTyped ==
    ASSUME NEW c \in Conn, NEW f \in SUBSET {"resend", "qforwd"},
           flags \in [Conn -> SUBSET {"resend", "qforwd"}], flags' = [flags EXCEPT ![c] = f]
    PROVE  flags' \in [Conn -> SUBSET {"resend", "qforwd"}]
OBVIOUS

LEMMA DoneFlags ==
    ASSUME BaseInv, NEW c \in Conn, UnsentDone(c)
    PROVE  flags' \in [Conn -> SUBSET {"resend", "qforwd"}]
<1> DEFINE f == IF ctx[c].by \in {"popr", "repair"} THEN Reenabled(c, queue[c]) ELSE flags[c]
<1>1. flags \in [Conn -> SUBSET {"resend", "qforwd"}]
  BY DEF BaseInv, QueueTypeOK
<1>2. f \in SUBSET {"resend", "qforwd"}
  BY <1>1 DEF Reenabled
<1>3. flags' = [flags EXCEPT ![c] = f]
  BY DEF UnsentDone
<1> QED BY <1>1, <1>2, <1>3, FlagsTyped

LEMMA UnsentStopBase ==
    ASSUME FwdAssumption, BaseInv, NEW c \in Conn, UnsentEnd(c) \/ UnsentBroken(c)
    PROVE  BaseInv'
<1>1. /\ ctx[c].pc = "unsent" /\ UnsentDone(c) /\ Unlock(c)
      /\ UNCHANGED <<queue, msgSent, nipq, up, wire, nip, retries, sent, fresh, limbo, errq, got, drops>>
  BY DEF UnsentEnd, UnsentBroken, UnsentDone
<1>2. /\ HeldInv' /\ IdleInv' /\ held' \in SUBSET Req /\ pick' \in [Req -> Conn \cup {NoConn}]
      /\ ctx' \in [Conn -> Ctx] /\ ctx'[c] = Idle
      /\ \A d \in Conn \ {c} : ctx'[d] = ctx[d]
  BY <1>1, HeldUnlock
<1>3. CursorOf(queue[c], msgSent[c], Idle)
  BY <1>1, HolderFacts, UnsentSentIn, IdleCursor
<1>4. CursorInv' /\ NipqInv'
  BY <1>1, <1>2, <1>3, HolderFacts, ConnStep
<1>5. HomeInv' /\ RetriesInv' /\ NetTypeOK'
  BY <1>1 DEF BaseInv, HomeInv, Distinct, Placed, RetriesInv, NetTypeOK
<1>6. QueueTypeOK' /\ ReqTypeOK'
  BY <1>1, <1>2, DoneFlags DEF BaseInv, QueueTypeOK, ReqTypeOK
<1> QED BY <1>2, <1>4, <1>5, <1>6 DEF BaseInv

LEMMA UnsentEvictBase ==
    ASSUME FwdAssumption, BaseInv, NEW c \in Conn, UnsentEvict(c)
    PROVE  BaseInv'
<1> DEFINE r == queue[c][ctx[c].i]
<1>1. /\ ctx[c].pc = "unsent" /\ ctx[c].i <= Len(queue[c])
      /\ queue' = [queue EXCEPT ![c] = RemoveAt(@, IndexOf(r, @))]
      /\ nipq' = [nipq EXCEPT ![c] = @ \ {r}] /\ errq' = errq \cup {r}
      /\ UNCHANGED <<msgSent, flags, up, wire, ctx, nip, retries, sent, fresh, pick, held, limbo, got, drops>>
  BY DEF UnsentEvict, Delisted, Cur
<1>2. In(r, queue[c]) /\ r \in Req
      /\ CursorOf(RemoveAt(queue[c], IndexOf(r, queue[c])), msgSent[c], ctx[c])
  BY <1>1, HolderFacts, UnsentDrops
<1> HIDE DEF r
<1>3. /\ queue' \in [Conn -> Seq(Req)]
      /\ queue'[c] = RemoveAt(queue[c], IndexOf(r, queue[c]))
      /\ \A d \in Conn \ {c} : queue'[d] = queue[d]
      /\ Distinct'
      /\ \A s : In(s, queue'[c]) <=> In(s, queue[c]) /\ s # r
      /\ \A s : InQ(s, queue') <=> InQ(s, queue) /\ s # r
  BY <1>1, <1>2, HolderFacts, QueueLess
<1>4. /\ nipq' \in [Conn -> SUBSET Req] /\ \A d \in Conn \ {c} : nipq'[d] = nipq[d]
      /\ \A s \in nipq'[c] : In(s, queue'[c])
  BY <1>1, <1>3, HolderFacts
<1>5. CursorInv' /\ NipqInv'
  BY <1>1, <1>2, <1>3, <1>4, ConnStep
<1>6. InQ(r, queue)
  BY <1>2 DEF InQ
<1>7. HomeInv'
  BY <1>1, <1>3, <1>6 DEF BaseInv, HomeInv, Placed
<1>8. HeldInv' /\ IdleInv'
  BY <1>1, HeldStays
<1>9. QueueTypeOK' /\ ReqTypeOK' /\ NetTypeOK' /\ RetriesInv'
  BY <1>1, <1>2, <1>3, <1>4 DEF BaseInv, QueueTypeOK, ReqTypeOK, NetTypeOK, RetriesInv
<1> QED BY <1>5, <1>7, <1>8, <1>9 DEF BaseInv

LEMMA Transmitted ==
    ASSUME BaseInv, NEW c \in Conn, NEW r \in Req, Transmit(c, r)
    PROVE  wire' \in [Conn -> Seq(Req)] /\ sent' \in [Req -> 0..2]
<1>1. wire \in [Conn -> Seq(Req)] /\ sent \in [Req -> 0..2]
  BY DEF BaseInv, NetTypeOK, ReqTypeOK
<1>2. wire[c] \in Seq(Req)
  BY <1>1
<1>3. Append(wire[c], r) \in Seq(Req)
  BY <1>2, AppendProperties
<1>4. wire' \in [Conn -> Seq(Req)]
  BY <1>1, <1>3 DEF Transmit
<1>5. sent' \in [Req -> 0..2]
  BY <1>1 DEF Transmit
<1> QED BY <1>4, <1>5

LEMMA UnsentSendBase ==
    ASSUME FwdAssumption, BaseInv, NEW c \in Conn, UnsentSend(c)
    PROVE  BaseInv'
<1> DEFINE r == queue[c][ctx[c].i]
<1>1. /\ ctx[c].pc = "unsent" /\ ctx[c].i <= Len(queue[c]) /\ Transmit(c, r)
      /\ msgSent' = [msgSent EXCEPT ![c] = r]
      /\ UNCHANGED <<queue, up, nip, retries, fresh, limbo, errq, got, drops>>
  BY DEF UnsentSend, Cur
<1>2. In(r, queue[c]) /\ r \in Req
  BY <1>1, HolderFacts, UnsentDrops
<1>3. wire' \in [Conn -> Seq(Req)] /\ sent' \in [Req -> 0..2]
  BY <1>1, <1>2, Transmitted
<1>4. /\ msgSent' \in [Conn -> MaybeReq] /\ msgSent'[c] = r
      /\ \A d \in Conn \ {c} : msgSent'[d] = msgSent[d]
  BY <1>1, <1>2, HolderFacts DEF MaybeReq
<1>5. NetTypeOK' /\ HomeInv' /\ RetriesInv'
  BY <1>1, <1>3 DEF BaseInv, NetTypeOK, HomeInv, Distinct, Placed, RetriesInv
<1>6. CASE UnsentDone(c) /\ nipq' = nipq
  <2>1. /\ HeldInv' /\ IdleInv' /\ held' \in SUBSET Req /\ pick' \in [Req -> Conn \cup {NoConn}]
        /\ ctx' \in [Conn -> Ctx] /\ ctx'[c] = Idle
        /\ \A d \in Conn \ {c} : ctx'[d] = ctx[d]
    BY <1>1, <1>6, HeldUnlock DEF UnsentDone
  <2>2. CursorOf(queue[c], r, Idle)
    BY <1>2, IdleCursor
  <2>3. CursorInv' /\ NipqInv'
    BY <1>1, <1>4, <1>6, <2>1, <2>2, HolderFacts, ConnStep
  <2>4. QueueTypeOK' /\ ReqTypeOK'
    BY <1>1, <1>3, <1>4, <1>6, <2>1, DoneFlags DEF BaseInv, QueueTypeOK, ReqTypeOK
  <2> QED BY <1>5, <2>1, <2>3, <2>4 DEF BaseInv
<1>7. CASE /\ nipq' = [nipq EXCEPT ![c] = @ \ {r}]
           /\ ctx' = [ctx EXCEPT ![c].i = @ + 1]
           /\ UNCHANGED <<flags, pick, held>>
  <2> DEFINE y == [ctx[c] EXCEPT !.i = @ + 1]
  <2>1. y \in Ctx /\ y.pc = "unsent" /\ y.req = ctx[c].req /\ CursorOf(queue[c], r, y)
    BY <1>1, HolderFacts, UnsentMoves
  <2>2. ctx' = [ctx EXCEPT ![c] = y]
    BY <1>7
  <2> HIDE DEF y
  <2>3. ctx' \in [Conn -> Ctx] /\ ctx'[c] = y /\ \A d \in Conn \ {c} : ctx'[d] = ctx[d]
    BY <2>1, <2>2, HolderFacts
  <2>4. /\ nipq' \in [Conn -> SUBSET Req] /\ \A d \in Conn \ {c} : nipq'[d] = nipq[d]
        /\ \A s \in nipq'[c] : In(s, queue[c])
    BY <1>7, HolderFacts
  <2>5. CursorInv' /\ NipqInv'
    BY <1>1, <1>4, <2>1, <2>3, <2>4, ConnStep
  <2>6. \A d \in Conn : Owner(ctx'[d]) = Owner(ctx[d])
    BY <1>1, <2>1, <2>3 DEF Owner
  <2>7. HeldInv' /\ IdleInv'
    BY <1>1, <1>7, <2>3, <2>6, HeldStays
  <2>8. QueueTypeOK' /\ ReqTypeOK'
    BY <1>1, <1>3, <1>4, <1>7, <2>3, <2>4 DEF BaseInv, QueueTypeOK, ReqTypeOK
  <2> QED BY <1>5, <2>5, <2>7, <2>8 DEF BaseInv
<1> QED BY <1>6, <1>7 DEF UnsentSend, Cur

(* A queue is cut off: tfw_http_conn_snip_fwd_queue under the lock.         *)
LEMMA CutBase ==
    ASSUME FwdAssumption, BaseInv, NEW c \in Conn, QueueReset(c),
           limbo' = limbo \cup Range(queue[c]), ctx'[c] = Idle,
           \A d \in Conn \ {c} : ctx'[d] = ctx[d],
           UNCHANGED <<fresh, errq, got>>
    PROVE  /\ queue' \in [Conn -> Seq(Req)] /\ msgSent' \in [Conn -> MaybeReq]
           /\ nipq' \in [Conn -> SUBSET Req] /\ limbo' \in SUBSET Req
           /\ HomeInv' /\ CursorInv' /\ NipqInv'
<1>1. /\ queue' = [queue EXCEPT ![c] = <<>>] /\ msgSent' = [msgSent EXCEPT ![c] = NoReq]
      /\ nipq' = [nipq EXCEPT ![c] = {}]
  BY DEF QueueReset
<1>2. /\ queue' \in [Conn -> Seq(Req)] /\ queue'[c] = <<>>
      /\ \A d \in Conn \ {c} : queue'[d] = queue[d]
      /\ Distinct'
      /\ \A s : InQ(s, queue') <=> InQ(s, queue) /\ s \notin Range(queue[c])
      /\ Range(queue[c]) \subseteq Req
      /\ \A s \in Range(queue[c]) : InQ(s, queue)
  BY <1>1, HolderFacts, QueueGone
<1>3. /\ msgSent' \in [Conn -> MaybeReq] /\ msgSent'[c] = NoReq
      /\ nipq' \in [Conn -> SUBSET Req] /\ nipq'[c] = {}
      /\ \A d \in Conn \ {c} : msgSent'[d] = msgSent[d] /\ nipq'[d] = nipq[d]
  BY <1>1, HolderFacts DEF MaybeReq
<1>4. CursorInv' /\ NipqInv'
  BY <1>2, <1>3, IdleCursor, ConnStep
<1>5. limbo' \in SUBSET Req
  BY <1>2 DEF BaseInv, ReqTypeOK
<1>6. HomeInv'
  BY <1>2 DEF BaseInv, HomeInv, Placed
<1> QED BY <1>2, <1>3, <1>4, <1>5, <1>6

LEMMA UnsentBusyBase ==
    ASSUME FwdAssumption, BaseInv, NEW c \in Conn, UnsentBusy(c)
    PROVE  BaseInv'
<1>1. /\ ctx[c].pc = "unsent" /\ ctx[c].i <= Len(queue[c]) /\ Unlock(c)
      /\ UNCHANGED <<up, wire, nip, retries, sent, fresh, errq, got, drops>>
  BY DEF UnsentBusy
<1>2. /\ HeldInv' /\ IdleInv' /\ held' \in SUBSET Req /\ pick' \in [Req -> Conn \cup {NoConn}]
      /\ ctx' \in [Conn -> Ctx] /\ ctx'[c] = Idle
      /\ \A d \in Conn \ {c} : ctx'[d] = ctx[d]
  BY <1>1, HeldUnlock
<1>3. RetriesInv' /\ NetTypeOK'
  BY <1>1 DEF BaseInv, RetriesInv, NetTypeOK
<1>4. CASE /\ ctx[c].by = "resched" /\ Delisted(c, ctx[c].req)
           /\ limbo' = limbo \cup {ctx[c].req} /\ UNCHANGED <<msgSent, flags>>
           /\ msgSent[c] = NoReq
  <2> DEFINE r == ctx[c].req
  <2>1. ctx[c].i \in 1..Len(queue[c]) /\ queue[c][Len(queue[c])] = r
    BY <1>1, <1>4, HolderFacts DEF CursorOf, CursorUnsent
  <2>2. In(r, queue[c]) /\ r \in Req
    <3>1. Len(queue[c]) \in 1..Len(queue[c])
      BY <2>1, HolderFacts
    <3> QED BY <2>1, <3>1, HolderFacts, ElementOfSeq DEF In
  <2>3. queue' = [queue EXCEPT ![c] = RemoveAt(@, IndexOf(r, @))] /\ nipq' = [nipq EXCEPT ![c] = @ \ {r}]
    BY <1>4 DEF Delisted
  <2>a. limbo' = limbo \cup {r}
    BY <1>4
  <2> HIDE DEF r
  <2>4. /\ queue' \in [Conn -> Seq(Req)]
        /\ \A d \in Conn \ {c} : queue'[d] = queue[d]
        /\ Distinct'
        /\ \A s : In(s, queue'[c]) <=> In(s, queue[c]) /\ s # r
        /\ \A s : InQ(s, queue') <=> InQ(s, queue) /\ s # r
    BY <2>2, <2>3, HolderFacts, QueueLess
  <2>5. /\ nipq' \in [Conn -> SUBSET Req] /\ \A d \in Conn \ {c} : nipq'[d] = nipq[d]
        /\ \A s \in nipq'[c] : In(s, queue'[c])
    BY <2>3, <2>4, HolderFacts
  <2>6. CursorInv' /\ NipqInv'
    BY <1>2, <1>4, <2>4, <2>5, IdleCursor, ConnStep
  <2>7. InQ(r, queue)
    BY <2>2 DEF InQ
  <2>8. HomeInv'
    BY <1>1, <2>a, <2>4, <2>7 DEF BaseInv, HomeInv, Placed
  <2>9. QueueTypeOK' /\ ReqTypeOK'
    BY <1>1, <1>2, <1>4, <2>a, <2>2, <2>4, <2>5 DEF BaseInv, QueueTypeOK, ReqTypeOK
  <2> QED BY <1>2, <1>3, <2>6, <2>8, <2>9 DEF BaseInv
<1>5. CASE /\ QueueReset(c) /\ limbo' = limbo \cup Range(queue[c])
           /\ flags' = [flags EXCEPT ![c] = IF ctx[c].by = "fwd" THEN @ ELSE {}]
  <2>1. /\ queue' \in [Conn -> Seq(Req)] /\ msgSent' \in [Conn -> MaybeReq]
        /\ nipq' \in [Conn -> SUBSET Req] /\ limbo' \in SUBSET Req
        /\ HomeInv' /\ CursorInv' /\ NipqInv'
    BY <1>1, <1>2, <1>5, CutBase
  <2>2. flags' \in [Conn -> SUBSET {"resend", "qforwd"}]
    BY <1>5, HolderFacts
  <2>3. QueueTypeOK' /\ ReqTypeOK'
    BY <1>1, <1>2, <2>1, <2>2 DEF BaseInv, QueueTypeOK, ReqTypeOK
  <2> QED BY <1>2, <1>3, <2>1, <2>3 DEF BaseInv
<1> QED BY <1>4, <1>5 DEF UnsentBusy
-----------------------------------------------------------------------------
(* The loop of tfw_http_conn_resend                                         *)

LEMMA ResendEvictBase ==
    ASSUME FwdAssumption, BaseInv, NEW c \in Conn, ResendEvict(c)
    PROVE  BaseInv'
<1> DEFINE r == queue[c][ctx[c].i]
           y == [ctx[c] EXCEPT !.left = @ - 1]
<1>1. /\ ctx[c].pc = "resend" /\ ctx[c].left > 0
      /\ queue' = [queue EXCEPT ![c] = RemoveAt(@, IndexOf(r, @))]
      /\ nipq' = [nipq EXCEPT ![c] = @ \ {r}] /\ errq' = errq \cup {r}
      /\ ctx' = [ctx EXCEPT ![c] = y]
      /\ UNCHANGED <<msgSent, flags, up, wire, nip, retries, sent, fresh, pick, held, limbo, got, drops>>
  BY DEF ResendEvict, Delisted, Cur
<1>2. /\ In(r, queue[c]) /\ r \in Req /\ y \in Ctx /\ y.pc = "resend"
      /\ CursorOf(RemoveAt(queue[c], IndexOf(r, queue[c])), msgSent[c], y)
  BY <1>1, HolderFacts, ResendDrops
<1> HIDE DEF r, y
<1>3. /\ queue' \in [Conn -> Seq(Req)]
      /\ queue'[c] = RemoveAt(queue[c], IndexOf(r, queue[c]))
      /\ \A d \in Conn \ {c} : queue'[d] = queue[d]
      /\ Distinct'
      /\ \A s : In(s, queue'[c]) <=> In(s, queue[c]) /\ s # r
      /\ \A s : InQ(s, queue') <=> InQ(s, queue) /\ s # r
  BY <1>1, <1>2, HolderFacts, QueueLess
<1>4. /\ nipq' \in [Conn -> SUBSET Req] /\ \A d \in Conn \ {c} : nipq'[d] = nipq[d]
      /\ \A s \in nipq'[c] : In(s, queue'[c])
  BY <1>1, <1>3, HolderFacts
<1>a. ctx' \in [Conn -> Ctx] /\ ctx'[c] = y /\ \A d \in Conn \ {c} : ctx'[d] = ctx[d]
  BY <1>1, <1>2, HolderFacts
<1>5. CursorInv' /\ NipqInv'
  BY <1>1, <1>2, <1>3, <1>4, <1>a, ConnStep
<1>6. InQ(r, queue)
  BY <1>2 DEF InQ
<1>7. HomeInv'
  BY <1>1, <1>3, <1>6 DEF BaseInv, HomeInv, Placed
<1>8. HeldInv' /\ IdleInv'
  <2>1. \A d \in Conn : Owner(ctx'[d]) = Owner(ctx[d])
    BY <1>1, <1>2, <1>a DEF Owner
  <2> QED BY <1>1, <1>a, <2>1, HeldStays
<1>9. QueueTypeOK' /\ ReqTypeOK' /\ NetTypeOK' /\ RetriesInv'
  BY <1>1, <1>2, <1>3, <1>4, <1>a DEF BaseInv, QueueTypeOK, ReqTypeOK, NetTypeOK, RetriesInv
<1> QED BY <1>5, <1>7, <1>8, <1>9 DEF BaseInv

(* One more try to send a request again.                                    *)
LEMMA RetriedOnce ==
    ASSUME FwdAssumption, BaseInv, NEW r \in Req, retries[r] < MaxRefwd,
           retries' = [retries EXCEPT ![r] = @ + 1], errq \subseteq errq', got' = got
    PROVE  retries' \in [Req -> 0 .. MaxRefwd + 1] /\ RetriesInv'
<1>1. retries \in [Req -> 0 .. MaxRefwd + 1] /\ MaxRefwd \in Nat
  BY DEF BaseInv, ReqTypeOK, FwdAssumption
<1>2. retries' \in [Req -> 0 .. MaxRefwd + 1]
  BY <1>1
<1>3. \A s \in Req : retries'[s] > MaxRefwd => retries[s] > MaxRefwd
  BY <1>1
<1> QED BY <1>2, <1>3 DEF BaseInv, RetriesInv

LEMMA ResendSendBase ==
    ASSUME FwdAssumption, BaseInv, NEW c \in Conn, ResendSend(c)
    PROVE  BaseInv'
<1> DEFINE r == queue[c][ctx[c].i]
           y == [ctx[c] EXCEPT !.resent = r, !.i = ctx[c].i + 1,
                               !.left = IF ctx[c].by = "repair" THEN 0 ELSE ctx[c].left - 1]
<1>1. /\ ctx[c].pc = "resend" /\ ctx[c].left > 0 /\ Transmit(c, r)
      /\ retries[r] < MaxRefwd /\ retries' = [retries EXCEPT ![r] = @ + 1]
      /\ UNCHANGED <<queue, msgSent, nipq, flags, up, nip, fresh, pick, held, limbo, errq, got, drops>>
  BY DEF ResendSend, Cur
<1>2. ctx' = [ctx EXCEPT ![c] = y]
  BY HolderFacts DEF ResendSend, Cur
<1>3. r \in Req /\ y \in Ctx /\ y.pc = "resend" /\ CursorOf(queue[c], msgSent[c], y)
  <2> DEFINE q == queue[c]
             x == ctx[c]
  <2>1. q \in Seq(Req) /\ NoDup(q) /\ x \in Ctx /\ CursorOf(q, msgSent[c], x) /\ x.pc = "resend" /\ x.left > 0
    BY <1>1, HolderFacts
  <2> HIDE DEF q, x
  <2>2. LET z == [x EXCEPT !.resent = q[x.i], !.i = x.i + 1,
                           !.left = IF x.by = "repair" THEN 0 ELSE x.left - 1]
        IN  z \in Ctx /\ z.pc = "resend" /\ CursorOf(q, msgSent[c], z) /\ q[x.i] \in Req
    BY <2>1, ResendMoves
  <2> QED BY <2>2 DEF q, x
<1> HIDE DEF r, y
<1>4. ctx' \in [Conn -> Ctx] /\ ctx'[c] = y /\ \A d \in Conn \ {c} : ctx'[d] = ctx[d]
  BY <1>2, <1>3, HolderFacts
<1>5. CursorInv' /\ NipqInv'
  BY <1>1, <1>3, <1>4, HolderFacts, ConnStep
<1>6. wire' \in [Conn -> Seq(Req)] /\ sent' \in [Req -> 0..2]
  BY <1>1, <1>3, Transmitted
<1>7. HeldInv' /\ IdleInv'
  <2>1. \A d \in Conn : Owner(ctx'[d]) = Owner(ctx[d])
    BY <1>1, <1>3, <1>4 DEF Owner
  <2> QED BY <1>1, <1>4, <2>1, HeldStays
<1>8. retries' \in [Req -> 0 .. MaxRefwd + 1] /\ RetriesInv'
  BY <1>1, <1>3, RetriedOnce
<1>9. QueueTypeOK' /\ ReqTypeOK' /\ NetTypeOK' /\ HomeInv'
  BY <1>1, <1>4, <1>6, <1>8 DEF BaseInv, QueueTypeOK, ReqTypeOK, NetTypeOK, HomeInv, Distinct, Placed
<1> QED BY <1>5, <1>7, <1>8, <1>9 DEF BaseInv

(* Where msg_sent may be when the loop of tfw_http_conn_resend ends.        *)
LEMMA ResentIn ==
    ASSUME FwdAssumption, BaseInv, NEW c \in Conn, ctx[c].pc = "resend"
    PROVE  /\ ctx[c].resent \in MaybeReq /\ (ctx[c].resent = NoReq \/ In(ctx[c].resent, queue[c]))
           /\ ctx[c].by = "repair" /\ ctx[c].resent # NoReq => In(msgSent[c], queue[c])
           /\ ctx[c].left > 0 => In(msgSent[c], queue[c]) /\ ctx[c].i \in 1..Len(queue[c])
                                 /\ queue[c][ctx[c].i] \in Req
           /\ ctx[c].by \in {"popr", "repair"} /\ Owner(ctx[c]) = NoReq /\ ctx[c].req = NoReq
<1> DEFINE q == queue[c]
           x == ctx[c]
<1>1. /\ Len(q) \in Nat /\ x.i \in Nat /\ x.left \in Nat /\ x.i >= 1 /\ x.i + x.left <= Len(q) + 1
      /\ (x.i = 1 /\ x.resent = NoReq) \/ (x.i > 1 /\ x.resent = q[x.i - 1])
      /\ x.left > 0 => msgSent[c] = q[x.i + x.left - 1]
      /\ x.by = "repair" /\ x.resent # NoReq => In(msgSent[c], q)
      /\ x.by \in {"popr", "repair"} /\ x.req = NoReq /\ x.resent \in MaybeReq /\ q \in Seq(Req)
  BY HolderFacts DEF CursorOf, CursorResend, Ctx
<1> HIDE DEF q, x
<1>2. x.resent # NoReq => In(x.resent, q)
  <2> SUFFICES ASSUME x.i > 1, x.resent = q[x.i - 1] PROVE In(x.resent, q)
    BY <1>1
  <2>1. x.i - 1 \in 1..Len(q)
    BY <1>1
  <2> QED BY <2>1 DEF In
<1>3. x.left > 0 => In(msgSent[c], q) /\ x.i \in 1..Len(q) /\ q[x.i] \in Req
  <2> SUFFICES ASSUME x.left > 0 PROVE In(msgSent[c], q) /\ x.i \in 1..Len(q) /\ q[x.i] \in Req
    OBVIOUS
  <2>1. x.i + x.left - 1 \in 1..Len(q) /\ x.i \in 1..Len(q)
    BY <1>1
  <2> QED BY <1>1, <2>1, ElementOfSeq DEF In
<1> QED BY <1>1, <1>2, <1>3 DEF q, x, Owner

LEMMA ResendBrokenBase ==
    ASSUME FwdAssumption, BaseInv, NEW c \in Conn, ResendBroken(c)
    PROVE  BaseInv'
<1> DEFINE r == queue[c][ctx[c].i]
<1>1. /\ ctx[c].pc = "resend" /\ ctx[c].left > 0 /\ Unlock(c)
      /\ retries[r] < MaxRefwd /\ retries' = [retries EXCEPT ![r] = @ + 1]
      /\ UNCHANGED <<queue, msgSent, nipq, flags, up, wire, nip, sent, fresh, limbo, errq, got, drops>>
  BY DEF ResendBroken, Cur, qVars
<1>2. r \in Req /\ In(msgSent[c], queue[c])
  BY <1>1, ResentIn
<1> HIDE DEF r
<1>3. /\ HeldInv' /\ IdleInv' /\ held' \in SUBSET Req /\ pick' \in [Req -> Conn \cup {NoConn}]
      /\ ctx' \in [Conn -> Ctx] /\ ctx'[c] = Idle
      /\ \A d \in Conn \ {c} : ctx'[d] = ctx[d]
  BY <1>1, HeldUnlock
<1>4. CursorInv' /\ NipqInv'
  BY <1>1, <1>2, <1>3, HolderFacts, IdleCursor, ConnStep
<1>5. retries' \in [Req -> 0 .. MaxRefwd + 1] /\ RetriesInv'
  BY <1>1, <1>2, RetriedOnce
<1>6. QueueTypeOK' /\ ReqTypeOK' /\ NetTypeOK' /\ HomeInv'
  BY <1>1, <1>3, <1>5 DEF BaseInv, QueueTypeOK, ReqTypeOK, NetTypeOK, HomeInv, Distinct, Placed
<1> QED BY <1>3, <1>4, <1>5, <1>6 DEF BaseInv

LEMMA AfterResendBase ==
    ASSUME FwdAssumption, BaseInv, NEW c \in Conn, ctx[c].pc = "resend",
           NEW m \in MaybeReq, m = NoReq \/ In(m, queue[c]), AfterResend(c, m),
           msgSent' = [msgSent EXCEPT ![c] = m], UNCHANGED <<queue, nipq, fresh, up>>
    PROVE  /\ CursorInv' /\ NipqInv' /\ HeldInv' /\ IdleInv' /\ QueueTypeOK'
           /\ held' \in SUBSET Req /\ pick' \in [Req -> Conn \cup {NoConn}]
<1>1. /\ msgSent' \in [Conn -> MaybeReq] /\ msgSent'[c] = m
      /\ \A d \in Conn \ {c} : msgSent'[d] = msgSent[d]
  BY HolderFacts
<1>2. ASSUME Unlock(c), flags' \in [Conn -> SUBSET {"resend", "qforwd"}]
      PROVE  /\ CursorInv' /\ NipqInv' /\ HeldInv' /\ IdleInv' /\ QueueTypeOK'
             /\ held' \in SUBSET Req /\ pick' \in [Req -> Conn \cup {NoConn}]
  <2>1. /\ HeldInv' /\ IdleInv' /\ held' \in SUBSET Req /\ pick' \in [Req -> Conn \cup {NoConn}]
        /\ ctx' \in [Conn -> Ctx] /\ ctx'[c] = Idle
        /\ \A d \in Conn \ {c} : ctx'[d] = ctx[d]
    BY <1>2, HeldUnlock
  <2>2. CursorInv' /\ NipqInv'
    BY <1>1, <2>1, HolderFacts, IdleCursor, ConnStep
  <2> QED BY <1>1, <1>2, <2>1, <2>2 DEF BaseInv, QueueTypeOK
<1>3. CASE Unlock(c) /\ UNCHANGED flags
  BY <1>2, <1>3, HolderFacts
<1>4. CASE Unlock(c) /\ flags' = [flags EXCEPT ![c] = IF queue[c] = <<>> THEN {} ELSE @ \cup {"qforwd"}]
  BY <1>2, <1>4, HolderFacts
<1>5. CASE /\ ctx' = [ctx EXCEPT ![c] = Unsent(queue[c], m, ctx[c].by, NoReq)]
           /\ flags' = [flags EXCEPT ![c] = @ \cup {"qforwd"}]
           /\ UNCHANGED <<pick, held>>
  <2> DEFINE y == Unsent(queue[c], m, ctx[c].by, NoReq)
  <2>1. ctx[c].by \in {"popr", "repair"} /\ ctx[c].by \in By /\ ctx[c].by # "none" /\ NoReq \in MaybeReq
    BY ResentIn DEF By, MaybeReq
  <2>2. y \in Ctx /\ y.pc = "unsent" /\ y.req = NoReq
    BY <2>1, HolderFacts, UnsentShape
  <2>3. CursorOf(queue[c], m, y)
    BY <2>1, HolderFacts, UnsentCursor
  <2>a. ctx' = [ctx EXCEPT ![c] = y]
    BY <1>5
  <2> HIDE DEF y
  <2>4. ctx' \in [Conn -> Ctx] /\ ctx'[c] = y /\ \A d \in Conn \ {c} : ctx'[d] = ctx[d]
    BY <2>a, <2>2, HolderFacts
  <2>5. CursorInv' /\ NipqInv'
    BY <1>1, <2>3, <2>4, HolderFacts, ConnStep
  <2>6. \A d \in Conn : Owner(ctx'[d]) = Owner(ctx[d])
    BY <2>2, <2>4, ResentIn DEF Owner
  <2>7. HeldInv' /\ IdleInv'
    BY <1>5, <2>4, <2>6, HeldStays
  <2>8. flags' \in [Conn -> SUBSET {"resend", "qforwd"}]
    BY <1>5, HolderFacts
  <2> QED BY <1>1, <1>5, <2>4, <2>5, <2>7, <2>8 DEF BaseInv, QueueTypeOK, ReqTypeOK
<1> QED BY <1>3, <1>4, <1>5 DEF AfterResend

LEMMA ResendBusyBase ==
    ASSUME FwdAssumption, BaseInv, NEW c \in Conn, ResendBusy(c)
    PROVE  BaseInv'
<1> DEFINE r == queue[c][ctx[c].i]
<1>1. /\ ctx[c].pc = "resend" /\ ctx[c].left > 0
      /\ retries[r] < MaxRefwd /\ retries' = [retries EXCEPT ![r] = @ + 1]
      /\ UNCHANGED <<up, wire, nip, sent, fresh, errq, got, drops>>
  BY DEF ResendBusy, Cur
<1>2. r \in Req /\ ctx[c].resent \in MaybeReq /\ (ctx[c].resent = NoReq \/ In(ctx[c].resent, queue[c]))
  BY <1>1, ResentIn
<1> HIDE DEF r
<1>3. retries' \in [Req -> 0 .. MaxRefwd + 1] /\ RetriesInv'
  BY <1>1, <1>2, RetriedOnce
<1>4. NetTypeOK'
  BY <1>1 DEF BaseInv, NetTypeOK
<1>5. CASE RepairFailed(c)
  <2>1. /\ Unlock(c) /\ QueueReset(c) /\ limbo' = limbo \cup Range(queue[c])
        /\ flags' = [flags EXCEPT ![c] = {}]
    BY <1>5 DEF RepairFailed
  <2>2. /\ HeldInv' /\ IdleInv' /\ held' \in SUBSET Req /\ pick' \in [Req -> Conn \cup {NoConn}]
        /\ ctx' \in [Conn -> Ctx] /\ ctx'[c] = Idle
        /\ \A d \in Conn \ {c} : ctx'[d] = ctx[d]
    BY <1>1, <2>1, HeldUnlock
  <2>3. /\ queue' \in [Conn -> Seq(Req)] /\ msgSent' \in [Conn -> MaybeReq]
        /\ nipq' \in [Conn -> SUBSET Req] /\ limbo' \in SUBSET Req
        /\ HomeInv' /\ CursorInv' /\ NipqInv'
    BY <1>1, <2>1, <2>2, CutBase
  <2>4. flags' \in [Conn -> SUBSET {"resend", "qforwd"}]
    BY <2>1, HolderFacts
  <2>5. QueueTypeOK' /\ ReqTypeOK'
    BY <1>1, <1>3, <2>2, <2>3, <2>4 DEF BaseInv, QueueTypeOK, ReqTypeOK
  <2> QED BY <1>3, <1>4, <2>2, <2>3, <2>5 DEF BaseInv
<1>6. CASE /\ msgSent' = [msgSent EXCEPT ![c] = ctx[c].resent]
           /\ AfterResend(c, ctx[c].resent) /\ UNCHANGED <<queue, nipq, limbo>>
  <2>1. /\ CursorInv' /\ NipqInv' /\ HeldInv' /\ IdleInv' /\ QueueTypeOK'
        /\ held' \in SUBSET Req /\ pick' \in [Req -> Conn \cup {NoConn}]
    BY <1>1, <1>2, <1>6, AfterResendBase
  <2>2. HomeInv' /\ ReqTypeOK'
    BY <1>1, <1>3, <1>6, <2>1 DEF BaseInv, HomeInv, Distinct, Placed, ReqTypeOK
  <2> QED BY <1>3, <1>4, <2>1, <2>2 DEF BaseInv
<1> QED BY <1>5, <1>6 DEF ResendBusy

LEMMA ResendEndBase ==
    ASSUME FwdAssumption, BaseInv, NEW c \in Conn, ResendEnd(c)
    PROVE  BaseInv'
<1> DEFINE m == IF ctx[c].by = "popr" \/ ctx[c].resent = NoReq
                THEN ctx[c].resent ELSE msgSent[c]
<1>1. /\ ctx[c].pc = "resend" /\ msgSent' = [msgSent EXCEPT ![c] = m] /\ AfterResend(c, m)
      /\ UNCHANGED <<queue, nipq, up, wire, nip, retries, sent, fresh, limbo, errq, got, drops>>
  BY DEF ResendEnd
<1>2. m \in MaybeReq /\ (m = NoReq \/ In(m, queue[c]))
  BY <1>1, HolderFacts, ResentIn
<1> HIDE DEF m
<1>3. /\ CursorInv' /\ NipqInv' /\ HeldInv' /\ IdleInv' /\ QueueTypeOK'
      /\ held' \in SUBSET Req /\ pick' \in [Req -> Conn \cup {NoConn}]
  BY <1>1, <1>2, AfterResendBase
<1>4. HomeInv' /\ ReqTypeOK' /\ RetriesInv' /\ NetTypeOK'
  BY <1>1, <1>3 DEF BaseInv, HomeInv, Distinct, Placed, ReqTypeOK, RetriesInv, NetTypeOK
<1> QED BY <1>3, <1>4 DEF BaseInv
-----------------------------------------------------------------------------
(* Responses and failover                                                   *)

(* The lock is taken by a response or by the repair, or is released at once. *)
Starts(c, q, m) ==
    \/ ctx' = ctx
    \/ m # NoReq /\ \E by \in {"popr", "repair"} : ctx' = [ctx EXCEPT ![c] = Resend(q, m, by)]
    \/ \E by \in {"pop", "popr", "repair"} : ctx' = [ctx EXCEPT ![c] = Unsent(q, m, by, NoReq)]

LEMMA StartBase ==
    ASSUME FwdAssumption, BaseInv, NEW c \in Conn, ctx[c].pc = "idle", up[c] # "idle",
           NEW q \in Seq(Req), NoDup(q), NEW m \in MaybeReq, m = NoReq \/ In(m, q),
           Starts(c, q, m), UNCHANGED <<held, pick, fresh>>,
           \A d \in Conn : up'[d] = "idle" => up[d] = "idle"
    PROVE  /\ ctx' \in [Conn -> Ctx] /\ CursorOf(q, m, ctx'[c])
           /\ \A d \in Conn \ {c} : ctx'[d] = ctx[d]
           /\ HeldInv' /\ IdleInv'
<1> DEFINE Result == /\ ctx' \in [Conn -> Ctx] /\ CursorOf(q, m, ctx'[c])
                     /\ \A d \in Conn \ {c} : ctx'[d] = ctx[d]
                     /\ Owner(ctx'[c]) = NoReq
<1>1. ctx \in [Conn -> Ctx] /\ ctx[c] = Idle
  BY HolderFacts DEF CursorOf, CursorIdle
<1>2. ASSUME ctx' = ctx PROVE Result
  BY <1>1, <1>2, IdleCursor, IdleShape
<1>3. ASSUME NEW y \in Ctx, ctx' = [ctx EXCEPT ![c] = y], CursorOf(q, m, y), y.req = NoReq
      PROVE  Result
  BY <1>1, <1>3 DEF Owner
<1>4. ASSUME m # NoReq, NEW by \in {"popr", "repair"}, ctx' = [ctx EXCEPT ![c] = Resend(q, m, by)]
      PROVE  Result
  <2> DEFINE y == Resend(q, m, by)
  <2>1. y \in Ctx /\ CursorOf(q, m, y) /\ y.req = NoReq
    BY <1>4, ResendCursor DEF MaybeReq
  <2> QED BY <1>3, <1>4, <2>1
<1>5. ASSUME NEW by \in {"pop", "popr", "repair"}, ctx' = [ctx EXCEPT ![c] = Unsent(q, m, by, NoReq)]
      PROVE  Result
  <2> DEFINE y == Unsent(q, m, by, NoReq)
  <2>0. by \in By /\ by # "none" /\ by \notin {"fwd", "resched"} /\ NoReq \in MaybeReq
    BY DEF By, MaybeReq
  <2>1. y \in Ctx /\ y.req = NoReq
    BY <2>0, UnsentShape
  <2>2. CursorOf(q, m, y)
    BY <2>0, UnsentCursor
  <2> QED BY <1>3, <1>5, <2>1, <2>2
<1>6. Result
  BY <1>2, <1>4, <1>5 DEF Starts
<1>7. HeldInv'
  <2>1. \A d \in Conn : Owner(ctx'[d]) = Owner(ctx[d])
    BY <1>1, <1>6, IdleShape
  <2> QED BY <2>1 DEF BaseInv, HeldInv
<1>8. IdleInv'
  BY <1>6 DEF BaseInv, IdleInv
<1> QED BY <1>6, <1>7, <1>8

LEMMA PoppedBase ==
    ASSUME FwdAssumption, BaseInv, NEW c \in Conn, ctx[c].pc = "idle", queue[c] # <<>>,
           Popped(c, Head(queue[c]))
    PROVE  LET r == Head(queue[c]) IN
           /\ queue' \in [Conn -> Seq(Req)] /\ queue'[c] = Tail(queue[c])
           /\ \A d \in Conn \ {c} : /\ queue'[d] = queue[d] /\ msgSent'[d] = msgSent[d]
                                    /\ nipq'[d] = nipq[d]
           /\ Distinct' /\ NoDup(queue'[c])
           /\ r \in Req /\ InQ(r, queue)
           /\ \A s : InQ(s, queue') <=> InQ(s, queue) /\ s # r
           /\ msgSent' \in [Conn -> MaybeReq] /\ nipq' \in [Conn -> SUBSET Req]
           /\ msgSent'[c] = NoReq \/ In(msgSent'[c], queue'[c])
           /\ msgSent'[c] = IF msgSent[c] = r THEN NoReq ELSE msgSent[c]
           /\ \A s \in nipq'[c] : In(s, queue'[c])
<1> DEFINE r == Head(queue[c])
<1>1. /\ queue' = [queue EXCEPT ![c] = Tail(@)]
      /\ msgSent' = [msgSent EXCEPT ![c] = IF @ = r THEN NoReq ELSE @]
      /\ nipq' = [nipq EXCEPT ![c] = (@ \ {r}) \cap nip]
  BY DEF Popped
<1>2. /\ queue' \in [Conn -> Seq(Req)] /\ queue'[c] = Tail(queue[c])
      /\ \A d \in Conn \ {c} : queue'[d] = queue[d]
      /\ Distinct'
      /\ r \in Req /\ In(r, queue[c])
      /\ \A s : In(s, queue'[c]) <=> In(s, queue[c]) /\ s # r
      /\ \A s : InQ(s, queue') <=> InQ(s, queue) /\ s # r
  BY <1>1, HolderFacts, QueueTail
<1> HIDE DEF r
<1>3. NoDup(queue'[c]) /\ InQ(r, queue)
  <2>1. NoDup(queue'[c])
    <3>1. Distinct'
      BY <1>2
    <3> QED BY <3>1 DEF Distinct, NoDup
  <2>2. InQ(r, queue)
    BY <1>2 DEF InQ
  <2> QED BY <2>1, <2>2
<1>4. msgSent[c] = NoReq \/ In(msgSent[c], queue[c])
  BY HolderFacts DEF CursorOf, CursorIdle
<1>5. /\ msgSent' \in [Conn -> MaybeReq] /\ \A d \in Conn \ {c} : msgSent'[d] = msgSent[d]
      /\ msgSent'[c] = IF msgSent[c] = r THEN NoReq ELSE msgSent[c]
  BY <1>1, HolderFacts DEF MaybeReq
<1>6. msgSent'[c] = NoReq \/ In(msgSent'[c], queue'[c])
  BY <1>2, <1>4, <1>5
<1>7. /\ nipq' \in [Conn -> SUBSET Req] /\ \A d \in Conn \ {c} : nipq'[d] = nipq[d]
      /\ \A s \in nipq'[c] : In(s, queue'[c])
  BY <1>1, <1>2, HolderFacts
<1> QED BY <1>2, <1>3, <1>5, <1>6, <1>7 DEF r

LEMMA RespBase ==
    ASSUME FwdAssumption, BaseInv, NEW c \in Conn, tfw_http_resp_cache(c)
    PROVE  BaseInv'
<1> DEFINE r == Head(queue[c])
<1>1. /\ up[c] = "up" /\ ctx[c].pc = "idle" /\ wire[c] # <<>> /\ queue[c] # <<>>
      /\ Popped(c, r) /\ got' = [got EXCEPT ![r] = Head(wire[c])]
      /\ wire' = [wire EXCEPT ![c] = Tail(@)]
      /\ AfterPop(c, queue'[c], msgSent'[c])
      /\ UNCHANGED <<up, nip, retries, sent, fresh, pick, held, limbo, errq, drops>>
  BY DEF tfw_http_resp_cache, Unlocked
<1>2. /\ queue' \in [Conn -> Seq(Req)]
      /\ \A d \in Conn \ {c} : /\ queue'[d] = queue[d] /\ msgSent'[d] = msgSent[d]
                               /\ nipq'[d] = nipq[d]
      /\ Distinct' /\ NoDup(queue'[c])
      /\ r \in Req /\ InQ(r, queue)
      /\ \A s : InQ(s, queue') <=> InQ(s, queue) /\ s # r
      /\ msgSent' \in [Conn -> MaybeReq] /\ nipq' \in [Conn -> SUBSET Req]
      /\ msgSent'[c] = NoReq \/ In(msgSent'[c], queue'[c])
      /\ \A s \in nipq'[c] : In(s, queue'[c])
  BY <1>1, PoppedBase
<1> HIDE DEF r
<1>3. Starts(c, queue'[c], msgSent'[c])
  BY <1>1 DEF AfterPop, Starts
<1>4. /\ ctx' \in [Conn -> Ctx] /\ CursorOf(queue'[c], msgSent'[c], ctx'[c])
      /\ \A d \in Conn \ {c} : ctx'[d] = ctx[d]
      /\ HeldInv' /\ IdleInv'
  BY <1>1, <1>2, <1>3, StartBase
<1>5. CursorInv' /\ NipqInv'
  BY <1>2, <1>4, ConnStep
<1>6. wire[c] \in Seq(Req) /\ wire \in [Conn -> Seq(Req)] /\ got \in [Req -> Req \cup {NoReq, "error"}]
  BY DEF BaseInv, NetTypeOK, ReqTypeOK
<1>7. Head(wire[c]) \in Req /\ Tail(wire[c]) \in Seq(Req)
  BY <1>1, <1>6, HeadTailProperties
<1>8. /\ wire' \in [Conn -> Seq(Req)] /\ got' \in [Req -> Req \cup {NoReq, "error"}]
      /\ got'[r] # NoReq /\ \A s \in Req \ {r} : got'[s] = got[s]
  BY <1>1, <1>2, <1>6, <1>7 DEF FwdAssumption, NoReq
<1>9. HomeInv'
  BY <1>1, <1>2, <1>8 DEF BaseInv, HomeInv, Placed
<1>10. RetriesInv'
  BY <1>1, <1>8 DEF BaseInv, RetriesInv
<1>11. flags' \in [Conn -> SUBSET {"resend", "qforwd"}]
  <2>1. \/ flags' = flags \/ flags' = [flags EXCEPT ![c] = {}]
        \/ flags' = [flags EXCEPT ![c] = @ \cup {"qforwd"}]
    BY <1>1 DEF AfterPop
  <2>2. flags \in [Conn -> SUBSET {"resend", "qforwd"}]
    BY HolderFacts
  <2> QED BY <2>1, <2>2
<1>12. QueueTypeOK' /\ NetTypeOK' /\ ReqTypeOK'
  BY <1>1, <1>2, <1>4, <1>8, <1>11 DEF BaseInv, QueueTypeOK, NetTypeOK, ReqTypeOK
<1> QED BY <1>4, <1>5, <1>9, <1>10, <1>12 DEF BaseInv

LEMMA BadRespBase ==
    ASSUME FwdAssumption, BaseInv, NEW c \in Conn, BadResponse(c)
    PROVE  BaseInv'
<1> DEFINE r == Head(queue[c])
<1>1. /\ up[c] = "up" /\ ctx[c].pc = "idle" /\ drops < MaxDrop /\ queue[c] # <<>>
      /\ Popped(c, r) /\ errq' = errq \cup {r}
      /\ wire' = [wire EXCEPT ![c] = <<>>] /\ up' = [up EXCEPT ![c] = "closing"]
      /\ drops' = drops + 1
      /\ UNCHANGED <<flags, ctx, nip, retries, sent, fresh, pick, held, limbo, got>>
  BY DEF BadResponse, Unlocked
<1>2. /\ queue' \in [Conn -> Seq(Req)]
      /\ \A d \in Conn \ {c} : /\ queue'[d] = queue[d] /\ msgSent'[d] = msgSent[d]
                               /\ nipq'[d] = nipq[d]
      /\ Distinct' /\ NoDup(queue'[c])
      /\ r \in Req /\ InQ(r, queue)
      /\ \A s : InQ(s, queue') <=> InQ(s, queue) /\ s # r
      /\ msgSent' \in [Conn -> MaybeReq] /\ nipq' \in [Conn -> SUBSET Req]
      /\ msgSent'[c] = NoReq \/ In(msgSent'[c], queue'[c])
      /\ \A s \in nipq'[c] : In(s, queue'[c])
  BY <1>1, PoppedBase
<1> HIDE DEF r
<1>3. /\ up \in [Conn -> {"up", "closing", "down", "idle", "revived"}] /\ wire \in [Conn -> Seq(Req)]
      /\ drops \in 0..MaxDrop /\ <<>> \in Seq(Req)
  BY NothingIn DEF BaseInv, NetTypeOK
<1>4. /\ up' \in [Conn -> {"up", "closing", "down", "idle", "revived"}] /\ up'[c] = "closing"
      /\ \A d \in Conn \ {c} : up'[d] = up[d]
  BY <1>1, <1>3
<1>5. wire' \in [Conn -> Seq(Req)]
  BY <1>1, <1>3
<1>6. drops' \in 0..MaxDrop
  BY <1>1, <1>3 DEF FwdAssumption
<1>7. Starts(c, queue'[c], msgSent'[c])
  BY <1>1 DEF Starts
<1>8. /\ ctx' \in [Conn -> Ctx] /\ CursorOf(queue'[c], msgSent'[c], ctx'[c])
      /\ \A d \in Conn \ {c} : ctx'[d] = ctx[d]
      /\ HeldInv' /\ IdleInv'
  BY <1>1, <1>2, <1>4, <1>7, StartBase
<1>9. CursorInv' /\ NipqInv'
  BY <1>2, <1>8, ConnStep
<1>10. HomeInv' /\ RetriesInv'
  BY <1>1, <1>2 DEF BaseInv, HomeInv, Placed, RetriesInv
<1>11. QueueTypeOK' /\ NetTypeOK' /\ ReqTypeOK'
  BY <1>1, <1>2, <1>4, <1>5, <1>6, <1>8 DEF BaseInv, QueueTypeOK, NetTypeOK, ReqTypeOK
<1> QED BY <1>8, <1>9, <1>10, <1>11 DEF BaseInv

LEMMA PrevIn ==
    ASSUME NEW q \in Seq(Req), NoDup(q), NEW m, In(m, q)
    PROVE  LET p == MsgSentPrev(q, m) IN
           \/ p = NoReq /\ IndexOf(m, q) = 1
           \/ p \in Req /\ In(p, q) /\ p # m /\ IndexOf(m, q) > 1 /\ p = q[IndexOf(m, q) - 1]
<1> DEFINE k == IndexOf(m, q)
<1>1. k \in 1..Len(q) /\ q[k] = m /\ Len(q) \in Nat
  BY IndexFound, LenProperties
<1>2. q # <<>> /\ Head(q) = q[1] /\ 1 \in 1..Len(q)
  BY <1>1
<1> HIDE DEF k
<1>3. CASE Head(q) = m
  BY <1>1, <1>2, <1>3 DEF MsgSentPrev, NoDup, k
<1>4. CASE Head(q) # m
  <2>1. k > 1 /\ k - 1 \in 1..Len(q) /\ k - 1 # k
    BY <1>1, <1>2, <1>4
  <2>2. q[k - 1] \in Req /\ In(q[k - 1], q) /\ q[k - 1] # m
    BY <1>1, <2>1, ElementOfSeq DEF In, NoDup
  <2> QED BY <1>4, <2>1, <2>2 DEF MsgSentPrev, k
<1> QED BY <1>3, <1>4

(* A request leaves the queue of a connection that nobody has locked.       *)
LEMMA DelistedBase ==
    ASSUME FwdAssumption, BaseInv, NEW c \in Conn, NEW r, In(r, queue[c]), ctx[c].pc = "idle",
           Delisted(c, r), errq' = errq \cup {r}, UNCHANGED <<fresh, limbo, got, retries>>,
           msgSent' = [msgSent EXCEPT ![c] = IF @ = r THEN MsgSentPrev(queue[c], r) ELSE @]
    PROVE  /\ queue' \in [Conn -> Seq(Req)] /\ NoDup(queue'[c])
           /\ msgSent' \in [Conn -> MaybeReq] /\ nipq' \in [Conn -> SUBSET Req]
           /\ \A d \in Conn \ {c} : /\ queue'[d] = queue[d] /\ msgSent'[d] = msgSent[d]
                                    /\ nipq'[d] = nipq[d]
           /\ HomeInv' /\ RetriesInv' /\ errq' \in SUBSET Req
           /\ msgSent'[c] = NoReq \/ In(msgSent'[c], queue'[c])
           /\ \A s \in nipq'[c] : In(s, queue'[c])
<1>1. queue' = [queue EXCEPT ![c] = RemoveAt(@, IndexOf(r, @))] /\ nipq' = [nipq EXCEPT ![c] = @ \ {r}]
  BY DEF Delisted
<1>2. /\ queue' \in [Conn -> Seq(Req)]
      /\ \A d \in Conn \ {c} : queue'[d] = queue[d]
      /\ Distinct'
      /\ \A s : In(s, queue'[c]) <=> In(s, queue[c]) /\ s # r
      /\ \A s : InQ(s, queue') <=> InQ(s, queue) /\ s # r
  BY <1>1, HolderFacts, QueueLess
<1>3. /\ nipq' \in [Conn -> SUBSET Req] /\ \A d \in Conn \ {c} : nipq'[d] = nipq[d]
      /\ \A s \in nipq'[c] : In(s, queue'[c])
  BY <1>1, <1>2, HolderFacts
<1>4. NoDup(queue'[c]) /\ InQ(r, queue) /\ r \in Req
  BY <1>2, HolderFacts, ElementOfSeq DEF Distinct, NoDup, InQ, In
<1>5. HomeInv' /\ RetriesInv' /\ errq' \in SUBSET Req
  BY <1>2, <1>4 DEF BaseInv, HomeInv, Placed, RetriesInv, ReqTypeOK
<1>6. msgSent[c] = NoReq \/ In(msgSent[c], queue[c])
  BY HolderFacts DEF CursorOf, CursorIdle
<1>7. /\ MsgSentPrev(queue[c], r) \in MaybeReq
      /\ \/ MsgSentPrev(queue[c], r) = NoReq
         \/ In(MsgSentPrev(queue[c], r), queue[c]) /\ MsgSentPrev(queue[c], r) # r
  BY HolderFacts, PrevIn DEF MaybeReq
<1>8. /\ msgSent' \in [Conn -> MaybeReq] /\ \A d \in Conn \ {c} : msgSent'[d] = msgSent[d]
      /\ msgSent'[c] = IF msgSent[c] = r THEN MsgSentPrev(queue[c], r) ELSE msgSent[c]
  BY <1>7, HolderFacts
<1>9. msgSent'[c] = NoReq \/ In(msgSent'[c], queue'[c])
  BY <1>2, <1>6, <1>7, <1>8
<1> QED BY <1>2, <1>3, <1>4, <1>5, <1>8, <1>9

LEMMA ShrinkBase ==
    ASSUME FwdAssumption, BaseInv, NEW c \in Conn, tfw_http_conn_shrink_fwdq(c)
    PROVE  BaseInv'
<1>1. PICK r \in Range(queue[c]) :
          /\ Delisted(c, r) /\ errq' = errq \cup {r}
          /\ msgSent' = [msgSent EXCEPT ![c] = IF @ = r THEN MsgSentPrev(queue[c], r) ELSE @]
  BY DEF tfw_http_conn_shrink_fwdq
<1>2. up[c] = "idle" /\ UNCHANGED <<flags, up, wire, ctx, nip, retries, sent, fresh, pick, held, limbo, got, drops>>
  BY DEF tfw_http_conn_shrink_fwdq
<1>3. ctx[c].pc = "idle" /\ In(r, queue[c])
  BY <1>2, HolderFacts, RangeIn DEF BaseInv, IdleInv
<1>4. ctx[c] = Idle
  BY <1>3, HolderFacts DEF CursorOf, CursorIdle
<1>5. /\ queue' \in [Conn -> Seq(Req)] /\ msgSent' \in [Conn -> MaybeReq] /\ nipq' \in [Conn -> SUBSET Req]
      /\ \A d \in Conn \ {c} : queue'[d] = queue[d] /\ msgSent'[d] = msgSent[d] /\ nipq'[d] = nipq[d]
      /\ HomeInv' /\ RetriesInv' /\ errq' \in SUBSET Req
      /\ msgSent'[c] = NoReq \/ In(msgSent'[c], queue'[c])
      /\ \A s \in nipq'[c] : In(s, queue'[c])
  BY <1>1, <1>2, <1>3, DelistedBase
<1>6. CursorInv' /\ NipqInv'
  BY <1>2, <1>4, <1>5, IdleCursor, ConnStep
<1>7. HeldInv' /\ IdleInv' /\ QueueTypeOK' /\ NetTypeOK' /\ ReqTypeOK'
  BY <1>2, <1>5 DEF BaseInv, HeldInv, IdleInv, QueueTypeOK, NetTypeOK, ReqTypeOK
<1> QED BY <1>5, <1>6, <1>7 DEF BaseInv

LEMMA ShrinkReschedBase ==
    ASSUME FwdAssumption, BaseInv, NEW c \in Conn, tfw_http_conn_shrink_fwdq_resched(c)
    PROVE  BaseInv'
<1>1. /\ up[c] = "idle" /\ QueueReset(c) /\ limbo' = limbo \cup Range(queue[c])
      /\ UNCHANGED <<flags, up, wire, ctx, nip, retries, sent, fresh, pick, held, errq, got, drops>>
  BY DEF tfw_http_conn_shrink_fwdq_resched
<1>2. ctx[c].pc = "idle"
  BY <1>1 DEF BaseInv, IdleInv
<1>3. ctx[c] = Idle
  BY <1>2, HolderFacts DEF CursorOf, CursorIdle
<1>4. /\ queue' \in [Conn -> Seq(Req)] /\ msgSent' \in [Conn -> MaybeReq]
      /\ nipq' \in [Conn -> SUBSET Req] /\ limbo' \in SUBSET Req
      /\ HomeInv' /\ CursorInv' /\ NipqInv'
  BY <1>1, <1>3, CutBase
<1>5. HeldInv' /\ IdleInv' /\ QueueTypeOK' /\ NetTypeOK' /\ ReqTypeOK' /\ RetriesInv'
  BY <1>1, <1>4 DEF BaseInv, HeldInv, IdleInv, QueueTypeOK, NetTypeOK, ReqTypeOK, RetriesInv
<1> QED BY <1>4, <1>5 DEF BaseInv

(* tfw_http_conn_treatnip.                                                  *)
LEMMA RepairQueue ==
    ASSUME FwdAssumption, BaseInv, NEW c \in Conn, tfw_http_conn_repair(c)
    PROVE  /\ queue' \in [Conn -> Seq(Req)] /\ msgSent' \in [Conn -> MaybeReq] /\ nipq' \in [Conn -> SUBSET Req]
           /\ \A d \in Conn \ {c} : queue'[d] = queue[d] /\ msgSent'[d] = msgSent[d] /\ nipq'[d] = nipq[d]
           /\ HomeInv' /\ RetriesInv' /\ errq' \in SUBSET Req
           /\ NoDup(queue'[c])
           /\ msgSent'[c] = NoReq \/ In(msgSent'[c], queue'[c])
           /\ \A s \in nipq'[c] : In(s, queue'[c])
           /\ RepairStart(c, queue'[c], msgSent'[c])
<1>1. /\ ctx[c].pc = "idle"
      /\ UNCHANGED <<wire, nip, retries, sent, fresh, pick, held, limbo, got, drops>>
  BY DEF tfw_http_conn_repair, Unlocked
<1>2. CASE /\ OnHold(msgSent[c]) /\ Delisted(c, msgSent[c]) /\ errq' = errq \cup {msgSent[c]}
           /\ msgSent' = [msgSent EXCEPT ![c] = MsgSentPrev(queue[c], @)]
           /\ RepairStart(c, queue'[c], msgSent'[c])
  <2>1. msgSent[c] \in Req
    BY <1>2 DEF OnHold, BaseInv, ReqTypeOK, FwdAssumption
  <2>2. In(msgSent[c], queue[c])
    BY <1>1, <2>1, HolderFacts DEF CursorOf, CursorIdle, FwdAssumption, NoReq
  <2>3. msgSent' = [msgSent EXCEPT ![c] = IF @ = msgSent[c] THEN MsgSentPrev(queue[c], msgSent[c]) ELSE @]
    BY <1>2
  <2> QED BY <1>1, <1>2, <2>2, <2>3, DelistedBase
<1>3. CASE RepairStart(c, queue[c], msgSent[c]) /\ UNCHANGED <<queue, msgSent, nipq, errq>>
  <2>1. HomeInv' /\ RetriesInv' /\ errq' \in SUBSET Req
    BY <1>1, <1>3 DEF BaseInv, HomeInv, Distinct, Placed, RetriesInv, ReqTypeOK
  <2>2. msgSent[c] = NoReq \/ In(msgSent[c], queue[c])
    BY <1>1, HolderFacts DEF CursorOf, CursorIdle
  <2>3. queue' = queue /\ msgSent' = msgSent /\ nipq' = nipq
    BY <1>3
  <2>4. /\ queue \in [Conn -> Seq(Req)] /\ msgSent \in [Conn -> MaybeReq] /\ nipq \in [Conn -> SUBSET Req]
        /\ \A s \in nipq[c] : In(s, queue[c])
    BY DEF BaseInv, QueueTypeOK, NipqInv
  <2>5. NoDup(queue[c])
    BY DEF BaseInv, HomeInv, Distinct, NoDup
  <2>6. RepairStart(c, queue'[c], msgSent'[c])
    BY <1>3, <2>3
  <2>7. /\ queue' \in [Conn -> Seq(Req)] /\ msgSent' \in [Conn -> MaybeReq] /\ nipq' \in [Conn -> SUBSET Req]
        /\ \A d \in Conn \ {c} : queue'[d] = queue[d] /\ msgSent'[d] = msgSent[d] /\ nipq'[d] = nipq[d]
        /\ NoDup(queue'[c]) /\ \A s \in nipq'[c] : In(s, queue'[c])
        /\ msgSent'[c] = NoReq \/ In(msgSent'[c], queue'[c])
    BY <2>2, <2>3, <2>4, <2>5
  <2> QED BY <2>1, <2>6, <2>7
<1> QED BY <1>2, <1>3 DEF tfw_http_conn_repair

LEMMA RepairBase ==
    ASSUME FwdAssumption, BaseInv, NEW c \in Conn, tfw_http_conn_repair(c)
    PROVE  BaseInv'
<1>1. /\ up[c] = "revived" /\ ctx[c].pc = "idle" /\ up' = [up EXCEPT ![c] = "up"]
      /\ UNCHANGED <<wire, nip, retries, sent, fresh, pick, held, limbo, got, drops>>
  BY DEF tfw_http_conn_repair, Unlocked
<1>2. /\ up' \in [Conn -> {"up", "closing", "down", "idle", "revived"}]
      /\ \A d \in Conn : up'[d] = "idle" => up[d] = "idle"
  BY <1>1 DEF BaseInv, NetTypeOK
<1>3. /\ queue' \in [Conn -> Seq(Req)] /\ msgSent' \in [Conn -> MaybeReq] /\ nipq' \in [Conn -> SUBSET Req]
      /\ \A d \in Conn \ {c} : queue'[d] = queue[d] /\ msgSent'[d] = msgSent[d] /\ nipq'[d] = nipq[d]
      /\ HomeInv' /\ RetriesInv' /\ errq' \in SUBSET Req
      /\ NoDup(queue'[c])
      /\ msgSent'[c] = NoReq \/ In(msgSent'[c], queue'[c])
      /\ \A s \in nipq'[c] : In(s, queue'[c])
      /\ RepairStart(c, queue'[c], msgSent'[c])
  BY RepairQueue
<1>4. Starts(c, queue'[c], msgSent'[c])
  BY <1>3 DEF RepairStart, Starts
<1>5. /\ ctx' \in [Conn -> Ctx] /\ CursorOf(queue'[c], msgSent'[c], ctx'[c])
      /\ \A d \in Conn \ {c} : ctx'[d] = ctx[d]
      /\ HeldInv' /\ IdleInv'
  BY <1>1, <1>2, <1>3, <1>4, StartBase
<1>6. CursorInv' /\ NipqInv'
  BY <1>3, <1>5, ConnStep
<1>7. flags' \in [Conn -> SUBSET {"resend", "qforwd"}]
  <2>1. \/ flags' = flags \/ flags' = [flags EXCEPT ![c] = {}]
        \/ flags' = [flags EXCEPT ![c] = @ \cup {"qforwd"}]
    BY <1>3 DEF RepairStart
  <2>2. flags \in [Conn -> SUBSET {"resend", "qforwd"}]
    BY HolderFacts
  <2> QED BY <2>1, <2>2
<1>8. QueueTypeOK' /\ NetTypeOK' /\ ReqTypeOK'
  BY <1>1, <1>2, <1>3, <1>5, <1>7 DEF BaseInv, QueueTypeOK, NetTypeOK, ReqTypeOK
<1> QED BY <1>3, <1>5, <1>6, <1>8 DEF BaseInv
-----------------------------------------------------------------------------
(* The theorems                                                             *)

LEMMA InitBase == ASSUME FwdAssumption, Init PROVE BaseInv
<1> USE DEF Init
<1>1. QueueTypeOK
  BY IdleShape, NothingIn DEF QueueTypeOK, MaybeReq
<1>2. NetTypeOK
  BY NothingIn DEF NetTypeOK, FwdAssumption
<1>3. ReqTypeOK
  BY DEF ReqTypeOK, FwdAssumption
<1>4. HomeInv
  <2>1. \A r : ~InQ(r, queue)
    BY NothingIn DEF InQ
  <2>2. Distinct
    BY NothingIn DEF Distinct
  <2> QED BY <2>1, <2>2 DEF HomeInv, Placed
<1>5. CursorInv
  BY IdleCursor DEF CursorInv
<1>6. HeldInv /\ IdleInv /\ NipqInv
  BY IdleShape DEF HeldInv, IdleInv, NipqInv
<1>7. RetriesInv
  BY DEF RetriesInv, FwdAssumption
<1> QED BY <1>1, <1>2, <1>3, <1>4, <1>5, <1>6, <1>7 DEF BaseInv

LEMMA StutterBase == ASSUME BaseInv, UNCHANGED vars PROVE BaseInv'
<1> USE DEF vars, qVars, reqVars
<1>1. CursorInv' /\ NipqInv' /\ Distinct' /\ \A s : InQ(s, queue') <=> InQ(s, queue)
  BY QuietQueues
<1>2. HomeInv' /\ HeldInv' /\ IdleInv' /\ RetriesInv'
  BY <1>1 DEF BaseInv, HomeInv, Placed, HeldInv, IdleInv, RetriesInv
<1>3. QueueTypeOK' /\ NetTypeOK' /\ ReqTypeOK'
  BY DEF BaseInv, QueueTypeOK, NetTypeOK, ReqTypeOK
<1> QED BY <1>1, <1>2, <1>3 DEF BaseInv

LEMMA NextBase == ASSUME FwdAssumption, BaseInv, Next PROVE BaseInv'
<1>1. ASSUME NEW r \in Req, Schedule(r) PROVE BaseInv'
  BY <1>1, LookBase, LateBase, GetBase, NoConnBase, FwdBase, ReschedBase, ZapBase DEF Schedule
<1>2. ASSUME NEW r \in Req, ClearNip(r) PROVE BaseInv'
  BY <1>2, ClearNipBase
<1>3. ASSUME NEW c \in Conn, LockHolder(c) PROVE BaseInv'
  BY <1>3, UnsentStopBase, UnsentEvictBase, UnsentSendBase, UnsentBusyBase, ResendEvictBase,
     ResendSendBase, ResendBrokenBase, ResendBusyBase, ResendEndBase DEF LockHolder
<1>4. ASSUME NEW c \in Conn, Failover(c) PROVE BaseInv'
  BY <1>4, EventBase, RepairBase, ShrinkBase, ShrinkReschedBase DEF Failover
<1>5. ASSUME NEW c \in Conn, tfw_http_resp_cache(c) \/ BadResponse(c) \/ SockClose(c) PROVE BaseInv'
  BY <1>5, RespBase, BadRespBase, EventBase
<1> QED BY <1>1, <1>2, <1>3, <1>4, <1>5 DEF Next

LEMMA BaseIsOneHome == ASSUME BaseInv PROVE OneHome
<1>1. \A r \in Req : (\E c \in Conn : r \in Range(queue[c])) <=> InQ(r, queue)
  <2>1. \A c \in Conn : queue[c] \in Seq(Req)
    BY DEF BaseInv, QueueTypeOK
  <2> QED BY <2>1, RangeIn DEF InQ
<1>2. ASSUME NEW r \in Req PROVE \E p \in Places : \A o \in Places : IsAt(r, o) <=> o = p
  <2> USE DEF Places, IsAt
  <2>0. Placed(r)
    BY DEF BaseInv, HomeInv
  <2>1. CASE r \in fresh
    <3> WITNESS "fresh" \in Places
    <3> QED BY <1>1, <2>0, <2>1 DEF Placed
  <2>2. CASE InQ(r, queue)
    <3> WITNESS "queued" \in Places
    <3> QED BY <1>1, <2>0, <2>2 DEF Placed
  <2>3. CASE r \in limbo
    <3> WITNESS "limbo" \in Places
    <3> QED BY <1>1, <2>0, <2>3 DEF Placed
  <2>4. CASE r \in errq
    <3> WITNESS "error" \in Places
    <3> QED BY <1>1, <2>0, <2>4 DEF Placed
  <2>5. CASE got[r] # NoReq
    <3> WITNESS "answered" \in Places
    <3> QED BY <1>1, <2>0, <2>5 DEF Placed
  <2> QED BY <2>0, <2>1, <2>2, <2>3, <2>4, <2>5 DEF Placed
<1> QED BY <1>2 DEF OneHome, BaseInv, HomeInv, Distinct

LEMMA BaseIsTypeOK == ASSUME FwdAssumption, BaseInv PROVE TypeOK
<1>1. ASSUME NEW c \in Conn
      PROVE  /\ \A k \in 1..Len(queue[c]) : queue[c][k] \in Req
             /\ \A k \in 1..Len(wire[c]) : wire[c][k] \in Req
             /\ msgSent[c] \in Range(queue[c]) \cup {NoReq} \/ ctx[c].pc = "resend"
             /\ nipq[c] \subseteq Range(queue[c])
             /\ flags[c] \subseteq {"resend", "qforwd"}
             /\ up[c] \in {"up", "closing", "down", "idle", "revived"}
             /\ ctx[c].pc \in {"idle", "unsent", "resend"}
             /\ ctx[c].i \in 0 .. Len(queue[c]) + 1
             /\ ctx[c].left \in 0 .. Len(queue[c])
  <2>1. /\ \A k \in 1..Len(queue[c]) : queue[c][k] \in Req
        /\ \A k \in 1..Len(wire[c]) : wire[c][k] \in Req
    BY ElementOfSeq DEF BaseInv, QueueTypeOK, NetTypeOK
  <2>2. \A r : r \in Range(queue[c]) <=> In(r, queue[c])
    BY HolderFacts, RangeIn
  <2>3. flags[c] \subseteq {"resend", "qforwd"} /\ up[c] \in {"up", "closing", "down", "idle", "revived"}
    BY DEF BaseInv, QueueTypeOK, NetTypeOK
  <2>4. ctx[c].pc \in {"idle", "unsent", "resend"} /\ ctx[c].i \in Nat /\ ctx[c].left \in Nat
    BY HolderFacts DEF Ctx
  <2>5. nipq[c] \subseteq Range(queue[c])
    BY <2>2, HolderFacts
  <2>6. msgSent[c] \in Range(queue[c]) \cup {NoReq} \/ ctx[c].pc = "resend"
    BY <2>2, <2>4, HolderFacts, UnsentSentIn DEF CursorOf, CursorIdle
  <2>7. ctx[c].i \in 0 .. Len(queue[c]) + 1 /\ ctx[c].left \in 0 .. Len(queue[c])
    <3>1. CASE ctx[c].pc = "idle"
      <4>1. ctx[c].i = 0 /\ ctx[c].left = 0
        BY <3>1, HolderFacts DEF CursorOf, CursorIdle, Idle
      <4> QED BY <4>1, HolderFacts
    <3>2. CASE ctx[c].pc = "unsent"
      BY <3>2, HolderFacts DEF CursorOf, CursorUnsent
    <3>3. CASE ctx[c].pc = "resend"
      BY <2>4, <3>3, HolderFacts DEF CursorOf, CursorResend
    <3> QED BY <2>4, <3>1, <3>2, <3>3
  <2> QED BY <2>1, <2>3, <2>4, <2>5, <2>6, <2>7
<1>2. /\ nip \subseteq NonIdemp
      /\ \A r \in Req : retries[r] \in 0 .. MaxRefwd + 1 /\ sent[r] \in 0..2
      /\ fresh \subseteq Req /\ held \subseteq Req /\ limbo \subseteq Req /\ errq \subseteq Req
      /\ \A r \in Req : pick[r] \in Conn \cup {NoConn}
      /\ drops \in 0..MaxDrop
  BY DEF BaseInv, ReqTypeOK, NetTypeOK
<1> QED BY <1>1, <1>2 DEF TypeOK

(* The inductive invariant of the queues: types, one place for a request,   *)
(* cursors within the queue, and held connections.                          *)
THEOREM BaseInvariance == Spec => []BaseInv
<1>1. Init => BaseInv
  BY FwdAssumption, InitBase
<1>2. BaseInv /\ [Next]_vars => BaseInv'
  BY FwdAssumption, NextBase, StutterBase
<1> QED BY <1>1, <1>2, PTL DEF Spec

(* Whatever the schedulers see, the servers do and the connections lose, a  *)
(* request is in exactly one place, in one queue at most and there once:    *)
(* nothing is lost or answered twice.                                       *)
THEOREM RequestHasOneHome == Spec => [](TypeOK /\ OneHome)
<1>1. BaseInv => TypeOK /\ OneHome
  BY FwdAssumption, BaseIsTypeOK, BaseIsOneHome
<1>2. Spec => []BaseInv
  BY BaseInvariance
<1> QED BY <1>1, <1>2, PTL
=============================================================================
