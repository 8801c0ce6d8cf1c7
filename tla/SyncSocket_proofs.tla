------------------------ MODULE SyncSocket_proofs ------------------------
(***************************************************************************)
(* Proofs about the deferred socket work: references, wake-ups and drops.  *)
(***************************************************************************)
EXTENDS SyncSocket, FiniteSetTheorems, SequenceTheorems, WellFoundedInduction, TLAPS

Work == [sk : SK, act : Action, cpu : CPU, n : Nat]
Call ==
    {Idle} \cup [pc : {"push", "pushed", "notify"}, work : Work]
           \cup [pc : {"backlog"}, work : Work, ticket : Nat]
           \cup [pc : {"notify"}]
SkState == [st : {"established", "close_wait", "dead", "closed"}, refs : Int, drops : Int]

SyTypeOK ==
    /\ ring \in Seq(Work) /\ tail \in Nat /\ lastHead \in Nat
    /\ guard \in [CPU -> Nat]
    /\ backlog \in Seq([ticket : Nat, work : Work])
    /\ ipi \in BOOLEAN /\ irqWork \in BOOLEAN /\ softirq \in BOOLEAN
    /\ call \in [CPU -> Call]
    /\ tx = [pc |-> tx.pc, ticket |-> tx.ticket, budget |-> tx.budget]
    /\ sk \in [SK -> SkState]
    /\ nwork \in Nat

(* The consumer never passes the producers.                                 *)
TailInv == tail <= Len(ring) /\ lastHead <= Len(ring)

(* TFW_QUEUE_IPI is clear only while the softirq is raised or runs.         *)
WakeInv ==
    /\ ~ipi => softirq \/ tx.pc # "idle"
    /\ tx.pc = "size" => ipi \/ softirq

(* A work is in one place only.  A call gives its work a number no other    *)
(* work has; ring keeps the works that were executed, so that nothing that  *)
(* was ever queued is queued again.                                         *)
Apart ==
    /\ \A i \in 1..Len(ring) : ring[i].n < nwork
    /\ \A i \in 1..Len(backlog) : backlog[i].work.n < nwork
    /\ \A c \in InCall : call[c].work.n < nwork
    /\ \A i, j \in 1..Len(ring) : i # j => ring[i].n # ring[j].n
    /\ \A i, j \in 1..Len(backlog) : i # j => backlog[i].work.n # backlog[j].work.n
    /\ \A c, d \in InCall : c # d => call[c].work.n # call[d].work.n
    /\ \A i \in 1..Len(ring), j \in 1..Len(backlog) : ring[i].n # backlog[j].work.n
    /\ \A c \in InCall, i \in 1..Len(ring) : call[c].work.n # ring[i].n
    /\ \A c \in InCall, i \in 1..Len(backlog) : call[c].work.n # backlog[i].work.n

PendingOf(s) == {w \in Pending : w.sk = s}
CallsOf(s) == {c \in InCall : call[c].work.sk = s}
Own(s) == IF sk[s].st = "closed" THEN 0 ELSE 1

SyInv ==
    /\ SyTypeOK /\ TailInv /\ WakeInv /\ Apart /\ IsFiniteSet(Pending)
    /\ RefBalance /\ NoLostWakeup /\ DropOnce

-----------------------------------------------------------------------------
(* Facts about the operators of the model                                   *)

(* A nonempty set of natural numbers has a least member.                    *)
LEMMA NatMin ==
    ASSUME NEW S, S \subseteq Nat, S # {}
    PROVE  Min(S) \in S /\ \A y \in S : Min(S) <= y
<1>1. PICK x \in S : \A y \in S : ~ (<<y, x>> \in OpToRel(<, Nat))
  BY NatLessThanWellFounded, WFMin, Zenon
<1>2. ASSUME NEW y \in S, ~ (x <= y) PROVE FALSE
  <2>1. y < x /\ <<y, x>> \in Nat \X Nat
    BY <1>2
  <2>2. <<y, x>> \in OpToRel(<, Nat)
    BY <2>1, Zenon DEF OpToRel
  <2> QED BY <1>1, <2>2, Zenon
<1> QED BY <1>2 DEF Min

(* A pop reaches no position that no producer acquired.                     *)
LEMMA HeadReached ==
    ASSUME SyTypeOK, TailInv
    PROVE  ReachableHead \in Nat /\ ReachableHead <= Len(ring)
<1> DEFINE S == {Head0} \cup {guard[c] : c \in CPU}
<1>1. Head0 \in Nat /\ S \subseteq Nat /\ Head0 \in S
  BY DEF SyTypeOK, Head0
<1>2. Min(S) \in Nat /\ Min(S) <= Head0
  <2> HIDE DEF S
  <2> QED BY <1>1, NatMin
<1> QED BY <1>2 DEF ReachableHead, TailInv, SyTypeOK, Head0

(* What the place of a call says of its record.                             *)
LEMMA CallShape ==
    ASSUME SyTypeOK, NEW c \in CPU
    PROVE  /\ call[c].pc \in {"push", "backlog"} => call[c].work \in Work
           /\ call[c].pc \in {"push", "pushed"} => call[c] = [pc |-> call[c].pc, work |-> call[c].work]
           /\ call[c].pc = "backlog" => call[c].ticket \in Nat
           /\ call[c].pc = "pushed" => call[c].work \in Work
           /\ c \in InCall <=> call[c].pc \in {"push", "backlog"}
<1>1. call[c] \in Call
  BY DEF SyTypeOK
<1>2. CASE call[c] = Idle
  BY <1>2 DEF Idle, InCall
<1>3. CASE call[c] \in [pc : {"push", "pushed", "notify"}, work : Work]
  BY <1>3 DEF InCall
<1>4. CASE call[c] \in [pc : {"backlog"}, work : Work, ticket : Nat]
  BY <1>4 DEF InCall
<1>5. CASE call[c] \in [pc : {"notify"}]
  BY <1>5 DEF InCall
<1> QED BY <1>1, <1>2, <1>3, <1>4, <1>5 DEF Call

LEMMA OfSocket ==
    ASSUME IsFiniteSet(Pending), NEW s
    PROVE  /\ IsFiniteSet(PendingOf(s)) /\ Cardinality(PendingOf(s)) \in Nat
           /\ IsFiniteSet(CallsOf(s)) /\ Cardinality(CallsOf(s)) \in Nat
<1>1. PendingOf(s) \in SUBSET Pending /\ CallsOf(s) \in SUBSET CPU
  BY DEF PendingOf, CallsOf, InCall
<1> QED BY <1>1, FS_Subset, FS_CardinalityType, SyncSocketAssumption

-----------------------------------------------------------------------------
(* How the queues of works change                                           *)

LEMMA PendingPushed ==
    ASSUME SyTypeOK, TailInv, NEW w \in Work,
           ring' = Append(ring, w), UNCHANGED <<tail, backlog>>
    PROVE  Pending' = Pending \cup {w}
<1>1. /\ ring' \in Seq(Work) /\ Len(ring') = Len(ring) + 1 /\ ring'[Len(ring) + 1] = w
      /\ \A i \in 1..Len(ring) : ring'[i] = ring[i]
      /\ Len(ring) \in Nat /\ tail \in Nat /\ tail <= Len(ring)
  BY AppendProperties, LenProperties DEF SyTypeOK, TailInv
<1>2. {ring'[i] : i \in tail + 1 .. Len(ring')} = {ring[i] : i \in tail + 1 .. Len(ring)} \cup {w}
  BY <1>1
<1> QED BY <1>2, Zenon DEF Pending, Head0

LEMMA PendingBacklogged ==
    ASSUME SyTypeOK, NEW w \in Work, NEW t \in Nat,
           backlog' = Append(backlog, [ticket |-> t, work |-> w]), UNCHANGED <<tail, ring>>
    PROVE  Pending' = Pending \cup {w}
<1>1. /\ backlog' \in Seq([ticket : Nat, work : Work]) /\ Len(backlog') = Len(backlog) + 1
      /\ backlog'[Len(backlog) + 1] = [ticket |-> t, work |-> w]
      /\ \A i \in 1..Len(backlog) : backlog'[i] = backlog[i]
      /\ DOMAIN backlog = 1..Len(backlog) /\ DOMAIN backlog' = 1..Len(backlog')
      /\ Len(backlog) \in Nat
  BY AppendProperties, LenProperties DEF SyTypeOK
<1>2. {backlog'[i].work : i \in DOMAIN backlog'} = {backlog[i].work : i \in DOMAIN backlog} \cup {w}
  BY <1>1
<1> QED BY <1>2, Zenon DEF Pending, Head0

LEMMA PendingPopped ==
    ASSUME SyTypeOK, Apart, tail < Len(ring),
           tail' = tail + 1, UNCHANGED <<ring, backlog>>
    PROVE  Pending' = Pending \ {ring[tail + 1]} /\ ring[tail + 1] \in Pending
<1>1. Len(ring) \in Nat /\ tail \in Nat /\ DOMAIN backlog = 1..Len(backlog)
  BY LenProperties DEF SyTypeOK
<1>2. tail + 1 \in 1..Len(ring)
  BY <1>1
<1>3. \A i \in 1..Len(ring) : i # tail + 1 => ring[i] # ring[tail + 1]
  BY <1>2 DEF Apart
<1>4. \A i \in 1..Len(backlog) : backlog[i].work # ring[tail + 1]
  BY <1>2 DEF Apart
<1>5. {ring'[i] : i \in tail' + 1 .. Len(ring')}
        = {ring[i] : i \in tail + 1 .. Len(ring)} \ {ring[tail + 1]}
  BY <1>1, <1>2, <1>3
<1>6. ring[tail + 1] \notin {backlog[i].work : i \in DOMAIN backlog}
  BY <1>1, <1>4
<1>7. ring[tail + 1] \in {ring[i] : i \in tail + 1 .. Len(ring)}
  BY <1>1
<1>8. backlog' = backlog
  OBVIOUS
<1> QED BY <1>5, <1>6, <1>7, <1>8, Zenon DEF Pending, Head0

LEMMA PendingTurned ==
    ASSUME SyTypeOK, Apart, backlog # <<>>,
           backlog' = Tail(backlog), UNCHANGED <<ring, tail>>
    PROVE  Pending' = Pending \ {backlog[1].work} /\ backlog[1].work \in Pending
<1>1. /\ Len(ring) \in Nat /\ tail \in Nat /\ DOMAIN backlog = 1..Len(backlog)
      /\ Len(backlog) \in Nat \ {0} /\ Len(backlog') = Len(backlog) - 1
      /\ DOMAIN backlog' = 1..Len(backlog')
      /\ \A i \in 1..Len(backlog') : backlog'[i] = backlog[i + 1]
  BY LenProperties, HeadTailProperties, EmptySeq DEF SyTypeOK
<1>2. 1 \in 1..Len(backlog)
  BY <1>1
<1>3. \A i \in 1..Len(backlog) : i # 1 => backlog[i].work # backlog[1].work
  BY <1>2 DEF Apart
<1>4. \A i \in 1..Len(ring) : ring[i] # backlog[1].work
  BY <1>2 DEF Apart
<1>5. {backlog'[i].work : i \in DOMAIN backlog'}
        = {backlog[i].work : i \in DOMAIN backlog} \ {backlog[1].work}
  <2>1. \A i \in 2..Len(backlog) : i - 1 \in 1..Len(backlog') /\ backlog'[i - 1] = backlog[i]
    BY <1>1
  <2>2. \A i \in 1..Len(backlog') : i + 1 \in 2..Len(backlog) /\ backlog'[i] = backlog[i + 1]
    BY <1>1
  <2>3. \A i \in 1..Len(backlog) : i # 1 => i \in 2..Len(backlog)
    OBVIOUS
  <2>4. ASSUME NEW i \in DOMAIN backlog'
        PROVE  backlog'[i].work \in {backlog[j].work : j \in DOMAIN backlog} \ {backlog[1].work}
    BY <1>1, <1>3, <2>2, <2>4
  <2>5. ASSUME NEW i \in DOMAIN backlog, backlog[i].work # backlog[1].work
        PROVE  backlog[i].work \in {backlog'[j].work : j \in DOMAIN backlog'}
    BY <1>1, <2>1, <2>3, <2>5
  <2> QED BY <2>4, <2>5
<1>6. backlog[1].work \notin {ring[i] : i \in tail + 1 .. Len(ring)}
  BY <1>1, <1>4
<1>7. backlog[1].work \in {backlog[i].work : i \in DOMAIN backlog}
  BY <1>1, <1>2
<1> QED BY <1>5, <1>6, <1>7, Zenon DEF Pending, Head0

-----------------------------------------------------------------------------
(* The references of the sockets: a call takes one, hands it to a queue or  *)
(* gives it back, and the execution of a work gives it back.                *)

Balanced(s) == sk[s].refs = Cardinality(PendingOf(s)) + Cardinality(CallsOf(s)) + Own(s)

LEMMA BalancedAll == RefBalance <=> \A s \in SK : Balanced(s)
BY DEF RefBalance, Balanced, PendingOf, CallsOf, Own

LEMMA BalancedAllNext == RefBalance' <=> \A s \in SK : Balanced(s)'
BY DEF RefBalance, Balanced, PendingOf, CallsOf, Own

LEMMA AddedIf ==
    ASSUME NEW S, NEW T, NEW x, NEW a, NEW b, IsFiniteSet(S), Cardinality(S) \in Nat,
           x \notin S, T = IF a = b THEN S \cup {x} ELSE S
    PROVE  Cardinality(T) = Cardinality(S) + (IF a = b THEN 1 ELSE 0)
<1>1. Cardinality(S \cup {x}) = Cardinality(S) + 1
  BY FS_AddElement
<1> QED BY <1>1

LEMMA TakenIf ==
    ASSUME NEW S, NEW T, NEW x, NEW a, NEW b, IsFiniteSet(S), Cardinality(S) \in Nat,
           a = b => x \in S, T = IF a = b THEN S \ {x} ELSE S
    PROVE  Cardinality(T) = Cardinality(S) - (IF a = b THEN 1 ELSE 0)
<1>1. x \in S => Cardinality(S \ {x}) = Cardinality(S) - 1
  BY FS_RemoveElement
<1> QED BY <1>1

(* The numbers of works are numbers.                                        *)
LEMMA Numbers ==
    ASSUME SyTypeOK
    PROVE  /\ nwork \in Nat
           /\ \A i \in 1..Len(ring) : ring[i] \in Work /\ ring[i].n \in Nat
           /\ \A i \in 1..Len(backlog) : /\ backlog[i] \in [ticket : Nat, work : Work]
                                        /\ backlog[i].work.n \in Nat
           /\ \A c \in InCall : c \in CPU /\ call[c].work \in Work /\ call[c].work.n \in Nat
<1>1. \A i \in 1..Len(ring) : ring[i] \in Work
  BY ElementOfSeq DEF SyTypeOK
<1>2. \A i \in 1..Len(backlog) : backlog[i] \in [ticket : Nat, work : Work]
  BY ElementOfSeq DEF SyTypeOK
<1>3. \A c \in InCall : c \in CPU /\ call[c].work \in Work
  BY CallShape DEF InCall
<1>4. \A w \in Work : w.n \in Nat
  BY DEF Work
<1>5. \A i \in 1..Len(backlog) : backlog[i].work \in Work
  BY <1>2
<1> QED BY <1>1, <1>2, <1>3, <1>4, <1>5 DEF SyTypeOK

LEMMA CallBegun ==
    ASSUME SyTypeOK, Apart, IsFiniteSet(Pending), RefBalance,
           NEW c \in CPU, NEW s \in SK, NEW act \in Action, call[c] = Idle,
           nwork' = nwork + 1, UNCHANGED <<ring, tail, backlog>>,
           call' = [call EXCEPT ![c] =
              [pc |-> "push", work |-> [sk |-> s, act |-> act, cpu |-> c, n |-> nwork]]],
           \A t \in SK : /\ sk'[t].refs = sk[t].refs + (IF t = s THEN 1 ELSE 0)
                         /\ Own(t)' = Own(t)
    PROVE  call' \in [CPU -> Call] /\ Apart' /\ IsFiniteSet(Pending') /\ RefBalance'
<1>1. /\ call' \in [CPU -> Call] /\ call'[c].work.n = nwork /\ call'[c].work.sk = s
      /\ call'[c].pc = "push"
      /\ \A d \in CPU : d # c => call'[d] = call[d]
  BY DEF SyTypeOK, Call, Work, Idle
<1>2. InCall' = InCall \cup {c} /\ c \notin InCall
  BY <1>1 DEF InCall, Idle
<1>3. Pending' = Pending
  BY DEF Pending, Head0
<1>4. Apart'
  <2>4. \A d \in InCall : call'[d] = call[d]
    BY <1>1, <1>2 DEF InCall
  <2>5. /\ nwork \in Nat /\ ring' = ring /\ backlog' = backlog
        /\ \A i \in 1..Len(ring) : ring[i].n < nwork /\ ring[i].n \in Nat
        /\ \A i \in 1..Len(backlog) : backlog[i].work.n < nwork /\ backlog[i].work.n \in Nat
        /\ \A d \in InCall : call[d].work.n < nwork /\ call[d].work.n \in Nat
    BY Numbers DEF Apart
  <2>6. /\ \A i \in 1..Len(ring') : ring'[i].n < nwork'
        /\ \A i \in 1..Len(backlog') : backlog'[i].work.n < nwork'
        /\ \A d \in InCall' : call'[d].work.n < nwork'
    BY <1>1, <1>2, <2>4, <2>5
  <2>7. \A d, e \in InCall' : d # e => call'[d].work.n # call'[e].work.n
    BY <1>1, <1>2, <2>4, <2>5 DEF Apart
  <2>8. /\ \A d \in InCall', i \in 1..Len(ring') : call'[d].work.n # ring'[i].n
        /\ \A d \in InCall', i \in 1..Len(backlog') : call'[d].work.n # backlog'[i].work.n
    BY <1>1, <1>2, <2>4, <2>5 DEF Apart
  <2> QED BY <2>5, <2>6, <2>7, <2>8 DEF Apart
<1>5. ASSUME NEW t \in SK PROVE Balanced(t)'
  <2>1. PendingOf(t)' = PendingOf(t)
    BY <1>3 DEF PendingOf
  <2>2. CallsOf(t)' = IF t = s THEN CallsOf(t) \cup {c} ELSE CallsOf(t)
    <3>1. \A d \in InCall : call'[d] = call[d]
      BY <1>1, <1>2 DEF InCall
    <3> QED BY <1>1, <1>2, <3>1 DEF CallsOf
  <2>3. c \notin CallsOf(t)
    BY <1>2 DEF CallsOf
  <2>4. Cardinality(CallsOf(t)') = Cardinality(CallsOf(t)) + (IF t = s THEN 1 ELSE 0)
    <3>1. IsFiniteSet(CallsOf(t)) /\ Cardinality(CallsOf(t)) \in Nat
      BY OfSocket
    <3>2. CASE t = s
      <4>1. CallsOf(t)' = CallsOf(t) \cup {c}
        BY <2>2, <3>2
      <4>2. Cardinality(CallsOf(t) \cup {c}) = Cardinality(CallsOf(t)) + 1
        BY <2>3, <3>1, FS_AddElement
      <4> QED BY <3>2, <4>1, <4>2
    <3>3. CASE t # s
      BY <2>2, <3>1, <3>3
    <3> QED BY <3>2, <3>3
  <2>5. Balanced(t) /\ sk[t].refs \in Int
    BY BalancedAll DEF SyTypeOK, SkState
  <2> QED BY <2>1, <2>4, <2>5, OfSocket DEF Balanced, Own
<1> QED BY <1>1, <1>3, <1>4, <1>5, BalancedAllNext

(* The call hands its work to the ring or to the backlog.                   *)
LEMMA CallQueued ==
    ASSUME SyTypeOK, Apart, IsFiniteSet(Pending), RefBalance,
           NEW c \in InCall, Pending' = Pending \cup {call[c].work},
           InCall' = InCall \ {c}, \A d \in InCall' : call'[d] = call[d],
           UNCHANGED sk
    PROVE  IsFiniteSet(Pending') /\ RefBalance'
<1>1. c \in CPU /\ call[c].work \in Work
  BY CallShape DEF InCall
<1>2. call[c].work \notin Pending
  <2>1. DOMAIN backlog = 1..Len(backlog) /\ tail \in Nat /\ Len(ring) \in Nat
    BY LenProperties DEF SyTypeOK
  <2>2. \A i \in tail + 1 .. Head0 : ring[i] # call[c].work
    BY <2>1 DEF Apart, Head0
  <2>3. \A i \in DOMAIN backlog : backlog[i].work # call[c].work
    BY <2>1 DEF Apart
  <2> QED BY <2>2, <2>3 DEF Pending
<1>3. IsFiniteSet(Pending')
  BY FS_AddElement
<1>4. ASSUME NEW t \in SK PROVE Balanced(t)'
  <2>1. PendingOf(t)' = IF call[c].work.sk = t THEN PendingOf(t) \cup {call[c].work} ELSE PendingOf(t)
    BY DEF PendingOf
  <2>2. CallsOf(t)' = IF call[c].work.sk = t THEN CallsOf(t) \ {c} ELSE CallsOf(t)
    BY DEF CallsOf
  <2>3. call[c].work \notin PendingOf(t) /\ (call[c].work.sk = t => c \in CallsOf(t))
    BY <1>2 DEF PendingOf, CallsOf
  <2>4. Cardinality(PendingOf(t)') = Cardinality(PendingOf(t)) + (IF call[c].work.sk = t THEN 1 ELSE 0)
    BY <2>1, <2>3, OfSocket, AddedIf
  <2>5. Cardinality(CallsOf(t)') = Cardinality(CallsOf(t)) - (IF call[c].work.sk = t THEN 1 ELSE 0)
    <3>1. IsFiniteSet(CallsOf(t)) /\ Cardinality(CallsOf(t)) \in Nat
      BY OfSocket
    <3> QED BY <2>2, <2>3, <3>1, TakenIf, Zenon
  <2>6. Balanced(t) /\ sk[t].refs \in Int /\ Own(t)' = Own(t) /\ Own(t) \in Int
    BY BalancedAll DEF SyTypeOK, SkState, Own
  <2> QED BY <2>4, <2>5, <2>6, OfSocket DEF Balanced
<1> QED BY <1>3, <1>4, BalancedAllNext

(* The call is refused and gives its reference back.                        *)
LEMMA CallRefused ==
    ASSUME SyTypeOK, IsFiniteSet(Pending), RefBalance,
           NEW c \in InCall, UNCHANGED <<ring, tail, backlog>>,
           InCall' = InCall \ {c}, \A d \in InCall' : call'[d] = call[d],
           \A t \in SK : /\ sk'[t].refs = sk[t].refs - (IF t = call[c].work.sk THEN 1 ELSE 0)
                         /\ Own(t)' = Own(t)
    PROVE  IsFiniteSet(Pending') /\ RefBalance'
<1>1. Pending' = Pending
  BY DEF Pending, Head0
<1>2. ASSUME NEW t \in SK PROVE Balanced(t)'
  <2>1. PendingOf(t)' = PendingOf(t)
    BY <1>1 DEF PendingOf
  <2>2. CallsOf(t)' = IF call[c].work.sk = t THEN CallsOf(t) \ {c} ELSE CallsOf(t)
    BY DEF CallsOf
  <2>3. call[c].work.sk = t => c \in CallsOf(t)
    BY DEF CallsOf
  <2>4. Cardinality(CallsOf(t)') = Cardinality(CallsOf(t)) - (IF call[c].work.sk = t THEN 1 ELSE 0)
    BY <2>2, <2>3, OfSocket, TakenIf
  <2>5. Balanced(t) /\ sk[t].refs \in Int /\ Own(t) \in Int
    BY BalancedAll DEF SyTypeOK, SkState, Own
  <2> QED BY <2>1, <2>4, <2>5, OfSocket DEF Balanced
<1> QED BY <1>1, <1>2, BalancedAllNext

(* A work is executed and gives its reference back.                         *)
LEMMA WorkDone ==
    ASSUME SyTypeOK, IsFiniteSet(Pending), RefBalance,
           NEW w \in Pending, Pending' = Pending \ {w}, UNCHANGED call,
           \A t \in SK : /\ sk'[t].refs = sk[t].refs - (IF t = w.sk THEN 1 ELSE 0)
                         /\ Own(t)' = Own(t)
    PROVE  IsFiniteSet(Pending') /\ RefBalance'
<1>1. IsFiniteSet(Pending')
  BY FS_RemoveElement
<1>2. ASSUME NEW t \in SK PROVE Balanced(t)'
  <2>1. CallsOf(t)' = CallsOf(t)
    BY DEF CallsOf, InCall
  <2>2. PendingOf(t)' = IF w.sk = t THEN PendingOf(t) \ {w} ELSE PendingOf(t)
    BY DEF PendingOf
  <2>3. w.sk = t => w \in PendingOf(t)
    BY DEF PendingOf
  <2>4. Cardinality(PendingOf(t)') = Cardinality(PendingOf(t)) - (IF w.sk = t THEN 1 ELSE 0)
    BY <2>2, <2>3, OfSocket, TakenIf
  <2>5. Balanced(t) /\ sk[t].refs \in Int /\ Own(t) \in Int
    BY BalancedAll DEF SyTypeOK, SkState, Own
  <2> QED BY <2>1, <2>4, <2>5, OfSocket DEF Balanced
<1> QED BY <1>1, <1>2, BalancedAllNext

(* Nothing that holds a reference changes.                                  *)
LEMMA BalanceKept ==
    ASSUME SyTypeOK, IsFiniteSet(Pending), RefBalance,
           UNCHANGED <<ring, tail, backlog>>,
           InCall' = InCall, \A d \in InCall : call'[d].work = call[d].work,
           \A t \in SK : sk'[t].refs - Own(t)' = sk[t].refs - Own(t) /\ sk'[t].refs \in Int
    PROVE  IsFiniteSet(Pending') /\ RefBalance'
<1>1. Pending' = Pending
  BY DEF Pending, Head0
<1>2. ASSUME NEW t \in SK PROVE Balanced(t)'
  <2>1. PendingOf(t)' = PendingOf(t) /\ CallsOf(t)' = CallsOf(t)
    BY <1>1 DEF PendingOf, CallsOf
  <2>2. Balanced(t) /\ sk[t].refs \in Int /\ Own(t) \in Int /\ Own(t)' \in Int
    BY BalancedAll DEF SyTypeOK, SkState, Own
  <2> QED BY <2>1, <2>2, OfSocket DEF Balanced
<1> QED BY <1>1, <1>2, BalancedAllNext

LEMMA ApartKept ==
    ASSUME Apart, UNCHANGED <<ring, backlog, nwork>>,
           InCall' \subseteq InCall, \A d \in InCall' : call'[d].work = call[d].work
    PROVE  Apart'
BY DEF Apart

-----------------------------------------------------------------------------
(* The steps                                                                *)

(* What sock_hold(), sock_put() and the changes of state do to the records. *)
LEMMA SkHeld ==
    ASSUME sk \in [SK -> SkState], NEW s \in SK, sk' = [sk EXCEPT ![s].refs = @ + 1]
    PROVE  /\ sk' \in [SK -> SkState]
           /\ \A t \in SK : /\ sk'[t].refs = sk[t].refs + (IF t = s THEN 1 ELSE 0)
                            /\ sk'[t].st = sk[t].st /\ sk'[t].drops = sk[t].drops
                            /\ Own(t)' = Own(t)
<1>1. \A t \in SK : sk'[t] \in SkState
  BY DEF SkState
<1>2. \A t \in SK : sk'[t].st = sk[t].st /\ sk'[t].drops = sk[t].drops
  BY DEF SkState
<1>3. \A t \in SK : sk'[t].refs = sk[t].refs + (IF t = s THEN 1 ELSE 0)
  BY DEF SkState
<1> QED BY <1>1, <1>2, <1>3 DEF Own

LEMMA SkPut ==
    ASSUME sk \in [SK -> SkState], NEW s \in SK, sk' = [sk EXCEPT ![s].refs = @ - 1]
    PROVE  /\ sk' \in [SK -> SkState]
           /\ \A t \in SK : /\ sk'[t].refs = sk[t].refs - (IF t = s THEN 1 ELSE 0)
                            /\ sk'[t].st = sk[t].st /\ sk'[t].drops = sk[t].drops
                            /\ Own(t)' = Own(t)
<1>1. \A t \in SK : sk'[t] \in SkState
  BY DEF SkState
<1>2. \A t \in SK : sk'[t].st = sk[t].st /\ sk'[t].drops = sk[t].drops
  BY DEF SkState
<1>3. \A t \in SK : sk'[t].refs = sk[t].refs - (IF t = s THEN 1 ELSE 0)
  BY DEF SkState
<1> QED BY <1>1, <1>2, <1>3 DEF Own

LEMMA SkFin ==
    ASSUME sk \in [SK -> SkState], NEW s \in SK, sk[s].st = "established", DropOnce,
           sk' = [sk EXCEPT ![s].st = "close_wait", ![s].refs = @ + 1]
    PROVE  /\ sk' \in [SK -> SkState] /\ DropOnce'
           /\ \A t \in SK : /\ sk'[t].refs = sk[t].refs + (IF t = s THEN 1 ELSE 0)
                            /\ Own(t)' = Own(t)
<1>1. \A t \in SK : sk'[t] \in SkState
  BY DEF SkState
<1>2. /\ sk'[s].st = "close_wait" /\ sk'[s].refs = sk[s].refs + 1 /\ sk'[s].drops = sk[s].drops
      /\ \A t \in SK : t # s => sk'[t] = sk[t]
  BY DEF SkState
<1>3. \A t \in SK : sk[t].refs \in Int
  BY DEF SkState
<1>4. \A t \in SK : Own(t)' = Own(t)
  <2> TAKE t \in SK
  <2>1. CASE t = s
    BY <1>2, <2>1 DEF Own
  <2>2. CASE t # s
    BY <1>2, <2>2 DEF Own
  <2> QED BY <2>1, <2>2
<1>5. DropOnce'
  <2> SUFFICES ASSUME NEW t \in SK
               PROVE  sk'[t].drops = IF sk'[t].st \in {"dead", "closed"} THEN 1 ELSE 0
    BY DEF DropOnce
  <2>1. CASE t = s
    BY <1>2, <2>1 DEF DropOnce
  <2>2. CASE t # s
    BY <1>2, <2>2 DEF DropOnce
  <2> QED BY <2>1, <2>2
<1> QED BY <1>1, <1>2, <1>3, <1>4, <1>5

LEMMA SyInit == Init => SyInv
<1> SUFFICES ASSUME Init PROVE SyInv
  OBVIOUS
<1>1. SyTypeOK
  <2>1. ring \in Seq(Work) /\ backlog \in Seq([ticket : Nat, work : Work])
    BY EmptySeq DEF Init
  <2>2. call \in [CPU -> Call] /\ guard \in [CPU -> Nat]
    BY SyncSocketAssumption DEF Init, Call
  <2>3. sk \in [SK -> SkState]
    BY DEF Init, SkState
  <2> QED BY <2>1, <2>2, <2>3 DEF Init, SyTypeOK
<1>a. TailInv /\ WakeInv
  BY EmptySeq DEF Init, TailInv, WakeInv
<1>2. InCall = {} /\ Pending = {}
  BY EmptySeq DEF Init, InCall, Pending, Idle, Head0
<1>3. Apart
  BY <1>2 DEF Init, Apart
<1>4. RefBalance
  <2>1. \A s \in SK : PendingOf(s) = {} /\ CallsOf(s) = {}
    BY <1>2 DEF PendingOf, CallsOf
  <2>2. \A s \in SK : Balanced(s)
    <3> TAKE s \in SK
    <3>1. Cardinality(PendingOf(s)) = 0 /\ Cardinality(CallsOf(s)) = 0
      BY <2>1, FS_EmptySet
    <3>2. sk[s].refs = 1 /\ Own(s) = 1
      BY DEF Init, Own
    <3> QED BY <3>1, <3>2 DEF Balanced
  <2> QED BY <2>2, BalancedAll
<1>5. NoLostWakeup /\ DropOnce
  BY EmptySeq DEF Init, NoLostWakeup, DropOnce, LocalSize, RingSize, Head0
<1> QED BY <1>1, <1>a, <1>2, <1>3, <1>4, <1>5, FS_EmptySet DEF SyInv

LEMMA CallStarts ==
    ASSUME SyInv, NEW c \in CPU, NEW s \in SK, NEW act \in Action, ss_call(c, s, act)
    PROVE  SyInv'
<1> USE DEF SyInv
<1>1. /\ call[c] = Idle /\ nwork' = nwork + 1
      /\ sk' = [sk EXCEPT ![s].refs = @ + 1]
      /\ guard' = [guard EXCEPT ![c] = Len(ring)]
      /\ call' = [call EXCEPT ![c] =
            [pc |-> "push", work |-> [sk |-> s, act |-> act, cpu |-> c, n |-> nwork]]]
      /\ UNCHANGED <<ring, tail, lastHead, backlog, ipi, irqWork, softirq, tx>>
  BY DEF ss_call, Head0, blVars, irqVars
<1>0. sk \in [SK -> SkState] /\ sk' = [sk EXCEPT ![s].refs = @ + 1]
  BY <1>1 DEF SyTypeOK
<1>2. sk' \in [SK -> SkState]
  BY <1>0, SkHeld
<1>3. \A t \in SK : /\ sk'[t].refs = sk[t].refs + (IF t = s THEN 1 ELSE 0)
                    /\ sk'[t].st = sk[t].st /\ sk'[t].drops = sk[t].drops
                    /\ Own(t)' = Own(t)
  BY <1>0, SkHeld
<1>5. call' \in [CPU -> Call] /\ Apart' /\ IsFiniteSet(Pending') /\ RefBalance'
  BY <1>1, <1>3, CallBegun
<1>6. guard' \in [CPU -> Nat]
  BY <1>1, LenProperties DEF SyTypeOK
<1>7. SyTypeOK'
  BY <1>1, <1>2, <1>5, <1>6 DEF SyTypeOK
<1>8. TailInv' /\ WakeInv'
  BY <1>1 DEF TailInv, WakeInv
<1>9. NoLostWakeup'
  BY <1>1 DEF NoLostWakeup, LocalSize, RingSize, Head0, SyTypeOK, Idle
<1>10. DropOnce'
  BY <1>3 DEF DropOnce
<1> QED BY <1>5, <1>7, <1>8, <1>9, <1>10

LEMMA FinStarts ==
    ASSUME SyInv, NEW s \in SK, PeerFin(s)
    PROVE  SyInv'
<1> USE DEF SyInv
<1>1. /\ call[Local] = Idle /\ nwork' = nwork + 1 /\ sk[s].st = "established"
      /\ sk' = [sk EXCEPT ![s].st = "close_wait", ![s].refs = @ + 1]
      /\ guard' = [guard EXCEPT ![Local] = Len(ring)]
      /\ call' = [call EXCEPT ![Local] =
            [pc |-> "push", work |-> [sk |-> s, act |-> "close", cpu |-> Local, n |-> nwork]]]
      /\ UNCHANGED <<ring, tail, lastHead, backlog, ipi, irqWork, softirq, tx>>
      /\ Local \in CPU /\ "close" \in Action
  BY SyncSocketAssumption DEF PeerFin, Head0, blVars, irqVars, Action
<1>2. sk \in [SK -> SkState] /\ DropOnce /\ sk' = [sk EXCEPT ![s].st = "close_wait", ![s].refs = @ + 1]
  BY <1>1 DEF SyTypeOK
<1>3. /\ sk' \in [SK -> SkState] /\ DropOnce'
      /\ \A t \in SK : /\ sk'[t].refs = sk[t].refs + (IF t = s THEN 1 ELSE 0)
                       /\ Own(t)' = Own(t)
  BY <1>1, <1>2, SkFin
<1>5. call' \in [CPU -> Call] /\ Apart' /\ IsFiniteSet(Pending') /\ RefBalance'
  BY <1>1, <1>3, CallBegun
<1>6. guard' \in [CPU -> Nat]
  BY <1>1, LenProperties DEF SyTypeOK
<1>7. SyTypeOK'
  BY <1>1, <1>3, <1>5, <1>6 DEF SyTypeOK
<1>8. TailInv' /\ WakeInv'
  BY <1>1 DEF TailInv, WakeInv
<1>9. NoLostWakeup'
  BY <1>1 DEF NoLostWakeup, LocalSize, RingSize, Head0, SyTypeOK, Idle
<1> QED BY <1>3, <1>5, <1>7, <1>8, <1>9

LEMMA Pushes ==
    ASSUME SyInv, NEW c \in CPU, ss_wq_push(c)
    PROVE  SyInv'
<1> USE DEF SyInv
<1>1. /\ call[c].pc = "push" /\ Len(ring) < tail + QSZ
      /\ ring' = Append(ring, call[c].work)
      /\ call' = [call EXCEPT ![c].pc = "pushed"]
      /\ UNCHANGED <<tail, lastHead, guard, backlog, ipi, irqWork, softirq, tx, sk, nwork>>
  BY DEF ss_wq_push, Head0, blVars, irqVars
<1>2. call[c].work \in Work /\ call[c] = [pc |-> "push", work |-> call[c].work] /\ c \in InCall
  BY <1>1, CallShape
<1>3. /\ ring' \in Seq(Work) /\ Len(ring') = Len(ring) + 1 /\ ring'[Len(ring) + 1] = call[c].work
      /\ \A i \in 1..Len(ring) : ring'[i] = ring[i]
      /\ Len(ring) \in Nat
  BY <1>1, <1>2, AppendProperties, LenProperties DEF SyTypeOK
<1>4. /\ call'[c] = [pc |-> "pushed", work |-> call[c].work]
      /\ \A d \in CPU : d # c => call'[d] = call[d]
      /\ call' \in [CPU -> Call]
  BY <1>1, <1>2 DEF SyTypeOK, Call
<1>5. InCall' = InCall \ {c} /\ \A d \in InCall' : call'[d] = call[d]
  BY <1>4 DEF InCall
<1>6. Pending' = Pending \cup {call[c].work}
  BY <1>1, <1>2, PendingPushed
<1>7. IsFiniteSet(Pending') /\ RefBalance'
  BY <1>1, <1>2, <1>5, <1>6, CallQueued
<1>8. Apart'
  <2>1. \A i \in 1..Len(ring') : i \in 1..Len(ring) \/ i = Len(ring) + 1
    BY <1>3
  <2>2. nwork' = nwork /\ backlog' = backlog
    BY <1>1
  <2>3. \A i \in 1..Len(ring') : /\ ring'[i].n < nwork
                                 /\ \A j \in 1..Len(backlog) : ring'[i].n # backlog[j].work.n
                                 /\ \A d \in InCall' : call'[d].work.n # ring'[i].n
    BY <1>2, <1>3, <1>5, <2>1 DEF Apart
  <2>4. \A i, j \in 1..Len(ring') : i # j => ring'[i].n # ring'[j].n
    BY <1>2, <1>3, <2>1 DEF Apart
  <2>5. \A d \in InCall' : /\ call'[d].work.n < nwork
                           /\ \A e \in InCall' : d # e => call'[d].work.n # call'[e].work.n
                           /\ \A i \in 1..Len(backlog) : call'[d].work.n # backlog[i].work.n
    BY <1>5 DEF Apart
  <2> QED BY <2>2, <2>3, <2>4, <2>5 DEF Apart
<1>9. SyTypeOK'
  BY <1>1, <1>3, <1>4 DEF SyTypeOK
<1>10. TailInv' /\ WakeInv' /\ DropOnce'
  BY <1>1, <1>3 DEF TailInv, WakeInv, DropOnce, SyTypeOK
<1>11. NoLostWakeup'
  BY <1>4 DEF NoLostWakeup
<1> QED BY <1>7, <1>8, <1>9, <1>10, <1>11

LEMMA PushEnds ==
    ASSUME SyInv, NEW c \in CPU, PushDone(c)
    PROVE  SyInv'
<1> USE DEF SyInv
<1>1. /\ call[c].pc = "pushed"
      /\ guard' = [guard EXCEPT ![c] = LONG_MAX]
      /\ call' = [call EXCEPT ![c].pc = "notify"]
      /\ UNCHANGED <<ring, tail, lastHead, backlog, ipi, irqWork, softirq, tx, sk, nwork>>
  BY DEF PushDone, blVars, irqVars
<1>2. call[c].work \in Work /\ call[c] = [pc |-> "pushed", work |-> call[c].work] /\ c \notin InCall
  BY <1>1, CallShape
<1>3. /\ call'[c] = [pc |-> "notify", work |-> call[c].work]
      /\ \A d \in CPU : d # c => call'[d] = call[d]
      /\ call' \in [CPU -> Call]
  BY <1>1, <1>2 DEF SyTypeOK, Call
<1>4. InCall' = InCall /\ \A d \in InCall : call'[d] = call[d]
  BY <1>2, <1>3 DEF InCall
<1>5. SyTypeOK'
  BY <1>1, <1>3, SyncSocketAssumption DEF SyTypeOK
<1>6. TailInv' /\ WakeInv' /\ DropOnce'
  BY <1>1 DEF TailInv, WakeInv, DropOnce
<1>7. NoLostWakeup'
  BY <1>3 DEF NoLostWakeup
<1>8. Apart'
  BY <1>1, <1>4, ApartKept
<1>9. IsFiniteSet(Pending') /\ RefBalance'
  <2>1. \A t \in SK : sk'[t].refs - Own(t)' = sk[t].refs - Own(t) /\ sk'[t].refs \in Int
    BY <1>1 DEF Own, SyTypeOK, SkState
  <2> QED BY <1>1, <1>4, <2>1, BalanceKept
<1> QED BY <1>5, <1>6, <1>7, <1>8, <1>9

(* A call that ends without its work, and one that keeps it for the         *)
(* backlog.                                                                 *)
LEMMA CallGivesUp ==
    ASSUME SyInv, NEW c \in CPU, call[c].pc \in {"push", "backlog"},
           call' = [call EXCEPT ![c] = Idle],
           sk' = [sk EXCEPT ![call[c].work.sk].refs = @ - 1],
           guard' \in [CPU -> Nat],
           UNCHANGED <<ring, tail, lastHead, backlog, ipi, irqWork, softirq, tx, nwork>>
    PROVE  SyInv'
<1> USE DEF SyInv
<1>1. call[c].work \in Work /\ call[c].work.sk \in SK /\ c \in InCall
  BY CallShape DEF Work
<1>2. /\ call'[c] = Idle /\ call' \in [CPU -> Call]
      /\ \A d \in CPU : d # c => call'[d] = call[d]
  BY DEF SyTypeOK, Call
<1>3. InCall' = InCall \ {c} /\ \A d \in InCall' : call'[d] = call[d]
  BY <1>2 DEF InCall, Idle
<1>4. sk \in [SK -> SkState]
  BY DEF SyTypeOK
<1>5. /\ sk' \in [SK -> SkState]
      /\ \A t \in SK : /\ sk'[t].refs = sk[t].refs - (IF t = call[c].work.sk THEN 1 ELSE 0)
                       /\ sk'[t].st = sk[t].st /\ sk'[t].drops = sk[t].drops
                       /\ Own(t)' = Own(t)
  BY <1>1, <1>4, SkPut
<1>6. IsFiniteSet(Pending') /\ RefBalance'
  BY <1>1, <1>3, <1>5, CallRefused
<1>7. Apart'
  BY <1>3, ApartKept
<1>8. SyTypeOK'
  BY <1>2, <1>5 DEF SyTypeOK
<1>9. TailInv' /\ WakeInv'
  BY DEF TailInv, WakeInv
<1>10. DropOnce'
  BY <1>5 DEF DropOnce
<1>11. NoLostWakeup'
  BY <1>2 DEF NoLostWakeup, LocalSize, RingSize, Head0
<1> QED BY <1>6, <1>7, <1>8, <1>9, <1>10, <1>11

LEMMA FullRing ==
    ASSUME SyInv, NEW c \in CPU, PushFull(c)
    PROVE  SyInv'
<1> USE DEF SyInv
<1>1. /\ call[c].pc = "push" /\ Head0 \in Nat
      /\ guard' = [guard EXCEPT ![c] = LONG_MAX]
      /\ UNCHANGED <<ring, tail, lastHead, backlog, ipi, irqWork, softirq, tx, nwork>>
  BY LenProperties DEF PushFull, blVars, irqVars, Head0, SyTypeOK
<1>2. guard' \in [CPU -> Nat]
  BY <1>1, SyncSocketAssumption DEF SyTypeOK
<1>3. CASE /\ call[c].work.act # "close"
           /\ call' = [call EXCEPT ![c] = Idle]
           /\ sk' = [sk EXCEPT ![call[c].work.sk].refs = @ - 1]
  BY <1>1, <1>2, <1>3, CallGivesUp
<1>4. CASE /\ call' = [call EXCEPT ![c] = [pc |-> "backlog", work |-> @.work, ticket |-> Head0]]
           /\ UNCHANGED sk
  <2>1. call[c].work \in Work /\ c \in InCall
    BY <1>1, CallShape
  <2>2. /\ call'[c] = [pc |-> "backlog", work |-> call[c].work, ticket |-> Head0]
        /\ call' \in [CPU -> Call]
        /\ \A d \in CPU : d # c => call'[d] = call[d]
    BY <1>1, <1>4, <2>1 DEF SyTypeOK, Call
  <2>3. InCall' = InCall /\ \A d \in InCall : call'[d].work = call[d].work
    BY <2>1, <2>2 DEF InCall
  <2>4. SyTypeOK'
    BY <1>1, <1>2, <1>4, <2>2 DEF SyTypeOK
  <2>5. TailInv' /\ WakeInv' /\ DropOnce'
    BY <1>1, <1>4 DEF TailInv, WakeInv, DropOnce
  <2>6. NoLostWakeup'
    BY <1>1, <2>2 DEF NoLostWakeup, LocalSize, RingSize, Head0
  <2>7. Apart'
    BY <1>1, <2>3, ApartKept
  <2>8. IsFiniteSet(Pending') /\ RefBalance'
    <3>1. \A t \in SK : sk'[t].refs - Own(t)' = sk[t].refs - Own(t) /\ sk'[t].refs \in Int
      BY <1>4 DEF Own, SyTypeOK, SkState
    <3> QED BY <1>1, <2>3, <3>1, BalanceKept
  <2> QED BY <2>4, <2>5, <2>6, <2>7, <2>8
<1> QED BY <1>3, <1>4 DEF PushFull

LEMMA Backlogs ==
    ASSUME SyInv, NEW c \in CPU, ss_turnstile_push(c)
    PROVE  SyInv'
<1> USE DEF SyInv
<1>1. /\ call[c].pc = "backlog"
      /\ UNCHANGED <<ring, tail, lastHead, guard, ipi, irqWork, softirq, tx, nwork>>
  BY DEF ss_turnstile_push, wqVars, irqVars
<1>2. CASE /\ call' = [call EXCEPT ![c] = Idle]
           /\ sk' = [sk EXCEPT ![call[c].work.sk].refs = @ - 1]
           /\ UNCHANGED blVars
  <2>1. guard' \in [CPU -> Nat] /\ UNCHANGED backlog
    BY <1>1, <1>2 DEF SyTypeOK, blVars
  <2> QED BY <1>1, <1>2, <2>1, CallGivesUp
<1>3. CASE /\ backlog' = Append(backlog, [ticket |-> call[c].ticket, work |-> call[c].work])
           /\ call' = [call EXCEPT ![c] = [pc |-> "notify"]]
           /\ UNCHANGED sk
  <2>1. call[c].work \in Work /\ call[c].ticket \in Nat /\ c \in InCall
    BY <1>1, CallShape
  <2>2. /\ call'[c] = [pc |-> "notify"] /\ call' \in [CPU -> Call]
        /\ \A d \in CPU : d # c => call'[d] = call[d]
    BY <1>3 DEF SyTypeOK, Call
  <2>3. InCall' = InCall \ {c} /\ \A d \in InCall' : call'[d] = call[d]
    BY <2>2 DEF InCall
  <2>4. /\ backlog' \in Seq([ticket : Nat, work : Work]) /\ Len(backlog') = Len(backlog) + 1
        /\ backlog'[Len(backlog) + 1] = [ticket |-> call[c].ticket, work |-> call[c].work]
        /\ \A i \in 1..Len(backlog) : backlog'[i] = backlog[i]
        /\ Len(backlog) \in Nat
    BY <1>3, <2>1, AppendProperties, LenProperties DEF SyTypeOK
  <2>5. Pending' = Pending \cup {call[c].work}
    BY <1>1, <1>3, <2>1, PendingBacklogged
  <2>6. IsFiniteSet(Pending') /\ RefBalance'
    BY <1>3, <2>1, <2>3, <2>5, CallQueued
  <2>7. Apart'
    <3>1. \A i \in 1..Len(backlog') : i \in 1..Len(backlog) \/ i = Len(backlog) + 1
      BY <2>4
    <3>2. backlog'[Len(backlog) + 1].work = call[c].work
      BY <2>4
    <3>3. \A i \in 1..Len(backlog') :
             /\ backlog'[i].work.n < nwork
             /\ \A j \in 1..Len(ring) : ring[j].n # backlog'[i].work.n
             /\ \A d \in InCall' : call'[d].work.n # backlog'[i].work.n
      <4> TAKE i \in 1..Len(backlog')
      <4>1. CASE i \in 1..Len(backlog)
        <5>1. backlog'[i] = backlog[i]
          BY <2>4, <4>1
        <5> QED BY <2>3, <4>1, <5>1 DEF Apart
      <4>2. CASE i = Len(backlog) + 1
        BY <2>1, <2>3, <3>2, <4>2 DEF Apart
      <4> QED BY <3>1, <4>1, <4>2
    <3>4. \A i, j \in 1..Len(backlog') : i # j => backlog'[i].work.n # backlog'[j].work.n
      BY <2>1, <2>4, <3>1, <3>2 DEF Apart
    <3>5. \A d \in InCall' : /\ call'[d].work.n < nwork
                             /\ \A e \in InCall' : d # e => call'[d].work.n # call'[e].work.n
                             /\ \A i \in 1..Len(ring) : call'[d].work.n # ring[i].n
      BY <2>3 DEF Apart
    <3>6. nwork' = nwork /\ ring' = ring
      BY <1>1
    <3> QED BY <3>3, <3>4, <3>5, <3>6 DEF Apart
  <2>8. SyTypeOK'
    BY <1>1, <1>3, <2>2, <2>4 DEF SyTypeOK
  <2>9. TailInv' /\ WakeInv' /\ DropOnce'
    BY <1>1, <1>3 DEF TailInv, WakeInv, DropOnce
  <2>10. NoLostWakeup'
    BY <2>2 DEF NoLostWakeup
  <2> QED BY <2>6, <2>7, <2>8, <2>9, <2>10
<1> QED BY <1>2, <1>3 DEF ss_turnstile_push

(* Steps that touch neither the works nor the sockets.                      *)
LEMMA QuietStep ==
    ASSUME SyInv, UNCHANGED <<ring, tail, guard, backlog, sk, nwork>>,
           InCall' = InCall, \A d \in InCall : call'[d].work = call[d].work,
           call' \in [CPU -> Call], lastHead' \in Nat, lastHead' <= Len(ring),
           ipi' \in BOOLEAN, irqWork' \in BOOLEAN, softirq' \in BOOLEAN,
           tx' = [pc |-> tx'.pc, ticket |-> tx'.ticket, budget |-> tx'.budget],
           WakeInv', NoLostWakeup'
    PROVE  SyInv'
<1> USE DEF SyInv
<1>1. SyTypeOK'
  BY DEF SyTypeOK
<1>2. TailInv' /\ DropOnce'
  BY DEF TailInv, DropOnce
<1>3. Apart'
  BY ApartKept
<1>4. IsFiniteSet(Pending') /\ RefBalance'
  <2>1. \A t \in SK : sk'[t].refs - Own(t)' = sk[t].refs - Own(t) /\ sk'[t].refs \in Int
    BY DEF Own, SyTypeOK, SkState
  <2> QED BY <2>1, BalanceKept
<1> QED BY <1>1, <1>2, <1>3, <1>4

LEMMA Notifies ==
    ASSUME SyInv, NEW c \in CPU, Notify(c)
    PROVE  SyInv'
<1> USE DEF SyInv
<1>1. /\ call[c].pc = "notify" /\ call' = [call EXCEPT ![c] = Idle]
      /\ UNCHANGED <<ring, tail, lastHead, guard, backlog, tx, sk, nwork>>
  BY DEF Notify, wqVars, blVars
<1>2. /\ call'[c] = Idle /\ call' \in [CPU -> Call]
      /\ \A d \in CPU : d # c => call'[d] = call[d]
  BY <1>1 DEF SyTypeOK, Call
<1>3. InCall' = InCall /\ \A d \in InCall : call'[d].work = call[d].work
  BY <1>1, <1>2 DEF InCall, Idle
<1>4. /\ ipi' \in BOOLEAN /\ irqWork' \in BOOLEAN /\ softirq' \in BOOLEAN
      /\ WakeInv' /\ NoLostWakeup'
  BY <1>1 DEF Notify, WakeInv, NoLostWakeup, irqVars, SyTypeOK
<1>5. lastHead' \in Nat /\ lastHead' <= Len(ring)
  BY <1>1 DEF SyTypeOK, TailInv
<1>6. tx' = [pc |-> tx'.pc, ticket |-> tx'.ticket, budget |-> tx'.budget]
  BY <1>1 DEF SyTypeOK
<1> QED BY <1>1, <1>2, <1>3, <1>4, <1>5, <1>6, QuietStep

(* The interrupt, and the steps of ss_tx_action() that pop nothing.         *)
LEMMA ConsumerStep ==
    ASSUME SyInv, ss_ipi \/ ss_tx_action \/ TxLoop \/ TxAfter \/ TxSize
    PROVE  SyInv'
<1> USE DEF SyInv
<1>1. UNCHANGED <<ring, tail, lastHead, guard, backlog, call, sk, nwork>>
  BY DEF ss_ipi, ss_tx_action, TxLoop, TxAfter, TxSize, wqVars, blVars
<1>2. InCall' = InCall /\ \A d \in InCall : call'[d].work = call[d].work
  BY <1>1 DEF InCall
<1>3. call' \in [CPU -> Call] /\ lastHead' \in Nat /\ lastHead' <= Len(ring)
  BY <1>1 DEF SyTypeOK, TailInv
<1>4. LocalSize' = LocalSize
  BY <1>1 DEF LocalSize, RingSize, Head0
<1>5. /\ ipi \in BOOLEAN /\ irqWork \in BOOLEAN /\ softirq \in BOOLEAN
      /\ tx = [pc |-> tx.pc, ticket |-> tx.ticket, budget |-> tx.budget]
      /\ LocalSize \in Int
  BY DEF SyTypeOK, LocalSize, RingSize, Head0
<1> DEFINE Result == /\ ipi' \in BOOLEAN /\ irqWork' \in BOOLEAN /\ softirq' \in BOOLEAN
                     /\ tx' = [pc |-> tx'.pc, ticket |-> tx'.ticket, budget |-> tx'.budget]
                     /\ WakeInv' /\ NoLostWakeup'
<1>6. ASSUME ss_ipi PROVE Result
  BY <1>5, <1>6 DEF ss_ipi, WakeInv, NoLostWakeup
<1>7. ASSUME ss_tx_action PROVE Result
  BY <1>5, <1>7 DEF ss_tx_action, WakeInv, NoLostWakeup
<1>8. ASSUME TxLoop PROVE Result
  BY <1>5, <1>8 DEF TxLoop, WakeInv, NoLostWakeup, irqVars
<1>9. ASSUME TxAfter PROVE Result
  BY <1>5, <1>9 DEF TxAfter, WakeInv, NoLostWakeup
<1>10. ASSUME TxSize PROVE Result
  <2>1. tx.pc = "size" /\ tx' = [tx EXCEPT !.pc = "idle"] /\ irqWork' = irqWork
    BY <1>10 DEF TxSize
  <2>2. tx' = [pc |-> tx'.pc, ticket |-> tx'.ticket, budget |-> tx'.budget] /\ tx'.pc = "idle"
    BY <1>5, <2>1
  <2>3. CASE LocalSize = 0 /\ UNCHANGED <<ipi, softirq>>
    <3>1. WakeInv'
      BY <2>1, <2>2, <2>3 DEF WakeInv
    <3>2. NoLostWakeup'
      BY <1>4, <2>3 DEF NoLostWakeup
    <3> QED BY <1>5, <2>1, <2>2, <2>3, <3>1, <3>2
  <2>4. CASE ipi' = FALSE /\ softirq' = TRUE
    BY <1>5, <2>1, <2>2, <2>4 DEF WakeInv, NoLostWakeup
  <2> QED BY <1>10, <2>3, <2>4 DEF TxSize
<1> QED BY <1>1, <1>2, <1>3, <1>6, <1>7, <1>8, <1>9, <1>10, QuietStep

LEMMA ClosedRecord ==
    ASSUME NEW r \in SkState
    PROVE  /\ Closed(r) \in SkState /\ Closed(r).st = "dead"
           /\ Closed(r).refs = r.refs /\ Closed(r).drops = r.drops + 1
<1>1. Closed(r) \in SkState
  <2> DEFINE d == r.drops + 1
  <2>1. d \in Int /\ Closed(r) = [r EXCEPT !.st = "dead", !.drops = d]
    BY DEF SkState, Closed
  <2> HIDE DEF d
  <2>2. [r EXCEPT !.st = "dead", !.drops = d] \in SkState
    BY <2>1 DEF SkState
  <2> QED BY <2>1, <2>2
<1>2. Closed(r).st = "dead" /\ Closed(r).refs = r.refs
  BY DEF SkState, Closed
<1>3. Closed(r).drops = r.drops + 1
  BY DEF SkState, Closed
<1> QED BY <1>1, <1>2, <1>3

(* What the execution of a work, sock_put() included, does to the sockets.  *)
LEMMA WorkExecuted ==
    ASSUME sk \in [SK -> SkState], DropOnce, NEW w \in Work,
           sk' = [sk EXCEPT ![w.sk] = Executed(w)]
    PROVE  /\ sk' \in [SK -> SkState] /\ DropOnce'
           /\ \A t \in SK : /\ sk'[t].refs = sk[t].refs - (IF t = w.sk THEN 1 ELSE 0)
                            /\ Own(t)' = Own(t)
<1> DEFINE x == sk[w.sk]
<1>1. w.sk \in SK /\ x \in SkState
  BY DEF Work
<1>2. PICK y \in SkState : /\ Executed(w) = y /\ y.refs = x.refs - 1
                           /\ \/ y.st = x.st /\ y.drops = x.drops
                              \/ /\ x.st \notin {"dead", "closed"} /\ y.st = "dead"
                                 /\ y.drops = x.drops + 1
  <2> DEFINE r == [x EXCEPT !.refs = @ - 1]
  <2>1. r \in SkState /\ r.refs = x.refs - 1 /\ r.st = x.st /\ r.drops = x.drops
    BY <1>1 DEF SkState
  <2>2. CASE w.act = "send" \/ x.st \in {"dead", "closed"}
    <3>1. Executed(w) = r
      BY <2>2 DEF Executed
    <3> QED BY <2>1, <3>1
  <2>3. CASE ~ (w.act = "send" \/ x.st \in {"dead", "closed"})
    <3>1. Executed(w) = Closed(r)
      BY <2>3 DEF Executed
    <3> HIDE DEF r
    <3> QED BY <2>1, <2>3, <3>1, ClosedRecord
  <2> QED BY <2>2, <2>3
<1>3. /\ sk' \in [SK -> SkState] /\ sk'[w.sk] = y
      /\ \A t \in SK : t # w.sk => sk'[t] = sk[t]
  BY <1>1, <1>2
<1>4. \A t \in SK : sk'[t].refs = sk[t].refs - (IF t = w.sk THEN 1 ELSE 0)
  BY <1>2, <1>3 DEF SkState
<1>5. \A t \in SK : Own(t)' = Own(t)
  <2> TAKE t \in SK
  <2>1. CASE t = w.sk
    BY <1>2, <1>3, <2>1 DEF Own
  <2>2. CASE t # w.sk
    BY <1>3, <2>2 DEF Own
  <2> QED BY <2>1, <2>2
<1>6. DropOnce'
  <2> SUFFICES ASSUME NEW t \in SK
               PROVE  sk'[t].drops = IF sk'[t].st \in {"dead", "closed"} THEN 1 ELSE 0
    BY DEF DropOnce
  <2>1. CASE t = w.sk
    BY <1>1, <1>2, <1>3, <2>1 DEF DropOnce
  <2>2. CASE t # w.sk
    BY <1>3, <2>2 DEF DropOnce
  <2> QED BY <2>1, <2>2
<1> QED BY <1>3, <1>4, <1>5, <1>6

LEMMA Pops ==
    ASSUME SyInv, NEW b \in {"turn", "after"}, tx.pc # "idle", PopRing(b)
    PROVE  SyInv'
<1> USE DEF SyInv
<1>1. /\ lastHead' = ReachableHead
      /\ UNCHANGED <<ring, guard, backlog, ipi, irqWork, softirq, call, nwork>>
  BY DEF PopRing, blVars, irqVars
<1>2. lastHead' \in Nat /\ lastHead' <= Len(ring)
  BY <1>1, HeadReached
<1>3. tail \in Nat /\ Len(ring) \in Nat /\ tx = [pc |-> tx.pc, ticket |-> tx.ticket, budget |-> tx.budget]
  BY LenProperties DEF SyTypeOK
<1>4. CASE /\ tail >= ReachableHead
           /\ tx' = [tx EXCEPT !.pc = b, !.ticket = tail]
           /\ UNCHANGED <<tail, sk>>
  <2>1. /\ tx' = [pc |-> tx'.pc, ticket |-> tx'.ticket, budget |-> tx'.budget] /\ tx'.pc = b
    BY <1>3, <1>4
  <2>2. WakeInv' /\ NoLostWakeup'
    BY <2>1 DEF WakeInv, NoLostWakeup
  <2>3. InCall' = InCall /\ \A d \in InCall : call'[d].work = call[d].work
    BY <1>1 DEF InCall
  <2>4. call' \in [CPU -> Call] /\ ipi' \in BOOLEAN /\ irqWork' \in BOOLEAN /\ softirq' \in BOOLEAN
    BY <1>1 DEF SyTypeOK
  <2> QED BY <1>1, <1>2, <1>4, <2>1, <2>2, <2>3, <2>4, QuietStep
<1>5. CASE /\ tail < ReachableHead
           /\ tail' = tail + 1
           /\ tx' = [tx EXCEPT !.pc = "loop", !.ticket = tail]
           /\ sk' = [sk EXCEPT ![ring[tail + 1].sk] = Executed(ring[tail + 1])]
  <2>1. tail < Len(ring) /\ tail + 1 \in 1..Len(ring)
    BY <1>1, <1>2, <1>3, <1>5
  <2>2. ring[tail + 1] \in Work /\ sk \in [SK -> SkState]
    BY <2>1, Numbers DEF SyTypeOK
  <2>3. Pending' = Pending \ {ring[tail + 1]} /\ ring[tail + 1] \in Pending
    BY <1>1, <1>5, <2>1, PendingPopped
  <2>4. /\ sk' \in [SK -> SkState] /\ DropOnce'
        /\ \A t \in SK : /\ sk'[t].refs = sk[t].refs - (IF t = ring[tail + 1].sk THEN 1 ELSE 0)
                         /\ Own(t)' = Own(t)
    BY <1>5, <2>2, WorkExecuted
  <2>5. IsFiniteSet(Pending') /\ RefBalance'
    BY <1>1, <2>3, <2>4, WorkDone
  <2>6. tx' = [pc |-> tx'.pc, ticket |-> tx'.ticket, budget |-> tx'.budget] /\ tx'.pc = "loop"
    BY <1>3, <1>5
  <2>7. SyTypeOK'
    BY <1>1, <1>2, <1>3, <1>5, <2>4, <2>6 DEF SyTypeOK
  <2>8. TailInv' /\ WakeInv' /\ NoLostWakeup'
    BY <1>1, <1>2, <1>3, <1>5, <2>1, <2>6 DEF TailInv, WakeInv, NoLostWakeup
  <2>9. Apart'
    <3>1. InCall' \subseteq InCall
      BY <1>1 DEF InCall
    <3> QED BY <1>1, <3>1, ApartKept
  <2> QED BY <2>4, <2>5, <2>7, <2>8, <2>9
<1> QED BY <1>4, <1>5 DEF PopRing

LEMMA Turns ==
    ASSUME SyInv, TxTurn
    PROVE  SyInv'
<1> USE DEF SyInv
<1>1. tx.pc = "turn" /\ UNCHANGED <<ring, tail, lastHead, guard, ipi, irqWork, softirq, call, nwork>>
  BY DEF TxTurn, wqVars, irqVars
<1>2. tx = [pc |-> tx.pc, ticket |-> tx.ticket, budget |-> tx.budget]
  BY DEF SyTypeOK
<1>3. CASE tx' = [tx EXCEPT !.pc = "pop2"] /\ UNCHANGED <<backlog, sk>>
  <2>1. tx' = [pc |-> tx'.pc, ticket |-> tx'.ticket, budget |-> tx'.budget] /\ tx'.pc = "pop2"
    BY <1>2, <1>3
  <2>2. WakeInv' /\ NoLostWakeup'
    BY <2>1 DEF WakeInv, NoLostWakeup
  <2>3. InCall' = InCall /\ \A d \in InCall : call'[d].work = call[d].work
    BY <1>1 DEF InCall
  <2>4. /\ call' \in [CPU -> Call] /\ ipi' \in BOOLEAN /\ irqWork' \in BOOLEAN /\ softirq' \in BOOLEAN
        /\ lastHead' \in Nat /\ lastHead' <= Len(ring)
    BY <1>1 DEF SyTypeOK, TailInv
  <2> QED BY <1>1, <1>3, <2>1, <2>2, <2>3, <2>4, QuietStep
<1>4. CASE /\ backlog # <<>> /\ backlog' = Tail(backlog)
           /\ tx' = [tx EXCEPT !.pc = "loop"]
           /\ sk' = [sk EXCEPT ![backlog[1].work.sk] = Executed(backlog[1].work)]
  <2>1. /\ Len(backlog) \in Nat \ {0} /\ Len(backlog') = Len(backlog) - 1
        /\ backlog' \in Seq([ticket : Nat, work : Work])
        /\ \A i \in 1..Len(backlog') : backlog'[i] = backlog[i + 1]
    BY <1>4, HeadTailProperties, EmptySeq DEF SyTypeOK
  <2>2. 1 \in 1..Len(backlog) /\ backlog[1].work \in Work /\ sk \in [SK -> SkState]
    BY <2>1, Numbers DEF SyTypeOK
  <2>3. Pending' = Pending \ {backlog[1].work} /\ backlog[1].work \in Pending
    BY <1>1, <1>4, PendingTurned
  <2>4. /\ sk' \in [SK -> SkState] /\ DropOnce'
        /\ \A t \in SK : /\ sk'[t].refs = sk[t].refs - (IF t = backlog[1].work.sk THEN 1 ELSE 0)
                         /\ Own(t)' = Own(t)
    BY <1>4, <2>2, WorkExecuted
  <2>5. IsFiniteSet(Pending') /\ RefBalance'
    BY <1>1, <2>3, <2>4, WorkDone
  <2>6. tx' = [pc |-> tx'.pc, ticket |-> tx'.ticket, budget |-> tx'.budget] /\ tx'.pc = "loop"
    BY <1>2, <1>4
  <2>7. SyTypeOK'
    BY <1>1, <2>1, <2>4, <2>6 DEF SyTypeOK
  <2>8. TailInv' /\ WakeInv' /\ NoLostWakeup'
    BY <1>1, <2>6 DEF TailInv, WakeInv, NoLostWakeup
  <2>9. Apart'
    <3>1. InCall' = InCall /\ UNCHANGED <<call, ring, nwork>>
      BY <1>1 DEF InCall
    <3>2. \A i \in 1..Len(backlog') : i + 1 \in 1..Len(backlog) /\ backlog'[i] = backlog[i + 1]
      BY <2>1
    <3>3. \A i, j \in 1..Len(backlog') : i # j => i + 1 # j + 1
      OBVIOUS
    <3> QED BY <3>1, <3>2, <3>3 DEF Apart
  <2> QED BY <2>4, <2>5, <2>7, <2>8, <2>9
<1> QED BY <1>3, <1>4 DEF TxTurn

LEMMA Resets ==
    ASSUME SyInv, NEW s \in SK, PeerReset(s)
    PROVE  SyInv'
<1> USE DEF SyInv
<1>1. /\ sk[s].st \in {"established", "close_wait"}
      /\ sk' = [sk EXCEPT ![s] = Closed(sk[s])] /\ sk \in [SK -> SkState]
      /\ UNCHANGED <<ring, tail, lastHead, guard, backlog, ipi, irqWork, softirq, call, tx, nwork>>
  BY DEF PeerReset, ss_sock_active, SyTypeOK, wqVars, blVars, irqVars
<1>2. PICK y \in SkState : /\ Closed(sk[s]) = y /\ y.st = "dead" /\ y.refs = sk[s].refs
                           /\ y.drops = sk[s].drops + 1
  BY <1>1, ClosedRecord
<1>3. /\ sk' \in [SK -> SkState] /\ sk'[s] = y
      /\ \A t \in SK : t # s => sk'[t] = sk[t]
  BY <1>1, <1>2
<1>4. \A t \in SK : sk'[t].refs - Own(t)' = sk[t].refs - Own(t) /\ sk'[t].refs \in Int
  <2> TAKE t \in SK
  <2>1. CASE t = s
    BY <1>1, <1>2, <1>3, <2>1 DEF Own, SkState
  <2>2. CASE t # s
    BY <1>1, <1>3, <2>2 DEF Own, SkState
  <2> QED BY <2>1, <2>2
<1>5. DropOnce'
  <2> SUFFICES ASSUME NEW t \in SK
               PROVE  sk'[t].drops = IF sk'[t].st \in {"dead", "closed"} THEN 1 ELSE 0
    BY DEF DropOnce
  <2>1. CASE t = s
    BY <1>1, <1>2, <1>3, <2>1 DEF DropOnce
  <2>2. CASE t # s
    BY <1>3, <2>2 DEF DropOnce
  <2> QED BY <2>1, <2>2
<1>6. InCall' = InCall
  BY <1>1 DEF InCall
<1>7. Apart' /\ IsFiniteSet(Pending') /\ RefBalance'
  BY <1>1, <1>4, <1>6, ApartKept, BalanceKept
<1>8. SyTypeOK'
  BY <1>1, <1>3 DEF SyTypeOK
<1>9. TailInv' /\ WakeInv' /\ NoLostWakeup'
  BY <1>1 DEF TailInv, WakeInv, NoLostWakeup, LocalSize, RingSize, Head0
<1> QED BY <1>5, <1>7, <1>8, <1>9

LEMMA Destroys ==
    ASSUME SyInv, NEW s \in SK, KernelDestroy(s)
    PROVE  SyInv'
<1> USE DEF SyInv
<1>1. /\ sk[s].st = "dead"
      /\ sk' = [sk EXCEPT ![s].st = "closed", ![s].refs = @ - 1] /\ sk \in [SK -> SkState]
      /\ UNCHANGED <<ring, tail, lastHead, guard, backlog, ipi, irqWork, softirq, call, tx, nwork>>
  BY DEF KernelDestroy, SyTypeOK, wqVars, blVars, irqVars
<1>2. sk' = [sk EXCEPT ![s].st = "closed", ![s].refs = @ - 1] /\ sk \in [SK -> SkState]
  BY <1>1
<1>3. \A t \in SK : sk'[t] \in SkState
  BY <1>2 DEF SkState
<1>4. /\ sk'[s].st = "closed" /\ sk'[s].refs = sk[s].refs - 1 /\ sk'[s].drops = sk[s].drops
      /\ \A t \in SK : t # s => sk'[t] = sk[t]
  BY <1>2 DEF SkState
<1>5. \A t \in SK : sk'[t].refs - Own(t)' = sk[t].refs - Own(t) /\ sk'[t].refs \in Int
  <2> TAKE t \in SK
  <2>1. CASE t = s
    BY <1>1, <1>3, <1>4, <2>1 DEF Own, SkState
  <2>2. CASE t # s
    BY <1>1, <1>3, <1>4, <2>2 DEF Own, SkState
  <2> QED BY <2>1, <2>2
<1>6. DropOnce'
  <2> SUFFICES ASSUME NEW t \in SK
               PROVE  sk'[t].drops = IF sk'[t].st \in {"dead", "closed"} THEN 1 ELSE 0
    BY DEF DropOnce
  <2>1. CASE t = s
    BY <1>1, <1>4, <2>1 DEF DropOnce
  <2>2. CASE t # s
    BY <1>4, <2>2 DEF DropOnce
  <2> QED BY <2>1, <2>2
<1>7. InCall' = InCall
  BY <1>1 DEF InCall
<1>8. Apart' /\ IsFiniteSet(Pending') /\ RefBalance'
  BY <1>1, <1>5, <1>7, ApartKept, BalanceKept
<1>9. sk' \in [SK -> SkState]
  BY <1>2, <1>3
<1>10. SyTypeOK'
  BY <1>1, <1>9 DEF SyTypeOK
<1>11. TailInv' /\ WakeInv' /\ NoLostWakeup'
  BY <1>1 DEF TailInv, WakeInv, NoLostWakeup, LocalSize, RingSize, Head0
<1> QED BY <1>6, <1>8, <1>10, <1>11

LEMMA Unchanged ==
    ASSUME SyInv, UNCHANGED <<ring, tail, lastHead, guard, backlog, ipi, irqWork, softirq,
                              call, tx, sk, nwork>>
    PROVE  SyInv'
<1>1. InCall' = InCall /\ \A d \in InCall : call'[d].work = call[d].work
  BY DEF InCall
<1>2. /\ call' \in [CPU -> Call] /\ lastHead' \in Nat /\ lastHead' <= Len(ring)
      /\ ipi' \in BOOLEAN /\ irqWork' \in BOOLEAN /\ softirq' \in BOOLEAN
      /\ tx' = [pc |-> tx'.pc, ticket |-> tx'.ticket, budget |-> tx'.budget]
  BY DEF SyInv, SyTypeOK, TailInv
<1>3. WakeInv' /\ NoLostWakeup'
  BY DEF SyInv, WakeInv, NoLostWakeup, LocalSize, RingSize, Head0
<1> QED BY <1>1, <1>2, <1>3, QuietStep

LEMMA SyStep == SyInv /\ [Next]_vars => SyInv'
<1> SUFFICES ASSUME SyInv, [Next]_vars PROVE SyInv'
  OBVIOUS
<1>1. ASSUME NEW c \in CPU, NEW s \in SK, NEW act \in Action, ss_call(c, s, act) PROVE SyInv'
  BY <1>1, CallStarts
<1>2. ASSUME NEW c \in CPU, CallStep(c) PROVE SyInv'
  BY <1>2, Pushes, PushEnds, FullRing, Backlogs, Notifies DEF CallStep
<1>3. CASE ss_ipi \/ ss_tx_action
  BY <1>3, ConsumerStep
<1>4. CASE TxStep
  <2>1. CASE TxPopFirst
    BY <2>1, Pops DEF TxPopFirst
  <2>2. CASE TxPopSecond
    BY <2>2, Pops DEF TxPopSecond
  <2> QED BY <1>4, <2>1, <2>2, ConsumerStep, Turns DEF TxStep
<1>5. CASE ss_stop
  BY <1>5, Unchanged DEF ss_stop, wqVars, blVars, irqVars
<1>6. ASSUME NEW s \in SK, PeerFin(s) \/ PeerReset(s) \/ KernelDestroy(s) PROVE SyInv'
  BY <1>6, FinStarts, Resets, Destroys
<1>7. CASE UNCHANGED vars
  BY <1>7, Unchanged DEF vars
<1> QED BY <1>1, <1>2, <1>3, <1>4, <1>5, <1>6, <1>7 DEF Next

-----------------------------------------------------------------------------

(* For any number of CPUs, sockets and slots of the ring, and whatever the  *)
(* budget of ss_tx_action(): the references on a socket are its queued      *)
(* works, the calls in flight and the kernel's own; queued work is never    *)
(* left without a softirq that runs or is about to; connection_drop is      *)
(* called once for a socket that dies.                                      *)
THEOREM WorksAlwaysKept == Spec => []WorksKept
<1>1. SyInv => WorksKept
  BY DEF SyInv, WorksKept
<1> QED BY <1>1, SyInit, SyStep, PTL DEF Spec

(* The types of the variables, and that the consumer of the ring never      *)
(* passes its producers.                                                    *)
THEOREM WorksTyped == Spec => [](SyTypeOK /\ TailInv)
<1>1. SyInv => SyTypeOK /\ TailInv
  BY DEF SyInv
<1> QED BY <1>1, SyInit, SyStep, PTL DEF Spec
==========================================================================
