-------------------------- MODULE WorkQueue_proofs --------------------------
(***************************************************************************)
(* The ring buffer of fw/work_queue.c is a bounded FIFO for every number   *)
(* of CPUs, every queue size and every try budget.                         *)
(***************************************************************************)
EXTENDS WorkQueue, SequenceTheorems, TLAPS

-----------------------------------------------------------------------------
(* Positions less than QSZ apart use different slots of the array.          *)

LEMMA DivMod ==
    ASSUME NEW a \in Nat
    PROVE  /\ a = QSZ * (a \div QSZ) + (a % QSZ)
           /\ a \div QSZ \in Nat
           /\ a % QSZ \in 0..QSZ - 1
BY QszAssumption

LEMMA MultipleGap ==
    ASSUME NEW x \in Nat, NEW y \in Nat, x < y
    PROVE  QSZ * y >= QSZ * x + QSZ
<1>1. y - x - 1 \in Nat
  OBVIOUS
<1>2. QSZ * (y - x - 1) >= 0
  BY <1>1, QszAssumption
<1> QED BY <1>2, QszAssumption

LEMMA SlotInRange == ASSUME NEW p \in Nat PROVE QMask(p) \in 0..QSZ - 1
BY DivMod DEF QMask

LEMMA SlotsDifferOrdered ==
    ASSUME NEW a \in Nat, NEW b \in Nat, a < b, b < a + QSZ
    PROVE  QMask(a) # QMask(b)
<1> DEFINE x == a \div QSZ
           y == b \div QSZ
<1>1. /\ a = QSZ * x + (a % QSZ) /\ b = QSZ * y + (b % QSZ)
      /\ x \in Nat /\ y \in Nat
      /\ a % QSZ \in 0..QSZ - 1 /\ b % QSZ \in 0..QSZ - 1
  BY DivMod
<1> HIDE DEF x, y
<1>2. QSZ * x \in Int /\ QSZ * y \in Int
  BY <1>1, QszAssumption
<1>3. CASE x < y
  <2>1. QSZ * y >= QSZ * x + QSZ
    BY <1>1, <1>3, MultipleGap
  <2> QED BY <1>1, <1>2, <2>1, QszAssumption DEF QMask
<1>4. CASE x = y
  BY <1>1, <1>2, <1>4, QszAssumption DEF QMask
<1>5. CASE y < x
  <2>1. QSZ * x >= QSZ * y + QSZ
    BY <1>1, <1>5, MultipleGap
  <2> QED BY <1>1, <1>2, <2>1, QszAssumption DEF QMask
<1> QED BY <1>1, <1>3, <1>4, <1>5

LEMMA SlotsDiffer ==
    ASSUME NEW t \in Nat,
           NEW a \in Nat, t <= a, a < t + QSZ,
           NEW b \in Nat, t <= b, b < t + QSZ,
           a # b
    PROVE  QMask(a) # QMask(b)
<1>1. CASE a < b
  BY <1>1, SlotsDifferOrdered, QszAssumption
<1>2. CASE b < a
  BY <1>2, SlotsDifferOrdered, QszAssumption
<1> QED BY <1>1, <1>2

-----------------------------------------------------------------------------
(* Type correctness of the queue's words, the locals and the histories.     *)
LEMMA TypeInductive == TypeOK /\ [Next]_vars => TypeOK'
<1> SUFFICES ASSUME TypeOK, [Next]_vars PROVE TypeOK'
  OBVIOUS
<1> USE QszAssumption, BudgetAssumption, LongMaxAssumption
    DEF TypeOK, PushPc, PopPc, pushVars, popVars, locals, Goto
<1>1. ASSUME NEW c \in CPU, NEW x \in Item, PushStart(c, x) PROVE TypeOK'
  BY <1>1 DEF PushStart
<1>2. ASSUME NEW c \in CPU, PushGuard(c) PROVE TypeOK'
  BY <1>2 DEF PushGuard
<1>3. ASSUME NEW c \in CPU, PushReadHead(c) PROVE TypeOK'
  BY <1>3 DEF PushReadHead
<1>4. ASSUME NEW c \in CPU, PushReadTail(c) PROVE TypeOK'
  <2>1. pc' \in [CPU -> PushPc] /\ budget' \in [CPU -> Int]
    <3>1. CASE lhead[c] # tail + QSZ
      BY <1>4, <3>1 DEF PushReadTail
    <3>2. CASE lhead[c] = tail + QSZ
      <4>1. budget' = [budget EXCEPT ![c] = @ - 1]
        BY <1>4, <3>2 DEF PushReadTail
      <4>2. PICK l \in PushPc : pc' = [pc EXCEPT ![c] = l]
        BY <1>4, <3>2 DEF PushReadTail
      <4>3. pc' \in [CPU -> PushPc]
        BY <4>2
      <4>4. budget' \in [CPU -> Int]
        BY <4>1
      <4> QED BY <4>3, <4>4
    <3> QED BY <3>1, <3>2
  <2> QED BY <1>4, <2>1 DEF PushReadTail
<1>5. ASSUME NEW c \in CPU, PushAcquire(c) PROVE TypeOK'
  <2>1. Append(sent, item[c]) \in Seq(Item)
    OBVIOUS
  <2>2. CASE head = lhead[c]
    <3>1. head' = head + 1 /\ sent' = Append(sent, item[c]) /\ pc' = [pc EXCEPT ![c] = "copy"]
      BY <1>5, <2>2 DEF PushAcquire
    <3>2. pc' \in [CPU -> PushPc]
      BY <3>1
    <3>3. head' \in Nat
      BY <3>1
    <3>4. sent' \in Seq(Item)
      BY <3>1, <2>1
    <3> QED BY <1>5, <3>2, <3>3, <3>4 DEF PushAcquire
  <2>3. CASE head # lhead[c]
    BY <1>5, <2>3 DEF PushAcquire
  <2> QED BY <2>2, <2>3
<1>6. ASSUME NEW c \in CPU, PushCopy(c) PROVE TypeOK'
  BY <1>6, SlotInRange DEF PushCopy
<1>7. ASSUME NEW c \in CPU, PushRelease(c) PROVE TypeOK'
  BY <1>7 DEF PushRelease
<1>8. CASE PopStart
  BY <1>8 DEF PopStart
<1>9. ASSUME NEW c \in CPU, PopScan(c) PROVE TypeOK'
  BY <1>9 DEF PopScan
<1>10. CASE PopScanned
  BY <1>10 DEF PopScanned
<1>11. CASE PopCopy
  BY <1>11, SlotInRange DEF PopCopy
<1>12. CASE PopAdvance
  <2>1. Append(got, pop.item) \in Seq(Item)
    OBVIOUS
  <2> QED BY <1>12, <2>1 DEF PopAdvance
<1>13. CASE UNCHANGED vars
  BY <1>13 DEF vars
<1> QED BY <1>1, <1>2, <1>3, <1>4, <1>5, <1>6, <1>7, <1>8, <1>9, <1>10,
           <1>11, <1>12, <1>13 DEF Next, PushStep, PopStep

LEMMA InitInv == Init => WqInv
<1> SUFFICES ASSUME Init PROVE WqInv
  OBVIOUS
<1> USE QszAssumption, BudgetAssumption, LongMaxAssumption DEF Init
<1>1. TypeOK
  BY DEF TypeOK, PushPc, PopPc
<1>2. RingInv
  BY DEF RingInv
<1>3. PushInv /\ GuardInv
  BY DEF PushInv, OwnInv, GuardInv, Filling
<1> QED BY <1>1, <1>2, <1>3 DEF WqInv

-----------------------------------------------------------------------------
LEMMA RingBounds ==
    ASSUME WqInv
    PROVE  /\ head \in Nat /\ tail \in Nat /\ lastHead \in Nat
           /\ tail <= head /\ head <= tail + QSZ
           /\ Len(sent) = head /\ Len(got) = tail
BY DEF WqInv, TypeOK, RingInv

LEMMA LocalTypes ==
    ASSUME TypeOK, NEW c \in CPU
    PROVE  /\ lhead[c] \in Nat /\ ltail[c] \in Nat /\ heads[c] \in Nat
           /\ item[c] \in Item
BY DEF TypeOK

(* Steps of a push before it acquires a position, and its release, move no  *)
(* position and start no copy.                                              *)
LEMMA QuietPushStep ==
    ASSUME WqInv, TypeOK', NEW c \in CPU,
           pc[c] # "copy", pc'[c] # "copy",
           \A d \in CPU \ {c} : /\ pc'[d] = pc[d] /\ heads'[d] = heads[d]
                                /\ lhead'[d] = lhead[d] /\ ltail'[d] = ltail[d]
                                /\ item'[d] = item[d],
           OwnInv(c)',
           UNCHANGED <<head, array, sent, popVars>>
    PROVE  WqInv'
<1> USE DEF WqInv, popVars
<1>1. RingInv'
  <2>1. ASSUME NEW p \in tail..head - 1
        PROVE  \/ \E d \in CPU : Filling(d)' /\ lhead'[d] = p
               \/ array[QMask(p)] = sent[p + 1]
    <3>1. CASE \E d \in CPU : Filling(d) /\ lhead[d] = p
      <4>1. PICK d \in CPU : Filling(d) /\ lhead[d] = p
        BY <3>1
      <4> QED BY <4>1 DEF Filling
    <3> QED BY <3>1 DEF RingInv
  <2> QED BY <2>1 DEF RingInv
<1>2. \A d \in CPU : OwnInv(d)'
  <2> SUFFICES ASSUME NEW d \in CPU, d # c PROVE OwnInv(d)'
    OBVIOUS
  <2>1. OwnInv(d)
    BY DEF PushInv
  <2> QED BY <2>1 DEF OwnInv, Filling
<1>3. PushInv'
  BY <1>2 DEF PushInv, Filling
<1>4. GuardInv'
  BY DEF GuardInv, Filling
<1> QED BY <1>1, <1>3, <1>4

LEMMA PushStartInv ==
    ASSUME WqInv, TypeOK', NEW c \in CPU, NEW x \in Item, PushStart(c, x)
    PROVE  WqInv'
<1>1. OwnInv(c)'
  BY DEF PushStart, OwnInv, Filling, Goto, WqInv, TypeOK
<1> QED BY <1>1, QuietPushStep DEF PushStart, Goto, WqInv, TypeOK

LEMMA PushGuardInv ==
    ASSUME WqInv, TypeOK', NEW c \in CPU, PushGuard(c)
    PROVE  WqInv'
<1>1. OwnInv(c)
  BY DEF WqInv, PushInv
<1>2. lhead[c] <= tail + QSZ
  BY <1>1, RingBounds, LocalTypes, QszAssumption DEF OwnInv, WqInv
<1>3. OwnInv(c)'
  BY <1>1, <1>2 DEF PushGuard, OwnInv, Filling, Goto, WqInv, TypeOK, locals, popVars
<1> QED BY <1>3, QuietPushStep DEF PushGuard, Goto, WqInv, TypeOK, locals

LEMMA PushReadHeadInv ==
    ASSUME WqInv, TypeOK', NEW c \in CPU, PushReadHead(c)
    PROVE  WqInv'
<1>1. OwnInv(c)
  BY DEF WqInv, PushInv
<1>2. OwnInv(c)'
  BY <1>1, QszAssumption
     DEF PushReadHead, OwnInv, Filling, Goto, WqInv, RingInv, TypeOK, popVars
<1> QED BY <1>2, QuietPushStep DEF PushReadHead, Goto, WqInv, TypeOK

LEMMA PushReadTailInv ==
    ASSUME WqInv, TypeOK', NEW c \in CPU, PushReadTail(c)
    PROVE  WqInv'
<1>1. OwnInv(c)
  BY DEF WqInv, PushInv
<1>2. pc'[c] \in {"cas", "head", "full"} /\ pc[c] = "tail"
  BY DEF PushReadTail, Goto, WqInv, TypeOK
<1>3. /\ pc'[c] = "cas" => lhead[c] # tail + QSZ
      /\ pc'[c] = "full" => lhead[c] = tail + QSZ
      /\ ltail'[c] = tail
  BY DEF PushReadTail, Goto, WqInv, TypeOK
<1>4. OwnInv(c)'
  BY <1>1, <1>2, <1>3, QszAssumption
     DEF PushReadTail, OwnInv, Filling, WqInv, RingInv, TypeOK, popVars
<1> QED BY <1>2, <1>4, QuietPushStep DEF PushReadTail, Goto, WqInv, TypeOK

LEMMA PushReleaseInv ==
    ASSUME WqInv, TypeOK', NEW c \in CPU, PushRelease(c)
    PROVE  WqInv'
<1>1. OwnInv(c)
  BY DEF WqInv, PushInv
<1>2. OwnInv(c)'
  BY <1>1 DEF PushRelease, OwnInv, Filling, Goto, WqInv, TypeOK, locals, popVars
<1> QED BY <1>2, QuietPushStep DEF PushRelease, Goto, WqInv, TypeOK, locals

(* The successful cmpxchg: head was below tail + QSZ when the push read     *)
(* tail and the consumer can only have moved tail up since then.            *)
LEMMA AcquireInv ==
    ASSUME WqInv, TypeOK', NEW c \in CPU, PushAcquire(c), head = lhead[c]
    PROVE  WqInv'
<1>1. /\ head' = head + 1 /\ sent' = Append(sent, item[c])
      /\ pc' = [pc EXCEPT ![c] = "copy"] /\ pc[c] = "cas"
      /\ UNCHANGED <<heads, lhead, ltail, item, array, tail, lastHead, cpc, scan, pop, got>>
  BY DEF PushAcquire, Goto, locals, popVars
<1>2. OwnInv(c) /\ lhead[c] \in Nat /\ ltail[c] \in Nat
  BY LocalTypes DEF WqInv, PushInv
<1>3. head < tail + QSZ
  BY <1>1, <1>2, RingBounds, QszAssumption DEF OwnInv
<1>4. /\ pc'[c] = "copy"
      /\ \A d \in CPU \ {c} : pc'[d] = pc[d]
  BY <1>1 DEF WqInv, TypeOK
<1>5. sent \in Seq(Item) /\ Len(sent) = head /\ item[c] \in Item
  BY RingBounds, LocalTypes DEF WqInv, TypeOK
<1>6. /\ Len(sent') = head + 1
      /\ sent'[head + 1] = item[c]
      /\ \A p \in 0..head - 1 : sent'[p + 1] = sent[p + 1]
  BY <1>1, <1>5, RingBounds
<1>7. RingInv'
  <2>1. ASSUME NEW p \in tail..head
        PROVE  \/ \E d \in CPU : Filling(d)' /\ lhead[d] = p
               \/ array[QMask(p)] = sent'[p + 1]
    <3>1. CASE p = head
      BY <1>4, <3>1 DEF Filling
    <3>2. CASE p \in tail..head - 1 /\ \E d \in CPU : Filling(d) /\ lhead[d] = p
      <4>1. PICK d \in CPU : Filling(d) /\ lhead[d] = p
        BY <3>2
      <4> QED BY <1>1, <1>4, <4>1 DEF Filling
    <3>3. CASE p \in tail..head - 1 /\ array[QMask(p)] = sent[p + 1]
      BY <1>6, <3>3, RingBounds
    <3> QED BY <3>1, <3>2, <3>3, RingBounds DEF WqInv, RingInv
  <2>2. cpc = "advance" => pop.item = sent'[tail + 1]
    <3>1. cpc = "advance" => tail \in 0..head - 1 /\ pop.item = sent[tail + 1]
      BY RingBounds DEF WqInv, RingInv, GuardInv
    <3> QED BY <1>6, <3>1
  <2>3. tail..head' - 1 = tail..head
    BY <1>1, RingBounds
  <2>4. tail <= head' /\ head' <= tail + QSZ /\ Len(sent') = head'
    BY <1>1, <1>3, <1>6, RingBounds, QszAssumption
  <2>5. \A p \in (tail..head - 1)' :
          \/ \E d \in CPU : Filling(d)' /\ lhead'[d] = p
          \/ array'[QMask(p)] = sent'[p + 1]
    BY <1>1, <2>1, <2>3
  <2> QED BY <1>1, <2>2, <2>4, <2>5, RingBounds DEF RingInv, QMask
<1>8. ASSUME NEW d \in CPU PROVE OwnInv(d)'
  <2>1. CASE d = c
    BY <1>1, <1>2, <1>4, <1>6, <2>1, RingBounds DEF OwnInv, Filling
  <2>2. CASE d # c
    <3>1. OwnInv(d) /\ lhead[d] \in Nat
      BY LocalTypes DEF WqInv, PushInv
    <3>2. pc'[d] = pc[d]
      BY <1>4, <2>2
    <3>3. Filling(d) => sent'[lhead[d] + 1] = sent[lhead[d] + 1]
      BY <1>6, <3>1, RingBounds DEF OwnInv
    <3>4. lhead[d] <= head + 1
      BY <3>1, RingBounds DEF OwnInv
    <3>5. Filling(d) => lhead[d] < head + 1
      BY <3>1, RingBounds DEF OwnInv
    <3> QED BY <1>1, <3>1, <3>2, <3>3, <3>4, <3>5 DEF OwnInv, Filling
  <2> QED BY <2>1, <2>2
<1>9. PushInv'
  <2>1. ASSUME NEW d \in CPU, d # c, Filling(d)' PROVE lhead[d] # lhead[c]
    <3>1. OwnInv(d) /\ Filling(d)
      BY <1>4, <2>1 DEF WqInv, PushInv, Filling
    <3> QED BY <3>1, RingBounds, LocalTypes DEF OwnInv, WqInv
  <2>2. ASSUME NEW d \in CPU, NEW e \in CPU, Filling(d)', Filling(e)', d # e
        PROVE  lhead'[d] # lhead'[e]
    <3>1. CASE d = c \/ e = c
      BY <1>1, <2>1, <2>2, <3>1
    <3>2. CASE d # c /\ e # c
      <4>1. Filling(d) /\ Filling(e)
        BY <1>4, <2>2, <3>2 DEF Filling
      <4> QED BY <1>1, <2>2, <4>1 DEF WqInv, PushInv
    <3> QED BY <3>1, <3>2
  <2> QED BY <1>8, <2>2 DEF PushInv
<1>10. GuardInv'
  <2>1. lastHead <= head
    BY DEF WqInv, GuardInv
  <2>2. ASSUME NEW d \in CPU, Filling(d)'
        PROVE  lastHead <= lhead[d] \/ (cpc = "scan" /\ d \in scan)
    <3>1. CASE d = c
      BY <2>1, <3>1
    <3>2. CASE d # c
      BY <1>4, <2>2, <3>2 DEF WqInv, GuardInv, Filling
    <3> QED BY <3>1, <3>2
  <2>3. lastHead' <= head'
    BY <1>1, <2>1, RingBounds
  <2> QED BY <1>1, <2>2, <2>3 DEF WqInv, GuardInv
<1> QED BY <1>7, <1>9, <1>10 DEF WqInv

LEMMA PushAcquireInv ==
    ASSUME WqInv, TypeOK', NEW c \in CPU, PushAcquire(c)
    PROVE  WqInv'
<1>1. CASE head = lhead[c]
  BY <1>1, AcquireInv
<1>2. CASE head # lhead[c]
  <2>1. OwnInv(c)
    BY DEF WqInv, PushInv
  <2>2. OwnInv(c)'
    BY <1>2, <2>1 DEF PushAcquire, OwnInv, Filling, Goto, WqInv, TypeOK, locals, popVars
  <2> QED BY <1>2, <2>2, QuietPushStep DEF PushAcquire, Goto, WqInv, TypeOK, locals
<1> QED BY <1>1, <1>2

(* The copy fills its own slot and, by SlotsDiffer, no other pending one.   *)
LEMMA PushCopyInv ==
    ASSUME WqInv, TypeOK', NEW c \in CPU, PushCopy(c)
    PROVE  WqInv'
<1>1. /\ array' = [array EXCEPT ![QMask(lhead[c])] = item[c]]
      /\ pc' = [pc EXCEPT ![c] = "release"] /\ pc[c] = "copy"
      /\ UNCHANGED <<head, heads, lhead, ltail, item, sent, tail, lastHead, cpc, scan, pop, got>>
  BY DEF PushCopy, Goto, locals, popVars
<1>2. /\ tail <= lhead[c] /\ lhead[c] < head /\ item[c] = sent[lhead[c] + 1]
      /\ lhead[c] \in Nat
  BY <1>1, LocalTypes DEF WqInv, PushInv, OwnInv, Filling
<1>3. pc'[c] = "release" /\ \A d \in CPU \ {c} : pc'[d] = pc[d]
  BY <1>1 DEF WqInv, TypeOK
<1>4. ASSUME NEW d \in CPU, Filling(d)' PROVE d # c /\ Filling(d)
  BY <1>3, <1>4 DEF Filling
<1>5. /\ array'[QMask(lhead[c])] = item[c]
      /\ \A s \in 0..QSZ - 1 : s # QMask(lhead[c]) => array'[s] = array[s]
  BY <1>1, <1>2, SlotInRange DEF WqInv, TypeOK
<1>6. RingInv'
  <2>1. ASSUME NEW p \in tail..head - 1
        PROVE  \/ \E d \in CPU : Filling(d)' /\ lhead[d] = p
               \/ array'[QMask(p)] = sent[p + 1]
    <3>1. CASE p = lhead[c]
      BY <1>2, <1>5, <3>1
    <3>2. CASE p # lhead[c] /\ \E d \in CPU : Filling(d) /\ lhead[d] = p
      <4>1. PICK d \in CPU : Filling(d) /\ lhead[d] = p
        BY <3>2
      <4> QED BY <1>3, <3>2, <4>1 DEF Filling
    <3>3. CASE p # lhead[c] /\ array[QMask(p)] = sent[p + 1]
      <4>1. p \in Nat /\ p < tail + QSZ /\ lhead[c] < tail + QSZ /\ tail <= p
        BY <1>2, RingBounds, QszAssumption
      <4>2. QMask(p) # QMask(lhead[c])
        BY <1>2, <3>3, <4>1, SlotsDiffer, RingBounds
      <4> QED BY <1>5, <3>3, <4>1, <4>2, SlotInRange
    <3> QED BY <3>1, <3>2, <3>3 DEF WqInv, RingInv
  <2> QED BY <1>1, <2>1 DEF WqInv, RingInv
<1>7. ASSUME NEW d \in CPU PROVE OwnInv(d)'
  <2>1. OwnInv(d)
    BY DEF WqInv, PushInv
  <2>2. pc'[d] = pc[d] \/ (pc[d] = "copy" /\ pc'[d] = "release")
    BY <1>1, <1>3
  <2> QED BY <1>1, <2>1, <2>2 DEF OwnInv, Filling
<1>8. PushInv'
  BY <1>1, <1>4, <1>7 DEF WqInv, PushInv
<1>9. GuardInv'
  BY <1>1, <1>4 DEF WqInv, GuardInv
<1> QED BY <1>6, <1>8, <1>9 DEF WqInv

-----------------------------------------------------------------------------
LEMMA PopStartInv == ASSUME WqInv, TypeOK', PopStart PROVE WqInv'
<1>1. UNCHANGED <<head, heads, pc, lhead, ltail, item, sent, array, tail, got>>
  BY DEF PopStart, pushVars
<1>2. RingInv'
  BY <1>1 DEF PopStart, WqInv, RingInv, Filling
<1>3. PushInv'
  BY <1>1 DEF WqInv, PushInv, OwnInv, Filling
<1>4. GuardInv'
  <2>1. CASE tail < lastHead
    <3>1. cpc = "idle" /\ cpc' = "copy" /\ UNCHANGED <<lastHead, scan>>
      BY <2>1, RingBounds DEF PopStart
    <3> QED BY <1>1, <2>1, <3>1 DEF WqInv, GuardInv, Filling
  <2>2. CASE tail >= lastHead
    BY <1>1, <2>2, RingBounds DEF PopStart, WqInv, GuardInv, Filling
  <2> QED BY <2>1, <2>2, RingBounds
<1> QED BY <1>2, <1>3, <1>4 DEF WqInv

(* Reading a guard: that of a push still filling its slot is at or below    *)
(* the slot's position, so last_head drops to it.                           *)
LEMMA PopScanInv ==
    ASSUME WqInv, TypeOK', NEW c \in CPU, PopScan(c)
    PROVE  WqInv'
<1>1. /\ UNCHANGED <<head, heads, pc, lhead, ltail, item, sent, array, tail, got, cpc, pop>>
      /\ cpc = "scan" /\ scan' = scan \ {c}
      /\ lastHead' = IF heads[c] < lastHead THEN heads[c] ELSE lastHead
  BY DEF PopScan, pushVars
<1>2. RingInv'
  BY <1>1 DEF WqInv, RingInv, Filling
<1>3. PushInv'
  BY <1>1 DEF WqInv, PushInv, OwnInv, Filling
<1>4. heads[c] \in Nat /\ lhead[c] \in Nat
  BY LocalTypes DEF WqInv
<1>5. lastHead' <= lastHead /\ lastHead' <= heads[c] /\ lastHead' \in Nat
  BY <1>1, <1>4, RingBounds
<1>6. ASSUME NEW d \in CPU, Filling(d)
      PROVE  lastHead' <= lhead[d] \/ d \in scan'
  <2>1. lhead[d] \in Nat
    BY LocalTypes DEF WqInv
  <2>2. CASE d = c
    <3>1. heads[c] <= lhead[c]
      BY <1>6, <2>2 DEF WqInv, PushInv, OwnInv, Filling
    <3> QED BY <1>4, <1>5, <2>2, <3>1
  <2>3. CASE d # c
    <3>1. lastHead <= lhead[d] \/ d \in scan
      BY <1>6 DEF WqInv, GuardInv
    <3> QED BY <1>1, <1>5, <2>1, <2>3, <3>1, RingBounds
  <2> QED BY <2>2, <2>3
<1>7. lastHead' <= head
  BY <1>5, RingBounds DEF WqInv, GuardInv
<1>8. GuardInv'
  BY <1>1, <1>6, <1>7 DEF GuardInv, Filling
<1> QED BY <1>2, <1>3, <1>8 DEF WqInv

LEMMA PopScannedInv == ASSUME WqInv, TypeOK', PopScanned PROVE WqInv'
<1>1. /\ UNCHANGED <<head, heads, pc, lhead, ltail, item, sent, array, tail, got, lastHead, scan>>
      /\ scan = {} /\ cpc' \in {"copy", "idle"}
      /\ cpc' = "copy" => tail < lastHead
  BY DEF PopScanned, pushVars
<1>2. RingInv'
  BY <1>1 DEF WqInv, RingInv, Filling
<1>3. PushInv'
  BY <1>1 DEF WqInv, PushInv, OwnInv, Filling
<1>4. GuardInv'
  BY <1>1 DEF WqInv, GuardInv, Filling
<1> QED BY <1>2, <1>3, <1>4 DEF WqInv

(* The consumer copies a finished slot: no push fills the tail position.    *)
LEMMA PopCopyInv == ASSUME WqInv, TypeOK', PopCopy PROVE WqInv'
<1>1. /\ UNCHANGED <<head, heads, pc, lhead, ltail, item, sent, array, tail, got, lastHead, scan>>
      /\ cpc = "copy" /\ cpc' = "advance"
      /\ pop' = [pop EXCEPT !.item = array[QMask(tail)]]
  BY DEF PopCopy, pushVars
<1>2. tail < lastHead /\ lastHead <= head
  BY <1>1 DEF WqInv, GuardInv
<1>3. tail \in tail..head - 1
  BY <1>2, RingBounds
<1>4. ~ \E c \in CPU : Filling(c) /\ lhead[c] = tail
  BY <1>1, <1>2, RingBounds DEF WqInv, GuardInv
<1>5. array[QMask(tail)] = sent[tail + 1]
  BY <1>3, <1>4 DEF WqInv, RingInv
<1>6. pop'.item = sent[tail + 1]
  BY <1>1, <1>5 DEF WqInv, TypeOK
<1>7. RingInv'
  BY <1>1, <1>6 DEF WqInv, RingInv, Filling
<1>8. PushInv'
  BY <1>1 DEF WqInv, PushInv, OwnInv, Filling
<1>9. GuardInv'
  BY <1>1, <1>2 DEF WqInv, GuardInv, Filling
<1> QED BY <1>7, <1>8, <1>9 DEF WqInv

LEMMA PopAdvanceInv == ASSUME WqInv, TypeOK', PopAdvance PROVE WqInv'
<1>1. /\ UNCHANGED <<head, heads, pc, lhead, ltail, item, sent, array, lastHead, scan>>
      /\ cpc = "advance" /\ cpc' = "idle" /\ tail' = tail + 1
      /\ got' = Append(got, pop.item)
  BY DEF PopAdvance, pushVars
<1>2. tail < lastHead /\ lastHead <= head
  BY <1>1 DEF WqInv, GuardInv
<1>3. RingInv'
  <2>1. Len(got') = tail + 1
    BY <1>1, RingBounds DEF WqInv, TypeOK
  <2>2. tail' <= head /\ head <= tail' + QSZ
    BY <1>1, <1>2, RingBounds, QszAssumption
  <2>3. \A p \in tail'..head - 1 : p \in tail..head - 1
    BY <1>1, RingBounds
  <2> QED BY <1>1, <2>1, <2>2, <2>3, RingBounds DEF WqInv, RingInv, Filling
<1>4. ASSUME NEW c \in CPU PROVE OwnInv(c)'
  <2>1. OwnInv(c) /\ lhead[c] \in Nat /\ ltail[c] \in Nat
    BY LocalTypes DEF WqInv, PushInv
  <2>2. Filling(c) => tail + 1 <= lhead[c]
    BY <1>1, <1>2, <2>1, RingBounds DEF WqInv, GuardInv
  <2>3. /\ lhead[c] <= tail + QSZ => lhead[c] <= tail' + QSZ
        /\ ltail[c] <= tail => ltail[c] <= tail'
    BY <1>1, <2>1, RingBounds, QszAssumption
  <2> QED BY <1>1, <2>1, <2>2, <2>3 DEF OwnInv, Filling
<1>5. PushInv'
  BY <1>1, <1>4 DEF WqInv, PushInv, Filling
<1>6. GuardInv'
  BY <1>1 DEF WqInv, GuardInv, Filling
<1> QED BY <1>3, <1>5, <1>6 DEF WqInv

-----------------------------------------------------------------------------
LEMMA StepInv == WqInv /\ [Next]_vars => WqInv'
<1> SUFFICES ASSUME WqInv, [Next]_vars PROVE WqInv'
  OBVIOUS
<1>1. TypeOK'
  BY TypeInductive DEF WqInv
<1>2. ASSUME NEW c \in CPU, NEW x \in Item, PushStart(c, x) PROVE WqInv'
  BY <1>1, <1>2, PushStartInv
<1>3. ASSUME NEW c \in CPU, PushStep(c) PROVE WqInv'
  BY <1>1, <1>3, PushGuardInv, PushReadHeadInv, PushReadTailInv, PushAcquireInv,
     PushCopyInv, PushReleaseInv DEF PushStep
<1>4. CASE PopStart
  BY <1>1, <1>4, PopStartInv
<1>5. CASE PopStep
  BY <1>1, <1>5, PopScanInv, PopScannedInv, PopCopyInv, PopAdvanceInv DEF PopStep
<1>6. CASE UNCHANGED vars
  BY <1>1, <1>6 DEF vars, locals, WqInv, TypeOK, RingInv, PushInv, OwnInv, GuardInv, Filling
<1> QED BY <1>2, <1>3, <1>4, <1>5, <1>6 DEF Next

(* Every reachable state of the ring satisfies the inductive invariant.     *)
THEOREM WqInvariance == Spec => []WqInv
BY InitInv, StepInv, PTL DEF Spec

(* The words of the queue, the locals of a push and the histories keep      *)
(* their types.                                                             *)
THEOREM TypeCorrect == Spec => []TypeOK
BY WqInvariance, PTL DEF WqInv

(* No memcpy of a push overlaps another push's or the consumer's, with no   *)
(* lock taken, for every number of CPUs and every queue size.               *)
THEOREM SlotExclusion == Spec => []SlotsExclusive
<1>1. WqInv => SlotsExclusive
  <2> SUFFICES ASSUME WqInv, NEW c \in CPU, pc[c] = "copy"
               PROVE  /\ cpc = "copy" => QMask(lhead[c]) # QMask(tail)
                      /\ \A d \in CPU \ {c} :
                            pc[d] = "copy" => QMask(lhead[c]) # QMask(lhead[d])
    BY DEF SlotsExclusive
  <2>1. ASSUME NEW d \in CPU, pc[d] = "copy"
        PROVE  lhead[d] \in Nat /\ tail <= lhead[d] /\ lhead[d] < tail + QSZ
    BY <2>1, RingBounds, LocalTypes, QszAssumption DEF WqInv, PushInv, OwnInv, Filling
  <2>2. ASSUME cpc = "copy" PROVE QMask(lhead[c]) # QMask(tail)
    <3>1. lhead[c] # tail
      BY <2>1, <2>2, RingBounds DEF WqInv, GuardInv, Filling
    <3>2. tail < tail + QSZ
      BY RingBounds, QszAssumption
    <3> QED BY <2>1, <3>1, <3>2, SlotsDiffer, RingBounds
  <2>3. ASSUME NEW d \in CPU \ {c}, pc[d] = "copy"
        PROVE  QMask(lhead[c]) # QMask(lhead[d])
    <3>1. lhead[c] # lhead[d]
      BY <2>3 DEF WqInv, PushInv, Filling
    <3> QED BY <2>1, <2>3, <3>1, SlotsDiffer, RingBounds
  <2> QED BY <2>2, <2>3
<1> QED BY <1>1, WqInvariance, PTL

(* A refused push returns a ticket greater than 0, as its comment promises. *)
THEOREM TicketIsPositive == Spec => []TicketPositive
<1>1. WqInv => TicketPositive
  BY DEF WqInv, PushInv, OwnInv, TicketPositive
<1> QED BY <1>1, WqInvariance, PTL

-----------------------------------------------------------------------------
(* The part of a sequence after its first t elements, when an element is    *)
(* appended and when t moves past its head.                                 *)

LEMMA SuffixAppend ==
    ASSUME NEW s \in Seq(Item), NEW x \in Item, NEW t \in 0..Len(s)
    PROVE  SubSeq(Append(s, x), t + 1, Len(s) + 1) = Append(SubSeq(s, t + 1, Len(s)), x)
<1> DEFINE a == Append(s, x)
           u == SubSeq(a, t + 1, Len(s) + 1)
           w == SubSeq(s, t + 1, Len(s))
<1>1. /\ a \in Seq(Item) /\ Len(a) = Len(s) + 1
      /\ \A i \in 1..Len(s) : a[i] = s[i]
      /\ a[Len(s) + 1] = x
  BY AppendProperties
<1>2. Len(s) \in Nat
  OBVIOUS
<1> HIDE DEF a
<1>3. /\ u \in Seq(Item) /\ Len(u) = Len(s) + 1 - t
      /\ \A i \in 1..Len(s) + 1 - t : u[i] = a[t + i]
  <2>1. \A i \in t + 1..Len(s) + 1 : a[i] \in Item
    BY <1>1, <1>2
  <2>2. /\ SubSeq(a, t + 1, Len(s) + 1) \in Seq(Item)
        /\ Len(SubSeq(a, t + 1, Len(s) + 1)) =
              IF t + 1 <= Len(s) + 1 THEN Len(s) + 1 - (t + 1) + 1 ELSE 0
        /\ \A i \in 1..Len(s) + 1 - (t + 1) + 1 :
              SubSeq(a, t + 1, Len(s) + 1)[i] = a[t + 1 + i - 1]
    BY <1>2, <2>1, SubSeqProperties
  <2> QED BY <1>2, <2>2
<1>4. /\ w \in Seq(Item) /\ Len(w) = Len(s) - t
      /\ \A i \in 1..Len(s) - t : w[i] = s[t + i]
  <2>1. \A i \in t + 1..Len(s) : s[i] \in Item
    BY <1>2
  <2> QED BY <1>2, <2>1, SubSeqProperties
<1> HIDE DEF u, w
<1>5. /\ Append(w, x) \in Seq(Item) /\ Len(Append(w, x)) = Len(w) + 1
      /\ \A i \in 1..Len(w) : Append(w, x)[i] = w[i]
      /\ Append(w, x)[Len(w) + 1] = x
  BY <1>4, AppendProperties
<1>6. ASSUME NEW i \in 1..Len(u) PROVE u[i] = Append(w, x)[i]
  <2>1. CASE i = Len(s) + 1 - t
    BY <1>1, <1>2, <1>3, <1>4, <1>5, <2>1
  <2>2. CASE i \in 1..Len(s) - t
    BY <1>1, <1>2, <1>3, <1>4, <1>5, <2>2
  <2>3. i \in Int /\ 1 <= i /\ i <= Len(s) + 1 - t
    BY <1>2, <1>3
  <2>4. i = Len(s) + 1 - t \/ i \in 1..Len(s) - t
    BY <1>2, <2>3
  <2> QED BY <2>1, <2>2, <2>4
<1>7. u = Append(w, x)
  BY <1>2, <1>3, <1>4, <1>5, <1>6, SeqEqual
<1> QED BY <1>7 DEF u, w, a

LEMMA SuffixAdvance ==
    ASSUME NEW s \in Seq(Item), NEW t \in 0..Len(s) - 1
    PROVE  /\ SubSeq(s, t + 1, Len(s)) # <<>>
           /\ Head(SubSeq(s, t + 1, Len(s))) = s[t + 1]
           /\ Tail(SubSeq(s, t + 1, Len(s))) = SubSeq(s, t + 2, Len(s))
<1> DEFINE u == SubSeq(s, t + 1, Len(s))
           w == SubSeq(s, t + 2, Len(s))
<1>1. Len(s) \in Nat /\ \A i \in 1..Len(s) : s[i] \in Item
  OBVIOUS
<1>2. /\ u \in Seq(Item) /\ Len(u) = Len(s) - t
      /\ \A i \in 1..Len(s) - t : u[i] = s[t + i]
  <2>1. \A i \in t + 1..Len(s) : s[i] \in Item
    BY <1>1
  <2> QED BY <1>1, <2>1, SubSeqProperties
<1>3. /\ w \in Seq(Item) /\ Len(w) = Len(s) - t - 1
      /\ \A i \in 1..Len(s) - t - 1 : w[i] = s[t + 1 + i]
  <2>1. \A i \in t + 2..Len(s) : s[i] \in Item
    BY <1>1
  <2> QED BY <1>1, <2>1, SubSeqProperties
<1> HIDE DEF u, w
<1>4. u # <<>> /\ Head(u) = s[t + 1]
  BY <1>1, <1>2
<1>5. /\ Tail(u) \in Seq(Item) /\ Len(Tail(u)) = Len(u) - 1
      /\ \A i \in 1..Len(Tail(u)) : Tail(u)[i] = u[i + 1]
  BY <1>2, <1>4, HeadTailProperties
<1>6. \A i \in 1..Len(Tail(u)) : Tail(u)[i] = w[i]
  BY <1>1, <1>2, <1>3, <1>5
<1>7. Tail(u) = w
  BY <1>1, <1>2, <1>3, <1>5, <1>6, SeqEqual
<1> QED BY <1>4, <1>7 DEF u, w

(* The lock-free ring implements the bounded FIFO: the cmpxchg that moves   *)
(* q->head accepts an item, the write that moves q->tail delivers the       *)
(* oldest accepted one, and every other step is invisible.                  *)
THEOREM FifoRefinement == Spec => IsFifo
<1>1. Init => Fifo!Init
  <2> SUFFICES ASSUME Init PROVE SubSeq(sent, tail + 1, head) = <<>> /\ got = <<>>
    BY DEF Fifo!Init
  <2>1. SubSeq(<<>>, 1, 0) = <<>>
    BY SubSeqEmpty
  <2> QED BY <2>1 DEF Init
<1>2. WqInv /\ [Next]_vars => [Fifo!Next]_<<SubSeq(sent, tail + 1, head), got>>
  <2> SUFFICES ASSUME WqInv, [Next]_vars
               PROVE  [Fifo!Next]_<<SubSeq(sent, tail + 1, head), got>>
    OBVIOUS
  <2>1. sent \in Seq(Item) /\ got \in Seq(Item) /\ Len(sent) = head
    BY RingBounds DEF WqInv, TypeOK
  <2>2. CASE UNCHANGED <<sent, head, tail, got>>
    BY <2>2
  <2>3. ASSUME NEW c \in CPU, PushAcquire(c), head = lhead[c]
        PROVE  Fifo!Next
    <3>1. /\ pc[c] = "cas" /\ head' = head + 1 /\ sent' = Append(sent, item[c])
          /\ UNCHANGED <<tail, got>>
      BY <2>3 DEF PushAcquire, popVars
    <3>2. item[c] \in Item /\ lhead[c] \in Nat /\ ltail[c] \in Nat
      BY LocalTypes DEF WqInv
    <3>3. tail \in 0..Len(sent) /\ head < tail + QSZ
      BY <2>1, <2>3, <3>1, <3>2, RingBounds, QszAssumption DEF WqInv, PushInv, OwnInv
    <3>4. SubSeq(sent, tail + 1, head)' = Append(SubSeq(sent, tail + 1, head), item[c])
      BY <2>1, <3>1, <3>2, <3>3, SuffixAppend
    <3>5. Len(SubSeq(sent, tail + 1, head)) < QSZ
      <4>1. \A i \in tail + 1..head : sent[i] \in Item
        BY <2>1, <3>3
      <4>2. Len(SubSeq(sent, tail + 1, head)) = IF tail + 1 <= head THEN head - tail ELSE 0
        BY <4>1, SubSeqProperties, RingBounds
      <4> QED BY <3>3, <4>2, RingBounds, QszAssumption
    <3> QED BY <3>1, <3>2, <3>4, <3>5 DEF Fifo!Next, Fifo!Accept
  <2>4. ASSUME PopAdvance PROVE Fifo!Next
    <3>1. /\ cpc = "advance" /\ tail' = tail + 1 /\ got' = Append(got, pop.item)
          /\ UNCHANGED <<head, sent>>
      BY <2>4 DEF PopAdvance, pushVars
    <3>2. tail \in 0..Len(sent) - 1 /\ pop.item = sent[tail + 1]
      BY <2>1, <3>1, RingBounds DEF WqInv, GuardInv, RingInv
    <3>3. SubSeq(sent, tail + 1, head)' = SubSeq(sent, tail + 2, head)
      <4>1. tail' + 1 = tail + 2
        BY <3>1, RingBounds
      <4> QED BY <3>1, <4>1
    <3> QED BY <2>1, <3>1, <3>2, <3>3, SuffixAdvance DEF Fifo!Next, Fifo!Deliver
  <2>5. ASSUME NEW c \in CPU, PushStep(c), ~(PushAcquire(c) /\ head = lhead[c])
        PROVE  UNCHANGED <<sent, head, tail, got>>
    BY <2>5 DEF PushStep, PushGuard, PushReadHead, PushReadTail, PushAcquire,
                PushCopy, PushRelease, popVars
  <2>6. ASSUME NEW c \in CPU, NEW x \in Item, PushStart(c, x)
        PROVE  UNCHANGED <<sent, head, tail, got>>
    BY <2>6 DEF PushStart, popVars
  <2>7. ASSUME PopStart \/ PopStep, ~PopAdvance
        PROVE  UNCHANGED <<sent, head, tail, got>>
    BY <2>7 DEF PopStart, PopStep, PopScan, PopScanned, PopCopy, pushVars
  <2>8. CASE UNCHANGED vars
    BY <2>2, <2>8 DEF vars
  <2> QED BY <2>2, <2>3, <2>4, <2>5, <2>6, <2>7, <2>8 DEF Next
<1> QED BY <1>1, <1>2, WqInvariance, PTL DEF Spec, IsFifo, Fifo!Spec
=============================================================================
