------------------------------ MODULE WorkQueue ------------------------------
(***************************************************************************)
(* The lock-free multi-producer, single-consumer ring buffer of            *)
(* fw/work_queue.c.  Every CPU may push; bottom halves are disabled for    *)
(* the whole push, so a CPU runs at most one push at a time.  One CPU      *)
(* pops.  Each access to a shared word (q->head, q->tail, a per-CPU guard  *)
(* in q->heads, an array slot) is a step of its own; a push owns the       *)
(* locals head, tail and budget, a pop owns the scan of the guards.        *)
(*                                                                         *)
(* sent and got are history variables: the items in the order their slots  *)
(* were acquired, and the items handed to the consumer.                    *)
(***************************************************************************)
EXTENDS Integers, Sequences, FiniteSets

CONSTANTS
    CPU,        \* the CPUs that push
    Item,       \* work items (__WqItem)
    QSZ,        \* number of slots of the ring (2048 in the code)
    BUDGET,     \* tries on a full queue (10 in the code)
    LONG_MAX,   \* the value of a released guard
    MaxHead     \* bound on the positions ever acquired

ASSUME QszAssumption == QSZ \in Nat \ {0}
ASSUME BudgetAssumption == BUDGET \in Nat \ {0}
ASSUME LongMaxAssumption == LONG_MAX \in Nat /\ MaxHead \in 0..LONG_MAX

VARIABLES
    head, tail,  \* q->head, q->tail
    heads,       \* q->heads: per-CPU guards
    array,       \* q->array
    lastHead,    \* q->last_head
    pc,          \* where the push of a CPU is
    item, lhead, ltail, budget,  \* the argument and the locals of a push
    cpc,         \* where the pop is
    scan,        \* CPUs whose guard the pop has still to read
    pop,         \* outcome of the last pop: result, item and ticket
    sent, got

pushVars == <<head, heads, pc, item, lhead, ltail, budget, sent>>
popVars == <<tail, lastHead, cpc, scan, pop, got>>
locals == <<item, lhead, ltail, budget>>
vars == <<head, tail, heads, array, lastHead, pc, locals, cpc, scan, pop, sent, got>>

QMask(pos) == pos % QSZ

PushPc == {"idle", "guard", "head", "tail", "cas", "copy", "release", "full"}
PopPc == {"idle", "scan", "copy", "advance"}

(***************************************************************************)
(* tfw_wq_init: no guard is set and the ring is empty.  The array is not   *)
(* initialised: its first contents are arbitrary.                          *)
(***************************************************************************)
Init ==
    /\ head = 0 /\ tail = 0 /\ lastHead = 0
    /\ heads = [c \in CPU |-> LONG_MAX]
    /\ \E x \in Item : /\ array = [s \in 0..QSZ - 1 |-> x]
                       /\ item = [c \in CPU |-> x]
                       /\ pop = [res |-> "none", item |-> x, ticket |-> 0]
    /\ pc = [c \in CPU |-> "idle"]
    /\ lhead = [c \in CPU |-> 0] /\ ltail = [c \in CPU |-> 0] /\ budget = [c \in CPU |-> 0]
    /\ cpc = "idle" /\ scan = {}
    /\ sent = <<>> /\ got = <<>>

-----------------------------------------------------------------------------
(* __tfw_wq_push *)

Goto(c, l) == pc' = [pc EXCEPT ![c] = l]

\* head = atomic64_read(&q->head), before the guard is published
PushStart(c, x) ==
    /\ pc[c] = "idle"
    /\ head + Cardinality({d \in CPU : pc[d] # "idle"}) < MaxHead
    /\ item' = [item EXCEPT ![c] = x]
    /\ lhead' = [lhead EXCEPT ![c] = head]
    /\ budget' = [budget EXCEPT ![c] = BUDGET]
    /\ Goto(c, "guard")
    /\ UNCHANGED <<head, heads, ltail, array, sent, popVars>>

\* (mutation: the guard is not published)
PushGuardUnpublished(c) ==
    /\ pc[c] = "guard"
    /\ Goto(c, "tail")
    /\ UNCHANGED <<head, heads, locals, array, sent, popVars>>

\* atomic64_set(head_local, head)
PushGuard(c) ==
    /\ pc[c] = "guard"
    /\ heads' = [heads EXCEPT ![c] = lhead[c]]
    /\ Goto(c, "tail")
    /\ UNCHANGED <<head, locals, array, sent, popVars>>

\* the loop's head = atomic64_read(&q->head)
PushReadHead(c) ==
    /\ pc[c] = "head"
    /\ lhead' = [lhead EXCEPT ![c] = head]
    /\ Goto(c, "tail")
    /\ UNCHANGED <<head, heads, item, ltail, budget, array, sent, popVars>>

\* tail = atomic64_read(&q->tail) and the test for a full queue
PushReadTail(c) ==
    /\ pc[c] = "tail"
    /\ ltail' = [ltail EXCEPT ![c] = tail]
    /\ \/ /\ lhead[c] # tail + QSZ
          /\ Goto(c, "cas")
          /\ UNCHANGED budget
       \/ /\ lhead[c] = tail + QSZ
          /\ budget' = [budget EXCEPT ![c] = @ - 1]
          /\ Goto(c, IF budget'[c] # 0 THEN "head" ELSE "full")
    /\ UNCHANGED <<head, heads, item, lhead, array, sent, popVars>>

\* atomic64_cmpxchg(&q->head, head, head + 1)
PushAcquire(c) ==
    /\ pc[c] = "cas"
    /\ \/ /\ head = lhead[c]
          /\ head' = head + 1
          /\ sent' = Append(sent, item[c])
          /\ Goto(c, "copy")
       \/ /\ head # lhead[c]
          /\ Goto(c, "head")
          /\ UNCHANGED <<head, sent>>
    /\ UNCHANGED <<heads, locals, array, popVars>>

\* memcpy(&q->array[head & QMASK], ptr, WQ_ITEM_SZ)
PushCopy(c) ==
    /\ pc[c] = "copy"
    /\ array' = [array EXCEPT ![QMask(lhead[c])] = item[c]]
    /\ Goto(c, "release")
    /\ UNCHANGED <<head, heads, locals, sent, popVars>>

\* (mutation: the guard is released to -1)
PushReleaseNegative(c) ==
    /\ pc[c] \in {"release", "full"}
    /\ heads' = [heads EXCEPT ![c] = -1]
    /\ Goto(c, "idle")
    /\ UNCHANGED <<head, locals, array, sent, popVars>>

\* (mutation: a full queue is left without releasing the guard)
PushReleaseNotOnFull(c) ==
    /\ pc[c] \in {"release", "full"}
    /\ heads' = [heads EXCEPT ![c] = IF pc[c] = "full" THEN @ ELSE LONG_MAX]
    /\ Goto(c, "idle")
    /\ UNCHANGED <<head, locals, array, sent, popVars>>

\* full_out: atomic64_set(head_local, LONG_MAX); a full queue returns its head
PushRelease(c) ==
    /\ pc[c] \in {"release", "full"}
    /\ heads' = [heads EXCEPT ![c] = LONG_MAX]
    /\ Goto(c, "idle")
    /\ UNCHANGED <<head, locals, array, sent, popVars>>

PushStep(c) ==
    \/ PushGuard(c) \/ PushReadHead(c) \/ PushReadTail(c)
    \/ PushAcquire(c) \/ PushCopy(c) \/ PushRelease(c)

-----------------------------------------------------------------------------
(* tfw_wq_pop_ticket *)

PopStart ==
    /\ cpc = "idle"
    /\ \/ /\ tail < lastHead
          /\ cpc' = "copy"
          /\ UNCHANGED <<lastHead, scan>>
       \/ /\ tail >= lastHead
          /\ lastHead' = head
          /\ scan' = CPU
          /\ cpc' = "scan"
    /\ pop' = [pop EXCEPT !.res = "none"]
    /\ UNCHANGED <<tail, got, array, pushVars>>

\* one iteration of the loop over the producers' guards
PopScan(c) ==
    /\ cpc = "scan"
    /\ c \in scan
    /\ lastHead' = IF heads[c] < lastHead THEN heads[c] ELSE lastHead
    /\ scan' = scan \ {c}
    /\ UNCHANGED <<tail, cpc, pop, got, array, pushVars>>

\* (mutation: off by one in the second try, an empty ring is popped)
PopScannedEmpty ==
    /\ cpc = "scan"
    /\ scan = {}
    /\ \/ /\ tail <= lastHead
          /\ cpc' = "copy"
          /\ UNCHANGED pop
       \/ /\ tail > lastHead
          /\ cpc' = "idle"
          /\ pop' = [res |-> "busy", item |-> pop.item, ticket |-> tail]
    /\ UNCHANGED <<tail, lastHead, scan, got, array, pushVars>>

\* the second try; a pop that finds nothing reports the tail it waits for
PopScanned ==
    /\ cpc = "scan"
    /\ scan = {}
    /\ \/ /\ tail < lastHead
          /\ cpc' = "copy"
          /\ UNCHANGED pop
       \/ /\ tail >= lastHead
          /\ cpc' = "idle"
          /\ pop' = [res |-> "busy", item |-> pop.item, ticket |-> tail]
    /\ UNCHANGED <<tail, lastHead, scan, got, array, pushVars>>

PopCopy ==
    /\ cpc = "copy"
    /\ pop' = [pop EXCEPT !.item = array[QMask(tail)]]
    /\ cpc' = "advance"
    /\ UNCHANGED <<tail, lastHead, scan, got, array, pushVars>>

PopAdvance ==
    /\ cpc = "advance"
    /\ tail' = tail + 1
    /\ got' = Append(got, pop.item)
    /\ pop' = [res |-> "ok", item |-> pop.item, ticket |-> tail]
    /\ cpc' = "idle"
    /\ UNCHANGED <<lastHead, scan, array, pushVars>>

PopStep == (\E c \in CPU : PopScan(c)) \/ PopScanned \/ PopCopy \/ PopAdvance

-----------------------------------------------------------------------------
Next ==
    \/ \E c \in CPU, x \in Item : PushStart(c, x)
    \/ \E c \in CPU : PushStep(c)
    \/ PopStart
    \/ PopStep

(* A push runs with bottom halves disabled and cannot be abandoned; the     *)
(* consumer runs again as long as the queue is not empty.                   *)
Fairness ==
    /\ \A c \in CPU : WF_vars(PushStep(c))
    /\ WF_vars(PopStart) /\ WF_vars(PopStep)

Spec == Init /\ [][Next]_vars
FairSpec == Spec /\ Fairness

-----------------------------------------------------------------------------
(* Properties *)

TypeOK ==
    /\ head \in Nat /\ tail \in Nat /\ lastHead \in Nat
    /\ heads \in [CPU -> Nat]
    /\ array \in [0..QSZ - 1 -> Item]
    /\ pc \in [CPU -> PushPc]
    /\ item \in [CPU -> Item]
    /\ lhead \in [CPU -> Nat] /\ ltail \in [CPU -> Nat] /\ budget \in [CPU -> Int]
    /\ cpc \in PopPc /\ scan \in SUBSET CPU
    /\ pop \in [res : {"none", "ok", "busy"}, item : Item, ticket : Nat]
    /\ sent \in Seq(Item) /\ got \in Seq(Item)

(* __tfw_wq_push returns the head it saw as a turnstile ticket when the     *)
(* queue is full and 0 on success, "the ticket value is always greater      *)
(* than 0": a refused item is never mistaken for a queued one, and the      *)
(* full queue it reports really had QSZ items below the ticket.             *)
TicketPositive ==
    \A c \in CPU : pc[c] = "full" => /\ lhead[c] > 0
                                     /\ lhead[c] <= tail + QSZ

(* The memcpy of a push never touches a slot another push is filling or the *)
(* slot the consumer is reading, although nobody takes a lock: the guards   *)
(* in q->heads keep the consumer behind every unfinished push.              *)
SlotsExclusive ==
    \A c \in CPU : pc[c] = "copy" =>
        /\ cpc = "copy" => QMask(lhead[c]) # QMask(tail)
        /\ \A d \in CPU \ {c} :
              pc[d] = "copy" => QMask(lhead[c]) # QMask(lhead[d])

(* The queue of the abstract specification: acquired, not popped.           *)
Fifo == INSTANCE BoundedFifo WITH
            Capacity <- QSZ,
            queue <- SubSeq(sent, tail + 1, head),
            delivered <- got

(* The ring implements a bounded FIFO: an item is accepted when cmpxchg     *)
(* moves q->head and delivered when the consumer moves q->tail, exactly     *)
(* once and in that order, whatever the producers interleave.               *)
IsFifo == Fifo!Spec

(* Every acquired position is popped in the end: a stale guard of a slow    *)
(* producer delays the consumer, never blocks it for ever.                  *)
EveryItemPopped == \A n \in 1..MaxHead : head >= n ~> tail >= n

-----------------------------------------------------------------------------
(* The inductive invariant behind SlotsExclusive and IsFifo.                *)

Filling(c) == pc[c] = "copy"

\* A producer past cmpxchg owns the position it acquired, and its guard
\* stays at or below that position until the copy is finished.
OwnInv(c) ==
    /\ lhead[c] <= head
    /\ pc[c] = "tail" => lhead[c] <= tail + QSZ
    /\ pc[c] = "full" => 0 < lhead[c] /\ lhead[c] <= tail + QSZ
    /\ pc[c] = "cas" => ltail[c] <= tail /\ lhead[c] < ltail[c] + QSZ
    /\ pc[c] \notin {"idle", "guard"} => heads[c] <= lhead[c]
    /\ Filling(c) => /\ tail <= lhead[c] /\ lhead[c] < head
                     /\ item[c] = sent[lhead[c] + 1]

PushInv ==
    /\ \A c \in CPU : OwnInv(c)
    /\ \A c, d \in CPU : Filling(c) /\ Filling(d) /\ c # d => lhead[c] # lhead[d]

\* The consumer never gets past an unfinished copy: either last_head is at
\* or below it, or the guard of its producer is still to be read.
GuardInv ==
    /\ lastHead <= head
    /\ cpc \in {"copy", "advance"} => tail < lastHead
    /\ \A c \in CPU : Filling(c) => lastHead <= lhead[c] \/ (cpc = "scan" /\ c \in scan)

\* Every position between tail and head holds its item or is being filled.
RingInv ==
    /\ Len(sent) = head /\ Len(got) = tail
    /\ tail <= head /\ head <= tail + QSZ
    /\ \A p \in tail..head - 1 :
          \/ \E c \in CPU : Filling(c) /\ lhead[c] = p
          \/ array[QMask(p)] = sent[p + 1]
    /\ cpc = "advance" => pop.item = sent[tail + 1]

WqInv == TypeOK /\ RingInv /\ PushInv /\ GuardInv
=============================================================================
