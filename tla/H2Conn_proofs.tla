----------------------------- MODULE H2Conn_proofs -----------------------------
(***************************************************************************)
(* Proofs about the streams of an HTTP/2 connection: the storage stays     *)
(* sound whatever the receive flow, the responding CPUs and the clean-up   *)
(* do, in any order.                                                       *)
(***************************************************************************)
EXTENDS H2Conn, FiniteSetTheorems, SequenceTheorems, NaturalsInduction, WellFoundedInduction,
        TLAPS

-----------------------------------------------------------------------------
(* The inductive invariant                                                  *)

Open == {"OPENED", "CONT", "CONT_CLOSED", "REM_HALF_CLOSED"}
Ended == {"LOC_CLOSED", "REM_CLOSED"}
StreamState == Open \cup Ended \cup {"none", "CLOSED"}
RxPc == {"preface", "settings", "header", "shrink", "app", "payload", "close", "up"}
Life == {"none", "parsing", "ready", "sending", "freed", "lost"}

StoreTypeOK ==
    /\ stream \in [StreamId -> StreamState]
    /\ msg \in [StreamId -> 0..H2MaxReq]
    /\ snum \in Int /\ hnum \in Int /\ hclosed \in Seq(StreamId)
    /\ lstream \in 0..MaxId
    /\ life \in [H2Req -> Life]
    /\ rstream \in [H2Req -> 0..MaxId]
    /\ term \in [StreamId -> 0..1]

(* The storage and the queue of closed streams.                             *)
Stored == {i \in StreamId : stream[i] # "none"}
Distinct(q) == \A i, j \in 1..Len(q) : q[i] = q[j] => i = j
CountInv ==
    /\ snum = Cardinality(Stored)
    /\ hnum = Len(hclosed) /\ Distinct(hclosed) /\ Range(hclosed) \subseteq Stored

(* A stream that we may still end was not ended, nor was one never seen.    *)
TermInv == \A i \in StreamId :
    /\ stream[i] \in Open => term[i] = 0
    /\ stream[i] # "none" \/ term[i] # 0 => i <= lstream

StoreInv == StoreTypeOK /\ CountInv /\ LinkedBothWays /\ TermInv

(* What the place in a frame says of the frame and of ctx->cur_stream.      *)
RxTypeOK ==
    /\ rx \in [pc : RxPc, f : Frame \cup {NoFrame}, cur : 0..MaxId]
    /\ conn \in {"up", "stop", "drop", "gone"}
NewStream(f) == f \in Frame /\ f.type = "HEADERS" /\ stream[f.id] = "none" /\ lstream < f.id
CurInv ==
    /\ rx.pc \in {"preface", "settings", "header"} => rx.cur = NoId
    /\ rx.cur # NoId => stream[rx.cur] # "none"
    /\ rx.pc = "shrink" => rx.cur = NoId /\ NewStream(rx.f)
    /\ rx.pc = "app" => App(rx.f) /\ (rx.cur = NoId => NewStream(rx.f))
    /\ rx.pc = "payload" /\ rx.f.type = "RST_STREAM" => rx.cur # NoId
    /\ rx.pc = "close" => rx.cur # NoId /\ stream[rx.cur] \in Ended /\ term[rx.cur] = 0

(* Only the stream that is being reset is CLOSED.                           *)
ClosedInv == \A i \in StreamId : stream[i] = "CLOSED" =>
                 rx.pc = "payload" /\ rx.f.type = "RST_STREAM" /\ rx.cur = i

RxInv == RxTypeOK /\ (conn # "up" => rx = NextFrame) /\ CurInv /\ ClosedInv

H2Inv == StoreInv /\ RxInv

-----------------------------------------------------------------------------
(* Queues of streams                                                        *)

LEMMA RangeIs ==
    ASSUME NEW q \in Seq(StreamId)
    PROVE  /\ \A r : r \in Range(q) <=> \E i \in 1..Len(q) : q[i] = r
           /\ Len(q) \in Nat /\ \A i \in 1..Len(q) : q[i] \in StreamId
BY LenProperties, ElementOfSeq DEF Range

LEMMA NothingIn == <<>> \in Seq(StreamId) /\ Range(<<>>) = {} /\ Distinct(<<>>) /\ Len(<<>>) = 0
<1>1. <<>> \in Seq(StreamId) /\ Len(<<>>) = 0
  BY EmptySeq
<1>2. DOMAIN <<>> = {}
  BY <1>1
<1>3. Range(<<>>) = {}
  BY <1>2 DEF Range
<1>4. Distinct(<<>>)
  BY <1>1 DEF Distinct
<1> QED BY <1>1, <1>3, <1>4

(* A stream is added.                                                       *)
LEMMA Added ==
    ASSUME NEW q \in Seq(StreamId), Distinct(q), NEW r \in StreamId, r \notin Range(q)
    PROVE  /\ Append(q, r) \in Seq(StreamId) /\ Distinct(Append(q, r))
           /\ Len(Append(q, r)) = Len(q) + 1 /\ Append(q, r)[Len(q) + 1] = r
           /\ \A i \in 1..Len(q) : Append(q, r)[i] = q[i]
           /\ Range(Append(q, r)) = Range(q) \cup {r}
<1> DEFINE n == Append(q, r)
<1>1. /\ n \in Seq(StreamId) /\ Len(n) = Len(q) + 1 /\ n[Len(q) + 1] = r
      /\ \A j \in 1..Len(q) : n[j] = q[j]
      /\ Len(q) \in Nat
  BY AppendProperties, LenProperties
<1> HIDE DEF n
<1>2. /\ \A j \in 1..Len(n) : j \in 1..Len(q) \/ j = Len(q) + 1
      /\ \A j \in 1..Len(q) : j \in 1..Len(n)
      /\ Len(q) + 1 \in 1..Len(n)
  BY <1>1
<1>3. Distinct(n)
  BY <1>1, <1>2, RangeIs DEF Distinct
<1>4. Range(n) = Range(q) \cup {r}
  BY <1>1, <1>2, RangeIs
<1> QED BY <1>1, <1>3, <1>4 DEF n

(* A queue is cut after its first n streams.                                *)
LEMMA Cut ==
    ASSUME NEW q \in Seq(StreamId), Distinct(q), NEW n \in 0..Len(q)
    PROVE  LET p == SubSeq(q, 1, n)
               s == SubSeq(q, n + 1, Len(q))
           IN  /\ p \in Seq(StreamId) /\ Len(p) = n /\ (\A i \in 1..n : p[i] = q[i]) /\ Distinct(p)
               /\ s \in Seq(StreamId) /\ Len(s) = Len(q) - n /\ Distinct(s)
               /\ (\A i \in 1 .. Len(q) - n : s[i] = q[n + i])
               /\ Range(p) \cup Range(s) = Range(q) /\ Range(p) \cap Range(s) = {}
<1> DEFINE p == SubSeq(q, 1, n)
           s == SubSeq(q, n + 1, Len(q))
<1>1. Len(q) \in Nat /\ \A j \in 1..Len(q) : q[j] \in StreamId
  BY RangeIs
<1>2. p \in Seq(StreamId) /\ Len(p) = n /\ \A i \in 1..n : p[i] = q[i]
  <2>1. 1 \in Int /\ n \in Int /\ \A j \in 1..n : q[j] \in StreamId
    BY <1>1
  <2>2. /\ p \in Seq(StreamId) /\ Len(p) = IF 1 <= n THEN n - 1 + 1 ELSE 0
        /\ \A j \in 1 .. n - 1 + 1 : p[j] = q[1 + j - 1]
    BY <2>1, SubSeqProperties
  <2> QED BY <1>1, <2>2
<1>3. s \in Seq(StreamId) /\ Len(s) = Len(q) - n /\ \A i \in 1 .. Len(q) - n : s[i] = q[n + i]
  <2>1. n + 1 \in Int /\ Len(q) \in Int /\ \A j \in n + 1 .. Len(q) : q[j] \in StreamId
    BY <1>1
  <2>2. /\ s \in Seq(StreamId) /\ Len(s) = IF n + 1 <= Len(q) THEN Len(q) - (n + 1) + 1 ELSE 0
        /\ \A j \in 1 .. Len(q) - (n + 1) + 1 : s[j] = q[n + 1 + j - 1]
    BY <2>1, SubSeqProperties
  <2> QED BY <1>1, <2>2
<1> HIDE DEF p, s
<1>4. /\ \A i \in 1..n : i \in 1..Len(q)
      /\ \A i \in 1 .. Len(q) - n : n + i \in 1..Len(q)
      /\ \A i \in 1..n, j \in 1 .. Len(q) - n : i # n + j
      /\ \A i, j \in 1 .. Len(q) - n : n + i = n + j => i = j
      /\ \A i \in 1..Len(q) : i \in 1..n \/ (i - n \in 1 .. Len(q) - n /\ n + (i - n) = i)
  BY <1>1
<1>5. Distinct(p) /\ Distinct(s)
  <2>1. ASSUME NEW i \in 1..Len(p), NEW j \in 1..Len(p), p[i] = p[j] PROVE i = j
    BY <1>2, <1>4, <2>1 DEF Distinct
  <2>2. ASSUME NEW i \in 1..Len(s), NEW j \in 1..Len(s), s[i] = s[j] PROVE i = j
    <3>1. q[n + i] = q[n + j] /\ n + i \in 1..Len(q) /\ n + j \in 1..Len(q)
      BY <1>3, <1>4, <2>2
    <3> QED BY <1>3, <1>4, <3>1 DEF Distinct
  <2> QED BY <2>1, <2>2 DEF Distinct
<1>6. ASSUME NEW r \in Range(p) PROVE r \notin Range(s) /\ r \in Range(q)
  <2>1. PICK i \in 1..n : q[i] = r
    BY <1>2, RangeIs
  <2>2. ASSUME NEW j \in 1..Len(s), s[j] = r PROVE FALSE
    <3>1. q[n + j] = r /\ n + j \in 1..Len(q) /\ n + j # i
      BY <1>3, <1>4, <2>2
    <3> QED BY <1>4, <2>1, <3>1 DEF Distinct
  <2> QED BY <1>3, <1>4, <2>1, <2>2, RangeIs
<1>7. ASSUME NEW r \in Range(s) PROVE r \in Range(q)
  <2>1. PICK i \in 1 .. Len(q) - n : s[i] = r
    BY <1>3, RangeIs
  <2> QED BY <1>3, <1>4, <2>1, RangeIs
<1>8. ASSUME NEW r \in Range(q) PROVE r \in Range(p) \cup Range(s)
  <2>1. PICK i \in 1..Len(q) : q[i] = r
    BY RangeIs
  <2>2. CASE i \in 1..n
    BY <1>2, <2>1, <2>2, RangeIs
  <2>3. CASE i - n \in 1 .. Len(q) - n /\ n + (i - n) = i
    <3>1. s[i - n] = r
      BY <1>3, <2>1, <2>3
    <3> QED BY <1>3, <2>3, <3>1, RangeIs
  <2> QED BY <1>4, <2>1, <2>2, <2>3
<1> QED BY <1>2, <1>3, <1>5, <1>6, <1>7, <1>8 DEF p, s

(* A stream is taken out.                                                   *)
LEMMA Unlinked ==
    ASSUME NEW q \in Seq(StreamId), Distinct(q), NEW i \in 1..Len(q)
    PROVE  /\ RemoveAt(q, i) \in Seq(StreamId) /\ Distinct(RemoveAt(q, i))
           /\ Range(RemoveAt(q, i)) = Range(q) \ {q[i]}
<1> DEFINE p == SubSeq(q, 1, i - 1)
           s == SubSeq(q, i + 1, Len(q))
           n == RemoveAt(q, i)
<1>1. Len(q) \in Nat /\ i - 1 \in 0..Len(q) /\ i \in 0..Len(q) /\ i - 1 + 1 = i
  BY RangeIs
<1>2. /\ p \in Seq(StreamId) /\ Len(p) = i - 1 /\ Distinct(p)
      /\ \A j \in 1 .. i - 1 : p[j] = q[j]
  <2>1. i - 1 \in 0..Len(q)
    BY <1>1
  <2> HIDE <1>1
  <2> QED BY <2>1, Cut
<1>3. /\ s \in Seq(StreamId) /\ Len(s) = Len(q) - i /\ Distinct(s)
      /\ \A j \in 1 .. Len(q) - i : s[j] = q[i + j]
  BY <1>1, Cut, Zenon
<1>4. n = p \o s
  BY DEF RemoveAt
<1> HIDE DEF p, s, n
<1>5. /\ n \in Seq(StreamId) /\ Len(n) = Len(q) - 1
      /\ \A j \in 1 .. Len(q) - 1 : n[j] = IF j < i THEN q[j] ELSE q[j + 1]
  <2>1. /\ p \o s \in Seq(StreamId) /\ Len(p \o s) = Len(p) + Len(s)
        /\ \A j \in 1 .. Len(p) + Len(s) : (p \o s)[j] = IF j <= Len(p) THEN p[j] ELSE s[j - Len(p)]
    BY <1>2, <1>3, ConcatProperties
  <2> QED BY <1>1, <1>2, <1>3, <1>4, <2>1
<1>6. Distinct(n)
  BY <1>1, <1>5 DEF Distinct
<1>7. ASSUME NEW r \in Range(n) PROVE r \in Range(q) /\ r # q[i]
  <2>1. PICK j \in 1..Len(n) : n[j] = r
    BY <1>5, RangeIs
  <2>2. PICK l \in 1..Len(q) : l # i /\ q[l] = r
    BY <1>1, <1>5, <2>1
  <2> QED BY <2>2, RangeIs DEF Distinct
<1>8. ASSUME NEW r \in Range(q), r # q[i] PROVE r \in Range(n)
  <2>1. PICK j \in 1..Len(q) : q[j] = r /\ j # i
    BY <1>8, RangeIs
  <2>2. PICK l \in 1..Len(n) : n[l] = r
    <3>1. CASE j < i
      BY <1>1, <1>5, <2>1, <3>1
    <3>2. CASE j > i
      <4>1. j - 1 \in 1..Len(n) /\ n[j - 1] = q[j]
        BY <1>1, <1>5, <2>1, <3>2
      <4> QED BY <2>1, <4>1
    <3> QED BY <1>1, <2>1, <3>1, <3>2
  <2> QED BY <1>5, <2>2, RangeIs
<1> QED BY <1>5, <1>6, <1>7, <1>8 DEF n

(* A queue has as many streams as its length.                               *)
LEMMA Counted ==
    ASSUME NEW q \in Seq(StreamId), Distinct(q)
    PROVE  IsFiniteSet(Range(q)) /\ Cardinality(Range(q)) = Len(q)
<1>1. Len(q) \in Nat /\ q \in [1..Len(q) -> Range(q)]
  BY RangeIs, LenProperties
<1>2. q \in Surjection(1..Len(q), Range(q))
  BY <1>1, RangeIs DEF Surjection
<1>3. q \in Injection(1..Len(q), Range(q))
  BY <1>1 DEF Injection, IsInjective, Distinct
<1>4. IsFiniteSet(1..Len(q)) /\ Cardinality(1..Len(q)) = Len(q)
  BY <1>1, FS_Interval
<1> QED BY <1>2, <1>3, <1>4, FS_Surjection

-----------------------------------------------------------------------------
(* The stream FSM, frames and places                                        *)

LEMMA Constants == /\ MaxId \in Nat /\ H2MaxReq \in Nat /\ MaxClosed \in Nat
                   /\ NoId \notin StreamId /\ NoMsg \notin H2Req
                   /\ \A i : i \in 0..MaxId <=> i = NoId \/ i \in StreamId
                   /\ \A r : r \in 0..H2MaxReq <=> r = NoMsg \/ r \in H2Req
BY H2Assumption DEF StreamId, H2Req, NoId, NoMsg

(* What a received frame makes of a stream: it opens nothing again, only    *)
(* RST_STREAM closes it, and only what is open is to be reset by us.        *)
LEMMA Received ==
    ASSUME NEW s \in Open \cup Ended, NEW f
    PROVE  LET x == FsmRecv(s, f) IN
           /\ x.st \in Open \cup Ended \cup {"CLOSED"}
           /\ x.st \in Open => s \in Open
           /\ x.st = "CLOSED" => f.type = "RST_STREAM" /\ x.res = "OK"
           /\ x.res = "TERM_STREAM" => s \in Open /\ x.st \in Ended
<1>1. CASE s = "OPENED"
  BY <1>1 DEF FsmRecv, Res, Open, Ended
<1>2. CASE s = "CONT"
  BY <1>2 DEF FsmRecv, Res, Open, Ended
<1>3. CASE s = "CONT_CLOSED"
  BY <1>3 DEF FsmRecv, Res, Open, Ended
<1>4. CASE s = "REM_HALF_CLOSED"
  BY <1>4 DEF FsmRecv, Res, Open, Ended
<1>5. CASE s = "LOC_CLOSED"
  BY <1>5 DEF FsmRecv, Res, Open, Ended
<1>6. CASE s = "REM_CLOSED"
  BY <1>6 DEF FsmRecv, Res, Open, Ended
<1> QED BY <1>1, <1>2, <1>3, <1>4, <1>5, <1>6 DEF Open, Ended

(* HEADERS open a stream.                                                   *)
LEMMA Created == ASSUME NEW f, f.type = "HEADERS" PROVE FsmRecv("OPENED", f).st \in Open
BY DEF FsmRecv, Res, Open

(* We end a stream only while it is open.                                   *)
LEMMA Finished ==
    ASSUME NEW s \in StreamState, NEW t, FsmSend(s, t).res = "OK"
    PROVE  s \in Open /\ FsmSend(s, t).st \in Ended
BY DEF FsmSend, Res, StreamState, Open, Ended

LEMMA States == /\ "none" \notin Open \cup Ended \cup {"CLOSED"} /\ "CLOSED" \notin Open \cup Ended
                /\ Open \cap Ended = {}
                /\ \A s : s \in StreamState <=> s = "none" \/ s = "CLOSED" \/ s \in Open \/ s \in Ended
BY DEF Open, Ended, StreamState

LEMMA FrameIs ==
    ASSUME NEW f \in Frame
    PROVE  /\ f.id \in 0..MaxId /\ (f.type # "WINDOW_UPDATE" => f.id \in StreamId)
           /\ f.type # "none" /\ (f.type = "HEADERS" => f.empty = FALSE)
BY Constants DEF Frame, NoId

LEMMA NoFrameIs == NoFrame.type = "none"
BY DEF NoFrame

LEMMA AtIs ==
    ASSUME NEW pc, NEW f, NEW cur
    PROVE  /\ At(pc, f, cur).pc = pc /\ At(pc, f, cur).f = f /\ At(pc, f, cur).cur = cur
           /\ pc \in RxPc /\ f \in Frame \cup {NoFrame} /\ cur \in 0..MaxId =>
                At(pc, f, cur) \in [pc : RxPc, f : Frame \cup {NoFrame}, cur : 0..MaxId]
BY DEF At

LEMMA NextFrameIs ==
    /\ NextFrame \in [pc : RxPc, f : Frame \cup {NoFrame}, cur : 0..MaxId]
    /\ NextFrame.pc = "header" /\ NextFrame.cur = NoId /\ NextFrame.f = NoFrame
BY AtIs, Constants DEF NextFrame, RxPc

LEMMA RxIs ==
    ASSUME RxTypeOK
    PROVE  /\ rx.pc \in RxPc /\ rx.f \in Frame \cup {NoFrame} /\ rx.cur \in 0..MaxId
           /\ conn \in {"up", "stop", "drop", "gone"}
           /\ rx.cur # NoId => rx.cur \in StreamId
           /\ rx.f.type # "none" => rx.f \in Frame
BY Constants, NoFrameIs DEF RxTypeOK

-----------------------------------------------------------------------------
(* The storage of streams                                                   *)

LEMMA StoredCount == IsFiniteSet(Stored) /\ Cardinality(Stored) \in Nat
<1>1. IsFiniteSet(StreamId)
  BY Constants, FS_Interval DEF StreamId
<1>2. Stored \subseteq StreamId
  BY DEF Stored
<1>3. IsFiniteSet(Stored)
  BY <1>1, <1>2, FS_Subset
<1> QED BY <1>3, FS_CardinalityType

LEMMA QueuedFound ==
    ASSUME StoreInv
    PROVE  /\ hclosed \in Seq(StreamId) /\ Distinct(hclosed) /\ hnum = Len(hclosed)
           /\ Range(hclosed) \subseteq Stored
BY DEF StoreInv, StoreTypeOK, CountInv

(* A stream changes its state and stays in the storage.                     *)
LEMMA StateStep ==
    ASSUME StoreInv, NEW i \in Stored, NEW s \in Open \cup Ended \cup {"CLOSED"},
           s \in Open => stream[i] \in Open,
           stream' = [stream EXCEPT ![i] = s],
           UNCHANGED <<msg, snum, hclosed, hnum, lstream, h2ReqVars>>
    PROVE  StoreInv'
<1>1. /\ i \in StreamId /\ stream[i] # "none" /\ stream' \in [StreamId -> StreamState]
      /\ stream'[i] = s /\ s # "none" /\ \A j \in StreamId : j # i => stream'[j] = stream[j]
  BY States DEF Stored, StoreInv, StoreTypeOK
<1>2. StoreTypeOK'
  BY <1>1 DEF StoreInv, StoreTypeOK, h2ReqVars
<1>3. Stored' = Stored
  BY <1>1 DEF Stored
<1>4. CountInv'
  BY <1>3 DEF StoreInv, CountInv
<1>5. LinkedBothWays'
  BY <1>1 DEF StoreInv, LinkedBothWays, Found, h2ReqVars
<1>6. TermInv'
  BY <1>1, States DEF StoreInv, TermInv, h2ReqVars
<1> QED BY <1>2, <1>4, <1>5, <1>6 DEF StoreInv

(* A stream is removed.                                                     *)
LEMMA RemoveStep ==
    ASSUME StoreInv, NEW i \in Stored, RemoveStream(i), UNCHANGED <<lstream, term>>
    PROVE  /\ StoreInv'
           /\ \A j \in StreamId : stream'[j] = IF j = i THEN "none" ELSE stream[j]
<1>1. /\ i \in StreamId /\ stream[i] # "none" /\ stream' \in [StreamId -> StreamState]
      /\ stream'[i] = "none" /\ \A j \in StreamId : j # i => stream'[j] = stream[j]
  BY States DEF Stored, StoreInv, StoreTypeOK, RemoveStream
<1>2. /\ msg' \in [StreamId -> 0..H2MaxReq] /\ msg'[i] = NoMsg
      /\ \A j \in StreamId : j # i => msg'[j] = msg[j]
  BY <1>1, Constants DEF StoreInv, StoreTypeOK, RemoveStream
<1>3. /\ life' \in [H2Req -> Life]
      /\ \A r \in H2Req : r # msg[i] => life'[r] = life[r]
  <2>1. life' = [r \in H2Req |-> IF r = msg[i] /\ life[r] = "parsing" THEN "freed" ELSE life[r]]
    BY DEF RemoveStream, Unlink
  <2>2. \A r \in H2Req : life[r] \in Life
    BY DEF StoreInv, StoreTypeOK
  <2> QED BY <2>1, <2>2 DEF Life
<1>4. /\ rstream' \in [H2Req -> 0..MaxId]
      /\ \A r \in H2Req : rstream'[r] = IF r = msg[i] THEN NoId ELSE rstream[r]
  <2>1. rstream' = [r \in H2Req |-> IF r = msg[i] THEN NoId ELSE rstream[r]]
    BY DEF RemoveStream, Unlink
  <2>2. \A r \in H2Req : rstream[r] \in 0..MaxId
    BY DEF StoreInv, StoreTypeOK
  <2> QED BY <2>1, <2>2, Constants
<1>5. /\ hclosed' \in Seq(StreamId) /\ Distinct(hclosed')
      /\ Range(hclosed') = Range(hclosed) \ {i} /\ hnum' = Len(hclosed') /\ hnum' \in Int
  <2>1. CASE i \in Range(hclosed)
    <3> DEFINE k == CHOOSE k \in 1..Len(hclosed) : hclosed[k] = i
    <3>1. \E n \in 1..Len(hclosed) : hclosed[n] = i
      BY <2>1, QueuedFound, RangeIs
    <3>2. k \in 1..Len(hclosed) /\ hclosed[k] = i
      BY <3>1
    <3>3. hclosed' = RemoveAt(hclosed, k) /\ hnum' = hnum - 1
      BY <2>1 DEF RemoveStream, Unlink, ListDel
    <3> HIDE DEF k
    <3>4. /\ hclosed' \in Seq(StreamId) /\ Distinct(hclosed')
          /\ Range(hclosed') = Range(hclosed) \ {i}
      BY <3>2, <3>3, QueuedFound, Unlinked
    <3>5. /\ Cardinality(Range(hclosed')) = Len(hclosed') /\ Len(hclosed') \in Nat
          /\ Cardinality(Range(hclosed)) = Len(hclosed) /\ IsFiniteSet(Range(hclosed))
      BY <3>4, QueuedFound, Counted, LenProperties
    <3>6. Len(hclosed') = Len(hclosed) - 1
      BY <2>1, <3>4, <3>5, FS_RemoveElement
    <3> QED BY <3>3, <3>4, <3>5, <3>6, QueuedFound
  <2>2. CASE i \notin Range(hclosed)
    <3>1. hclosed' = hclosed /\ hnum' = hnum
      BY <2>2 DEF RemoveStream, Unlink, ListDel
    <3> QED BY <2>2, <3>1, QueuedFound DEF StoreInv, StoreTypeOK
  <2> QED BY <2>1, <2>2
<1>6. Stored' = Stored \ {i}
  BY <1>1 DEF Stored
<1>7. snum' = snum - 1 /\ snum' \in Int
  BY DEF RemoveStream, StoreInv, StoreTypeOK
<1>8. CountInv'
  <2>1. snum' = Cardinality(Stored')
    BY <1>6, <1>7, StoredCount, FS_RemoveElement DEF StoreInv, CountInv
  <2>2. Range(hclosed') \subseteq Stored'
    BY <1>5, <1>6, QueuedFound
  <2> QED BY <1>5, <2>1, <2>2 DEF CountInv
<1>9. StoreTypeOK'
  BY <1>1, <1>2, <1>3, <1>4, <1>5, <1>7 DEF StoreInv, StoreTypeOK
<1>10. LinkedBothWays'
  <2>1. ASSUME NEW r \in H2Req, rstream'[r] # NoId
        PROVE  Found(rstream[r])' /\ msg'[rstream'[r]] = r
    <3>1. rstream'[r] = rstream[r] /\ r # msg[i]
      BY <1>4, <2>1
    <3>2. rstream[r] \in StreamId /\ stream[rstream[r]] # "none" /\ msg[rstream[r]] = r
      BY <2>1, <3>1 DEF StoreInv, LinkedBothWays, Found
    <3>3. rstream[r] # i
      BY <3>1, <3>2
    <3> QED BY <1>1, <1>2, <3>1, <3>2, <3>3 DEF Found
  <2>2. ASSUME NEW j \in StreamId, msg'[j] # NoMsg
        PROVE  rstream'[msg'[j]] = j /\ life'[msg'[j]] \in {"parsing", "ready", "lost"}
    <3>1. j # i /\ msg'[j] = msg[j] /\ msg[j] # NoMsg /\ msg[j] \in H2Req
      BY <1>2, <2>2, Constants DEF StoreInv, StoreTypeOK
    <3>2. /\ rstream[msg[j]] = j /\ life[msg[j]] \in {"parsing", "ready", "lost"}
          /\ msg[i] # NoMsg => rstream[msg[i]] = i
      BY <1>1, <3>1 DEF StoreInv, LinkedBothWays
    <3>3. msg[j] # msg[i]
      BY <3>1, <3>2
    <3> QED BY <1>3, <1>4, <3>1, <3>2, <3>3
  <2> QED BY <2>1, <2>2 DEF LinkedBothWays
<1>11. TermInv'
  BY <1>1, States DEF StoreInv, TermInv
<1> QED BY <1>1, <1>8, <1>9, <1>10, <1>11 DEF StoreInv

(* A stream is created.                                                     *)
LEMMA CreateStep ==
    ASSUME StoreInv, NEW i \in StreamId, stream[i] = "none", lstream < i, NEW s \in Open,
           stream' = [stream EXCEPT ![i] = s], snum' = snum + 1, lstream' = i,
           UNCHANGED <<msg, hclosed, hnum, h2ReqVars>>
    PROVE  StoreInv'
<1>1. /\ stream' \in [StreamId -> StreamState] /\ stream'[i] = s /\ s # "none"
      /\ \A j \in StreamId : j # i => stream'[j] = stream[j]
  BY States DEF StoreInv, StoreTypeOK
<1>2. lstream' \in 0..MaxId /\ lstream \in 0..MaxId /\ snum' \in Int /\ snum \in Int
  BY Constants DEF StoreInv, StoreTypeOK
<1>3. StoreTypeOK'
  BY <1>1, <1>2 DEF StoreInv, StoreTypeOK, h2ReqVars
<1>4. Stored' = Stored \cup {i} /\ i \notin Stored
  BY <1>1 DEF Stored
<1>5. CountInv'
  <2>1. snum' = Cardinality(Stored')
    BY <1>2, <1>4, StoredCount, FS_AddElement DEF StoreInv, CountInv
  <2> QED BY <1>4, <2>1, QueuedFound DEF CountInv
<1>6. LinkedBothWays'
  BY <1>1 DEF StoreInv, LinkedBothWays, Found, h2ReqVars
<1>7. TermInv'
  <2> SUFFICES ASSUME NEW j \in StreamId
               PROVE  /\ stream'[j] \in Open => term'[j] = 0
                      /\ stream'[j] # "none" \/ term'[j] # 0 => j <= lstream'
    BY DEF TermInv
  <2>1. term' = term /\ term[j] \in 0..1
    BY DEF h2ReqVars, StoreInv, StoreTypeOK
  <2>2. /\ stream[j] \in Open => term[j] = 0
        /\ stream[j] # "none" \/ term[j] # 0 => j <= lstream
    BY DEF StoreInv, TermInv
  <2>3. j \in Int /\ i \in Int /\ lstream \in Int
    BY <1>2 DEF StreamId
  <2>4. CASE j = i
    BY <2>1, <2>2, <2>3, <2>4
  <2>5. CASE j # i
    BY <1>1, <2>1, <2>2, <2>3, <2>5
  <2> QED BY <2>4, <2>5
<1> QED BY <1>3, <1>5, <1>6, <1>7 DEF StoreInv

(* A stream is put in the queue of closed ones.                             *)
LEMMA QueueStep ==
    ASSUME StoreInv, NEW i \in Stored, AddClosed(i)
    PROVE  /\ hclosed' \in Seq(StreamId) /\ Distinct(hclosed')
           /\ hnum' = Len(hclosed') /\ hnum' \in Int /\ Range(hclosed') \subseteq Stored
<1>1. CASE i \in Range(hclosed)
  <2>1. hclosed' = hclosed /\ hnum' = hnum
    BY <1>1 DEF AddClosed
  <2> QED BY <2>1, QueuedFound DEF StoreInv, StoreTypeOK
<1>2. CASE i \notin Range(hclosed)
  <2>1. hclosed' = Append(hclosed, i) /\ hnum' = hnum + 1
    BY <1>2 DEF AddClosed
  <2>2. i \in StreamId
    BY DEF Stored
  <2>3. /\ hclosed' \in Seq(StreamId) /\ Distinct(hclosed') /\ Len(hclosed') = Len(hclosed) + 1
        /\ Range(hclosed') = Range(hclosed) \cup {i} /\ Len(hclosed) \in Nat
    BY <1>2, <2>1, <2>2, QueuedFound, Added, RangeIs
  <2> QED BY <2>1, <2>3, QueuedFound
<1> QED BY <1>1, <1>2

(* A frame that ends a stream is sent.                                      *)
LEMMA SentOnce ==
    ASSUME StoreInv, NEW i \in StreamId, term[i] = 0, Sent(i)
    PROVE  /\ term' \in [StreamId -> 0..1] /\ term'[i] = 1
           /\ \A j \in StreamId : j # i => term'[j] = term[j]
BY DEF Sent, StoreInv, StoreTypeOK

(* The receive flow closes a stream.                                        *)
LEMMA CloseStep ==
    ASSUME StoreInv, NEW i \in Stored, stream[i] \in Ended, term[i] = 0, AddClosed(i),
           Sent(i) \/ UNCHANGED term, UNCHANGED <<stream, msg, snum, lstream, life, rstream>>
    PROVE  StoreInv'
<1>1. i \in StreamId /\ stream[i] \notin Open /\ stream[i] # "none" /\ Stored' = Stored
  BY States DEF Stored
<1>2. /\ term' \in [StreamId -> 0..1]
      /\ \A j \in StreamId : j # i => term'[j] = term[j]
  BY <1>1, SentOnce DEF StoreInv, StoreTypeOK
<1>3. StoreTypeOK'
  BY <1>2, QueueStep DEF StoreInv, StoreTypeOK
<1>4. CountInv'
  <2>1. snum' = Cardinality(Stored')
    BY <1>1 DEF StoreInv, CountInv
  <2> QED BY <1>1, <2>1, QueueStep DEF CountInv
<1>5. LinkedBothWays'
  BY DEF StoreInv, LinkedBothWays, Found
<1>6. TermInv'
  BY <1>1, <1>2 DEF StoreInv, TermInv
<1> QED BY <1>3, <1>4, <1>5, <1>6 DEF StoreInv

(* What a response may change under the feet of the receive flow.           *)
Under == \A j \in StreamId :
    /\ stream'[j] = "none" <=> stream[j] = "none"
    /\ stream'[j] = "CLOSED" <=> stream[j] = "CLOSED"
    /\ stream[j] \in Ended => stream'[j] = stream[j] /\ term'[j] = term[j]

(* A request is done with its stream.                                       *)
LEMMA IdCloseStep ==
    ASSUME StoreInv, NEW r \in H2Req, NEW t, StreamIdClose(r, t), NEW l \in Life,
           life' = [life EXCEPT ![r] = l], UNCHANGED <<snum, lstream>>
    PROVE  StoreInv' /\ Under
<1>1. /\ life' \in [H2Req -> Life] /\ \A q \in H2Req : q # r => life'[q] = life[q]
  BY DEF StoreInv, StoreTypeOK
<1>2. /\ \A q \in H2Req : rstream[q] # NoId => Found(rstream[q]) /\ msg[rstream[q]] = q
      /\ \A j \in StreamId : msg[j] # NoMsg => msg[j] \in H2Req /\ rstream[msg[j]] = j
                                               /\ life[msg[j]] \in {"parsing", "ready", "lost"}
  BY Constants DEF StoreInv, StoreTypeOK, LinkedBothWays
<1>3. CASE rstream[r] = NoId
  <2>1. UNCHANGED <<stream, msg, hclosed, hnum, rstream, term>>
    BY <1>3 DEF StreamIdClose
  <2>2. StoreTypeOK'
    BY <1>1, <2>1 DEF StoreInv, StoreTypeOK
  <2>3. Stored' = Stored
    BY <2>1 DEF Stored
  <2>4. CountInv'
    BY <2>1, <2>3 DEF StoreInv, CountInv
  <2>5. LinkedBothWays'
    <3>1. \A j \in StreamId : msg[j] # NoMsg => msg[j] # r
      BY <1>2, <1>3, Constants
    <3> QED BY <1>1, <1>2, <2>1, <3>1 DEF LinkedBothWays, Found
  <2>6. TermInv'
    BY <2>1 DEF StoreInv, TermInv
  <2>7. Under
    BY <2>1 DEF Under
  <2> QED BY <2>2, <2>4, <2>5, <2>6, <2>7 DEF StoreInv
<1>4. CASE rstream[r] # NoId
  <2> DEFINE i == rstream[r]
  <2>1. /\ rstream' = [rstream EXCEPT ![r] = NoId] /\ msg' = [msg EXCEPT ![i] = NoMsg]
        /\ AddClosed(i)
        /\ IF t # "NONE" /\ FsmSend(stream[i], t).res = "OK"
           THEN stream' = [stream EXCEPT ![i] = FsmSend(stream[i], t).st] /\ Sent(i)
           ELSE UNCHANGED <<stream, term>>
    BY <1>4 DEF StreamIdClose
  <2>2. i \in StreamId /\ i \in Stored /\ msg[i] = r /\ stream[i] \in StreamState
    BY <1>2, <1>4 DEF Found, Stored, StoreInv, StoreTypeOK
  <2> HIDE DEF i
  <2>3. /\ stream' \in [StreamId -> StreamState] /\ term' \in [StreamId -> 0..1]
        /\ \A j \in StreamId : j # i => stream'[j] = stream[j] /\ term'[j] = term[j]
        /\ \/ stream[i] \in Open /\ stream'[i] \in Ended
           \/ stream'[i] = stream[i] /\ term'[i] = term[i]
    <3>1. CASE t # "NONE" /\ FsmSend(stream[i], t).res = "OK"
      <4>1. stream' = [stream EXCEPT ![i] = FsmSend(stream[i], t).st] /\ Sent(i)
        BY <2>1, <3>1
      <4>2. stream[i] \in Open /\ FsmSend(stream[i], t).st \in Ended
        BY <2>2, <3>1, Finished
      <4>3. term[i] = 0
        BY <2>2, <4>2 DEF StoreInv, TermInv
      <4>4. /\ term' \in [StreamId -> 0..1]
            /\ \A j \in StreamId : j # i => term'[j] = term[j]
        BY <2>2, <4>1, <4>3, SentOnce
      <4>5. /\ stream' \in [StreamId -> StreamState] /\ stream'[i] \in Ended
            /\ \A j \in StreamId : j # i => stream'[j] = stream[j]
        BY <2>2, <4>1, <4>2, States DEF StoreInv, StoreTypeOK
      <4> QED BY <4>2, <4>4, <4>5
    <3>2. CASE ~(t # "NONE" /\ FsmSend(stream[i], t).res = "OK")
      <4>1. stream' = stream /\ term' = term
        BY <2>1, <3>2
      <4> QED BY <4>1 DEF StoreInv, StoreTypeOK
    <3> QED BY <3>1, <3>2
  <2>4. Under
    BY <2>2, <2>3, States DEF Under
  <2>5. /\ rstream' \in [H2Req -> 0..MaxId] /\ rstream'[r] = NoId
        /\ \A q \in H2Req : q # r => rstream'[q] = rstream[q]
    BY <2>1, Constants DEF StoreInv, StoreTypeOK
  <2>6. /\ msg' \in [StreamId -> 0..H2MaxReq] /\ msg'[i] = NoMsg
        /\ \A j \in StreamId : j # i => msg'[j] = msg[j]
    BY <2>1, <2>2, Constants DEF StoreInv, StoreTypeOK
  <2>7. StoreTypeOK'
    BY <1>1, <2>1, <2>2, <2>3, <2>5, <2>6, QueueStep DEF StoreInv, StoreTypeOK
  <2>8. Stored' = Stored
    BY <2>4 DEF Under, Stored
  <2>9. CountInv'
    <3>1. snum' = Cardinality(Stored')
      BY <2>8 DEF StoreInv, CountInv
    <3> QED BY <2>1, <2>2, <2>8, <3>1, QueueStep DEF CountInv
  <2>10. LinkedBothWays'
    <3>1. ASSUME NEW q \in H2Req, rstream'[q] # NoId
          PROVE  Found(rstream[q])' /\ msg'[rstream'[q]] = q
      <4>1. q # r /\ rstream'[q] = rstream[q]
        BY <2>5, <3>1
      <4>2. rstream[q] \in StreamId /\ stream[rstream[q]] # "none" /\ msg[rstream[q]] = q
        BY <1>2, <3>1, <4>1 DEF Found
      <4>3. rstream[q] # i
        BY <2>2, <4>1, <4>2
      <4> QED BY <2>4, <2>6, <4>1, <4>2, <4>3 DEF Found, Under
    <3>2. ASSUME NEW j \in StreamId, msg'[j] # NoMsg
          PROVE  rstream'[msg'[j]] = j /\ life'[msg'[j]] \in {"parsing", "ready", "lost"}
      <4>1. j # i /\ msg'[j] = msg[j] /\ msg[j] \in H2Req /\ rstream[msg[j]] = j
            /\ life[msg[j]] \in {"parsing", "ready", "lost"}
        BY <1>2, <2>6, <3>2
      <4>2. msg[j] # r
        BY <4>1 DEF i
      <4> QED BY <1>1, <2>5, <4>1, <4>2
    <3> QED BY <3>1, <3>2 DEF LinkedBothWays
  <2>11. TermInv'
    <3>1. ASSUME NEW j \in StreamId
          PROVE  /\ stream'[j] \in Open => term'[j] = 0
                 /\ stream'[j] # "none" \/ term'[j] # 0 => j <= lstream'
      BY <2>2, <2>3, <2>4, States DEF StoreInv, TermInv, Under, Stored
    <3> QED BY <3>1 DEF TermInv
  <2> QED BY <2>4, <2>7, <2>9, <2>10, <2>11 DEF StoreInv
<1> QED BY <1>3, <1>4

(* A request is made for a stream that has none.                            *)
LEMMA AllocStep ==
    ASSUME StoreInv, NEW i \in Stored, msg[i] = NoMsg, NEW r \in H2Req, life[r] = "none",
           msg' = [msg EXCEPT ![i] = r], life' = [life EXCEPT ![r] = "parsing"],
           rstream' = [rstream EXCEPT ![r] = i],
           UNCHANGED <<stream, snum, hclosed, hnum, lstream, term>>
    PROVE  StoreInv'
<1>1. i \in StreamId /\ stream[i] # "none" /\ i # NoId
  BY Constants DEF Stored
<1>2. /\ msg' \in [StreamId -> 0..H2MaxReq] /\ msg'[i] = r
      /\ \A j \in StreamId : j # i => msg'[j] = msg[j]
  BY <1>1, Constants DEF StoreInv, StoreTypeOK
<1>3. /\ life' \in [H2Req -> Life] /\ life'[r] = "parsing"
      /\ \A q \in H2Req : q # r => life'[q] = life[q]
  BY DEF StoreInv, StoreTypeOK, Life
<1>4. /\ rstream' \in [H2Req -> 0..MaxId] /\ rstream'[r] = i
      /\ \A q \in H2Req : q # r => rstream'[q] = rstream[q]
  BY <1>1, Constants DEF StoreInv, StoreTypeOK
<1>5. StoreTypeOK'
  BY <1>2, <1>3, <1>4 DEF StoreInv, StoreTypeOK
<1>6. Stored' = Stored
  BY DEF Stored
<1>7. CountInv'
  BY <1>6 DEF StoreInv, CountInv
<1>8. /\ \A q \in H2Req : rstream[q] # NoId => rstream[q] \in StreamId /\ stream[rstream[q]] # "none"
                                               /\ msg[rstream[q]] = q
      /\ \A j \in StreamId : msg[j] # NoMsg => msg[j] \in H2Req /\ rstream[msg[j]] = j
                                               /\ life[msg[j]] \in {"parsing", "ready", "lost"}
  BY Constants DEF StoreInv, StoreTypeOK, LinkedBothWays, Found
<1>9. LinkedBothWays'
  <2>1. ASSUME NEW q \in H2Req, rstream'[q] # NoId
        PROVE  Found(rstream[q])' /\ msg'[rstream'[q]] = q
    <3>1. CASE q = r
      BY <1>1, <1>2, <1>4, <3>1 DEF Found
    <3>2. CASE q # r
      <4>1. rstream'[q] = rstream[q] /\ rstream[q] # i
        BY <1>4, <1>8, <2>1, <3>2, Constants
      <4> QED BY <1>2, <1>8, <2>1, <4>1 DEF Found
    <3> QED BY <3>1, <3>2
  <2>2. ASSUME NEW j \in StreamId, msg'[j] # NoMsg
        PROVE  rstream'[msg'[j]] = j /\ life'[msg'[j]] \in {"parsing", "ready", "lost"}
    <3>1. CASE j = i
      BY <1>2, <1>3, <1>4, <3>1
    <3>2. CASE j # i
      <4>1. msg'[j] = msg[j] /\ msg[j] # r
        BY <1>2, <1>8, <2>2, <3>2
      <4> QED BY <1>3, <1>4, <1>8, <2>2, <4>1
    <3> QED BY <3>1, <3>2
  <2> QED BY <2>1, <2>2 DEF LinkedBothWays
<1>10. TermInv'
  BY DEF StoreInv, TermInv
<1> QED BY <1>5, <1>7, <1>9, <1>10 DEF StoreInv

(* Only the life of a request changes.                                      *)
LEMMA LifeStep ==
    ASSUME StoreInv, UNCHANGED <<strVars, rstream, term>>, life' \in [H2Req -> Life],
           \A j \in StreamId : msg[j] # NoMsg => life'[msg[j]] \in {"parsing", "ready", "lost"}
    PROVE  StoreInv' /\ Under
<1>1. StoreTypeOK'
  BY DEF StoreInv, StoreTypeOK, strVars
<1>2. Stored' = Stored
  BY DEF Stored, strVars
<1>3. CountInv'
  BY <1>2 DEF StoreInv, CountInv, strVars
<1>4. LinkedBothWays'
  BY DEF StoreInv, LinkedBothWays, Found, strVars
<1>5. TermInv'
  BY DEF StoreInv, TermInv, strVars
<1>6. Under
  BY DEF Under, strVars
<1> QED BY <1>1, <1>3, <1>4, <1>5, <1>6 DEF StoreInv

LEMMA StoreKept ==
    ASSUME StoreInv, UNCHANGED <<strVars, h2ReqVars>>
    PROVE  StoreInv' /\ Under
<1>1. UNCHANGED <<strVars, rstream, term>> /\ life' = life /\ life \in [H2Req -> Life]
  BY DEF h2ReqVars, StoreInv, StoreTypeOK
<1>2. \A j \in StreamId : msg[j] # NoMsg => life'[msg[j]] \in {"parsing", "ready", "lost"}
  BY <1>1 DEF StoreInv, LinkedBothWays
<1> QED BY <1>1, <1>2, LifeStep

-----------------------------------------------------------------------------
(* The receive flow                                                         *)

LEMMA RxUnder == ASSUME RxInv, Under, UNCHANGED <<rx, conn, lstream>> PROVE RxInv'
<1>1. RxTypeOK' /\ (conn' # "up" => rx' = NextFrame)
  BY DEF RxInv, RxTypeOK
<1>2. /\ rx.cur # NoId => rx.cur \in StreamId
      /\ \A f \in Frame : f.type = "HEADERS" => f.id \in StreamId
  BY RxIs, FrameIs DEF RxInv
<1>3. CurInv'
  <2>1. rx.cur # NoId => stream'[rx.cur] # "none"
    BY <1>2 DEF RxInv, CurInv, Under
  <2>2. rx.pc = "close" => rx.cur # NoId /\ stream'[rx.cur] \in Ended /\ term'[rx.cur] = 0
    BY <1>2 DEF RxInv, CurInv, Under
  <2>3. NewStream(rx.f) => NewStream(rx.f)'
    BY <1>2 DEF Under, NewStream
  <2> QED BY <2>1, <2>2, <2>3 DEF RxInv, CurInv, App
<1>4. ClosedInv'
  BY DEF RxInv, ClosedInv, Under
<1> QED BY <1>1, <1>3, <1>4 DEF RxInv

(* The flow goes to another place.                                          *)
LEMMA RxSet ==
    ASSUME NEW pc \in RxPc, NEW f \in Frame \cup {NoFrame}, NEW cur \in 0..MaxId,
           rx' = At(pc, f, cur), conn' = "up",
           pc \in {"preface", "settings", "header"} => cur = NoId,
           cur # NoId => stream'[cur] # "none",
           pc = "shrink" => cur = NoId /\ NewStream(f)',
           pc = "app" => App(f) /\ (cur = NoId => NewStream(f)'),
           pc = "payload" /\ f.type = "RST_STREAM" => cur # NoId,
           pc = "close" => cur # NoId /\ stream'[cur] \in Ended /\ term'[cur] = 0,
           \A i \in StreamId : stream'[i] = "CLOSED" =>
               pc = "payload" /\ f.type = "RST_STREAM" /\ cur = i
    PROVE  RxInv'
<1>1. rx'.pc = pc /\ rx'.f = f /\ rx'.cur = cur
  BY AtIs
<1>2. RxTypeOK'
  BY AtIs DEF RxTypeOK
<1>3. CurInv'
  BY <1>1 DEF CurInv, NewStream, App
<1>4. ClosedInv'
  BY <1>1 DEF ClosedInv
<1> QED BY <1>2, <1>3, <1>4 DEF RxInv

(* A frame is done with, or the connection is closed.                       *)
LEMMA RxDone ==
    ASSUME rx' = NextFrame, conn' \in {"up", "stop", "drop", "gone"},
           \A i \in StreamId : stream'[i] # "CLOSED"
    PROVE  RxInv'
BY NextFrameIs DEF RxInv, RxTypeOK, CurInv, ClosedInv

LEMMA NoneClosed ==
    ASSUME RxInv, ~(rx.pc = "payload" /\ rx.f.type = "RST_STREAM")
    PROVE  \A i \in StreamId : stream[i] # "CLOSED"
BY DEF RxInv, ClosedInv

LEMMA PlaceStep ==
    ASSUME H2Inv, UNCHANGED <<strVars, h2ReqVars>>, RxInv => RxInv'
    PROVE  H2Inv'
BY StoreKept DEF H2Inv

LEMMA PrefaceStep == ASSUME H2Inv, Preface \/ tfw_h2_first_settings_verify \/ FrameError PROVE H2Inv'
<1>1. /\ UNCHANGED <<strVars, h2ReqVars>> /\ rx.pc \in {"preface", "settings", "header"}
      /\ \/ rx' = At("settings", NoFrame, NoId) /\ conn' = "up"
         \/ rx' = NextFrame /\ conn' \in {"up", "stop"}
  BY DEF Preface, tfw_h2_first_settings_verify, FrameError, Receiving, Stop
<1>2. \A i \in StreamId : stream'[i] # "CLOSED"
  BY <1>1, NoneClosed DEF H2Inv, strVars
<1>3. CASE rx' = NextFrame /\ conn' \in {"up", "stop"}
  BY <1>1, <1>2, <1>3, RxDone, PlaceStep
<1>4. CASE rx' = At("settings", NoFrame, NoId) /\ conn' = "up"
  <2>1. "settings" \in RxPc /\ NoFrame \in Frame \cup {NoFrame} /\ NoId \in 0..MaxId
    BY Constants DEF RxPc
  <2>2. RxInv'
    BY <1>2, <1>4, <2>1, RxSet
  <2> QED BY <1>1, <2>2, PlaceStep
<1> QED BY <1>1, <1>3, <1>4

(* The place after the header of an application frame.                      *)
LEMMA PayloadIs ==
    ASSUME NEW f \in Frame, App(f), NEW cur \in 0..MaxId, rx' = Payload(f, cur), conn' = "up",
           cur # NoId => stream'[cur] # "none", cur = NoId => NewStream(f)',
           \A i \in StreamId : stream'[i] # "CLOSED"
    PROVE  RxInv'
<1>1. CASE f.empty
  BY <1>1, RxDone DEF Payload
<1>2. CASE ~f.empty
  <2>1. rx' = At("app", f, cur) /\ "app" \in RxPc
    BY <1>2 DEF Payload, RxPc
  <2> QED BY <2>1, RxSet
<1> QED BY <1>1, <1>2

LEMMA HeaderStep ==
    ASSUME H2Inv, NEW f \in Frame, RecvData(f) \/ RecvHeaders(f)
    PROVE  H2Inv'
<1>1. /\ UNCHANGED <<strVars, h2ReqVars>> /\ rx.pc = "header" /\ conn = "up" /\ App(f)
      /\ f.id \in StreamId
  BY FrameIs DEF RecvData, RecvHeaders, Receiving, App
<1>2. /\ \A i \in StreamId : stream'[i] # "CLOSED"
      /\ stream' = stream /\ lstream' = lstream
  BY <1>1, NoneClosed DEF H2Inv, strVars
<1>3. \/ rx' = NextFrame /\ conn' = "stop"
      \/ Found(f.id) /\ rx' = Payload(f, f.id) /\ conn' = "up"
      \/ f.type = "HEADERS" /\ ~Found(f.id) /\ lstream < f.id /\ rx' = At("shrink", f, NoId) /\ conn' = "up"
  BY <1>1 DEF RecvData, RecvHeaders, Stop
<1>4. RxInv'
  <2>1. CASE rx' = NextFrame /\ conn' = "stop"
    BY <1>2, <2>1, RxDone
  <2>2. CASE Found(f.id) /\ rx' = Payload(f, f.id) /\ conn' = "up"
    <3>1. f.id \in 0..MaxId /\ f.id # NoId /\ stream'[f.id] # "none"
      BY <1>1, <1>2, <2>2, Constants DEF Found
    <3> QED BY <1>1, <1>2, <2>2, <3>1, PayloadIs
  <2>3. CASE f.type = "HEADERS" /\ ~Found(f.id) /\ lstream < f.id /\ rx' = At("shrink", f, NoId) /\ conn' = "up"
    <3>1. NewStream(f)'
      BY <1>1, <1>2, <2>3 DEF NewStream, Found
    <3>2. "shrink" \in RxPc /\ NoId \in 0..MaxId
      BY Constants DEF RxPc
    <3> QED BY <1>2, <2>3, <3>1, <3>2, RxSet
  <2> QED BY <1>3, <2>1, <2>2, <2>3
<1> QED BY <1>1, <1>4, PlaceStep

LEMMA ShrinkStep == ASSUME H2Inv, tfw_h2_closed_streams_shrink PROVE H2Inv'
<1> DEFINE i == Head(hclosed)
<1>1. rx.pc = "shrink" /\ conn = "up" /\ RemoveStream(i) /\ UNCHANGED <<lstream, rx, conn, term>>
  BY DEF tfw_h2_closed_streams_shrink, Receiving
<1>2. i \in Stored
  <2>1. hclosed \in Seq(StreamId) /\ hnum = Len(hclosed) /\ Range(hclosed) \subseteq Stored
    BY QueuedFound DEF H2Inv
  <2>2. hnum > MaxClosed /\ hnum \in Nat
    BY <2>1, LenProperties, Constants DEF tfw_h2_closed_streams_shrink, ShrinkDone
  <2>3. 1 \in 1..Len(hclosed) /\ i = hclosed[1]
    BY <2>1, <2>2, Constants
  <2> QED BY <2>1, <2>3, RangeIs
<1> HIDE DEF i
<1>3. StoreInv' /\ \A j \in StreamId : stream'[j] = IF j = i THEN "none" ELSE stream[j]
  BY <1>1, <1>2, RemoveStep DEF H2Inv
<1>4. RxInv'
  <2>1. rx.cur = NoId /\ NewStream(rx.f) /\ rx.f.id \in StreamId
    BY <1>1, FrameIs DEF H2Inv, RxInv, CurInv, NewStream
  <2>2. NewStream(rx.f)'
    BY <1>1, <1>3, <2>1 DEF NewStream
  <2>3. CurInv'
    BY <1>1, <2>1, <2>2 DEF CurInv
  <2>4. ClosedInv'
    BY <1>1, <1>3, NoneClosed DEF H2Inv, ClosedInv
  <2> QED BY <1>1, <2>3, <2>4 DEF H2Inv, RxInv, RxTypeOK
<1> QED BY <1>3, <1>4 DEF H2Inv

LEMMA ShrinkEndStep == ASSUME H2Inv, ShrinkEnd PROVE H2Inv'
<1>1. /\ UNCHANGED <<strVars, h2ReqVars>> /\ rx.pc = "shrink" /\ conn = "up"
      /\ \/ rx' = Payload(rx.f, NoId) /\ conn' = "up"
         \/ rx' = NextFrame /\ conn' \in {"up", "stop"}
  BY DEF ShrinkEnd, Receiving, Stop
<1>2. /\ \A i \in StreamId : stream'[i] # "CLOSED"
      /\ stream' = stream /\ lstream' = lstream
  BY <1>1, NoneClosed DEF H2Inv, strVars
<1>3. NewStream(rx.f) /\ App(rx.f) /\ rx.f \in Frame
  BY <1>1 DEF H2Inv, RxInv, CurInv, NewStream, App
<1>4. NoId \in 0..MaxId
  BY Constants
<1>5. RxInv'
  <2>1. CASE rx' = NextFrame /\ conn' \in {"up", "stop"}
    BY <1>2, <2>1, RxDone
  <2>2. CASE rx' = Payload(rx.f, NoId) /\ conn' = "up"
    <3>1. PICK f \in Frame : f = rx.f
      BY <1>3
    <3>2. App(f) /\ NewStream(f)' /\ rx' = Payload(f, NoId)
      BY <1>2, <1>3, <2>2, <3>1 DEF NewStream
    <3> QED BY <1>2, <1>4, <2>2, <3>2, PayloadIs
  <2> QED BY <1>1, <2>1, <2>2
<1> QED BY <1>1, <1>5, PlaceStep

(* PRIORITY, WINDOW_UPDATE and RST_STREAM move the stream.                  *)
LEMMA ServiceStep == ASSUME H2Inv, NEW f \in Frame, RecvService(f) PROVE H2Inv'
<1>1. /\ rx.pc = "header" /\ conn = "up" /\ f.id \in 0..MaxId
      /\ UNCHANGED <<msg, snum, hclosed, hnum, lstream, h2ReqVars>>
      /\ f.type = "RST_STREAM" => f.id \in StreamId
  BY FrameIs DEF RecvService, Receiving
<1>2. \A i \in StreamId : stream[i] # "CLOSED"
  BY <1>1, NoneClosed DEF H2Inv
<1>3. CASE stream' = stream /\ rx' = NextFrame /\ conn' = "stop"
  <2>1. RxInv'
    BY <1>2, <1>3, RxDone
  <2>2. UNCHANGED <<strVars, h2ReqVars>>
    BY <1>1, <1>3 DEF strVars
  <2> QED BY <2>1, <2>2, PlaceStep
<1>4. CASE stream' = stream /\ rx' = At("payload", f, NoId) /\ conn' = "up" /\ f.type # "RST_STREAM"
  <2>1. "payload" \in RxPc /\ NoId \in 0..MaxId
    BY Constants DEF RxPc
  <2>2. RxInv'
    BY <1>2, <1>4, <2>1, RxSet
  <2>3. UNCHANGED <<strVars, h2ReqVars>>
    BY <1>1, <1>4 DEF strVars
  <2> QED BY <2>2, <2>3, PlaceStep
<1>5. ASSUME NEW x, x = FsmRecv(stream[f.id], f), Found(f.id),
             stream' = [stream EXCEPT ![f.id] = x.st],
             \/ x.res = "TERM_CONN" /\ Stop
             \/ x.res = "IGNORE" /\ rx' = NextFrame /\ UNCHANGED conn
             \/ x.res = "OK" /\ rx' = At("payload", f, f.id) /\ UNCHANGED conn
      PROVE  H2Inv'
  <2>1. f.id \in Stored /\ f.id \in StreamId /\ stream[f.id] \in Open \cup Ended /\ f.id # NoId
    BY <1>2, <1>5, States, Constants DEF Found, Stored, H2Inv, StoreInv, StoreTypeOK
  <2>2. /\ x.st \in Open \cup Ended \cup {"CLOSED"} /\ (x.st \in Open => stream[f.id] \in Open)
        /\ x.st = "CLOSED" => f.type = "RST_STREAM" /\ x.res = "OK"
    BY <1>5, <2>1, Received
  <2>3. StoreInv'
    BY <1>1, <1>5, <2>1, <2>2, StateStep DEF H2Inv
  <2>4. /\ stream'[f.id] = x.st /\ x.st # "none"
        /\ \A i \in StreamId : i # f.id => stream'[i] # "CLOSED"
    BY <1>2, <1>5, <2>1, <2>2, States DEF H2Inv, StoreInv, StoreTypeOK
  <2>5. CASE x.res # "OK"
    <3>1. rx' = NextFrame /\ conn' \in {"up", "stop"}
      BY <1>1, <1>5, <2>5 DEF Stop
    <3>2. \A i \in StreamId : stream'[i] # "CLOSED"
      BY <2>2, <2>4, <2>5
    <3>3. RxInv'
      BY <3>1, <3>2, RxDone
    <3> QED BY <2>3, <3>3 DEF H2Inv
  <2>6. CASE x.res = "OK"
    <3>1. rx' = At("payload", f, f.id) /\ conn' = "up" /\ "payload" \in RxPc
      BY <1>1, <1>5, <2>6 DEF RxPc
    <3>2. \A i \in StreamId : stream'[i] = "CLOSED" => f.type = "RST_STREAM" /\ i = f.id
      BY <2>2, <2>4
    <3>3. RxInv'
      BY <1>1, <2>1, <2>4, <3>1, <3>2, RxSet
    <3> QED BY <2>3, <3>3 DEF H2Inv
  <2> QED BY <2>5, <2>6
<1>6. \/ stream' = stream /\ rx' = NextFrame /\ conn' = "stop"
      \/ stream' = stream /\ rx' = At("payload", f, NoId) /\ conn' = "up" /\ f.type # "RST_STREAM"
      \/ \E x : /\ x = FsmRecv(stream[f.id], f) /\ Found(f.id)
                /\ stream' = [stream EXCEPT ![f.id] = x.st]
                /\ \/ x.res = "TERM_CONN" /\ Stop
                   \/ x.res = "IGNORE" /\ rx' = NextFrame /\ UNCHANGED conn
                   \/ x.res = "OK" /\ rx' = At("payload", f, f.id) /\ UNCHANGED conn
  BY <1>1, Constants DEF RecvService, Stop
<1> QED BY <1>3, <1>4, <1>5, <1>6

LEMMA RstStep == ASSUME H2Inv, tfw_h2_rst_stream_process PROVE H2Inv'
<1>1. /\ rx.pc = "payload" /\ rx.f.type = "RST_STREAM" /\ conn = "up"
      /\ RemoveStream(rx.cur) /\ rx' = NextFrame /\ UNCHANGED <<lstream, conn, term>>
  BY DEF tfw_h2_rst_stream_process, Receiving
<1>2. rx.cur \in StreamId /\ rx.cur \in Stored
  BY <1>1, RxIs DEF H2Inv, RxInv, CurInv, Stored
<1>3. PICK i \in Stored : i = rx.cur
  BY <1>2
<1>4. StoreInv' /\ \A j \in StreamId : stream'[j] = IF j = i THEN "none" ELSE stream[j]
  BY <1>1, <1>3, RemoveStep DEF H2Inv
<1>5. \A j \in StreamId : stream'[j] # "CLOSED"
  BY <1>3, <1>4 DEF H2Inv, RxInv, ClosedInv
<1>6. RxInv'
  BY <1>1, <1>5, RxDone
<1> QED BY <1>4, <1>6 DEF H2Inv

(* A stream is reset by us: it is open, and is to be closed.                *)
LEMMA ResetStep ==
    ASSUME H2Inv, NEW done \in [pc : RxPc, f : Frame \cup {NoFrame}, cur : 0..MaxId],
           conn = "up", \A i \in StreamId : stream[i] # "CLOSED",
           done = NextFrame \/ done = At("up", rx.f, rx.cur),
           ResetStream(done), UNCHANGED <<msg, snum, hclosed, hnum, lstream, h2ReqVars, conn>>
    PROVE  H2Inv'
<1>1. CASE Found(rx.cur) /\ FsmSend(stream[rx.cur], "RST").res = "OK"
  <2> DEFINE s == FsmSend(stream[rx.cur], "RST").st
  <2>1. stream' = [stream EXCEPT ![rx.cur] = s] /\ rx' = [rx EXCEPT !.pc = "close"]
    BY <1>1 DEF ResetStream
  <2>2. rx.cur \in StreamId /\ rx.cur \in Stored /\ stream[rx.cur] \in StreamState
    BY <1>1 DEF Found, Stored, H2Inv, StoreInv, StoreTypeOK
  <2>3. stream[rx.cur] \in Open /\ s \in Ended
    BY <1>1, <2>2, Finished
  <2>4. PICK i \in Stored, z \in Ended, f \in Frame \cup {NoFrame} : i = rx.cur /\ z = s /\ f = rx.f
    BY <2>2, <2>3, RxIs DEF H2Inv, RxInv
  <2> HIDE DEF s
  <2>5. /\ z \in Open \cup Ended \cup {"CLOSED"} /\ z \notin Open /\ z # "none" /\ z # "CLOSED"
        /\ stream' = [stream EXCEPT ![i] = z] /\ i \in StreamId
    BY <2>1, <2>2, <2>4, States
  <2>6. StoreInv'
    BY <2>4, <2>5, StateStep DEF H2Inv
  <2>7. /\ stream'[i] = z /\ \A j \in StreamId : stream'[j] # "CLOSED"
    BY <2>5 DEF H2Inv, StoreInv, StoreTypeOK
  <2>8. term'[i] = 0
    BY <2>3, <2>4, <2>5 DEF H2Inv, StoreInv, TermInv, h2ReqVars
  <2>9. rx' = At("close", f, i) /\ "close" \in RxPc /\ i \in 0..MaxId /\ i # NoId
    BY <2>1, <2>4, <2>5, Constants DEF At, RxPc, H2Inv, RxInv, RxTypeOK
  <2>10. RxInv'
    BY <2>4, <2>5, <2>7, <2>8, <2>9, RxSet
  <2> QED BY <2>6, <2>10 DEF H2Inv
<1>2. CASE ~(Found(rx.cur) /\ FsmSend(stream[rx.cur], "RST").res = "OK")
  <2>1. rx' = done /\ stream' = stream
    BY <1>2 DEF ResetStream
  <2>2. UNCHANGED <<strVars, h2ReqVars>>
    BY <2>1 DEF strVars
  <2>3. RxInv'
    <3>1. CASE done = NextFrame
      BY <2>1, <3>1, RxDone
    <3>2. CASE done = At("up", rx.f, rx.cur)
      <4>1. PICK f \in Frame \cup {NoFrame}, i \in 0..MaxId : f = rx.f /\ i = rx.cur
        BY RxIs DEF H2Inv, RxInv
      <4>2. i # NoId => stream'[i] # "none"
        BY <2>1, <4>1 DEF H2Inv, RxInv, CurInv
      <4>3. rx' = At("up", f, i) /\ conn' = "up" /\ "up" \in RxPc
        BY <2>1, <3>2, <4>1 DEF RxPc
      <4> QED BY <2>1, <4>1, <4>2, <4>3, RxSet
    <3> QED BY <3>1, <3>2
  <2> QED BY <2>2, <2>3, PlaceStep
<1> QED BY <1>1, <1>2

LEMMA ServicePayloadStep == ASSUME H2Inv, ServicePayload PROVE H2Inv'
<1>1. /\ rx.pc = "payload" /\ rx.f.type # "RST_STREAM" /\ conn = "up"
      /\ UNCHANGED <<msg, snum, hclosed, hnum, lstream, h2ReqVars>>
  BY DEF ServicePayload, Receiving
<1>2. \A i \in StreamId : stream[i] # "CLOSED"
  BY <1>1, NoneClosed DEF H2Inv
<1>3. CASE stream' = stream /\ rx' = NextFrame /\ conn' \in {"up", "stop"}
  <2>1. RxInv'
    BY <1>2, <1>3, RxDone
  <2>2. UNCHANGED <<strVars, h2ReqVars>>
    BY <1>1, <1>3 DEF strVars
  <2> QED BY <2>1, <2>2, PlaceStep
<1>4. CASE ResetStream(NextFrame) /\ conn' = conn
  BY <1>1, <1>2, <1>4, ResetStep, NextFrameIs
<1> QED BY <1>1, <1>3, <1>4 DEF ServicePayload, Stop

(* An application frame moves its stream.                                   *)
LEMMA StateProcessStep ==
    ASSUME H2Inv, rx.pc = "app", conn = "up", rx.cur # NoId, StateProcess(rx.cur),
           UNCHANGED <<msg, snum, hclosed, hnum, lstream, h2ReqVars>>
    PROVE  H2Inv'
<1>1. \A i \in StreamId : stream[i] # "CLOSED"
  BY NoneClosed DEF H2Inv
<1>2. /\ rx.cur \in StreamId /\ rx.cur \in Stored /\ stream[rx.cur] \in Open \cup Ended
      /\ rx.f \in Frame \cup {NoFrame} /\ App(rx.f)
  BY <1>1, RxIs, States DEF H2Inv, RxInv, CurInv, Stored, StoreInv, StoreTypeOK
<1>10. PICK i \in Stored, f \in Frame \cup {NoFrame} : i = rx.cur /\ f = rx.f
  BY <1>2
<1>11. PICK x : x = FsmRecv(stream[i], f)
  OBVIOUS
<1>3. i = rx.cur /\ f = rx.f /\ x = FsmRecv(stream[i], f)
  BY <1>10, <1>11
<1>4. /\ stream' = [stream EXCEPT ![i] = x.st]
      /\ \/ x.res = "TERM_CONN" /\ Stop
         \/ x.res = "TERM_STREAM" /\ rx' = At("close", f, i) /\ UNCHANGED conn
         \/ x.res \in {"OK", "IGNORE"} /\ rx' = At("up", f, i) /\ UNCHANGED conn
  BY <1>3 DEF StateProcess
<1>5. /\ i \in StreamId /\ i # NoId /\ i \in 0..MaxId /\ stream[i] \in Open \cup Ended
      /\ f.type # "RST_STREAM"
  BY <1>2, <1>3, Constants DEF App
<1>6. /\ x.st \in Open \cup Ended /\ (x.st \in Open => stream[i] \in Open) /\ x.st # "none"
      /\ x.res = "TERM_STREAM" => stream[i] \in Open /\ x.st \in Ended
  <2>1. /\ x.st \in Open \cup Ended \cup {"CLOSED"} /\ (x.st \in Open => stream[i] \in Open)
        /\ x.st = "CLOSED" => f.type = "RST_STREAM"
        /\ x.res = "TERM_STREAM" => stream[i] \in Open /\ x.st \in Ended
    BY <1>3, <1>5, Received
  <2> QED BY <1>5, <2>1, States
<1>7. StoreInv'
  BY <1>4, <1>6, StateStep DEF H2Inv
<1>8. stream'[i] = x.st /\ \A j \in StreamId : stream'[j] # "CLOSED"
  BY <1>1, <1>4, <1>5, <1>6, States DEF H2Inv, StoreInv, StoreTypeOK
<1>9. RxInv'
  <2>1. CASE x.res = "TERM_CONN" /\ Stop
    BY <1>8, <2>1, RxDone DEF Stop
  <2>2. CASE x.res = "TERM_STREAM" /\ rx' = At("close", f, i) /\ UNCHANGED conn
    <3>1. term'[i] = 0
      BY <1>5, <1>6, <2>2 DEF H2Inv, StoreInv, TermInv, h2ReqVars
    <3>2. "close" \in RxPc /\ stream'[i] \in Ended /\ stream'[i] # "none"
      BY <1>6, <1>8, <2>2 DEF RxPc
    <3> QED BY <1>5, <1>8, <2>2, <3>1, <3>2, RxSet
  <2>3. CASE x.res \in {"OK", "IGNORE"} /\ rx' = At("up", f, i) /\ UNCHANGED conn
    <3>1. "up" \in RxPc /\ stream'[i] # "none"
      BY <1>6, <1>8 DEF RxPc
    <3> QED BY <1>5, <1>8, <2>3, <3>1, RxSet
  <2> QED BY <1>4, <2>1, <2>2, <2>3
<1> QED BY <1>7, <1>9 DEF H2Inv

LEMMA HeadersStep == ASSUME H2Inv, tfw_h2_headers_process PROVE H2Inv'
<1>1. /\ rx.pc = "app" /\ conn = "up" /\ rx.f.type = "HEADERS"
      /\ UNCHANGED <<msg, hclosed, hnum, h2ReqVars>>
  BY DEF tfw_h2_headers_process, Receiving
<1>2. \A i \in StreamId : stream[i] # "CLOSED"
  BY <1>1, NoneClosed DEF H2Inv
<1>3. CASE ResetStream([rx EXCEPT !.pc = "up"]) /\ UNCHANGED <<snum, lstream, conn>>
  <2>1. /\ [rx EXCEPT !.pc = "up"] = At("up", rx.f, rx.cur)
        /\ [rx EXCEPT !.pc = "up"] \in [pc : RxPc, f : Frame \cup {NoFrame}, cur : 0..MaxId]
    BY DEF At, RxPc, H2Inv, RxInv, RxTypeOK
  <2>2. PICK done \in [pc : RxPc, f : Frame \cup {NoFrame}, cur : 0..MaxId] : done = [rx EXCEPT !.pc = "up"]
    BY <2>1
  <2>3. ResetStream(done) /\ done = At("up", rx.f, rx.cur)
    BY <1>3, <2>1, <2>2
  <2> QED BY <1>1, <1>2, <1>3, <2>3, ResetStep
<1>4. CASE rx.cur # NoId /\ StateProcess(rx.cur) /\ UNCHANGED <<snum, lstream>>
  BY <1>1, <1>4, StateProcessStep
<1>5. CASE /\ rx.cur = NoId
           /\ stream' = [stream EXCEPT ![rx.f.id] = FsmRecv("OPENED", rx.f).st]
           /\ snum' = snum + 1 /\ lstream' = rx.f.id
           /\ rx' = At("up", rx.f, rx.f.id) /\ UNCHANGED conn
  <2>1. rx.f \in Frame /\ stream[rx.f.id] = "none" /\ lstream < rx.f.id
    BY <1>1, <1>5 DEF H2Inv, RxInv, CurInv, NewStream
  <2>2. FsmRecv("OPENED", rx.f).st \in Open
    BY <1>1, Created
  <2>3. PICK f \in Frame, s \in Open : f = rx.f /\ s = FsmRecv("OPENED", rx.f).st
    BY <2>1, <2>2
  <2>4. f.id \in StreamId /\ f.id \in 0..MaxId /\ s # "none" /\ s # "CLOSED"
    BY <1>1, <2>3, FrameIs, States
  <2>5. /\ stream[f.id] = "none" /\ lstream < f.id
        /\ stream' = [stream EXCEPT ![f.id] = s] /\ lstream' = f.id
        /\ rx' = At("up", f, f.id) /\ conn' = "up"
    BY <1>1, <1>5, <2>1, <2>3
  <2>6. StoreInv'
    BY <1>1, <1>5, <2>3, <2>4, <2>5, CreateStep DEF H2Inv
  <2>7. stream'[f.id] = s /\ \A j \in StreamId : stream'[j] # "CLOSED"
    BY <1>2, <2>4, <2>5 DEF H2Inv, StoreInv, StoreTypeOK
  <2>8. "up" \in RxPc
    BY DEF RxPc
  <2>9. RxInv'
    BY <2>4, <2>5, <2>7, <2>8, RxSet
  <2> QED BY <2>6, <2>9 DEF H2Inv
<1>6. CASE Stop /\ UNCHANGED <<stream, snum, lstream>>
  <2>1. RxInv'
    BY <1>2, <1>6, RxDone DEF Stop
  <2>2. UNCHANGED <<strVars, h2ReqVars>>
    BY <1>1, <1>6 DEF strVars
  <2> QED BY <2>1, <2>2, PlaceStep
<1> QED BY <1>3, <1>4, <1>5, <1>6 DEF tfw_h2_headers_process

LEMMA DataStep == ASSUME H2Inv, tfw_h2_stream_state_process PROVE H2Inv'
<1>1. /\ rx.pc = "app" /\ conn = "up" /\ rx.f.type # "HEADERS" /\ StateProcess(rx.cur)
      /\ UNCHANGED <<msg, snum, hclosed, hnum, lstream, h2ReqVars>>
  BY DEF tfw_h2_stream_state_process, Receiving
<1>2. rx.cur # NoId
  BY <1>1 DEF H2Inv, RxInv, CurInv, NewStream
<1> QED BY <1>1, <1>2, StateProcessStep

LEMMA StreamCloseStep == ASSUME H2Inv, tfw_h2_stream_close PROVE H2Inv'
<1>1. /\ rx.pc = "close" /\ conn = "up" /\ AddClosed(rx.cur)
      /\ UNCHANGED <<stream, msg, snum, lstream, life, rstream>>
      /\ \/ /\ Sent(rx.cur) /\ conn' = "up"
            /\ rx' = IF App(rx.f) THEN At("up", rx.f, NoId) ELSE NextFrame
         \/ Stop /\ UNCHANGED term
  BY DEF tfw_h2_stream_close, Receiving
<1>2. \A i \in StreamId : stream'[i] # "CLOSED"
  BY <1>1, NoneClosed DEF H2Inv
<1>3. rx.cur \in Stored /\ stream[rx.cur] \in Ended /\ term[rx.cur] = 0
  BY <1>1, RxIs DEF H2Inv, RxInv, CurInv, Stored
<1>4. PICK i \in Stored : i = rx.cur
  BY <1>3
<1>5. StoreInv'
  BY <1>1, <1>3, <1>4, CloseStep DEF H2Inv
<1>6. CASE rx' = NextFrame /\ conn' \in {"up", "stop"}
  BY <1>2, <1>5, <1>6, RxDone DEF H2Inv
<1>7. CASE rx' = At("up", rx.f, NoId) /\ conn' = "up"
  <2>1. PICK f \in Frame \cup {NoFrame} : f = rx.f
    BY RxIs DEF H2Inv, RxInv
  <2>2. "up" \in RxPc /\ NoId \in 0..MaxId /\ rx' = At("up", f, NoId)
    BY <1>7, <2>1, Constants DEF RxPc
  <2>3. RxInv'
    BY <1>2, <1>7, <2>2, RxSet
  <2> QED BY <1>5, <2>3 DEF H2Inv
<1> QED BY <1>1, <1>6, <1>7 DEF Stop

LEMMA UpFailedStep == ASSUME H2Inv, UpFailed PROVE H2Inv'
<1>1. /\ rx.pc = "up" /\ UNCHANGED <<strVars, h2ReqVars>>
      /\ rx' = NextFrame /\ conn' \in {"up", "stop"}
  BY DEF UpFailed, Receiving, Stop
<1>2. \A i \in StreamId : stream'[i] # "CLOSED"
  BY <1>1, NoneClosed DEF H2Inv, strVars
<1> QED BY <1>1, <1>2, RxDone, PlaceStep

(* What the receive flow has when it hands a frame up.                      *)
LEMMA UpIs ==
    ASSUME H2Inv, rx.pc = "up", rx.cur # NoId
    PROVE  /\ rx.cur \in StreamId /\ rx.cur \in Stored /\ \A i \in StreamId : stream[i] # "CLOSED"
           /\ msg[rx.cur] # NoMsg => /\ msg[rx.cur] \in H2Req /\ rstream[msg[rx.cur]] = rx.cur
                                     /\ life[msg[rx.cur]] \in {"parsing", "ready", "lost"}
<1>1. rx.cur \in StreamId /\ rx.cur \in Stored
  BY RxIs DEF H2Inv, RxInv, CurInv, Stored
<1>2. \A i \in StreamId : stream[i] # "CLOSED"
  BY NoneClosed DEF H2Inv
<1>3. msg[rx.cur] # NoMsg => /\ msg[rx.cur] \in H2Req /\ rstream[msg[rx.cur]] = rx.cur
                             /\ life[msg[rx.cur]] \in {"parsing", "ready", "lost"}
  BY <1>1, Constants DEF H2Inv, StoreInv, StoreTypeOK, LinkedBothWays
<1> QED BY <1>1, <1>2, <1>3

LEMMA UpAllocStep == ASSUME H2Inv, UpAlloc PROVE H2Inv'
<1>1. PICK r \in H2Req : /\ life[r] = "none" /\ msg' = [msg EXCEPT ![rx.cur] = r]
                         /\ life' = [life EXCEPT ![r] = "parsing"]
                         /\ rstream' = [rstream EXCEPT ![r] = rx.cur]
  BY DEF UpAlloc
<1>2. /\ rx.pc = "up" /\ rx.cur # NoId /\ msg[rx.cur] = NoMsg
      /\ UNCHANGED <<stream, snum, hclosed, hnum, lstream, rx, conn, term>>
  BY DEF UpAlloc, Receiving
<1>3. PICK i \in Stored : i = rx.cur
  BY <1>2, UpIs
<1>4. StoreInv'
  BY <1>1, <1>2, <1>3, AllocStep DEF H2Inv
<1>5. Under
  BY <1>2 DEF Under
<1>6. RxInv'
  BY <1>2, <1>5, RxUnder DEF H2Inv
<1> QED BY <1>4, <1>6 DEF H2Inv

(* The request of the current stream takes another life.                    *)
LEMMA UpLifeStep ==
    ASSUME H2Inv, rx.pc = "up", rx.cur # NoId, msg[rx.cur] # NoMsg, NEW l \in {"ready", "lost"},
           life' = [life EXCEPT ![msg[rx.cur]] = l] \/ life' = life,
           rx' = NextFrame, conn' \in {"up", "stop"}, UNCHANGED <<strVars, rstream, term>>
    PROVE  H2Inv'
<1>1. msg[rx.cur] \in H2Req /\ \A i \in StreamId : stream'[i] # "CLOSED"
  BY UpIs DEF strVars
<1>2. life' \in [H2Req -> Life] /\ \A q \in H2Req : life'[q] = l \/ life'[q] = life[q]
  BY <1>1 DEF H2Inv, StoreInv, StoreTypeOK, Life
<1>3. \A j \in StreamId : msg[j] # NoMsg => msg[j] \in H2Req /\ life[msg[j]] \in {"parsing", "ready", "lost"}
  BY Constants DEF H2Inv, StoreInv, StoreTypeOK, LinkedBothWays
<1>4. StoreInv'
  BY <1>2, <1>3, LifeStep DEF H2Inv
<1>5. RxInv'
  BY <1>1, RxDone
<1> QED BY <1>4, <1>5 DEF H2Inv

LEMMA UpParsedStep == ASSUME H2Inv, UpParsed \/ UpLinkFailed PROVE H2Inv'
<1>1. /\ rx.pc = "up" /\ rx.cur # NoId /\ msg[rx.cur] # NoMsg /\ rx' = NextFrame
      /\ conn' \in {"up", "stop"} /\ UNCHANGED <<strVars, rstream, term>>
      /\ \/ life' = [life EXCEPT ![msg[rx.cur]] = "ready"] \/ life' = life
         \/ life' = [life EXCEPT ![msg[rx.cur]] = "lost"]
  BY DEF UpParsed, UpLinkFailed, Receiving, Stop
<1> QED BY <1>1, UpLifeStep

LEMMA UpBlockedStep == ASSUME H2Inv, UpBlocked PROVE H2Inv'
<1>1. /\ rx.pc = "up" /\ rx.cur # NoId /\ msg[rx.cur] # NoMsg /\ rx' = NextFrame /\ conn' = "stop"
      /\ UNCHANGED <<snum, lstream>>
  BY DEF UpBlocked, Receiving, Stop
<1>2. PICK t \in {"END_STREAM", "RST"} : StreamIdClose(msg[rx.cur], t)
  BY DEF UpBlocked
<1>3. PICK r \in H2Req : r = msg[rx.cur]
  BY <1>1, UpIs
<1>4. "freed" \in Life /\ life' = [life EXCEPT ![r] = "freed"] /\ StreamIdClose(r, t)
  BY <1>2, <1>3 DEF Life, UpBlocked
<1>5. StoreInv' /\ Under
  BY <1>1, <1>4, IdCloseStep DEF H2Inv
<1>6. \A i \in StreamId : stream'[i] # "CLOSED"
  BY <1>1, <1>5, UpIs DEF Under
<1>7. RxInv'
  BY <1>1, <1>6, RxDone
<1> QED BY <1>5, <1>7 DEF H2Inv

-----------------------------------------------------------------------------
(* Responses and the end of the connection                                  *)

LEMMA RespondStep == ASSUME H2Inv, NEW r \in H2Req, H2Respond(r) \/ RespondNone(r) PROVE H2Inv'
<1>1. PICK t \in {"END_STREAM", "RST", "NONE"}, l \in Life :
        StreamIdClose(r, t) /\ life' = [life EXCEPT ![r] = l]
  <2>1. "sending" \in Life /\ "freed" \in Life
    BY DEF Life
  <2>2. CASE H2Respond(r)
    BY <2>1, <2>2 DEF H2Respond
  <2>3. CASE RespondNone(r)
    BY <2>1, <2>3 DEF RespondNone
  <2> QED BY <2>2, <2>3
<1>2. UNCHANGED <<snum, lstream, rx, conn>>
  BY DEF H2Respond, RespondNone
<1>3. StoreInv' /\ Under
  BY <1>1, <1>2, IdCloseStep DEF H2Inv
<1>4. RxInv'
  BY <1>2, <1>3, RxUnder DEF H2Inv
<1> QED BY <1>3, <1>4 DEF H2Inv

LEMMA FwdStep == ASSUME H2Inv, NEW r \in H2Req, tfw_h2_resp_fwd(r) PROVE H2Inv'
<1>1. /\ life[r] = "sending" /\ life' = [life EXCEPT ![r] = "freed"]
      /\ UNCHANGED <<strVars, rstream, term>>
      /\ UNCHANGED <<rx, conn>> \/ (rx.pc = "header" /\ rx' = NextFrame /\ conn' = "stop")
  BY DEF tfw_h2_resp_fwd, Stop
<1>2. life' \in [H2Req -> Life] /\ \A q \in H2Req : q # r => life'[q] = life[q]
  BY <1>1 DEF H2Inv, StoreInv, StoreTypeOK, Life
<1>3. \A j \in StreamId : msg[j] # NoMsg => msg[j] \in H2Req /\ life[msg[j]] \in {"parsing", "ready", "lost"}
  BY Constants DEF H2Inv, StoreInv, StoreTypeOK, LinkedBothWays
<1>4. \A j \in StreamId : msg[j] # NoMsg => life'[msg[j]] \in {"parsing", "ready", "lost"}
  BY <1>1, <1>2, <1>3
<1>5. StoreInv' /\ Under
  BY <1>1, <1>2, <1>4, LifeStep DEF H2Inv
<1>6. CASE UNCHANGED <<rx, conn>>
  <2>1. lstream' = lstream
    BY <1>1 DEF strVars
  <2> QED BY <1>5, <1>6, <2>1, RxUnder DEF H2Inv
<1>7. CASE rx.pc = "header" /\ rx' = NextFrame /\ conn' = "stop"
  <2>1. \A i \in StreamId : stream'[i] # "CLOSED"
    BY <1>5, <1>7, NoneClosed DEF H2Inv, Under
  <2> QED BY <1>5, <1>7, <2>1, RxDone DEF H2Inv
<1> QED BY <1>1, <1>6, <1>7

LEMMA DropStep == ASSUME H2Inv, Drop PROVE H2Inv'
<1>1. /\ UNCHANGED <<strVars, h2ReqVars>> /\ rx' = NextFrame /\ conn' = "drop"
      /\ conn # "up" \/ rx.pc \in {"preface", "settings", "header"}
  BY DEF Drop
<1>2. rx.pc # "payload"
  BY <1>1, NextFrameIs DEF H2Inv, RxInv
<1>3. \A i \in StreamId : stream'[i] # "CLOSED"
  BY <1>1, <1>2, NoneClosed DEF H2Inv, strVars
<1> QED BY <1>1, <1>3, RxDone, PlaceStep

LEMMA CleanupStep == ASSUME H2Inv, tfw_h2_conn_streams_cleanup PROVE H2Inv'
<1>1. /\ conn = "drop" /\ rx = NextFrame /\ rx' = NextFrame /\ UNCHANGED <<lstream, term>>
  BY DEF tfw_h2_conn_streams_cleanup, H2Inv, RxInv
<1>2. \A i \in StreamId : stream[i] # "CLOSED"
  BY <1>1, NextFrameIs, NoneClosed DEF H2Inv
<1>3. CASE \E i \in StreamId : Found(i) /\ RemoveStream(i) /\ UNCHANGED conn
  <2>1. PICK i \in Stored : RemoveStream(i) /\ conn' = "drop"
    BY <1>1, <1>3 DEF Found, Stored
  <2>2. StoreInv' /\ \A j \in StreamId : stream'[j] = IF j = i THEN "none" ELSE stream[j]
    BY <1>1, <2>1, RemoveStep DEF H2Inv
  <2>3. \A j \in StreamId : stream'[j] # "CLOSED"
    BY <1>2, <2>2
  <2> QED BY <1>1, <2>1, <2>2, <2>3, RxDone DEF H2Inv
<1>4. CASE conn' = "gone" /\ UNCHANGED <<stream, msg, snum, hclosed, hnum, life, rstream>>
  <2>1. UNCHANGED <<strVars, h2ReqVars>>
    BY <1>1, <1>4 DEF strVars, h2ReqVars
  <2> QED BY <1>1, <1>2, <1>4, <2>1, RxDone, PlaceStep
<1> QED BY <1>3, <1>4 DEF tfw_h2_conn_streams_cleanup

-----------------------------------------------------------------------------
(* The theorem                                                              *)

LEMMA H2Start == ASSUME H2Init PROVE H2Inv
<1>1. /\ \A i \in StreamId : stream[i] = "none" /\ msg[i] = NoMsg /\ term[i] = 0
      /\ \A r \in H2Req : rstream[r] = NoId
      /\ hclosed = <<>>
  BY DEF H2Init
<1>2. StoreTypeOK
  BY NothingIn, Constants DEF H2Init, StoreTypeOK, StreamState, Life
<1>3. Stored = {}
  BY <1>1 DEF Stored
<1>4. CountInv
  BY <1>1, <1>3, NothingIn, FS_EmptySet DEF CountInv, H2Init
<1>5. LinkedBothWays
  BY <1>1 DEF LinkedBothWays
<1>6. TermInv
  BY <1>1, States DEF TermInv
<1>7. RxInv
  <2>1. rx = At("preface", NoFrame, NoId) /\ conn = "up"
    BY DEF H2Init
  <2>2. rx.pc = "preface" /\ rx.cur = NoId /\ RxTypeOK
    BY <2>1, AtIs, Constants DEF RxTypeOK, RxPc
  <2> QED BY <1>1, <2>1, <2>2 DEF RxInv, CurInv, ClosedInv
<1> QED BY <1>2, <1>4, <1>5, <1>6, <1>7 DEF H2Inv, StoreInv

LEMMA H2Steps == ASSUME H2Inv, [H2Next]_h2Vars PROVE H2Inv'
<1>1. CASE UNCHANGED h2Vars
  <2>1. UNCHANGED <<strVars, h2ReqVars>> /\ UNCHANGED <<rx, conn, lstream>>
    BY <1>1 DEF h2Vars, strVars
  <2>2. StoreInv' /\ Under
    BY <2>1, StoreKept DEF H2Inv
  <2> QED BY <2>1, <2>2, RxUnder DEF H2Inv
<1>2. CASE Preface \/ tfw_h2_first_settings_verify \/ FrameError
  BY <1>2, PrefaceStep
<1>3. CASE \E f \in Frame : RecvData(f) \/ RecvHeaders(f) \/ RecvService(f)
  BY <1>3, HeaderStep, ServiceStep
<1>4. CASE Receive
  BY <1>4, ShrinkStep, ShrinkEndStep, RstStep, ServicePayloadStep, HeadersStep, DataStep,
     StreamCloseStep, UpFailedStep, UpAllocStep, UpParsedStep, UpBlockedStep DEF Receive
<1>5. CASE \E r \in H2Req : Process(r)
  BY <1>5, RespondStep, FwdStep DEF Process
<1>6. CASE Drop \/ tfw_h2_conn_streams_cleanup
  BY <1>6, DropStep, CleanupStep
<1> QED BY <1>1, <1>2, <1>3, <1>4, <1>5, <1>6 DEF H2Next

LEMMA H2Safe == ASSUME H2Inv PROVE StreamsSound
<1>1. StreamsCounted
  <2>1. Stored = {i \in StreamId : Found(i)}
    BY DEF Stored, Found
  <2>2. Cardinality(Range(hclosed)) = Len(hclosed)
    BY QueuedFound, Counted DEF H2Inv
  <2>3. \A i \in Range(hclosed) : Found(i)
    BY QueuedFound DEF H2Inv, Stored, Found
  <2>4. rx.cur # NoId => Found(rx.cur)
    BY RxIs DEF H2Inv, RxInv, CurInv, Found
  <2> QED BY <2>1, <2>2, <2>3, <2>4 DEF StreamsCounted, H2Inv, StoreInv, CountInv
<1>2. EndedOnce
  <2>1. \A i \in StreamId : term[i] \in 0..1
    BY DEF H2Inv, StoreInv, StoreTypeOK
  <2> QED BY <2>1 DEF EndedOnce
<1> QED BY <1>1, <1>2 DEF StreamsSound, ClosedNotFound, H2Inv, StoreInv, RxInv, ClosedInv

(* The storage of streams is sound for every number of streams, requests    *)
(* and closed streams: the counters of the context, the links between       *)
(* requests and streams, the BUG of tfw_h2_stream_fsm and the one end of a  *)
(* stream, whatever the receive flow, the responding CPUs and the clean-up  *)
(* of the connection do in between.                                         *)
THEOREM StreamsAlwaysSound == H2Spec => []StreamsSound
<1>1. H2Init => H2Inv
  BY H2Start
<1>2. H2Inv /\ [H2Next]_h2Vars => H2Inv'
  BY H2Steps
<1>3. H2Inv => StreamsSound
  BY H2Safe
<1> QED BY <1>1, <1>2, <1>3, PTL DEF H2Spec

=============================================================================
