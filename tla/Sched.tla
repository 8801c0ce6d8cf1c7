------------------------------- MODULE Sched --------------------------------
(***************************************************************************)
(* The schedulers: which connection of a server group a request goes to.   *)
(* http_sched_ratio.c takes servers in turn by ratios that follow from     *)
(* configured weights, from response times or from predicted ones, and the *)
(* connections of a server round-robin; http_sched_hash.c takes the        *)
(* connection whose hash is close to the one of the request.  A timer      *)
(* computes the ratios anew until the group is deleted.                    *)
(***************************************************************************)
EXTENDS Integers, Sequences, FiniteSets, FiniteSetsExt, SequencesExt, TLC

CONSTANTS
  SchedEnv,     \* [kind, w, conns, off, hashes, msg, times, direct, rounds]: weights, connections,
                \* response times, servers asked for directly and a bound of picks and timer ticks
  MUL,          \* 1000: fixed-point arithmetic of predictions
  SlotN, Ahead, \* of predictions: slots of history and how far to look
  HashMax       \* ULONG_MAX

VARIABLES
  scenv,
  rto,          \* rtodata: [srv, csidx, riter, reidx, crsum, orsum]
  rr,           \* srvdesc->counter, round-robin over the connections of a server
  hst,          \* hstdata: [counter, d]
  got,          \* how often each server was taken in this round
  pick,         \* the last choice
  timer, grp,   \* the timer of the ratios and the group
  turns
schedVars == <<scenv, rto, rr, hst, got, pick, timer, grp, turns>>

N == Len(scenv.w)
CDiv(a, b) == IF (a < 0) = (b < 0) THEN (IF a < 0 THEN (-a) \div (-b) ELSE a \div b)
              ELSE IF a < 0 THEN -((-a) \div b) ELSE -(a \div (-b))
OrOne(x) == IF x = 0 THEN 1 ELSE x
SumSeq(s) == FoldSeq(LAMBDA a, b : a + b, 0, s)
Unit == [i \in 1 .. N |-> [sdidx |-> i, weight |-> 1, oratio |-> 1, cratio |-> 1]]
Rto(srv) == LET sum == SumSeq([i \in 1 .. N |-> srv[i].oratio])
            IN  [srv |-> srv, csidx |-> 0, riter |-> 1, reidx |-> N, crsum |-> sum, orsum |-> sum]
-----------------------------------------------------------------------------
(* ratio[i] = (max + N) * max / sum * weight[i] / max, at least 1 *)
tfw_sched_ratio_calc(w) ==
  LET max == Max({w[i] : i \in 1 .. N})
      unit == ((max + N) * max) \div SumSeq(w)
      o(i) == OrOne((unit * w[i]) \div max)
  IN  [i \in 1 .. N |-> [sdidx |-> i, weight |-> w[i], oratio |-> o(i), cratio |-> o(i)]]
Same(srv) == \A i \in 1 .. N : srv[i].oratio = srv[1].oratio
(* sort() by ratio, in descending order *)
tfw_sched_ratio_srvdata_cmp(srv) ==
  SortSeq(srv, LAMBDA a, b : a.oratio > b.oratio \/ (a.oratio = b.oratio /\ a.sdidx < b.sdidx))
tfw_sched_ratio_calc_static(w) ==
  IF \A i \in 1 .. N : w[i] = w[1] THEN Unit
  ELSE LET srv == tfw_sched_ratio_calc(w) IN IF Same(srv) THEN srv ELSE tfw_sched_ratio_srvdata_cmp(srv)

(* Greater times shall have lesser ratios: the greatest ratio and 1 change   *)
(* places, the servers between them are reversed.                           *)
ReverseIds(srv, left, right) ==
  [i \in 1 .. N |-> IF i \in left .. right THEN [srv[i] EXCEPT !.sdidx = srv[left + right - i].sdidx] ELSE srv[i]]
(* mutant: the servers in between keep the order of their times *)
CalcDynamicHalf(w) ==
  LET srv == tfw_sched_ratio_calc(w)
      max == Max({srv[i].oratio : i \in 1 .. N})
      swap(e) == IF e.oratio = 1 THEN [e EXCEPT !.oratio = max, !.cratio = max]
                 ELSE IF e.oratio = max THEN [e EXCEPT !.oratio = 1, !.cratio = 1] ELSE e
  IN  IF Same(srv) THEN srv ELSE tfw_sched_ratio_srvdata_cmp([i \in 1 .. N |-> swap(srv[i])])
__tfw_sched_ratio_calc_dynamic(w) ==
  LET srv == tfw_sched_ratio_calc(w)
      max == Max({srv[i].oratio : i \in 1 .. N})
      has_one == \E i \in 1 .. N : srv[i].oratio = 1
      swap(e) == IF e.oratio = 1 THEN [e EXCEPT !.oratio = max, !.cratio = max]
                 ELSE IF e.oratio = max THEN [e EXCEPT !.oratio = 1, !.cratio = 1] ELSE e
      s == tfw_sched_ratio_srvdata_cmp([i \in 1 .. N |-> IF has_one THEN swap(srv[i]) ELSE srv[i]])
      maxes == {i \in 1 .. N : s[i].oratio = max}
      ones == {i \in 1 .. N : s[i].oratio = 1}
  IN  IF Same(srv) THEN srv
      ELSE IF has_one THEN ReverseIds(s, Max(maxes) + 1, Min(ones) - 1) ELSE ReverseIds(s, 1, N)

(* Linear regression over the last SlotN measurements, kept as averages. *)
NoDesc == [cnt_avg |-> 0, rtt_avg |-> 0, cnt_rtt_avg |-> 0, cnt_sq_avg |-> 0,
           hist |-> [i \in 0 .. SlotN - 1 |-> [cnt |-> 0, rtt |-> 0]]]
Averaged(d, counter, rtt) ==
  LET ni == counter % SlotN
      cnt == counter * MUL
      h == d.hist[ni]
      more(avg, x) == CDiv(avg * ni + x, ni + 1)
      slide(avg, old, x) == avg - CDiv(old - x, SlotN)
      in(avg, old, x) == IF counter < SlotN THEN more(avg, x) ELSE slide(avg, old, x)
  IN  [cnt_avg |-> in(d.cnt_avg, h.cnt, cnt), rtt_avg |-> in(d.rtt_avg, h.rtt, rtt),
       cnt_rtt_avg |-> in(d.cnt_rtt_avg, h.cnt * h.rtt, cnt * rtt),
       cnt_sq_avg |-> in(d.cnt_sq_avg, h.cnt * h.cnt, cnt * cnt),
       hist |-> [d.hist EXCEPT ![ni] = [cnt |-> cnt, rtt |-> rtt]]]
Predicted(d, ahead) ==
  LET sq == d.cnt_sq_avg - d.cnt_avg * d.cnt_avg
      b == IF sq = 0 THEN (IF d.cnt_avg = 0 THEN 1 ELSE CDiv(d.rtt_avg, d.cnt_avg))
           ELSE CDiv(d.cnt_rtt_avg - d.cnt_avg * d.rtt_avg, sq)
      a == IF sq = 0 THEN 0 ELSE CDiv(d.rtt_avg - b * d.cnt_avg, MUL)
      p == a + b * ahead
  IN  IF p <= 0 THEN 1 ELSE p
tfw_sched_ratio_calc_predict(rtt) ==
  LET d == [i \in 1 .. N |-> Averaged(hst.d[i], hst.counter, OrOne(rtt[i]) * MUL)]
  IN  [d |-> d, w |-> [i \in 1 .. N |-> Predicted(d[i], hst.counter + Ahead)]]
-----------------------------------------------------------------------------
(* Under schdata->lock; indices from 0 as in the code.  The loop gives up    *)
(* after fuel steps, which is never to happen.                              *)
tfw_sched_ratio_is_srv_turn(t) ==
  LET at(k) == t.srv[k + 1]
      head == (at(0).cratio + at(t.csidx - 1).cratio) * t.csidx
      last == IF at(N - 1).cratio = 0 THEN at(N - 1).oratio ELSE at(N - 1).cratio
      tail == (at(t.csidx).cratio + last) * (N - t.csidx)
  IN  t.csidx = 0 \/ tail * t.riter > head
Wrapped(t) == IF t.csidx + 1 = N THEN [t EXCEPT !.csidx = 0, !.riter = 1] ELSE [t EXCEPT !.csidx = @ + 1]
(* mutant: ratios are armed anew without an account of how far that went *)
TakenUnarmed(t) ==
  LET d == [t EXCEPT !.srv[t.csidx + 1].cratio = @ - 1, !.crsum = @ - 1]
  IN  IF d.crsum = 0 THEN [d EXCEPT !.csidx = 0, !.riter = 1, !.crsum = d.orsum, !.reidx = N] ELSE Wrapped(d)
Taken(t) ==
  LET d == [t EXCEPT !.srv[t.csidx + 1].cratio = @ - 1, !.crsum = @ - 1]
  IN  IF d.crsum = 0 THEN [d EXCEPT !.csidx = 0, !.riter = 1, !.crsum = d.orsum, !.reidx = 0] ELSE Wrapped(d)
RECURSIVE NextSrv(_, _)
NextSrv(t, fuel) ==
  LET k == t.csidx
      armed == [t EXCEPT !.srv[k + 1].cratio = t.srv[k + 1].oratio, !.reidx = @ + 1]
      u == IF t.srv[k + 1].cratio = 0 THEN armed ELSE t
  IN  IF fuel = 0 THEN [t |-> t, sd |-> 0, bug |-> FALSE]
      ELSE IF t.srv[k + 1].cratio = 0 /\ t.reidx # k THEN NextSrv(Wrapped(t), fuel - 1)
      ELSE IF tfw_sched_ratio_is_srv_turn(u)
      THEN [t |-> Taken(u), sd |-> u.srv[k + 1].sdidx, bug |-> u.crsum # 1 /\ k + 1 = N /\ u.reidx # N]
      ELSE NextSrv([u EXCEPT !.csidx = 0, !.riter = @ + 1], fuel - 1)
tfw_sched_ratio_next_srv(t) == NextSrv(t, 100)

(* The connections of a server in turn: 0 or the first that may be used.     *)
(* A connection is "ok", "nip" (a non-idempotent request waits), "busy"      *)
(* (restricted, reconnecting or full) or "dead".                             *)
__sched_srv(i, counter, skipnip) ==
  LET cs == scenv.conns[i]
      at(k) == ((counter + k) % Len(cs)) + 1
      fit == {k \in 1 .. Len(cs) : cs[at(k)] = "ok" \/ (cs[at(k)] = "nip" /\ ~skipnip)}
      n == IF fit = {} THEN Len(cs) ELSE Min(fit)
  IN  [conn |-> IF fit = {} THEN 0 ELSE at(n), counter |-> counter + n,
       nip |-> skipnip /\ \E k \in 1 .. n : cs[at(k)] = "nip"]
RECURSIVE SgAttempts(_, _)
SgAttempts(x, attempts) ==
  LET s == tfw_sched_ratio_next_srv(x.t)
      c == __sched_srv(s.sd, x.rr[s.sd], x.skipnip)
      y == [x EXCEPT !.t = s.t, !.seen = @ \cup {s.sd}, !.bug = @ \/ s.bug, !.took = Append(@, s.sd)]
      z == [y EXCEPT !.rr[s.sd] = c.counter, !.nip = @ \/ c.nip]
  IN  IF attempts = 0 THEN x
      ELSE IF s.sd = 0 THEN [y EXCEPT !.stuck = TRUE]
      ELSE IF s.sd \in scenv.off THEN SgAttempts(y, attempts - 1)
      ELSE IF c.conn # 0 THEN [z EXCEPT !.srv = s.sd, !.conn = c.conn]
      ELSE SgAttempts(z, attempts - 1)
tfw_sched_ratio_sched_sg_conn ==
  LET x == SgAttempts([t |-> rto, rr |-> rr, skipnip |-> TRUE, nip |-> FALSE, seen |-> {}, took |-> <<>>, bug |-> FALSE,
                       stuck |-> FALSE, srv |-> 0, conn |-> 0], N)
  IN  IF x.conn = 0 /\ x.nip THEN SgAttempts([x EXCEPT !.skipnip = FALSE], N) ELSE x
tfw_sched_ratio_sched_srv_conn(i) ==
  LET a == __sched_srv(i, rr[i], TRUE)
      b == __sched_srv(i, a.counter, FALSE)
  IN  IF i \in scenv.off THEN [conn |-> 0, counter |-> rr[i]]
      ELSE IF a.conn = 0 /\ a.nip THEN b ELSE a
-----------------------------------------------------------------------------
(* http_sched_hash.c: hashes is ascending, an entry [hash, srv, ok]. *)
RECURSIVE Bsearch(_, _, _, _)
Bsearch(hash, cl, start, end) ==
  LET mid == start + (end - start) \div 2
  IN  IF start >= end THEN start
      ELSE IF hash < cl[mid + 1].hash THEN Bsearch(hash, cl, start, mid)
      ELSE IF hash > cl[mid + 1].hash THEN Bsearch(hash, cl, mid + 1, end) ELSE mid
__bsearch(hash, cl) == Bsearch(hash, cl, 0, Len(cl) - 1)
__is_conn_suitable(e) == e.ok /\ e.srv \notin scenv.off
Wrap(x) == x % (HashMax + 1)
RECURSIVE Neighbour(_, _, _, _)
Neighbour(best, cl, l, r) ==
  LET ld == IF l >= 0 THEN Wrap(best - cl[l + 1].hash) ELSE HashMax
      rd == IF r < Len(cl) THEN Wrap(cl[r + 1].hash - best) ELSE HashMax
      i == IF ld <= rd THEN l ELSE r
  IN  IF l < 0 /\ r >= Len(cl) THEN -1
      ELSE IF __is_conn_suitable(cl[i + 1]) THEN i
      ELSE IF ld <= rd THEN Neighbour(best, cl, l - 1, r) ELSE Neighbour(best, cl, l, r + 1)
__find_best_conn(msg, cl) ==
  LET best == HashMax - msg
      i == __bsearch(best, cl)
  IN  IF cl = <<>> THEN -1 ELSE IF __is_conn_suitable(cl[i + 1]) THEN i ELSE Neighbour(best, cl, i - 1, i + 1)
(* mutant: a connection beyond the last one is put before it *)
AddConnBefore(cl, e) ==
  LET i == __bsearch(e.hash, cl) IN IF cl = <<>> THEN <<e>> ELSE InsertAt(cl, i + 1, e)
__add_conn(cl, e) ==
  LET i == __bsearch(e.hash, cl)
      at == IF e.hash > cl[i + 1].hash THEN i + 1 ELSE i
  IN  IF cl = <<>> THEN <<e>> ELSE InsertAt(cl, at + 1, e)
(* Hashes that are taken already are skipped (tfw_sched_hash_add_conns()). *)
tfw_sched_hash_add_grp(es) ==
  FoldSeq(LAMBDA e, cl : IF \E k \in 1 .. Len(cl) : cl[k].hash = e.hash THEN cl ELSE __add_conn(cl, e), <<>>, es)
-----------------------------------------------------------------------------
Times == scenv.times
SchedInit ==
  /\ scenv \in SchedEnv
  /\ rto = Rto(tfw_sched_ratio_calc_static(scenv.w)) /\ rr = [i \in 1 .. N |-> 0]
  /\ hst = [counter |-> 0, d |-> [i \in 1 .. N |-> NoDesc], last |-> scenv.w]
  /\ got = [i \in 1 .. N |-> 0] /\ pick = [kind |-> "none"]
  /\ timer = (IF scenv.kind \in {"dynamic", "predict"} THEN "pending" ELSE "none")
  /\ grp = [st |-> "alive", rearm |-> TRUE] /\ turns = 0

Counted(t, took) == IF t.crsum = t.orsum /\ took # <<>> THEN [i \in 1 .. N |-> 0]
                    ELSE [i \in 1 .. N |-> got[i] + Cardinality({k \in 1 .. Len(took) : took[k] = i})]
(* exactly one server after another is taken, a round ends when all were *)
SchedGroup ==
  LET x == tfw_sched_ratio_sched_sg_conn
  IN  /\ scenv.kind # "hash" /\ turns < scenv.rounds /\ grp.st = "alive"
      /\ rto' = x.t /\ rr' = x.rr /\ turns' = turns + 1
      /\ pick' = [kind |-> "group", srv |-> x.srv, conn |-> x.conn, bug |-> x.bug, stuck |-> x.stuck, seen |-> x.seen, nip |-> x.skipnip]
      /\ got' = IF scenv.kind = "plain" THEN Counted(x.t, x.took) ELSE got
      /\ UNCHANGED <<scenv, hst, timer, grp>>
SchedServer(i) ==
  LET x == tfw_sched_ratio_sched_srv_conn(i)
  IN  /\ i \in scenv.direct /\ turns < scenv.rounds /\ grp.st = "alive"
      /\ rr' = [rr EXCEPT ![i] = x.counter] /\ turns' = turns + 1
      /\ pick' = [kind |-> "server", srv |-> i, conn |-> x.conn]
      /\ UNCHANGED <<scenv, rto, hst, got, timer, grp>>
SchedHash ==
  LET cl == tfw_sched_hash_add_grp(scenv.hashes)
      i == __find_best_conn(scenv.msg, cl)
  IN  /\ scenv.kind = "hash" /\ turns = 0 /\ turns' = 1
      /\ pick' = [kind |-> "hash", cl |-> cl, i |-> i]
      /\ UNCHANGED <<scenv, rto, rr, hst, got, timer, grp>>

(* tfw_sched_ratio_calc_tmfn(): runs, and looks whether to run again. *)
TimerFires == /\ timer = "pending" /\ grp.st # "freed" /\ turns < scenv.rounds /\ timer' = "running" /\ turns' = turns + 1
              /\ UNCHANGED <<scenv, rto, rr, hst, got, pick, grp>>
tfw_sched_ratio_calc_tmfn ==
  /\ timer = "running" /\ timer' = "calculated"
  /\ \E rtt \in [1 .. N -> Times] :
       LET p == tfw_sched_ratio_calc_predict(rtt)
           w == IF scenv.kind = "predict" THEN p.w ELSE [i \in 1 .. N |-> OrOne(rtt[i])]
       IN  /\ rto' = Rto(__tfw_sched_ratio_calc_dynamic(w))
           /\ hst' = IF scenv.kind = "predict" THEN [counter |-> hst.counter + 1, d |-> p.d, last |-> w] ELSE [hst EXCEPT !.last = w]
           /\ got' = [i \in 1 .. N |-> 0]
  /\ UNCHANGED <<scenv, rr, pick, grp, turns>>
TimerRearm == /\ timer = "calculated" /\ timer' = (IF grp.rearm THEN "pending" ELSE "none")
              /\ UNCHANGED <<scenv, rto, rr, hst, got, pick, grp, turns>>
(* tfw_sched_ratio_del_grp(): rearm is reset, then del_timer_sync() stops    *)
(* the timer once its handler is over, and the group is freed.               *)
DelStart == /\ grp.st = "alive" /\ scenv.kind \in {"dynamic", "predict"} /\ grp' = [st |-> "deleting", rearm |-> FALSE]
            /\ UNCHANGED <<scenv, rto, rr, hst, got, pick, timer, turns>>
(* mutant *)
DelTimerEarly == /\ grp.st = "deleting" /\ timer' = (IF timer = "pending" THEN "none" ELSE timer) /\ grp' = [grp EXCEPT !.st = "freed"]
                 /\ UNCHANGED <<scenv, rto, rr, hst, got, pick, turns>>
DelTimerSync == /\ grp.st = "deleting" /\ timer \in {"none", "pending"} /\ timer' = "none" /\ grp' = [grp EXCEPT !.st = "freed"]
                /\ UNCHANGED <<scenv, rto, rr, hst, got, pick, turns>>
SchedNext ==
  \/ SchedGroup \/ SchedHash \/ (\E i \in 1 .. N : SchedServer(i))
  \/ TimerFires \/ tfw_sched_ratio_calc_tmfn \/ TimerRearm \/ DelStart \/ DelTimerSync
-----------------------------------------------------------------------------
RatioOf(i) == (CHOOSE e \in Range(rto.srv) : e.sdidx = i).oratio
Usable(i) == \E k \in 1 .. Len(scenv.conns[i]) : scenv.conns[i][k] = "ok"
Near(cl, i) == LET best == HashMax - scenv.msg d == cl[i + 1].hash - best IN IF d < 0 THEN -d ELSE d
First(cl, i) == \A k \in 0 .. i - 1 : cl[k + 1].hash < HashMax - scenv.msg

(* The scheduler always comes to a server (the loop of next_srv() ends and   *)
(* its BUG_ON is never hit); in a round every server is taken exactly as    *)
(* often as its ratio says; a connection taken may be used, its server is   *)
(* not suspended, and where an idle one is among the servers tried, it is   *)
(* not one that waits for a non-idempotent request; with equal weights all  *)
(* servers are tried.  However times are measured, each server has a ratio, *)
(* and a slower server no greater one than a faster server.  By hash, a     *)
(* connection is found when there is one, the list is ordered, and what is  *)
(* taken is the first from the hash of the request on or else the closest.  *)
(* The timer never runs for a group that is freed.                          *)
SchedRight ==
  /\ pick.kind = "group" =>
       /\ ~pick.stuck /\ ~pick.bug
       /\ pick.conn # 0 => /\ pick.srv \notin scenv.off
                           /\ scenv.conns[pick.srv][pick.conn] \in {"ok"} \cup (IF pick.nip THEN {} ELSE {"nip"})
       /\ pick.conn = 0 => \A i \in pick.seen \ scenv.off : ~Usable(i)
       /\ pick.conn = 0 /\ Same(rto.srv) => pick.seen = 1 .. N
  /\ pick.kind = "server" =>
       pick.conn # 0 <=> pick.srv \notin scenv.off
                         /\ \E k \in 1 .. Len(scenv.conns[pick.srv]) : scenv.conns[pick.srv][k] \in {"ok", "nip"}
  /\ scenv.kind = "plain" => /\ \A i \in 1 .. N : got[i] <= RatioOf(i)
                             /\ SumSeq(got) = rto.orsum - rto.crsum
  /\ {rto.srv[i].sdidx : i \in 1 .. N} = 1 .. N /\ \A i \in 1 .. N : rto.srv[i].oratio > 0
  /\ \A i \in 1 .. N - 1 : rto.srv[i].oratio >= rto.srv[i + 1].oratio \/ Same(rto.srv)
  /\ timer = "calculated" => \A i, j \in 1 .. N : hst.last[i] < hst.last[j] => RatioOf(i) >= RatioOf(j)
  /\ scenv.kind \in {"plain", "static"} => \A i, j \in 1 .. N : scenv.w[i] > scenv.w[j] => RatioOf(i) >= RatioOf(j)
  /\ pick.kind = "hash" =>
       LET cl == pick.cl
       IN  /\ \A k \in 1 .. Len(cl) - 1 : cl[k].hash < cl[k + 1].hash
           /\ pick.i = -1 <=> \A k \in 1 .. Len(cl) : ~__is_conn_suitable(cl[k])
           /\ pick.i # -1 => __is_conn_suitable(cl[pick.i + 1])
           /\ pick.i # -1 => \A k \in 0 .. Len(cl) - 1 :
                __is_conn_suitable(cl[k + 1]) => Near(cl, pick.i) <= Near(cl, k) \/ First(cl, pick.i)
  /\ grp.st = "freed" => timer = "none"
=============================================================================
