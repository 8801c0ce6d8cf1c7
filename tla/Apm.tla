-------------------------------- MODULE Apm ---------------------------------
(***************************************************************************)
(* Application performance monitoring of a server (apm.c).  Response times *)
(* are left by every CPU in a buffer of its own; a timer moves them into a *)
(* ring of time intervals, each with four ranges of buckets that adapt to  *)
(* the times seen, and publishes percentiles.  A health monitor counts bad *)
(* responses over a sliding time frame, suspends the server and probes it  *)
(* from a timer.  The timers run on a CPU that gets no responses.          *)
(***************************************************************************)
EXTENDS Integers, Sequences, FiniteSets, FiniteSetsExt, SequencesExt

CONSTANTS ApmEnv,     \* scenarios: the file, response times, what happens
          Hz, UbufSz  \* HZ, TFW_APM_UBUF_SZ

VARIABLES
  apenv, jif,
  rb,                 \* rbuf.rbent
  ub,                 \* per CPU: counter (its parity), ubent[2]
  upd,                \* where tfw_apm_update() is on every CPU
  tm,                 \* the timer of the percentiles
  rbctl, pub, rdr,    \* rbctl, the published values, a reader of them
  hmon,                 \* the health monitor of the server, and its timer
  resp,               \* where tfw_http_hm_control() is on every CPU
  adm,                \* reconfiguration
  aplog               \* what was applied and counted, and resets that came late
apmVars == <<apenv, jif, rb, ub, upd, tm, rbctl, pub, rdr, hmon, resp, adm, aplog>>

Cpus == {1, 2}
BCKTS == 16
RANGES == 0 .. 3
BIdx == 0 .. BCKTS - 1
HM_FREQ == 10
MaxTime16 == 65535      \* USHRT_MAX
NoTime == 2147483647     \* UINT_MAX: more than any time; the numbers of TLC have 31 bits
Ith == <<50, 75, 90, 95, 99>>
TotalOf(f) == FoldSet(LAMBDA x, acc : f[x] + acc, 0, DOMAIN f)
-----------------------------------------------------------------------------
(* Ranges of buckets *)
RSPAN(order) == (BCKTS - 1) * 2 ^ order
Ctl(o, b, e) == [order |-> o, begin |-> b, end |-> e]
tfw_rngctl_init == [r \in RANGES |-> <<Ctl(0, 1, 16), Ctl(1, 17, 47), Ctl(2, 48, 108), Ctl(4, 109, 349)>>[r + 1]]
Zeroed(e) == [e EXCEPT !.cnt = [r \in RANGES |-> [b \in BIdx |-> 0]], !.tot = 0, !.val = 0, !.max = 0, !.min = NoTime]
RbEnt == Zeroed([ctl |-> tfw_rngctl_init, cnt |-> <<>>, tot |-> 0, val |-> 0, min |-> 0, max |-> 0, stamp |-> 0, reset |-> 1])
__rng(c, v) == IF v <= c.begin THEN 0 ELSE (v - c.begin + 2 ^ c.order - 1) \div 2 ^ c.order
__range_grow_right(e, r) ==
  [e EXCEPT !.ctl[r].order = @ + 1, !.ctl[r].end = e.ctl[r].begin + RSPAN(e.ctl[r].order + 1),
            !.cnt[r] = [i \in BIdx |-> IF i < BCKTS \div 2 THEN @[2 * i] + @[2 * i + 1] ELSE @[i]]]
__range_shrink_left(e, r) ==
  LET q == e.cnt[r]
      h == BCKTS \div 2
      left == TotalOf([i \in 0 .. h - 1 |-> q[i]])
      half(i) == q[h + i \div 2] \div 2
  IN  [e EXCEPT !.ctl[r].order = @ - 1, !.ctl[r].begin = e.ctl[r].end - RSPAN(e.ctl[r].order - 1),
                !.cnt[r] = [i \in BIdx |-> IF i = 0 THEN left + half(0) ELSE IF i % 2 = 0 THEN half(i) ELSE q[h + i \div 2] - half(i)]]
tfw_stats_extend(e, v) ==
  LET c == e.ctl[3]
      order == Min({o \in c.order + 1 .. 26 : c.begin + RSPAN(o) >= v})
      units == 2 ^ Min({order - c.order, 4})
  IN  [e EXCEPT !.ctl[3].order = order, !.ctl[3].end = c.begin + RSPAN(order),
                !.cnt[3] = [i \in BIdx |-> IF i >= BCKTS \div units THEN 0
                                           ELSE TotalOf([b \in i * units .. (i + 1) * units - 1 |-> e.cnt[3][b]])]]
InRange(e, v) == IF v > e.ctl[2].end THEN 3 ELSE IF v > e.ctl[1].end THEN 2 ELSE IF v > e.ctl[0].end THEN 1 ELSE 0
Counted(e, v) ==
  LET x == IF v > e.ctl[3].end THEN tfw_stats_extend(e, v) ELSE e
      r == InRange(x, v)
  IN  [x EXCEPT !.cnt[r][__rng(x.ctl[r], v)] = @ + 1]
Used(e, r) == {b \in BIdx : e.cnt[r][b] # 0}
(* mutant: what is moved to the range on the left is not taken from the right *)
AdjustTwice(e, r) ==
  LET q == e.cnt[r]
      max == Max({q[b] : b \in BIdx})
      imax == Min({b \in BIdx : q[b] = max})
      left == e.ctl[r - 1].begin + RSPAN(e.ctl[r - 1].order + 1) < e.ctl[r].begin
      moved == max \div (BCKTS \div 2 + 1)
      x == IF imax # 0 \/ ~left THEN e
           ELSE [__range_grow_right(e, r - 1) EXCEPT !.cnt[r - 1] = [b \in BIdx |-> IF b >= BCKTS \div 2 THEN moved ELSE @[b]]]
  IN  IF max <= (TotalOf(q) * 2) \div Cardinality(Used(e, r)) THEN e ELSE IF x.ctl[r].order = 0 THEN x ELSE __range_shrink_left(x, r)
tfw_stats_adjust(e, r) ==
  LET q == e.cnt[r]
      max == Max({q[b] : b \in BIdx})
      imax == Min({b \in BIdx : q[b] = max})
      left == e.ctl[r - 1].begin + RSPAN(e.ctl[r - 1].order + 1) < e.ctl[r].begin
      moved == max \div (BCKTS \div 2 + 1)
      x == IF imax # 0 \/ ~left THEN e
           ELSE [__range_grow_right(e, r - 1) EXCEPT !.cnt[r][0] = @ - moved * (BCKTS \div 2),
                   !.cnt[r - 1] = [b \in BIdx |-> IF b >= BCKTS \div 2 THEN moved ELSE @[b]]]
  IN  IF max <= (TotalOf(q) * 2) \div Cardinality(Used(e, r)) THEN e ELSE IF x.ctl[r].order = 0 THEN x ELSE __range_shrink_left(x, r)
(* A new least time is not looked at as a greatest one. *)
Totals(e, v) ==
  [e EXCEPT !.min = IF v < @ THEN v ELSE @, !.max = IF v >= e.min /\ v > @ THEN v ELSE @, !.val = @ + v, !.tot = @ + 1]
-----------------------------------------------------------------------------
(* Percentiles: the ring is walked from the smallest time up.  A time has
   16 bits in the walk; MaxTime16 stands for the end of an entry. *)
Bucket(e, i) == e.cnt[i \div BCKTS][i % BCKTS]
__tfw_apm_state_next(e, i) == Min({k \in i .. 4 * BCKTS - 1 : Bucket(e, k) # 0} \cup {4 * BCKTS})
TimeAt(e, i) ==
  IF i = 4 * BCKTS THEN MaxTime16
  ELSE (e.ctl[i \div BCKTS].begin + (i % BCKTS) * 2 ^ e.ctl[i \div BCKTS].order) % (MaxTime16 + 1)
RECURSIVE Walk(_, _, _, _, _)
Walk(ring, st, pval, cnt, val) ==
  LET least == Min({TimeAt(ring[i], st[i]) : i \in DOMAIN ring})
      here == {i \in DOMAIN ring : TimeAt(ring[i], st[i]) = least}
      sum == cnt + TotalOf([i \in here |-> Bucket(ring[i], st[i])])
      upto == Cardinality({p \in 1 .. Len(pval) : pval[p] <= sum})
  IN  IF Len(val) = Len(pval) THEN val
      ELSE IF least = MaxTime16 THEN <<"bug">>
      ELSE Walk(ring, [i \in DOMAIN ring |-> IF i \in here THEN __tfw_apm_state_next(ring[i], st[i] + 1) ELSE st[i]],
                pval, sum, val \o [p \in 1 .. upto - Len(val) |-> least])
tfw_apm_prnctl_calc(ring, total) ==
  LET pval == [p \in 1 .. Len(Ith) |-> (total * Ith[p]) \div 100]
      zeros == Cardinality({p \in DOMAIN pval : pval[p] = 0})
      ids == DOMAIN ring
      cnt == TotalOf([i \in ids |-> ring[i].tot])
  IN  [pct |-> Walk(ring, [i \in ids |-> __tfw_apm_state_next(ring[i], 0)], pval, 0, [p \in 1 .. zeros |-> 0]),
       min |-> Min({ring[i].min : i \in ids}), max |-> Max({ring[i].max : i \in ids}),
       avg |-> IF cnt = 0 THEN 0 ELSE TotalOf([i \in ids |-> ring[i].val]) \div cnt]
-----------------------------------------------------------------------------
(* Configuration.  A monitor needs a timeout, and codes or a checksum. *)
NoHm == [name |-> "", url |-> "/", codes |-> {}, crc |-> 0, auto |-> FALSE, tmt |-> 0, freed |-> FALSE]
InHm(m, d) ==
  CASE d.d = "url" -> [m EXCEPT !.url = d.v]
    [] d.d = "code" -> [m EXCEPT !.codes = d.v]
    [] d.d = "crc" -> [m EXCEPT !.crc = d.v]
    [] d.d = "auto" -> [m EXCEPT !.auto = m.name = "auto"]
    [] d.d = "timeout" -> [m EXCEPT !.tmt = d.v]
AddHm(x, d) ==
  LET m == FoldLeft(InHm, [NoHm EXCEPT !.name = d.name], d.body)
  IN  IF \/ \E i \in DOMAIN x.mons : x.mons[i].name = d.name
         \/ m.tmt \notin 1 .. MaxTime16 \/ (m.codes = {} /\ m.crc = 0)
      THEN [x EXCEPT !.err = TRUE] ELSE [x EXCEPT !.mons = <<m>> \o @]
Directive(x, d) ==
  CASE d.d = "stats" -> [x EXCEPT !.win = d.win, !.scale = d.scale]
    [] d.d = "failover" -> IF d.limit \notin 1 .. MaxTime16 \/ d.tframe \notin 1 .. MaxTime16 THEN [x EXCEPT !.err = TRUE]
                           ELSE [x EXCEPT !.codes = <<d>> \o @]
    [] d.d = "check" -> AddHm(x, d)
tfw_apm_cfgend(x) ==
  LET scale == IF x.scale = 1 THEN 2 ELSE x.scale
      intr == (x.win * Hz + scale - 1) \div scale
      auto == [NoHm EXCEPT !.name = "auto", !.codes = {200}, !.auto = TRUE, !.tmt = 10]
  IN  IF x.err \/ x.win \notin 60 .. 3600 \/ x.scale \notin 1 .. 50 \/ intr < 5 THEN [x EXCEPT !.err = TRUE]
      ELSE [x EXCEPT !.scale = scale, !.intr = intr, !.win = intr * scale,
                     !.mons = IF \E i \in DOMAIN @ : @[i].name = "auto" THEN @ ELSE <<auto>> \o @]
Loaded(file) ==
  tfw_apm_cfgend(FoldLeft(LAMBDA x, d : IF x.err THEN x ELSE Directive(x, d),
                          [win |-> 300, scale |-> 5, intr |-> 0, codes |-> <<>>, mons |-> <<>>, err |-> FALSE], file))
tfw_apm_get_hm(x, name) == IF \E i \in DOMAIN x.mons : x.mons[i].name = name /\ ~x.mons[i].freed
                           THEN CHOOSE i \in DOMAIN x.mons : x.mons[i].name = name ELSE 0
-----------------------------------------------------------------------------
Conf == adm.conf
IntStart(j) == j - (j % Conf.intr)
Entry(j) == (j \div Conf.intr) % Conf.scale
Idle == [pc |-> "idle", j |-> 0, ce |-> 0, rtt |-> 0, idx |-> 0]
NoResp == [pc |-> "idle"]
NoUb == [i \in 0 .. 1 |-> [s \in 0 .. UbufSz - 1 |-> <<>>]]
(* tfw_apm_create(), tfw_apm_add_srv() and, with a monitor, tfw_apm_hm_enable_srv() *)
ApmStart ==
  /\ jif = apenv.start
  /\ adm = [conf |-> Loaded(apenv.file), pc |-> "idle", todo |-> apenv.ops, to |-> 0, rearm |-> TRUE, freed |-> FALSE]
  /\ rb = [i \in 0 .. Conf.scale - 1 |-> RbEnt]
  /\ ub = [c \in Cpus |-> [ctr |-> 0, ent |-> NoUb]]
  /\ upd = [c \in Cpus |-> Idle]
  /\ tm = [pc |-> IF Conf.err THEN "off" ELSE "pending", cpu |-> 0, slot |-> 0, j |-> 0, ce |-> 0, rtt |-> 0, idx |-> 0, new |-> <<>>]
  /\ rbctl = [w |-> 0, ce |-> 0, entry |-> 0, total |-> 0]
  /\ pub = [rdidx |-> 0, ent |-> [i \in 0 .. 1 |-> [pct |-> [p \in 1 .. Len(Ith) |-> 0], min |-> 0, max |-> 0, avg |-> 0, ver |-> 0]]]
  /\ rdr = [pc |-> "idle", seq |-> 0, ver |-> 0]
  /\ LET k == IF Conf.err THEN 0 ELSE tfw_apm_get_hm(Conf, apenv.hm)
     IN  hmon = [mon |-> k, on |-> k # 0, susp |-> FALSE, rcount |-> 0, rearm |-> k # 0, tm |-> IF k # 0 THEN "pending" ELSE "off",
               hist |-> [i \in DOMAIN Conf.codes |-> [s \in 0 .. HM_FREQ - 1 |-> [ts |-> 0, n |-> 0]]], rsum |-> [i \in DOMAIN Conf.codes |-> 0],
               probed |-> FALSE]
  /\ resp = [c \in Cpus |-> NoResp]
  /\ aplog = [n |-> 0, seen |-> [i \in DOMAIN rb |-> [t \in apenv.times |-> 0]], mid |-> {}, late |-> FALSE, ts |-> [i \in DOMAIN Conf.codes |-> <<>>]]
ApmInit == apenv \in ApmEnv /\ ApmStart
-----------------------------------------------------------------------------
(* tfw_apm_update() on a CPU: the counter and the stamp of the entry are
   read, the entry may be reset, the time is stored.  Both the update and the
   timer reset an entry in four steps. *)
hmVars == <<hmon, resp, adm>>
StampTested(e, j) == IF rb[e].stamp # IntStart(j) THEN "dec" ELSE "store"
(* mutant: whoever finds an old stamp resets the entry *)
DecAlways(e) == "zero"
DecTested(e) == IF rb[e].reset = 1 THEN "zero" ELSE "store"
(* A reset is late when the timer is in the middle of an update of the entry,
   is between counting the ring and walking it, or has already counted the
   entry in this interval. *)
LateReset(e) ==
  [aplog EXCEPT !.seen[e] = [t \in apenv.times |-> 0],
                !.mid = IF tm.pc \in {"adjust", "totals"} /\ tm.ce = e THEN @ \cup {e} ELSE @ \ {e},
                !.late = @ \/ tm.pc = "calc" \/ (rbctl.ce = e /\ rbctl.w = IntStart(jif) - Conf.win /\ rbctl.entry > 0)]
Happened == aplog.n < apenv.max /\ aplog' = [aplog EXCEPT !.n = @ + 1]
tfw_apm_update(c) ==
  /\ apenv.kind = "ring" /\ c \in apenv.cpus /\ upd[c].pc = "idle" /\ ~adm.freed /\ ~Conf.err /\ Happened
  /\ \E v \in apenv.times :
       upd' = [upd EXCEPT ![c] = [pc |-> StampTested(Entry(jif), jif), j |-> jif, ce |-> Entry(jif), rtt |-> v, idx |-> ub[c].ctr]]
  /\ UNCHANGED <<apenv, jif, rb, ub, tm, rbctl, pub, rdr, hmVars>>
UpdDec(c) ==
  /\ upd[c].pc = "dec"
  /\ upd' = [upd EXCEPT ![c].pc = DecTested(upd[c].ce)]
  /\ rb' = [rb EXCEPT ![upd[c].ce].reset = @ - 1]
  /\ UNCHANGED <<apenv, jif, ub, tm, rbctl, pub, rdr, hmVars, aplog>>
UpdZero(c) ==
  /\ upd[c].pc = "zero"
  /\ rb' = [rb EXCEPT ![upd[c].ce] = Zeroed(@)]
  /\ upd' = [upd EXCEPT ![c].pc = "stamp"]
  /\ aplog' = LateReset(upd[c].ce)
  /\ UNCHANGED <<apenv, jif, ub, tm, rbctl, pub, rdr, hmVars>>
UpdStamp(c) ==
  /\ upd[c].pc = "stamp"
  /\ rb' = [rb EXCEPT ![upd[c].ce].stamp = IntStart(upd[c].j), ![upd[c].ce].reset = 1]
  /\ upd' = [upd EXCEPT ![c].pc = "store"]
  /\ UNCHANGED <<apenv, jif, ub, tm, rbctl, pub, rdr, hmVars, aplog>>
UpdStore(c) ==
  /\ upd[c].pc = "store"
  /\ ub' = [ub EXCEPT ![c].ent[upd[c].idx][upd[c].j % UbufSz] = <<upd[c].ce, upd[c].rtt>>]
  /\ upd' = [upd EXCEPT ![c] = Idle]
  /\ UNCHANGED <<apenv, jif, rb, tm, rbctl, pub, rdr, hmVars, aplog>>
-----------------------------------------------------------------------------
(* tfw_apm_prcntl_tmfn() *)
Fires ==
  /\ apenv.kind = "ring" /\ tm.pc = "pending"
  /\ tm' = [tm EXCEPT !.pc = "flip", !.cpu = 1]
  /\ UNCHANGED <<apenv, jif, rb, ub, upd, rbctl, pub, rdr, hmVars, aplog>>
Flip ==
  /\ tm.pc = "flip"
  /\ ub' = [ub EXCEPT ![tm.cpu].ctr = 1 - @]
  /\ tm' = [tm EXCEPT !.pc = "slot", !.idx = ub[tm.cpu].ctr, !.slot = 0]
  /\ UNCHANGED <<apenv, jif, rb, upd, rbctl, pub, rdr, hmVars, aplog>>
AfterSlot ==
  IF tm.slot + 1 < UbufSz THEN [tm EXCEPT !.pc = "slot", !.slot = @ + 1]
  ELSE IF tm.cpu < Max(apenv.cpus) THEN [tm EXCEPT !.pc = "flip", !.cpu = @ + 1] ELSE [tm EXCEPT !.pc = "window"]
Slot ==
  /\ tm.pc = "slot"
  /\ LET t == ub[tm.cpu].ent[tm.idx][tm.slot]
     IN  IF t = <<>> THEN tm' = AfterSlot /\ UNCHANGED <<rb, ub>>
         ELSE /\ ub' = [ub EXCEPT ![tm.cpu].ent[tm.idx][tm.slot] = <<>>]
              /\ rb' = [rb EXCEPT ![t[1]] = Counted(@, t[2])]
              /\ tm' = [tm EXCEPT !.pc = "adjust", !.ce = t[1], !.rtt = t[2]]
  /\ UNCHANGED <<apenv, jif, upd, rbctl, pub, rdr, hmVars, aplog>>
Adjust ==
  /\ tm.pc = "adjust"
  /\ LET e == rb[tm.ce]
         r == InRange(e, tm.rtt)
     IN  IF r # 0 /\ Used(e, r) = {} THEN tm' = [tm EXCEPT !.pc = "bug"] /\ UNCHANGED rb
         ELSE tm' = [tm EXCEPT !.pc = "totals"] /\ rb' = IF r = 0 THEN rb ELSE [rb EXCEPT ![tm.ce] = tfw_stats_adjust(@, r)]
  /\ UNCHANGED <<apenv, jif, ub, upd, rbctl, pub, rdr, hmVars, aplog>>
AddTotals ==
  /\ tm.pc = "totals"
  /\ rb' = [rb EXCEPT ![tm.ce] = Totals(@, tm.rtt)]
  /\ tm' = AfterSlot
  /\ aplog' = [aplog EXCEPT !.seen[tm.ce][tm.rtt] = @ + 1]
  /\ UNCHANGED <<apenv, jif, ub, upd, rbctl, pub, rdr, hmVars>>
(* tfw_apm_rbctl_update() *)
Window ==
  /\ tm.pc = "window"
  /\ LET e == Entry(jif)
         n == rb[e].tot
     IN  IF rbctl.w # IntStart(jif) - Conf.win
         THEN tm' = [tm EXCEPT !.pc = IF StampTested(e, jif) = "dec" THEN "dec" ELSE "sum", !.j = jif, !.ce = e] /\ UNCHANGED rbctl
         ELSE IF rbctl.entry = n THEN tm' = [tm EXCEPT !.pc = "rearm"] /\ UNCHANGED rbctl
         ELSE IF rbctl.entry > n THEN tm' = [tm EXCEPT !.pc = "bug"] /\ UNCHANGED rbctl
         ELSE tm' = [tm EXCEPT !.pc = "calc"] /\ rbctl' = [rbctl EXCEPT !.total = @ + n - rbctl.entry, !.entry = n]
  /\ UNCHANGED <<apenv, jif, rb, ub, upd, pub, rdr, hmVars, aplog>>
TmDec ==
  /\ tm.pc = "dec"
  /\ tm' = [tm EXCEPT !.pc = IF DecTested(tm.ce) = "zero" THEN "zero" ELSE "sum"]
  /\ rb' = [rb EXCEPT ![tm.ce].reset = @ - 1]
  /\ UNCHANGED <<apenv, jif, ub, upd, rbctl, pub, rdr, hmVars, aplog>>
TmZero ==
  /\ tm.pc = "zero"
  /\ rb' = [rb EXCEPT ![tm.ce] = Zeroed(@)]
  /\ tm' = [tm EXCEPT !.pc = "stamp"]
  /\ aplog' = LateReset(tm.ce)
  /\ UNCHANGED <<apenv, jif, ub, upd, rbctl, pub, rdr, hmVars>>
TmStamp ==
  /\ tm.pc = "stamp"
  /\ rb' = [rb EXCEPT ![tm.ce].stamp = IntStart(tm.j), ![tm.ce].reset = 1]
  /\ tm' = [tm EXCEPT !.pc = "sum"]
  /\ UNCHANGED <<apenv, jif, ub, upd, rbctl, pub, rdr, hmVars, aplog>>
Sum ==
  /\ tm.pc = "sum"
  /\ rbctl' = [w |-> IntStart(tm.j) - Conf.win, ce |-> tm.ce, entry |-> rb[tm.ce].tot, total |-> TotalOf([i \in DOMAIN rb |-> rb[i].tot])]
  /\ tm' = [tm EXCEPT !.pc = "calc"]
  /\ UNCHANGED <<apenv, jif, rb, ub, upd, pub, rdr, hmVars, aplog>>
tfw_apm_calc ==
  /\ tm.pc = "calc"
  /\ LET v == tfw_apm_prnctl_calc(rb, rbctl.total)
     IN  tm' = IF v.pct = <<"bug">> THEN [tm EXCEPT !.pc = "bug"] ELSE [tm EXCEPT !.pc = "publish", !.new = v]
  /\ UNCHANGED <<apenv, jif, rb, ub, upd, rbctl, pub, rdr, hmVars, aplog>>
Publish ==
  /\ tm.pc = "publish"
  /\ pub' = [rdidx |-> pub.rdidx + 1,
             ent |-> [pub.ent EXCEPT ![(pub.rdidx + 1) % 2] = [ver |-> pub.rdidx + 1, pct |-> tm.new.pct, min |-> tm.new.min, max |-> tm.new.max, avg |-> tm.new.avg]]]
  /\ tm' = [tm EXCEPT !.pc = "rearm", !.new = <<>>]
  /\ UNCHANGED <<apenv, jif, rb, ub, upd, rbctl, rdr, hmVars, aplog>>
TmRearm ==
  /\ tm.pc = "rearm"
  /\ tm' = [tm EXCEPT !.pc = IF adm.rearm THEN "pending" ELSE "off"]
  /\ UNCHANGED <<apenv, jif, rb, ub, upd, rbctl, pub, rdr, hmVars, aplog>>
(* tfw_apm_stats(): the index is read before the lock is taken *)
tfw_apm_stats ==
  /\ apenv.reader /\ ~adm.freed
  /\ IF rdr.pc = "idle" THEN rdr' = [rdr EXCEPT !.pc = "lock", !.seq = pub.rdidx]
     ELSE rdr' = [rdr EXCEPT !.pc = "idle", !.ver = pub.ent[rdr.seq % 2].ver]
  /\ UNCHANGED <<apenv, jif, rb, ub, upd, tm, rbctl, pub, hmVars, aplog>>
(* one slot of the timer's, when nothing else goes on *)
tfw_stats_update ==
  /\ apenv.kind = "stats" /\ rb[0].tot < apenv.max
  /\ \E v \in apenv.times :
       LET e == Counted(rb[0], v)
           r == InRange(e, v)
       IN  /\ rb' = [rb EXCEPT ![0] = Totals(IF r = 0 THEN e ELSE tfw_stats_adjust(e, r), v)]
           /\ aplog' = [aplog EXCEPT !.seen[0][v] = @ + 1]
  /\ UNCHANGED <<apenv, jif, ub, upd, tm, rbctl, pub, rdr, hmVars>>
-----------------------------------------------------------------------------
(* tfw_http_hm_control() for a response: the flags of the server are read,
   the response is counted, the server is suspended with cmpxchg, or it is
   alive again. *)
ringVars == <<rb, ub, upd, tm, rbctl, pub, rdr>>
Flags == [on |-> hmon.on, susp |-> hmon.susp]
TimeSlot(d) == (jif * HM_FREQ) \div (d.tframe * Hz)
CodeIdx(status) == {i \in DOMAIN Conf.codes : Conf.codes[i].code \in {status, status \div 100}}
tfw_apm_hm_srv_limit(k) ==
  LET ts == TimeSlot(Conf.codes[k])
      h == hmon.hist[k]
      g == [h EXCEPT ![ts % HM_FREQ] = [ts |-> ts, n |-> (IF @.ts = ts THEN @.n ELSE 0) + 1]]
  IN  [hist |-> g, sum |-> TotalOf([i \in {i \in DOMAIN g : g[i].ts + HM_FREQ > ts} |-> g[i].n])]
tfw_http_hm_control(c) ==
  /\ apenv.kind = "hm" /\ c \in apenv.cpus /\ resp[c].pc = "idle" /\ ~Conf.err /\ ~adm.freed /\ Happened
  /\ \E st \in apenv.status, crc \in apenv.crcs :
       resp' = [resp EXCEPT ![c] = IF hmon.on THEN [pc |-> "limit", status |-> st, crc |-> crc, flag |-> Flags] ELSE NoResp]
  /\ UNCHANGED <<apenv, jif, ringVars, hmon, adm>>
HmLimit(c) ==
  /\ resp[c].pc = "limit"
  /\ IF CodeIdx(resp[c].status) = {} THEN resp' = [resp EXCEPT ![c].pc = "alive"] /\ UNCHANGED <<hmon, aplog>>
     ELSE LET k == Min(CodeIdx(resp[c].status))
              x == tfw_apm_hm_srv_limit(k)
          IN  /\ hmon' = [hmon EXCEPT !.hist[k] = x.hist, !.rsum[k] = x.sum]
              /\ aplog' = [aplog EXCEPT !.ts[k] = Append(@, TimeSlot(Conf.codes[k]))]
              /\ resp' = [resp EXCEPT ![c].pc = IF x.sum > Conf.codes[k].limit THEN "suspend" ELSE "alive"]
  /\ UNCHANGED <<apenv, jif, ringVars, adm>>
(* mutant: the flag is set whatever became of the monitor *)
SuspendBlind(c) ==
  /\ resp[c].pc = "suspend"
  /\ hmon' = [hmon EXCEPT !.susp = TRUE] /\ resp' = [resp EXCEPT ![c] = NoResp]
  /\ UNCHANGED <<apenv, jif, ringVars, adm, aplog>>
Suspend(c) ==
  /\ resp[c].pc = "suspend"
  /\ IF Flags = resp[c].flag THEN hmon' = [hmon EXCEPT !.susp = TRUE] /\ resp' = [resp EXCEPT ![c] = NoResp]
     ELSE resp' = [resp EXCEPT ![c] = IF hmon.on THEN [@ EXCEPT !.flag = Flags] ELSE NoResp] /\ UNCHANGED hmon
  /\ UNCHANGED <<apenv, jif, ringVars, adm, aplog>>
(* tfw_apm_hm_srv_alive(): the first body seen gives the checksum of "auto" *)
Mon == Conf.mons[hmon.mon]
HmAlive(c) ==
  /\ resp[c].pc = "alive"
  /\ LET m == Mon
         crc == resp[c].crc
         ok == /\ m.codes # {} => resp[c].status \in m.codes
               /\ IF crc = 0 THEN m.crc = 0 ELSE m.crc \in {0, crc}
         learn == m.codes # {} => resp[c].status \in m.codes
     IN  /\ resp' = [resp EXCEPT ![c] = IF hmon.susp /\ ok THEN [@ EXCEPT !.pc = "mark"] ELSE NoResp]
         /\ adm' = IF hmon.susp /\ learn /\ m.auto /\ m.crc = 0 THEN [adm EXCEPT !.conf.mons[hmon.mon].crc = crc] ELSE adm
  /\ UNCHANGED <<apenv, jif, ringVars, hmon, aplog>>
tfw_srv_mark_alive(c) ==
  /\ resp[c].pc = "mark"
  /\ hmon' = [hmon EXCEPT !.susp = FALSE] /\ resp' = [resp EXCEPT ![c] = NoResp]
  /\ UNCHANGED <<apenv, jif, ringVars, adm, aplog>>
tfw_http_hm_srv_update ==
  /\ apenv.kind = "hm" /\ apenv.reader /\ hmon.on /\ hmon.rcount = 0
  /\ hmon' = [hmon EXCEPT !.rcount = @ + 1]
  /\ UNCHANGED <<apenv, jif, ringVars, resp, adm, aplog>>
tfw_apm_hm_timer_cb ==
  /\ apenv.kind = "hm" /\ hmon.tm = "pending"
  /\ hmon' = [hmon EXCEPT !.tm = "reset", !.probed = hmon.rcount = 0]
  /\ UNCHANGED <<apenv, jif, ringVars, resp, adm, aplog>>
HmTimerReset ==
  /\ hmon.tm = "reset"
  /\ hmon' = [hmon EXCEPT !.rcount = 0, !.tm = IF hmon.rearm THEN "arm" ELSE "off"]
  /\ UNCHANGED <<apenv, jif, ringVars, resp, adm, aplog>>
HmTimerArm ==
  /\ hmon.tm = "arm"
  /\ hmon' = [hmon EXCEPT !.tm = "pending"]
  /\ UNCHANGED <<apenv, jif, ringVars, resp, adm, aplog>>
-----------------------------------------------------------------------------
(* Reconfiguration: a reload turns the monitor of the server off or on, or is
   rejected, which frees the monitors that are in use; the server goes away. *)
(* tfw_cfgop_update_srv_health(), tfw_apm_del_srv() *)
AdmNext(name) ==
  CASE name = "reject" -> "reject"
    [] name = "del" -> IF hmon.on THEN "clear" ELSE "rearm"
    [] OTHER -> IF hmon.on /\ (name = "" \/ Mon.name # name) THEN "clear" ELSE IF ~hmon.on /\ name # "" THEN "enable" ELSE "idle"
Operation ==
  /\ adm.pc = "idle" /\ adm.todo # <<>> /\ ~Conf.err
  /\ adm' = [adm EXCEPT !.pc = AdmNext(Head(adm.todo)), !.to = Head(adm.todo), !.todo = Tail(@)]
  /\ UNCHANGED <<apenv, jif, ringVars, hmon, resp, aplog>>
tfw_apm_cfgclean ==
  /\ adm.pc = "reject"
  /\ adm' = [adm EXCEPT !.pc = "idle", !.conf.mons = [i \in DOMAIN @ |-> [@[i] EXCEPT !.freed = TRUE]]]
  /\ UNCHANGED <<apenv, jif, ringVars, hmon, resp, aplog>>
(* tfw_apm_hm_disable_srv() *)
DisableClear ==
  /\ adm.pc = "clear"
  /\ hmon' = [hmon EXCEPT !.on = FALSE] /\ adm' = [adm EXCEPT !.pc = "alive"]
  /\ UNCHANGED <<apenv, jif, ringVars, resp, aplog>>
DisableAlive ==
  /\ adm.pc = "alive"
  /\ hmon' = [hmon EXCEPT !.susp = FALSE, !.rearm = FALSE] /\ adm' = [adm EXCEPT !.pc = "stop"]
  /\ UNCHANGED <<apenv, jif, ringVars, resp, aplog>>
tfw_apm_hm_stop_timer ==
  /\ adm.pc = "stop" /\ hmon.tm \in {"off", "pending"}
  /\ hmon' = [hmon EXCEPT !.tm = "off"]
  /\ adm' = [adm EXCEPT !.pc = CASE adm.to = "del" -> "rearm" [] adm.to = "" -> "idle" [] OTHER -> "enable"]
  /\ UNCHANGED <<apenv, jif, ringVars, resp, aplog>>
tfw_apm_hm_enable_srv ==
  /\ adm.pc = "enable"
  /\ LET k == tfw_apm_get_hm(Conf, adm.to)
     IN  IF k = 0 THEN adm' = [adm EXCEPT !.pc = "bug"] /\ UNCHANGED hmon
         ELSE /\ hmon' = [hmon EXCEPT !.mon = k, !.rcount = 0, !.rearm = TRUE, !.tm = "pending", !.on = TRUE]
              /\ adm' = [adm EXCEPT !.pc = "idle"]
  /\ UNCHANGED <<apenv, jif, ringVars, resp, aplog>>
(* The server is deleted when no connection, and no response, has it. *)
DelRearm ==
  /\ adm.pc = "rearm" /\ \A c \in Cpus : upd[c].pc = "idle" /\ resp[c].pc = "idle"
  /\ adm' = [adm EXCEPT !.rearm = FALSE, !.pc = "sync"]
  /\ UNCHANGED <<apenv, jif, ringVars, hmon, resp, aplog>>
tfw_apm_del_srv ==
  /\ adm.pc = "sync" /\ tm.pc \in {"pending", "off"}
  /\ tm' = [tm EXCEPT !.pc = "off"] /\ adm' = [adm EXCEPT !.pc = "gone", !.freed = TRUE]
  /\ UNCHANGED <<apenv, jif, rb, ub, upd, rbctl, pub, rdr, hmon, resp, aplog>>
Tick ==
  /\ jif < apenv.last
  /\ jif' = jif + apenv.tick
  /\ UNCHANGED <<apenv, ringVars, hmon, resp, adm, aplog>>
(* A failed assertion stops the machine. *)
ApmNext ==
  /\ tm.pc # "bug" /\ adm.pc # "bug"
  /\ \/ \E c \in Cpus : tfw_apm_update(c) \/ UpdDec(c) \/ UpdZero(c) \/ UpdStamp(c) \/ UpdStore(c)
     \/ \E c \in Cpus : tfw_http_hm_control(c) \/ HmLimit(c) \/ Suspend(c) \/ HmAlive(c) \/ tfw_srv_mark_alive(c)
     \/ Fires \/ Flip \/ Slot \/ Adjust \/ AddTotals \/ Window \/ TmDec \/ TmZero \/ TmStamp \/ Sum \/ tfw_apm_calc \/ Publish \/ TmRearm
     \/ tfw_apm_stats \/ tfw_stats_update \/ tfw_http_hm_srv_update \/ tfw_apm_hm_timer_cb \/ HmTimerReset \/ HmTimerArm
     \/ Operation \/ tfw_apm_cfgclean \/ DisableClear \/ DisableAlive \/ tfw_apm_hm_stop_timer \/ tfw_apm_hm_enable_srv \/ DelRearm \/ tfw_apm_del_srv \/ Tick
-----------------------------------------------------------------------------
Resetting(e) == Cardinality({c \in Cpus : upd[c].pc \in {"zero", "stamp"} /\ upd[c].ce = e})
                + (IF tm.pc \in {"zero", "stamp"} /\ tm.ce = e THEN 1 ELSE 0)
(* The ranges of an entry follow each other, and its buckets hold what was
   counted, however the ranges were adjusted; only one thread resets it. *)
RangesKept ==
  \A e \in DOMAIN rb :
    LET x == rb[e]
    IN  /\ Resetting(e) <= 1
        /\ x.ctl[0].begin = 1
        /\ \A r \in RANGES : x.ctl[r].end = x.ctl[r].begin + RSPAN(x.ctl[r].order)
        /\ \A r \in 0 .. 2 : x.ctl[r].end < x.ctl[r + 1].begin
        /\ e \notin aplog.mid =>
             TotalOf([r \in RANGES |-> TotalOf(x.cnt[r])]) = x.tot + (IF tm.pc \in {"adjust", "totals"} /\ tm.ce = e THEN 1 ELSE 0)
(* Percentiles do not decrease; while the ranges are as they began, half of
   the times are not above the median, and so on: the value published is the
   end of the bucket of the time it stands for. *)
Ordered(v) == \A p \in 1 .. Len(v) - 1 : v[p] <= v[p + 1]
PercentilesRight ==
  /\ \A i \in 0 .. 1 : Ordered(pub.ent[i].pct)
  /\ apenv.kind = "stats" =>
       LET n == rb[0].tot
           v == tfw_apm_prnctl_calc(rb, n)
           upto(t) == TotalOf([s \in {s \in apenv.times : s <= t} |-> aplog.seen[0][s]])
       IN  /\ v.pct # <<"bug">> /\ Ordered(v.pct)
           /\ rb[0].ctl = tfw_rngctl_init =>
                \A p \in 1 .. Len(Ith) :
                  LET k == (n * Ith[p]) \div 100
                  IN  k > 0 => /\ upto(v.pct[p]) >= k
                               /\ \E t \in apenv.times : t <= v.pct[p] /\ upto(t - 1) < k
(* No assertion of the timer fails unless an entry was reset while, or after,
   the timer worked on it; a reader has values not older than it says. *)
TimerRight ==
  /\ tm.pc = "bug" => aplog.mid # {} \/ aplog.late
  /\ rdr.pc = "idle" => rdr.ver >= rdr.seq
  /\ adm.freed => tm.pc = "off" /\ hmon.tm = "off"
(* A server without a monitor is not suspended and its timer is stopped; bad
   responses are those of the time frame; a monitor in use exists unless a
   reload was rejected. *)
Rejected == \E i \in DOMAIN Conf.mons : Conf.mons[i].freed
HealthRight ==
  /\ ~hmon.on /\ adm.pc \notin {"alive", "stop"} => ~hmon.susp /\ hmon.tm = "off"
  /\ \A k \in DOMAIN Conf.codes :
       LET q == aplog.ts[k]
       IN  hmon.rsum[k] = IF q = <<>> THEN 0 ELSE Cardinality({i \in DOMAIN q : q[i] + HM_FREQ > Last(q)})
  /\ (hmon.on /\ Mon.freed) \/ adm.pc = "bug" => Rejected
(* Monitoring: counts, percentiles and health are what was seen. *)
ApmRight == RangesKept /\ PercentilesRight /\ TimerRight /\ HealthRight
=============================================================================
