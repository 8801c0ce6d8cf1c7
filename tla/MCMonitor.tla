----------------------------- MODULE MCMonitor ------------------------------
(***************************************************************************)
(* Scenarios for the monitoring of a server (Apm): times at the edges of   *)
(* ranges and far beyond them, updates on two CPUs that meet the timer at  *)
(* the end of an interval, bad responses that meet a change of the monitor *)
(* and files that are rejected.                                            *)
(***************************************************************************)
EXTENDS Integers, Sequences

CONSTANT ApmEnv
VARIABLES apenv, jif, rb, ub, upd, tm, rbctl, pub, rdr, hmon, resp, adm, aplog
apmVars == <<apenv, jif, rb, ub, upd, tm, rbctl, pub, rdr, hmon, resp, adm, aplog>>

Stats(a, b) == [d |-> "stats", win |-> a, scale |-> b]
Failover(c, l, t) == [d |-> "failover", code |-> c, limit |-> l, tframe |-> t]
Check(n, b) == [d |-> "check", name |-> n, body |-> b]
In(o, v) == [d |-> o, v |-> v]
Apm0 == [kind |-> "stats", file |-> <<Stats(60, 1)>>, start |-> 600, last |-> 600, times |-> {1}, status |-> {200}, crcs |-> {0}, max |-> 0,
         reader |-> FALSE, cpus |-> {1, 2}, tick |-> 1, ops |-> <<>>, hm |-> "none"]
Mine == Check("mine", <<In("timeout", 3), In("crc", 7), In("code", {200}), In("url", "x")>>)
Ring == [Apm0 EXCEPT !.kind = "ring", !.tick = 30, !.times = {20}]
Codes == <<Failover(5, 2, 2), Failover(502, 1, 2), Mine>>
Monitored(n, o) == [Apm0 EXCEPT !.kind = "hm", !.file = Codes, !.max = 2, !.status = {200, 502}, !.ops = o, !.hm = n]
Learning == <<Failover(200, 1, 1), Check("auto", <<In("timeout", 1), In("auto", 1), In("code", {200})>>)>>
BadApm == {<<Failover(200, 0, 1)>>, <<Stats(60, 51)>>, <<Mine, Mine>>, <<Check("a", <<In("timeout", 1), In("auto", 1)>>)>>, <<Stats(60, 20)>>}
MCApmEnv ==
  {[Apm0 EXCEPT !.max = 8, !.times = t] : t \in {{1, 17, 40, 110, 349}, {48, 52, 60, 110, 400}, {109, 125, 141, 5000}}}
  \cup {[Apm0 EXCEPT !.max = 16, !.times = {200, 300, 349}]}
  \cup {[Ring EXCEPT !.max = 2, !.last = 660, !.cpus = {1}], [Ring EXCEPT !.max = 2],
        [Ring EXCEPT !.max = 2, !.cpus = {1}, !.reader = TRUE, !.ops = <<"del">>]}
  \cup {[Monitored("mine", <<"", "mine">>) EXCEPT !.status = {502}], Monitored("mine", <<>>), Monitored("auto", <<"reject", "mine">>),
        [Monitored("auto", <<"mine">>) EXCEPT !.cpus = {1}, !.max = 4, !.status = {503, 200}, !.crcs = {7, 8}],
        [Monitored("auto", <<"del">>) EXCEPT !.cpus = {1}, !.max = 4, !.last = 603],
        [Monitored("mine", <<"mine", "auto">>) EXCEPT !.max = 1, !.reader = TRUE],
        [Monitored("auto", <<>>) EXCEPT !.file = Learning, !.max = 3]}
  \cup {[Apm0 EXCEPT !.kind = "hm", !.file = f] : f \in BadApm}
Ap == INSTANCE Apm WITH Hz <- 1, UbufSz <- 1
NoMonitor == apenv = Apm0 /\ Ap!ApmStart
=============================================================================
