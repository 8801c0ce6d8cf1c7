------------------------------- MODULE Cache --------------------------------
(***************************************************************************)
(* The Web cache (cache.c): which CPU works on a request or a response,    *)
(* what is looked up, served, validated, stored and purged, and when.      *)
(*                                                                         *)
(* A reader keeps the bucket of TempestaDB locked; a writer links a new    *)
(* entry into the chain under the lock and fills it without one.  So a     *)
(* reader meets an entry between any two of the writer's stores:           *)
(*   linked -> key -> times -> live -> status -> done.             *)
(* How the data are laid out is the subject of CacheEntry.                 *)
(***************************************************************************)
EXTENDS Integers, Sequences, FiniteSets

CONSTANTS
  CacheCpu,
  KeyNode,                \* tfw_cache_key_node(): the node of a key in the shard mode
  Scenarios,              \* environments: [mode, topo, shape, answers, last]
  StartTime,              \* of the clock; it exceeds every lifetime but UINT_MAX
  QueueMax,               \* size of a CPU's work queue
  Unlimited               \* UINT_MAX

VARIABLES
  now, env,               \* the clock and the scenario
  cdb,                    \* the chain of entries of every node's database
  cjob, cwq,              \* what a CPU does, and its queue of TfwCWork
  crq                     \* the requests
cacheVars == <<now, env, cdb, cjob, cwq, crq>>

(* cache_cfg.cache, numa_node_id() of every CPU, what the requests say, what servers answer *)
mode == env.mode
topo == env.topo
ReqShape == env.shape   \* of each request, [meth, key, cc, n, bypass, tag, since, h2]
Answers == env.answers  \* [status, cc, n, aged, dated, tag, mod]
CReq == DOMAIN ReqShape
Nodes == {topo[c] : c \in CacheCpu}
IdleCpu == [k |-> "idle"]
Stages == <<"linked", "key", "times", "live", "status", "done">>
Rank(st) == CHOOSE i \in DOMAIN Stages : Stages[i] = st

CacheInit ==
  /\ now = StartTime /\ env \in Scenarios
  /\ cdb = [n \in Nodes |-> <<>>]
  /\ cjob = [c \in CacheCpu |-> IdleCpu] /\ cwq = [c \in CacheCpu |-> <<>>]
  /\ crq = [r \in CReq |-> [pc |-> "new", at |-> 0, bypass |-> FALSE]]

Idle(c) == cjob[c] = IdleCpu
Ended(r, pc) == crq' = [crq EXCEPT ![r].pc = pc]
Missed(r) == Ended(r, IF "OIFCACHED" \in ReqShape[r].cc THEN "504" ELSE "fwd")
-----------------------------------------------------------------------------
(* Requests and responses are brought to a CPU of the node that has to do   *)
(* with them.                                                              *)
tfw_cache_msg_cacheable(r) == mode # "none" /\ ReqShape[r].meth = "GET"
tfw_cache_employ_req(r) == ~ReqShape[r].bypass /\ "NO_CACHE" \notin ReqShape[r].cc
NodeFor(r, c) == IF mode = "shard" THEN KeyNode[ReqShape[r].key] ELSE topo[c]

(* tfw_cache_process() from do_cache on, on the CPU c: m is the work; a push *)
(* to a full queue is an error the caller answers.                          *)
DoCache(r, c, m, q, failed) ==
  IF NodeFor(r, c) = topo[c] \/ NodeFor(r, c) \notin Nodes
  THEN cjob' = [cjob EXCEPT ![c] = m] /\ crq' = q /\ UNCHANGED cwq
  ELSE \E d \in {x \in CacheCpu : topo[x] = NodeFor(r, c)} :
         /\ UNCHANGED cjob
         /\ IF Len(cwq[d]) < QueueMax
            THEN cwq' = [cwq EXCEPT ![d] = Append(@, m)] /\ crq' = q
            ELSE UNCHANGED cwq /\ crq' = failed

(* A request arrives.  A bypassed one is marked: its response is not kept.  *)
ProcessReq(r, c) ==
  LET s == ReqShape[r]
      q(pc) == [crq EXCEPT ![r] = [@ EXCEPT !.pc = pc, !.at = now, !.bypass = s.bypass]]
      purge == s.meth = "PURGE"
  IN  /\ Idle(c) /\ crq[r].pc = "new"
      /\ IF ~purge /\ (~tfw_cache_msg_cacheable(r) \/ ~tfw_cache_employ_req(r))
         THEN crq' = [q("fwd") EXCEPT ![r].bypass = s.bypass /\ tfw_cache_msg_cacheable(r)]
              /\ UNCHANGED <<cjob, cwq>>
         ELSE DoCache(r, c, [k |-> IF purge THEN "purge" ELSE "get", r |-> r], q("wait"), q("busy"))
      /\ UNCHANGED <<now, env, cdb>>

(* A server answers: the response left the origin (or a cache on the way)   *)
(* at "sent", and was made "aged" before that.  Without Date the time of    *)
(* the arrival is taken (http.c:tfw_http_resp_cache()).                     *)
ProcessResp(r, c) ==
  /\ Idle(c) /\ crq[r].pc = "fwd"
  /\ \E a \in Answers, sent \in crq[r].at .. now :
       LET born == sent - a.aged
           p == [a |-> a, born |-> born, date |-> IF a.dated THEN born ELSE now, resp_time |-> now]
           m == [k |-> "add", r |-> r, p |-> p, left |-> IF mode = "shard" THEN {topo[c]} ELSE Nodes]
       IN  IF tfw_cache_msg_cacheable(r)
           THEN DoCache(r, c, m, [crq EXCEPT ![r].pc = "kept"], [crq EXCEPT ![r].pc = "lost"])
           ELSE Ended(r, "passed") /\ UNCHANGED <<cjob, cwq>>
  /\ UNCHANGED <<now, env, cdb>>

(* tfw_cache_ipi(): the tasklet of the CPU takes the next work. *)
tfw_wq_tasklet(c) ==
  /\ Idle(c) /\ cwq[c] # <<>>
  /\ cwq' = [cwq EXCEPT ![c] = Tail(@)]
  /\ cjob' = [cjob EXCEPT ![c] = IF Head(cwq[c]).k = "add" THEN [Head(cwq[c]) EXCEPT !.left = {topo[c]}]
                                 ELSE Head(cwq[c])]
  /\ UNCHANGED <<now, env, cdb, crq>>
-----------------------------------------------------------------------------
(* The method is part of the key, except for PURGE; both are zero in an     *)
(* entry that is only linked.                                               *)
tfw_cache_entry_key_eq(r, e) ==
  /\ Rank(e.st) >= Rank("key")
  /\ ReqShape[r].meth # "PURGE" => e.meth = ReqShape[r].meth
  /\ e.key = ReqShape[r].key
Matching(r, n) == {i \in DOMAIN cdb[n] : tfw_cache_entry_key_eq(r, cdb[n][i])}
First(I) == CHOOSE i \in I : \A j \in I : i <= j

Bigger(a, b) == IF a > b THEN a ELSE b
Lesser(a, b) == IF a < b THEN a ELSE b
(* mutant: the time the request was under way is left out *)
AgeUncorrected(e) == LET t == IF Rank(e.st) >= Rank("times") THEN e ELSE [date |-> 0, age |-> 0, req_time |-> 0, resp_time |-> 0]
                     IN  Bigger(0, t.resp_time - t.date) + now - t.resp_time
tfw_cache_entry_age(e) ==
  LET t == IF Rank(e.st) >= Rank("times") THEN e ELSE [date |-> 0, age |-> 0, req_time |-> 0, resp_time |-> 0]
  IN  Bigger(Bigger(0, t.resp_time - t.date), t.age + t.resp_time - t.req_time) + now - t.resp_time

tfw_cache_entry_is_live(r, e) ==
  LET s == ReqShape[r]
      age == tfw_cache_entry_age(e)
      life == IF Rank(e.st) >= Rank("live") THEN e.lifetime ELSE 0
      fresh == Lesser(IF "MAX_AGE" \in s.cc THEN s.n ELSE Unlimited,
                      IF "MIN_FRESH" \in s.cc THEN life - s.n ELSE Unlimited)
      limit == Lesser(fresh, IF "MAX_STALE" \in s.cc THEN life + s.n ELSE life)
  IN  life > 0 /\ limit > age

(* tfw_cache_dbce_get(): the first entry of the chain that matches, locked. *)
Lookup(c) ==
  LET r == cjob[c].r
      I == Matching(r, topo[c])
  IN  /\ cjob[c].k = "get"
      /\ IF I = {} THEN Missed(r) /\ cjob' = [cjob EXCEPT ![c] = IdleCpu]
         ELSE cjob' = [cjob EXCEPT ![c] = [k |-> "read", r |-> r, i |-> First(I)]]
              /\ UNCHANGED crq
      /\ UNCHANGED <<now, env, cdb, cwq>>

(* Is the copy the client has still right?  tfw_cache_cond_none_match(). *)
NotModified(r, e) ==
  LET s == ReqShape[r]
      done == Rank(e.st) >= Rank("status")
      mod == IF done THEN e.mod ELSE 0
  IN  /\ done /\ e.status = 200
      /\ IF s.tag # "" THEN e.st = "done" /\ e.tag # "" /\ s.tag \in {"*", e.tag}
         ELSE s.since # 0 /\ (IF mod # 0 THEN mod <= s.since ELSE e.date <= s.since)

(* The rest of cache_req_process_node(): test, validate, build.  The        *)
(* response may not be built: there is no memory, or the entry was written  *)
(* by a CPU of another node, with offsets into the database of that node    *)
(* (tfw_cache_send_304() then does not survive).  An HTTP/2 stream may be    *)
(* gone: the request is freed.                                              *)
Serve(c) ==
  LET j == cjob[c]
      e == cdb[topo[c]][j.i]
      how == IF NotModified(j.r, e) THEN "304" ELSE "full"
      got == [e |-> e, at |-> now, how |-> how]
      ours == e.home = topo[c]
  IN  /\ j.k = "read"
      /\ IF ~tfw_cache_entry_is_live(j.r, e) THEN Missed(j.r)
         ELSE \/ ours /\ crq' = [crq EXCEPT ![j.r] = [pc |-> "served", at |-> @.at, bypass |-> @.bypass,
                                                      got |-> got]]
              \/ how = "full" /\ Missed(j.r)
              \/ how = "304" /\ ~ours /\ Ended(j.r, "oops")
              \/ ReqShape[j.r].h2 /\ Ended(j.r, "freed")
      /\ cjob' = [cjob EXCEPT ![c] = IdleCpu]
      /\ UNCHANGED <<now, env, cdb, cwq>>

(* tfw_cache_purge_method(), tfw_cache_purge_invalidate(): every entry of    *)
(* the chain that matches, in the database of this node.  "purged" is a     *)
(* mark of the model for entries whose lifetime was set already.            *)
Expire(n, I) ==
  cdb' = [cdb EXCEPT ![n] = [i \in DOMAIN @ |->
            IF i \in I THEN [@[i] EXCEPT !.lifetime = 0, !.purged = Rank(cdb[n][i].st) >= Rank("live")]
            ELSE @[i]]]
tfw_cache_purge_method(c) ==
  LET r == cjob[c].r
      I == Matching(r, topo[c])
  IN  /\ cjob[c].k = "purge"
      /\ \/ Ended(r, "403") /\ UNCHANGED cdb
         \/ mode # "none" /\ I = {} /\ Ended(r, "404") /\ UNCHANGED cdb
         \/ mode # "none" /\ I # {} /\ Ended(r, "200") /\ Expire(topo[c], I)
      /\ cjob' = [cjob EXCEPT ![c] = IdleCpu]
      /\ UNCHANGED <<now, env, cwq>>
-----------------------------------------------------------------------------
tfw_cache_status_bydef(a) == a.status \in {200, 404}
(* That a request with Authorization lets nothing be stored: the flags that *)
(* could permit it are looked for in the request, where they are never set. *)
tfw_cache_employ_resp(r, a) ==
  LET s == ReqShape[r]
  IN  /\ ~crq[r].bypass /\ "NO_STORE" \notin s.cc
      /\ a.cc \cap {"NO_STORE", "PRIVATE", "NO_CACHE"} = {}
      /\ "AUTHORIZATION" \notin s.cc
      /\ a.cc \cap {"EXPIRES", "MAX_AGE", "S_MAXAGE", "PUBLIC"} # {} \/ tfw_cache_status_bydef(a)
tfw_cache_calc_lifetime(p) ==
  IF p.a.cc \cap {"S_MAXAGE", "MAX_AGE"} # {} THEN p.a.n
  ELSE IF "EXPIRES" \in p.a.cc THEN p.born + p.a.n - p.date ELSE Unlimited

(* tfw_cache_add(), __cache_add_node(): a new entry is linked at the end of *)
(* the chain; there may be no room for it.  In the replica mode the         *)
(* databases of all nodes get one after the other.                          *)
AddNode(c) ==
  LET j == cjob[c]
      p == j.p
      done == [cjob EXCEPT ![c] = IdleCpu]
      next(n) == IF j.left = {n} THEN IdleCpu ELSE [j EXCEPT !.left = @ \ {n}]
      e == [st |-> "linked", key |-> ReqShape[j.r].key, meth |-> ReqShape[j.r].meth, by |-> j.r,
            home |-> topo[c], date |-> p.date, age |-> p.a.aged, req_time |-> crq[j.r].at,
            resp_time |-> p.resp_time, lifetime |-> 0, born |-> p.born, a |-> p.a, mod |-> p.a.mod,
            tag |-> p.a.tag, status |-> p.a.status, purged |-> FALSE]
  IN  /\ j.k = "add"
      /\ IF ~tfw_cache_employ_resp(j.r, p.a)
         THEN cjob' = done /\ UNCHANGED cdb /\ Ended(j.r, "passed")
         ELSE \E n \in j.left :
                /\ \A d \in CacheCpu : ~(cjob[d].k = "read" /\ topo[d] = n)
                /\ \/ cjob' = [cjob EXCEPT ![c] = next(n)] /\ UNCHANGED cdb
                      /\ (IF next(n) = IdleCpu THEN Ended(j.r, "passed") ELSE UNCHANGED crq)
                   \/ /\ cdb' = [cdb EXCEPT ![n] = Append(@, e)]
                      /\ cjob' = [cjob EXCEPT ![c] = [k |-> "fill", r |-> j.r, n |-> n, i |-> Len(cdb[n]) + 1,
                                                      life |-> tfw_cache_calc_lifetime(p), next |-> next(n)]]
                      /\ UNCHANGED crq
      /\ UNCHANGED <<now, env, cwq>>

(* tfw_cache_copy_resp(): the next store of the writer.  It may fail while   *)
(* data are copied: the entry stays as it is.                               *)
CopyResp(c) ==
  LET j == cjob[c]
      st == cdb[j.n][j.i].st
      to == Stages[Rank(st) + 1]
      over(x) == /\ cjob' = [cjob EXCEPT ![c] = j.next]
                 /\ (IF j.next = IdleCpu THEN Ended(j.r, "passed") ELSE UNCHANGED crq)
  IN  /\ j.k = "fill"
      /\ \/ /\ cdb' = [cdb EXCEPT ![j.n][j.i] = [@ EXCEPT !.st = to, !.lifetime = IF to = "live" THEN j.life ELSE @]]
            /\ IF to = "done" THEN over(0) ELSE UNCHANGED <<cjob, crq>>
         \/ st \in {"linked", "key"} /\ over(0) /\ UNCHANGED cdb
      /\ UNCHANGED <<now, env, cwq>>

Tick == now < env.last /\ now' = now + 1 /\ UNCHANGED <<env, cdb, cjob, cwq, crq>>

CacheNext ==
  \/ \E c \in CacheCpu, r \in CReq : ProcessReq(r, c) \/ ProcessResp(r, c)
  \/ \E c \in CacheCpu : \/ tfw_wq_tasklet(c) \/ Lookup(c) \/ Serve(c)
                         \/ tfw_cache_purge_method(c) \/ AddNode(c) \/ CopyResp(c)
  \/ Tick
-----------------------------------------------------------------------------
(* What may be served to a request, said without the code's estimates. *)
Storable(r, a) ==
  /\ ~ReqShape[r].bypass /\ ReqShape[r].cc \cap {"NO_STORE", "AUTHORIZATION"} = {}
  /\ a.cc \cap {"NO_STORE", "PRIVATE", "NO_CACHE"} = {}
Deadline(r, e) ==
  LET s == ReqShape[r]
      life == IF e.a.cc \cap {"S_MAXAGE", "MAX_AGE", "EXPIRES"} = {} THEN Unlimited ELSE e.a.n
  IN  e.born + Lesser(life + (IF "MAX_STALE" \in s.cc THEN s.n ELSE 0),
                      IF "MAX_AGE" \in s.cc THEN s.n
                      ELSE IF "MIN_FRESH" \in s.cc THEN life - s.n ELSE Unlimited)

(* Whatever CPU filled the entry and however far it had come, and however   *)
(* long the response was under way: what is served from the cache is the    *)
(* complete response to the same method and key, might be stored, is        *)
(* younger than its lifetime and the request allow, was not invalidated by  *)
(* a purge before, and "not modified" is said only to a client whose copy   *)
(* is the stored one (cache_req_process_node(), tfw_cache_entry_is_live()). *)
ServedSound ==
  \A r \in CReq : crq[r].pc = "served" =>
    LET g == crq[r].got
    IN  /\ g.e.key = ReqShape[r].key /\ g.e.meth = ReqShape[r].meth
        /\ Rank(g.e.st) >= Rank("live")
        /\ Storable(g.e.by, g.e.a) /\ ~g.e.purged
        /\ ~ReqShape[r].bypass /\ "NO_CACHE" \notin ReqShape[r].cc
        /\ g.at < Deadline(r, g.e)
        /\ g.how = "304" => \/ ReqShape[r].tag \in {"*", g.e.a.tag} /\ g.e.a.tag # ""
                            \/ ReqShape[r].tag = "" /\ ReqShape[r].since >= g.e.a.mod
=============================================================================
