------------------------------ MODULE MCStores ------------------------------
EXTENDS HpackDec, HpackEnc, Pool

(* One behaviour runs one part: the HPACK decoder, the encoder, a memory pool,
   the hash trie of TempestaDB, the layout of a cache entry or the Web cache;
   the others stay as they begin. *)
VARIABLES
  part,
  index, bckt, top, ga, tmode, done, tfails, nops, thit,
  cresp, centry, cout,
  now, env, cdb, cjob, cwq, crq
trieVars == <<index, bckt, top, ga, tmode, done, tfails, nops, thit>>
entryVars == <<cresp, centry, cout>>
cacheVars == <<now, env, cdb, cjob, cwq, crq>>
T == INSTANCE TdbTrie WITH KeyBits <- 2, MinRec <- 6, BcktHdr <- 1, RecHdr <- 1, RecLens <- {1, 7},
                           Keys <- {1, 2, 3}, TdbCpu <- {1, 2}, MaxOps <- 4, MaxTfail <- 1
E == INSTANCE CacheEntry WITH LineSize <- 6, FirstCaps <- {3, 9, 20}, NextCaps <- {5, 13, 30},
                              BodyLens <- {0, 3}, MaxHdrs <- 2

MCStatic == [i \in 1 .. 16 |-> [name |-> <<i + 100>>,
                                val |-> IF i \in {1, 2, 16} THEN <<i>> ELSE <<>>,
                                tag |-> IF i \in {1, 2} THEN "method" ELSE "raw"]]
(* a complete code but for the run of ones: 8-bit codes in a small table,
   longer ones in a second table of 7 bits *)
MCCodes == <<<<0>>, <<1,0>>, <<1,1,0>>, <<1,1,1,0>>, <<1,1,1,1,0>>,
             <<1,1,1,1,1,0,0,0>>, <<1,1,1,1,1,0,0,1>>, <<1,1,1,1,1,0,1>>, <<1,1,1,1,1,1,0>>,
             <<1,1,1,1,1,1,1,0>>, <<1,1,1,1,1,1,1,1,0>>, <<1,1,1,1,1,1,1,1,1,0>>>>
MCSmall == {<<1,1,1,1,1,0,0>>}
Huffed == {<<127>>, <<0>>, <<191>>, <<248>>, <<249, 127>>, <<252, 191>>, <<255, 63>>, <<255, 255>>,
           <<31, 63>>, <<127, 63>>, <<254, 0>>, <<1, 255, 191>>, <<255>>, <<251>>}
Adds == {<<64, 1, 50, 1, 60>>, <<64, 1, 51, 2, 60, 61>>, <<64 + 3, 1, 62>>, <<64 + 17, 1, 63>>}
Lits == {<<0, 1, 50, 1, 60>>, <<15, 0, 1, 60>>, <<16, 1, 51, 0>>, <<16, 0>>, <<15, 5, 1, 60>>,
         <<127, 1, 1, 60>>, <<0, 2, 50>>, <<64 + 1, 1, 66>>}
        \cup {<<0, 1, 50, 128 + Len(h)>> \o h : h \in Huffed}
        \cup {<<64, 128 + Len(h)>> \o h \o <<1, 60>> : h \in Huffed}
Idxs == {<<128 + i>> : i \in {0, 1, 2, 3, 16, 17, 18, 19}} \cup {<<255, 128, 0>>, <<0, 1, 50, 128>>}
Wins == {<<32 + w>> : w \in {0, 5, 9}} \cup {<<63, 225, 0>>, <<63, 128, 128, 128, 1>>}
Pairs == {a \o b : a \in Adds, b \in Adds}
Filling == <<64, 1, 50, 1, 60, 64, 2, 50, 1, 2, 60, 61, 64, 1, 50, 1, 60>>
Long == <<0, 127, 1>> \o [i \in 1 .. 128 |-> 50] \o <<1, 60>>
MCWires ==
    {Long, <<32 + 12>> \o Filling \o Filling} \cup Adds \cup Lits \cup Idxs \cup Wins
    \cup {a \o b \o i : a \in Adds \cup Wins, b \in Adds \cup Wins, i \in Idxs \cup Wins}
    \cup {w \o s \o a \o i : w \in {<<32 + 9>>, <<32 + 12>>, <<>>}, s \in Pairs, a \in Adds,
                             i \in {<<128 + j>> : j \in 17 .. 20}}
    \cup {a \o l : a \in Adds, l \in Lits}
H(n, v, s, f) == [name |-> n, val |-> v, st |-> s, full |-> f]
MCHeaders == {H(<<1>>, <<3>>, 0, FALSE), H(<<1>>, <<4, 4>>, 0, FALSE), H(<<2>>, <<3>>, 0, FALSE),
              H(<<6>>, <<8, 8>>, 0, FALSE), H(<<5>>, <<7>>, 1, TRUE)}

(* scenarios for the Web cache: a request that fills it and others that may
   be served from it *)
CacheStart == 100
Get == [meth |-> "GET", key |-> "a", cc |-> {}, n |-> 0, bypass |-> FALSE, tag |-> "", since |-> 0, h2 |-> FALSE]
Purge == [Get EXCEPT !.meth = "PURGE"]
CC(cc, n) == [Get EXCEPT !.cc = cc, !.n = n]
OneNode == [c \in {1, 2} |-> 1]
TwoNodes == [c \in {1, 2} |-> c]
MCKeyNode == [k \in {"a", "b"} |-> IF k = "a" THEN 1 ELSE 2]
Answer(s, cc, n, ag, d, t, m) == [status |-> s, cc |-> cc, n |-> n, aged |-> ag, dated |-> d, tag |-> t, mod |-> m]
Plain == Answer(200, {}, 0, 0, TRUE, "t", 50)
Scn(m, t, s, a, ticks) == [mode |-> m, topo |-> t, answers |-> a, last |-> CacheStart + ticks, shape |-> s]
Timed == {Answer(200, {"MAX_AGE"}, 2, 1, FALSE, "", 0), Answer(200, {"EXPIRES"}, 1, 0, FALSE, "", 0)}
Kinds == {Plain, Answer(200, {"PRIVATE"}, 0, 0, TRUE, "", 0), Answer(500, {}, 0, 0, TRUE, "", 0), Answer(500, {"PUBLIC"}, 0, 0, TRUE, "", 0)}
MCScenarios ==
    {Scn("shard", OneNode, <<Get, CC(cc, 1)>>, Timed, 2) : cc \in {{"MAX_AGE"}, {"MIN_FRESH"}, {"MAX_STALE"}}}
    \cup {Scn("none", OneNode, <<Get, Purge>>, {Plain}, 0), Scn("shard", OneNode, <<Get, Purge, Get>>, {Plain}, 0),
          Scn("replica", TwoNodes, <<Get, Purge>>, {Plain}, 0)}
    \cup {Scn("shard", TwoNodes, <<x, Get>>, Kinds, 0) :
            x \in {CC({"NO_STORE"}, 0), CC({"AUTHORIZATION"}, 0), [Get EXCEPT !.bypass = TRUE], [Get EXCEPT !.key = "b"]}}
    \cup {Scn("shard", TwoNodes, <<Get, [Get EXCEPT !.tag = c[1], !.since = c[2], !.h2 = TRUE, !.cc = c[3]]>>,
              {Plain, [Plain EXCEPT !.tag = "", !.mod = 0]}, 0) :
            c \in {<<"t", 0, {"OIFCACHED"}>>, <<"u", 99, {}>>, <<"*", 0, {}>>, <<"", 50, {}>>, <<"", 99, {"NO_CACHE"}>>}}
    \cup {Scn("replica", TwoNodes, <<Get, [Get EXCEPT !.tag = g, !.h2 = TRUE]>>, {Plain}, 0) : g \in {"", "t"}}
NoScenario == CHOOSE e \in MCScenarios : e.mode = "none"
NoResp == [status |-> 200, rph |-> E!Word("r", 1), hdrs |-> <<>>, body |-> <<>>, first |-> 3, next |-> 5]
C == INSTANCE Cache WITH CacheCpu <- {1, 2}, KeyNode <- MCKeyNode, Scenarios <- MCScenarios,
                         StartTime <- CacheStart, QueueMax <- 1, Unlimited <- 1000000

(* nothing is said of what follows a recorded defect of the encoder *)
Unhit == ~ehit

Init ==
  /\ part \in {"dec", "enc", "pool", "trie", "entry", "cache"}
  /\ DecInit /\ EncInit /\ PoolInit
  /\ part # "dec" => wire = <<63, 225, 0>>
  /\ part # "pool" => usage = "stack"
  /\ T!TrieInit /\ (part # "trie" => tmode = "plain")
  /\ E!EntryInit /\ (part # "entry" => cresp = NoResp)
  /\ C!CacheInit /\ (part # "cache" => env = NoScenario)
Next ==
  /\ UNCHANGED part
  /\ \/ part = "dec" /\ DecNext /\ UNCHANGED <<evars, pvars, trieVars, entryVars, cacheVars>>
     \/ part = "enc" /\ EncNext /\ UNCHANGED <<dvars, pvars, trieVars, entryVars, cacheVars>>
     \/ part = "pool" /\ PoolNext /\ UNCHANGED <<dvars, evars, trieVars, entryVars, cacheVars>>
     \/ part = "trie" /\ T!TrieNext /\ UNCHANGED <<dvars, evars, pvars, entryVars, cacheVars>>
     \/ part = "entry" /\ E!EntryNext /\ UNCHANGED <<dvars, evars, pvars, trieVars, cacheVars>>
     \/ part = "cache" /\ C!CacheNext /\ UNCHANGED <<dvars, evars, pvars, trieVars, entryVars>>
vars == <<part, dvars, evars, pvars, trieVars, entryVars, cacheVars>>
Spec == Init /\ [][Next]_vars

(* See TdbTrie: what is created is found, once, however buckets are burst.  *)
TrieSound == T!TrieSound
(* See CacheEntry and Cache: what is read from an entry is what was stored,
   and what is served is fresh, complete and was not purged. *)
CacheRight == E!EntryRebuilt /\ C!ServedSound
=============================================================================
