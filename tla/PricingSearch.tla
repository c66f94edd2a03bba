---------------------------- MODULE PricingSearch ----------------------------
(***************************************************************************)
(* GET /pricing/search and /pricing/search/meta with the shared Redis      *)
(* cache of their answers, on top of the write paths of PricingWrites.     *)
(*                                                                         *)
(* A search asks the cache, then the index for matching documents, then    *)
(* (unless it is a meta search, which returns facets of the index alone)   *)
(* the database for the current rows of those documents, and stores its    *)
(* answer in the cache.  A write that answers 200 first clears the cache:  *)
(* it scans for keys and then deletes the keys it found.  Nothing orders   *)
(* a search's reads and its store with a write's commit and its clear.     *)
(*                                                                         *)
(* Not covered: ranking and paging (a query's answer is all its records),  *)
(* the per-process TTLCache that stands in for Redis when no URL is set    *)
(* (see TTLCache), and the product_name suggestions of a meta search.      *)
(***************************************************************************)
EXTENDS PricingWrites

CONSTANTS
    Searches,     \* GET requests
    Filters,      \* the sets of keys a query's filters let through
    Scopes,       \* the endpoints modelled: "search", "meta" or both
    RedisFails    \* whether a Redis call may fail

ASSUME FilterTypes == Filters \subseteq SUBSET Keys /\ Scopes \subseteq {"search", "meta"}
                      /\ RedisFails \in BOOLEAN

(* The cache key: the scope and the normalised filters.                    *)
Queries == Scopes \X Filters

VARIABLES
    cache,     \* Redis: cache key -> answer, None where there is none
    sr,        \* the searches in progress
    scanned,   \* cache keys a clearing write has scanned, None before
    owed       \* history: a write ended since the last clear without one

allvars == <<vars, cache, sr, scanned, owed>>

-----------------------------------------------------------------------------
(* The documents the index finds, and what an answer shows of them.        *)
Hits(f) == {i \in Ids : docs[i] # None /\ docs[i].key \in f}

(* get_by_ids keeps the found records that still have a row.               *)
Hydrated(hits) == [i \in Ids |-> IF i \in hits THEN rows[i] ELSE None]
Facets(f)      == [i \in Ids |-> IF i \in Hits(f) THEN docs[i] ELSE None]

(* db_fallback_search: the filters evaluated by the database.              *)
Fallback(f) == [i \in Ids |-> IF i \in Live /\ rows[i].key \in f THEN rows[i] ELSE None]

NoFacets == [i \in Ids |-> None]

(* What the index path would answer at this moment.                        *)
Current(q) == IF q[1] = "meta" THEN Facets(q[2]) ELSE Hydrated(Hits(q[2]))

SearchIdle == [pc |-> "idle", q |-> None, hits |-> {}, shown |-> None,
               raced |-> FALSE, via |-> None]

SInit ==
    /\ Init
    /\ cache = [q \in Queries |-> None]
    /\ sr = [s \in Searches |-> SearchIdle]
    /\ scanned = [p \in Editors \cup Uploads |-> None]
    /\ owed = FALSE

(* The answer goes out; `via` records where it came from.                  *)
SearchEnd(s, q, shown, via) ==
    sr' = [sr EXCEPT ![s] = [SearchIdle EXCEPT !.pc = "done", !.q = q, !.shown = shown,
                                               !.via = via]]

(* The cache is asked first; a Redis error counts as a miss.               *)
SearchStart(s) ==
    /\ sr[s].pc = "idle"
    /\ \E q \in Queries :
          \/ cache[q] # None /\ SearchEnd(s, q, cache[q].shown, "cache")
          \/ /\ cache[q] = None \/ RedisFails
             /\ sr' = [sr EXCEPT ![s] = [SearchIdle EXCEPT !.pc = "index", !.q = q]]
    /\ UNCHANGED <<vars, cache, scanned, owed>>

(* Typesense answers with the hits, or fails: a search then falls back to  *)
(* the database, a meta search to empty facets.                            *)
SearchIndex(s) ==
    LET q == sr[s].q IN
    /\ sr[s].pc = "index"
    /\ \/ /\ q[1] = "search"
          /\ sr' = [sr EXCEPT ![s] = [@ EXCEPT !.pc = "hydrate", !.hits = Hits(q[2])]]
       \/ /\ q[1] = "meta"
          /\ sr' = [sr EXCEPT ![s] = [@ EXCEPT !.pc = "store", !.shown = Facets(q[2])]]
       \/ /\ "index" \in Faults /\ q[1] = "search"
          /\ sr' = [sr EXCEPT ![s].pc = "fallback"]
       \/ /\ "index" \in Faults /\ q[1] = "meta"
          /\ SearchEnd(s, q, NoFacets, "fallback")
    /\ UNCHANGED <<vars, cache, scanned, owed>>

(* Mutant of SearchHydrate: a failed query passes for an answer.            *)
SearchHydrateUnchecked(s) ==
    /\ sr[s].pc = "hydrate"
    /\ \E shown \in {Hydrated(sr[s].hits)} \cup (IF "db" \in Faults THEN {None} ELSE {}) :
          sr' = [sr EXCEPT ![s] = [@ EXCEPT !.pc = "store", !.shown = shown, !.hits = {}]]
    /\ UNCHANGED <<vars, cache, scanned, owed>>

(* The hits' rows as the database has them now; no hits, no query.         *)
SearchHydrate(s) ==
    /\ sr[s].pc = "hydrate"
    /\ \/ sr' = [sr EXCEPT ![s] = [@ EXCEPT !.pc = "store", !.shown = Hydrated(sr[s].hits),
                                            !.hits = {}]]
       \/ /\ "db" \in Faults /\ sr[s].hits # {}
          /\ sr' = [sr EXCEPT ![s] = [@ EXCEPT !.pc = "fallback", !.hits = {}]]
    /\ UNCHANGED <<vars, cache, scanned, owed>>

(* setex, whose failure nobody notices, then the 200.                      *)
SearchStore(s) ==
    /\ sr[s].pc = "store"
    /\ \/ cache' = [cache EXCEPT ![sr[s].q] = [shown |-> sr[s].shown, raced |-> sr[s].raced]]
       \/ RedisFails /\ UNCHANGED cache
    /\ SearchEnd(s, sr[s].q, sr[s].shown, "index")
    /\ UNCHANGED <<vars, scanned, owed>>

(* The answer of the fallback is not cached.                               *)
SearchFallback(s) ==
    /\ sr[s].pc = "fallback"
    /\ \/ SearchEnd(s, sr[s].q, Fallback(sr[s].q[2]), "fallback")
       \/ "db" \in Faults /\ SearchEnd(s, sr[s].q, None, "error")
    /\ UNCHANGED <<vars, cache, scanned, owed>>

(* A key of the cache reaches its TTL.                                     *)
Expire(q) ==
    /\ cache[q] # None
    /\ cache' = [cache EXCEPT ![q] = None]
    /\ UNCHANGED <<vars, sr, scanned, owed>>

-----------------------------------------------------------------------------
(* clear_pricing_search_caches, which a write calls before its 200.        *)

(* Mutant of Clearing: an edit clears before it updates the index.          *)
ClearingEarly(p) == IF p \in Editors THEN ed[p].pc \in {"committed", "indexed"}
                                     ELSE up[p].pc = "closed"

Clearing(p) == IF p \in Editors THEN ed[p].pc = "indexed" ELSE up[p].pc = "closed"

(* Mutant of ClearScan: the meta answers are forgotten.                     *)
ClearScanOneScope(p) ==
    /\ Clearing(p) /\ scanned[p] = None
    /\ scanned' = [scanned EXCEPT ![p] = {q \in Queries : cache[q] # None /\ q[1] = "search"}]
    /\ owed' = FALSE
    /\ UNCHANGED <<vars, cache, sr>>

ClearScan(p) ==
    /\ Clearing(p) /\ scanned[p] = None
    /\ scanned' = [scanned EXCEPT ![p] = {q \in Queries : cache[q] # None}]
    /\ owed' = FALSE
    /\ UNCHANGED <<vars, cache, sr>>

Respond(p) == IF p \in Editors THEN EditRespond(p) ELSE UploadRespond(p)

(* The scanned keys are deleted and the write answers.                     *)
ClearDelete(p) ==
    /\ scanned[p] # None
    /\ Respond(p)
    /\ cache' = [q \in Queries |-> IF q \in scanned[p] THEN None ELSE cache[q]]
    /\ scanned' = [scanned EXCEPT ![p] = None]
    /\ UNCHANGED <<sr, owed>>

(* Redis fails somewhere in the clear: the write answers 200 all the same. *)
ClearFail(p) ==
    /\ RedisFails
    /\ Respond(p)
    /\ scanned' = [scanned EXCEPT ![p] = None]
    /\ owed' = TRUE
    /\ UNCHANGED <<cache, sr>>

-----------------------------------------------------------------------------
(* A write step of PricingWrites other than the final answer.  A search    *)
(* whose reads no longer stand before it has stored its answer is marked:  *)
(* it was overtaken.                                                       *)
Overtaken(s) ==
    \E q \in Queries :
        /\ sr[s].q = q
        /\ \/ sr[s].pc = "hydrate" /\ Hits(q[2])' # sr[s].hits
           \/ sr[s].pc = "store" /\ Current(q)' # sr[s].shown

MarkRaced ==
    sr' = [s \in Searches |-> IF Overtaken(s) THEN [sr[s] EXCEPT !.raced = TRUE] ELSE sr[s]]

(* The request has changed a row and has not answered yet.                 *)
Writing(p) ==
    IF p \in Editors THEN ed[p].pc \in {"committed", "indexed"}
                     ELSE up[p].pc \in {"chunk", "index", "failing", "closed"}

(* A path on which nobody clears: a request that ends otherwise than with  *)
(* its 200.                                                                *)
Uncleared == \E p \in Editors \cup Uploads : Writing(p) /\ ~Writing(p)'

WriteStep ==
    /\ \/ \E e \in Editors : EditRead(e) \/ EditWrite(e) \/ EditIndex(e) \/ EditCrash(e)
       \/ \E u \in Uploads : \/ UploadReject(u) \/ UploadStart(u) \/ UploadPersist(u)
                             \/ UploadIndex(u) \/ UploadFinish(u) \/ UploadFail(u)
                             \/ UploadCrash(u)
    /\ MarkRaced
    /\ owed' = (owed \/ Uncleared)
    /\ scanned' = [p \in Editors \cup Uploads |-> IF Writing(p)' THEN scanned[p] ELSE None]
    /\ UNCHANGED cache

SearchStep(s) ==
    SearchStart(s) \/ SearchIndex(s) \/ SearchHydrate(s) \/ SearchStore(s) \/ SearchFallback(s)

SNext ==
    \/ WriteStep
    \/ \E p \in Editors \cup Uploads : ClearScan(p) \/ ClearDelete(p) \/ ClearFail(p)
    \/ \E s \in Searches : SearchStep(s)
    \/ \E q \in Queries : Expire(q)

SSpec == SInit /\ [][SNext]_allvars

-----------------------------------------------------------------------------
Answer == [Ids -> Row \cup Line \cup {None}]

SearchState ==
    [pc: {"idle", "index", "hydrate", "store", "fallback", "done"}, q: Queries \cup {None},
     hits: SUBSET Ids, shown: Answer \cup {None}, raced: BOOLEAN,
     via: {"cache", "index", "fallback", "error", None}]

(* Type invariant: a cached answer shows rows or documents, never the      *)
(* fallback's absence of one.                                              *)
SearchTypeOK ==
    /\ TypeOK
    /\ cache \in [Queries -> [shown: Answer, raced: BOOLEAN] \cup {None}]
    /\ sr \in [Searches -> SearchState]
    /\ scanned \in [Editors \cup Uploads -> (SUBSET Queries) \cup {None}]
    /\ owed \in BOOLEAN

(* DD-07, "explicit invalidation on write paths", as far as it goes: when  *)
(* no write is under way and every write since the last clear was followed *)
(* by one, a cached answer is what the stores would answer now -- except   *)
(* one whose search was overtaken by a write between its reads and its     *)
(* store.                                                                  *)
Quiet == \A p \in Editors \cup Uploads : ~Writing(p)

CacheAgrees ==
    Quiet /\ ~owed =>
        \A q \in Queries : cache[q] # None /\ ~cache[q].raced => cache[q].shown = Current(q)

(* ... and with no exception: DD-07 as it reads.                           *)
CacheIsInvalidated ==
    Quiet /\ ~owed => \A q \in Queries : cache[q] # None => cache[q].shown = Current(q)

(* What makes CacheAgrees hold at every step: a search that was not        *)
(* overtaken has read what still stands; a cached answer that no longer    *)
(* does is one that a write under way has yet to scan or to delete.        *)
Excused(q) ==
    \/ owed
    \/ \E p \in Editors \cup Uploads :
          Writing(p) /\ (scanned[p] = None \/ q \in scanned[p])

CacheInv ==
    /\ \A p \in Editors \cup Uploads : scanned[p] # None => Clearing(p)
    /\ \A s \in Searches : ~sr[s].raced =>
          /\ sr[s].pc = "hydrate" => sr[s].hits = Hits(sr[s].q[2])
          /\ sr[s].pc = "store" => sr[s].shown = Current(sr[s].q)
    /\ \A q \in Queries : cache[q] # None /\ ~cache[q].raced =>
          cache[q].shown = Current(q) \/ Excused(q)
=============================================================================
