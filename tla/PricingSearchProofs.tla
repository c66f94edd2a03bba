------------------------- MODULE PricingSearchProofs -------------------------
(* The cached answers agree with the stores whenever no write is under way *)
(* or owes a clear, but for those whose search a write overtook.           *)
EXTENDS PricingSearch, PricingWritesProofs

Writers == Editors \cup Uploads

SearchShape(x) ==
    /\ x \in SearchState
    /\ x.pc \in {"index", "hydrate", "store", "fallback"} => x.q \in Queries
    /\ x.pc = "hydrate" => x.q[1] = "search"
    /\ x.pc = "store" => x.shown \in Answer

SearchTypes == SearchTypeOK /\ \A s \in Searches : SearchShape(sr[s])

SearchInv == TypeInv /\ SearchTypes /\ CacheInv

-----------------------------------------------------------------------------
(* What a write step may do.  One that changes a row or a document is that *)
(* of a request that still has to clear or that ends without clearing; and *)
(* a request about to clear stays so or ends.                              *)
Touches == rows' # rows \/ docs' # docs
Owing ==
    \/ \E p \in Writers : Writing(p)' /\ ~Clearing(p)
    \/ \E p \in Writers : Writing(p) /\ ~Writing(p)'
ClearsOrEnds ==
    \A p \in Writers : Clearing(p) => Clearing(p)' \/ ~Writing(p)'

WriteFacts == (Touches => Owing) /\ ClearsOrEnds

LEMMA EditWriteFacts ==
    ASSUME TypeInv, NEW e \in Editors, EditWrite(e) PROVE WriteFacts
<1>1. /\ ed \in [Editors -> EditState] /\ ed[e].pc = "read" /\ UNCHANGED <<up, docs>>
      /\ e \in Writers
  BY DEF EditWrite, TypeInv, TypeOK, Writers
<1>2. PICK x : ed' = [ed EXCEPT ![e] = x]
  BY DEF EditWrite, EditEnd
<1>3. ClearsOrEnds
  BY <1>1, <1>2 DEF ClearsOrEnds, Clearing, Writers
<1>4. ASSUME Touches PROVE Owing
  <2>1. ed' = [ed EXCEPT ![e] = [EditIdle EXCEPT !.pc = "committed", !.id = ed[e].id,
                                                 !.push = AuditOf(e).new]]
    BY <1>1, <1>4 DEF Touches, EditWrite
  <2>2. ed'[e].pc = "committed"
    BY <1>1, <2>1 DEF EditIdle
  <2>3. Writing(e)' /\ ~Clearing(e)
    BY <1>1, <2>2 DEF Writing, Clearing
  <2> QED
    BY <1>1, <2>3 DEF Owing
<1> QED
  BY <1>3, <1>4 DEF WriteFacts

LEMMA EditIndexFacts ==
    ASSUME TypeInv, NEW e \in Editors, EditIndex(e) PROVE WriteFacts
<1>1. /\ ed \in [Editors -> EditState] /\ ed[e].pc = "committed" /\ UNCHANGED up
      /\ e \in Writers
  BY DEF EditIndex, TypeInv, TypeOK, Writers
<1>2. PICK x : ed' = [ed EXCEPT ![e] = x]
  BY DEF EditIndex, EditEnd
<1>3. ClearsOrEnds
  BY <1>1, <1>2 DEF ClearsOrEnds, Clearing, Writers
<1>4. Writing(e) /\ ~Clearing(e)
  BY <1>1 DEF Writing, Clearing
<1> QED
  BY <1>1, <1>3, <1>4 DEF WriteFacts, Owing

LEMMA EditOtherFacts ==
    ASSUME TypeInv, NEW e \in Editors, EditRead(e) \/ EditCrash(e) PROVE WriteFacts
<1>1. /\ ed \in [Editors -> EditState] /\ UNCHANGED <<up, rows, docs>> /\ e \in Writers
  BY DEF EditRead, EditCrash, TypeInv, TypeOK, Writers, db
<1>2. PICK x : ed' = [ed EXCEPT ![e] = x]
  BY DEF EditRead, EditCrash, EditEnd
<1>3. ed[e].pc = "indexed" => ed'[e].pc = "done"
  <2>1. ASSUME NEW i, NEW res, EditEnd(e, i, res) PROVE ed'[e].pc = "done"
    BY <1>1, <2>1 DEF EditEnd, EditIdle
  <2> QED
    BY <2>1 DEF EditRead, EditCrash
<1>4. ClearsOrEnds
  <2>1. ASSUME NEW p \in Writers, Clearing(p) PROVE Clearing(p)' \/ ~Writing(p)'
    <3>1. CASE p = e
      BY <1>3, <2>1, <3>1 DEF Clearing, Writing
    <3>2. CASE p # e
      BY <1>1, <1>2, <2>1, <3>2 DEF Clearing, Writers
    <3> QED
      BY <3>1, <3>2
  <2> QED
    BY <2>1 DEF ClearsOrEnds
<1> QED
  BY <1>1, <1>4 DEF WriteFacts, Touches

LEMMA UploadMoveFacts ==
    ASSUME TypeInv, NEW u \in Uploads, UploadPersist(u) \/ UploadIndex(u) PROVE WriteFacts
<1>1. /\ up \in [Uploads -> UploadState] /\ up[u].pc \in {"chunk", "index"} /\ UNCHANGED ed
      /\ u \in Writers /\ u \notin Editors
  BY RequestsAreDistinct DEF UploadPersist, UploadIndex, TypeInv, TypeOK, Writers
<1>2. PICK x : up' = [up EXCEPT ![u] = x]
  BY DEF UploadPersist, UploadIndex
<1>3. ClearsOrEnds
  BY <1>1, <1>2 DEF ClearsOrEnds, Clearing, Writers
<1>4. Writing(u) /\ ~Clearing(u)
  BY <1>1 DEF Writing, Clearing
<1> QED
  BY <1>1, <1>3, <1>4 DEF WriteFacts, Owing

LEMMA UploadOtherFacts ==
    ASSUME TypeInv, NEW u \in Uploads,
           \/ UploadReject(u) \/ UploadStart(u) \/ UploadFinish(u) \/ UploadFail(u)
           \/ UploadCrash(u)
    PROVE  WriteFacts
<1>1. /\ up \in [Uploads -> UploadState] /\ UNCHANGED <<ed, rows, docs>>
      /\ u \in Writers /\ u \notin Editors
  BY RequestsAreDistinct DEF UploadReject, UploadStart, UploadFinish, UploadFail, UploadCrash,
     TypeInv, TypeOK, Writers, db
<1>2. PICK x : up' = [up EXCEPT ![u] = x]
  BY DEF UploadReject, UploadStart, UploadFinish, UploadFail, UploadCrash, UploadEnd
<1>3. up[u].pc = "closed" => up'[u].pc = "done"
  <2>1. ASSUME NEW res, UploadEnd(u, res) PROVE up'[u].pc = "done"
    BY <1>1, <2>1 DEF UploadEnd, UploadState
  <2> QED
    BY <2>1 DEF UploadReject, UploadStart, UploadFinish, UploadFail, UploadCrash
<1>4. ClearsOrEnds
  <2>1. ASSUME NEW p \in Writers, Clearing(p) PROVE Clearing(p)' \/ ~Writing(p)'
    <3>1. CASE p = u
      BY <1>1, <1>3, <2>1, <3>1 DEF Clearing, Writing
    <3>2. CASE p # u
      BY <1>1, <1>2, <2>1, <3>2 DEF Clearing, Writers
    <3> QED
      BY <3>1, <3>2
  <2> QED
    BY <2>1 DEF ClearsOrEnds
<1> QED
  BY <1>1, <1>4 DEF WriteFacts, Touches

LEMMA WriteStepFacts ==
    ASSUME TypeInv, WriteStep PROVE WriteFacts
  BY EditWriteFacts, EditIndexFacts, EditOtherFacts, UploadMoveFacts, UploadOtherFacts
     DEF WriteStep

-----------------------------------------------------------------------------
(* A step of the whole is a step of the write paths, or leaves them alone. *)
LEMMA SearchNextIsNext == [SNext]_allvars => [Next]_vars
<1> SUFFICES ASSUME [SNext]_allvars PROVE [Next]_vars
  OBVIOUS
<1>1. CASE WriteStep
  BY <1>1 DEF WriteStep, Next, EditStep, UploadStep
<1>2. ASSUME NEW p \in Writers, ClearDelete(p) \/ ClearFail(p) PROVE [Next]_vars
  BY <1>2 DEF ClearDelete, ClearFail, Respond, Writers, Next, EditStep, UploadStep
<1>3. ASSUME NEW p \in Writers, ClearScan(p) PROVE [Next]_vars
  BY <1>3 DEF ClearScan, vars
<1>4. ASSUME NEW s \in Searches, SearchStep(s) PROVE [Next]_vars
  BY <1>4 DEF SearchStep, SearchStart, SearchIndex, SearchHydrate, SearchStore, SearchFallback, vars
<1>5. ASSUME NEW q \in Queries, Expire(q) PROVE [Next]_vars
  BY <1>5 DEF Expire, vars
<1>6. CASE UNCHANGED allvars
  BY <1>6 DEF allvars, vars
<1> QED
  BY <1>1, <1>2, <1>3, <1>4, <1>5, <1>6 DEF SNext, Writers

-----------------------------------------------------------------------------
(* Types                                                                   *)

LEMMA AnswerTypes ==
    ASSUME TypeInv
    PROVE  /\ \A hits \in SUBSET Ids : Hydrated(hits) \in Answer
           /\ \A f \in Filters : Facets(f) \in Answer /\ Fallback(f) \in Answer /\ Hits(f) \in SUBSET Ids
           /\ NoFacets \in Answer
<1>1. rows \in [Ids -> Row \cup {None}] /\ docs \in [Ids -> Line \cup {None}]
  BY DEF TypeInv, TypeOK
<1>3. \A hits \in SUBSET Ids : Hydrated(hits) \in Answer
  BY <1>1 DEF Hydrated, Answer
<1>4. \A f \in Filters : Facets(f) \in Answer
  BY <1>1 DEF Facets, Answer
<1>5. \A f \in Filters : Fallback(f) \in Answer
  BY <1>1 DEF Fallback, Answer
<1> QED
  BY <1>3, <1>4, <1>5 DEF NoFacets, Answer, Hits

LEMMA SearchPut ==
    ASSUME TypeInv', SearchTypes, NEW s \in Searches, NEW x, SearchShape(x),
           sr' = [sr EXCEPT ![s] = x], UNCHANGED <<cache, scanned, owed>>
    PROVE  SearchTypes'
  BY DEF SearchTypes, SearchTypeOK, SearchShape, TypeInv

LEMMA SearchEndShape ==
    ASSUME NEW q \in Queries, NEW shown \in Answer \cup {None},
           NEW via \in {"cache", "index", "fallback", "error"}
    PROVE  SearchShape([SearchIdle EXCEPT !.pc = "done", !.q = q, !.shown = shown, !.via = via])
  BY DEF SearchShape, SearchState, SearchIdle

LEMMA QueryParts == \A q \in Queries : q[1] \in {"search", "meta"} /\ q[2] \in Filters
  BY FilterTypes DEF Queries

LEMMA SearchStepTypes ==
    ASSUME TypeInv, TypeInv', SearchTypes, NEW s \in Searches,
           SearchStart(s) \/ SearchIndex(s) \/ SearchHydrate(s) \/ SearchFallback(s)
    PROVE  SearchTypes'
<1>1. SearchShape(sr[s]) /\ sr[s] \in SearchState /\ UNCHANGED <<cache, scanned, owed>>
  BY DEF SearchTypes, SearchTypeOK, SearchStart, SearchIndex, SearchHydrate, SearchFallback
<1>2. CASE SearchStart(s)
  <2>1. PICK q \in Queries :
          \/ cache[q] # None /\ SearchEnd(s, q, cache[q].shown, "cache")
          \/ sr' = [sr EXCEPT ![s] = [SearchIdle EXCEPT !.pc = "index", !.q = q]]
    BY <1>2 DEF SearchStart
  <2>2. CASE cache[q] # None /\ SearchEnd(s, q, cache[q].shown, "cache")
    <3>1. cache[q].shown \in Answer
      BY <2>2 DEF SearchTypes, SearchTypeOK
    <3> QED
      BY <1>1, <2>2, <3>1, SearchEndShape, SearchPut DEF SearchEnd
  <2>3. CASE sr' = [sr EXCEPT ![s] = [SearchIdle EXCEPT !.pc = "index", !.q = q]]
    <3>1. SearchShape([SearchIdle EXCEPT !.pc = "index", !.q = q])
      BY DEF SearchShape, SearchState, SearchIdle
    <3> QED
      BY <1>1, <2>3, <3>1, SearchPut
  <2> QED
    BY <2>1, <2>2, <2>3
<1>3. CASE SearchIndex(s)
  <2> DEFINE q == sr[s].q
  <2>1. q \in Queries /\ q[1] \in {"search", "meta"} /\ q[2] \in Filters
    BY <1>1, <1>3, QueryParts DEF SearchIndex, SearchShape
  <2>2. Hits(q[2]) \in SUBSET Ids /\ Facets(q[2]) \in Answer /\ NoFacets \in Answer
    BY <2>1, AnswerTypes
  <2>3. q[1] = "search" => SearchShape([sr[s] EXCEPT !.pc = "hydrate", !.hits = Hits(q[2])])
    BY <1>1, <2>1, <2>2 DEF SearchShape, SearchState
  <2>4. SearchShape([sr[s] EXCEPT !.pc = "store", !.shown = Facets(q[2])])
    BY <1>1, <2>1, <2>2 DEF SearchShape, SearchState
  <2>5. SearchShape([sr[s] EXCEPT !.pc = "fallback"])
    BY <1>1, <2>1 DEF SearchShape, SearchState
  <2>6. PICK x : SearchShape(x) /\ sr' = [sr EXCEPT ![s] = x]
    BY <1>3, <2>1, <2>2, <2>3, <2>4, <2>5, SearchEndShape DEF SearchIndex, SearchEnd
  <2> QED
    BY <1>1, <2>6, SearchPut
<1>4. CASE SearchHydrate(s)
  <2>1. Hydrated(sr[s].hits) \in Answer
    BY <1>1, AnswerTypes DEF SearchState
  <2>2. SearchShape([sr[s] EXCEPT !.pc = "store", !.shown = Hydrated(sr[s].hits), !.hits = {}])
    BY <1>1, <1>4, <2>1 DEF SearchShape, SearchState, SearchHydrate
  <2>3. SearchShape([sr[s] EXCEPT !.pc = "fallback", !.hits = {}])
    BY <1>1, <1>4 DEF SearchShape, SearchState, SearchHydrate
  <2> QED
    BY <1>1, <1>4, <2>2, <2>3, SearchPut DEF SearchHydrate
<1>5. CASE SearchFallback(s)
  <2>1. sr[s].q \in Queries /\ Fallback(sr[s].q[2]) \in Answer
    BY <1>1, <1>5, QueryParts, AnswerTypes DEF SearchFallback, SearchShape
  <2> QED
    BY <1>1, <1>5, <2>1, SearchEndShape, SearchPut DEF SearchFallback, SearchEnd
<1> QED
  BY <1>2, <1>3, <1>4, <1>5

LEMMA SearchStoreTypes ==
    ASSUME TypeInv, TypeInv', SearchTypes, NEW s \in Searches, SearchStore(s)
    PROVE  SearchTypes'
<1>1. SearchShape(sr[s]) /\ sr[s] \in SearchState /\ sr[s].pc = "store"
  BY DEF SearchTypes, SearchTypeOK, SearchStore
<1>2. sr[s].q \in Queries /\ sr[s].raced \in BOOLEAN /\ sr[s].shown \in Answer
  BY <1>1 DEF SearchShape, SearchState
<1>3. cache' \in [Queries -> [shown: Answer, raced: BOOLEAN] \cup {None}]
  BY <1>2 DEF SearchStore, SearchTypes, SearchTypeOK
<1>4. PICK x : SearchShape(x) /\ sr' = [sr EXCEPT ![s] = x]
  BY <1>2, SearchEndShape DEF SearchStore, SearchEnd
<1> QED
  BY <1>3, <1>4 DEF SearchStore, SearchTypes, SearchTypeOK, SearchShape, TypeInv

LEMMA WriteStepTypes ==
    ASSUME TypeInv', SearchTypes, WriteStep PROVE SearchTypes'
<1>1. /\ sr' = [s \in Searches |-> IF Overtaken(s) THEN [sr[s] EXCEPT !.raced = TRUE] ELSE sr[s]]
      /\ UNCHANGED cache
      /\ scanned' = [p \in Editors \cup Uploads |-> IF Writing(p)' THEN scanned[p] ELSE None]
      /\ owed' = (owed \/ Uncleared)
  BY DEF WriteStep, MarkRaced
<1>2. ASSUME NEW s \in Searches PROVE SearchShape(sr'[s])
  <2>1. SearchShape(sr[s]) /\ sr[s] \in SearchState
    BY DEF SearchTypes, SearchTypeOK
  <2>2. SearchShape([sr[s] EXCEPT !.raced = TRUE])
    BY <2>1 DEF SearchShape, SearchState
  <2> QED
    BY <1>1, <2>1, <2>2
<1>3. sr' \in [Searches -> SearchState]
  BY <1>1, <1>2 DEF SearchShape
<1>4. scanned' \in [Editors \cup Uploads -> (SUBSET Queries) \cup {None}]
  BY <1>1 DEF SearchTypes, SearchTypeOK
<1>5. owed' \in BOOLEAN
  BY <1>1
<1> QED
  BY <1>1, <1>2, <1>3, <1>4, <1>5 DEF SearchTypes, SearchTypeOK, TypeInv

LEMMA ClearTypes ==
    ASSUME TypeInv', SearchTypes, NEW p \in Writers, ClearScan(p) \/ ClearDelete(p) \/ ClearFail(p)
    PROVE  SearchTypes'
<1>1. UNCHANGED sr /\ owed' \in BOOLEAN
  BY DEF ClearScan, ClearDelete, ClearFail, SearchTypes, SearchTypeOK
<1>2. cache' \in [Queries -> [shown: Answer, raced: BOOLEAN] \cup {None}]
  BY DEF ClearScan, ClearDelete, ClearFail, SearchTypes, SearchTypeOK
<1>3. scanned' \in [Editors \cup Uploads -> (SUBSET Queries) \cup {None}]
  BY DEF ClearScan, ClearDelete, ClearFail, SearchTypes, SearchTypeOK
<1> QED
  BY <1>1, <1>2, <1>3 DEF SearchTypes, SearchTypeOK, TypeInv

LEMMA ExpireTypes ==
    ASSUME TypeInv', SearchTypes, NEW q \in Queries, Expire(q) PROVE SearchTypes'
  BY DEF Expire, SearchTypes, SearchTypeOK, TypeInv

LEMMA NextTypes ==
    ASSUME TypeInv, TypeInv', SearchTypes, [SNext]_allvars PROVE SearchTypes'
<1>1. CASE UNCHANGED allvars
  BY <1>1 DEF allvars, SearchTypes, SearchTypeOK, TypeInv
<1> QED
  BY <1>1, SearchStepTypes, SearchStoreTypes, WriteStepTypes, ClearTypes, ExpireTypes
     DEF SNext, SearchStep, Writers

-----------------------------------------------------------------------------
(* The cache                                                               *)

CacheEntry(q) ==
    cache[q] # None /\ ~cache[q].raced => cache[q].shown = Current(q) \/ Excused(q)
SearchFresh(s) ==
    ~sr[s].raced =>
        /\ sr[s].pc = "hydrate" => sr[s].hits = Hits(sr[s].q[2])
        /\ sr[s].pc = "store" => sr[s].shown = Current(sr[s].q)

LEMMA CacheParts ==
    CacheInv <=> /\ \A p \in Writers : scanned[p] # None => Clearing(p)
                 /\ \A s \in Searches : SearchFresh(s)
                 /\ \A q \in Queries : CacheEntry(q)
  BY DEF CacheInv, CacheEntry, SearchFresh, Writers

LEMMA CachePartsPrimed ==
    CacheInv' <=> /\ \A p \in Writers : scanned'[p] # None => Clearing(p)'
                  /\ \A s \in Searches : SearchFresh(s)'
                  /\ \A q \in Queries : CacheEntry(q)'
  BY DEF CacheInv, CacheEntry, SearchFresh, Writers

(* Current reads rows and documents, nothing else.                         *)
LEMMA CurrentStays ==
    ASSUME UNCHANGED <<rows, docs>>, NEW q
    PROVE  Current(q)' = Current(q) /\ Hits(q[2])' = Hits(q[2])
  BY DEF Current, Facets, Hydrated, Hits

LEMMA SearchStepCache ==
    ASSUME SearchInv, NEW s \in Searches, SearchStep(s) PROVE CacheInv'
<1>1. /\ sr \in [Searches -> SearchState] /\ SearchShape(sr[s]) /\ SearchFresh(s)
      /\ UNCHANGED <<vars, scanned, owed>>
  BY CacheParts DEF SearchInv, SearchTypes, SearchTypeOK, SearchStep, SearchStart, SearchIndex,
     SearchHydrate, SearchStore, SearchFallback
<1>2. UNCHANGED <<rows, docs, ed, up>>
  BY <1>1 DEF vars
<1>3. \A q \in Queries : Excused(q)' <=> Excused(q)
  BY <1>1, <1>2 DEF Excused, Writing
<1>4. \A p \in Writers : scanned'[p] # None => Clearing(p)'
  BY <1>1, <1>2, CacheParts DEF SearchInv, Clearing
<1>5. ASSUME NEW q \in Queries, cache'[q] = cache[q] PROVE CacheEntry(q)'
  BY <1>2, <1>3, <1>5, CacheParts, CurrentStays DEF CacheEntry, SearchInv
<1>6. \A q \in Queries : CacheEntry(q)'
  <2>1. CASE SearchStart(s) \/ SearchIndex(s) \/ SearchHydrate(s) \/ SearchFallback(s)
    BY <1>5, <2>1 DEF SearchStart, SearchIndex, SearchHydrate, SearchFallback
  <2>2. CASE SearchStore(s)
    <3>1. sr[s].q \in Queries /\ (~sr[s].raced => sr[s].shown = Current(sr[s].q))
      BY <1>1, <2>2 DEF SearchStore, SearchShape, SearchFresh
    <3>2. ASSUME NEW q \in Queries PROVE CacheEntry(q)'
      <4>1. CASE cache'[q] = cache[q]
        BY <1>5, <4>1
      <4>2. CASE cache'[q] # cache[q]
        <5>1. q = sr[s].q /\ cache'[q] = [shown |-> sr[s].shown, raced |-> sr[s].raced]
          BY <2>2, <4>2 DEF SearchStore, SearchInv, SearchTypes, SearchTypeOK
        <5> QED
          BY <1>2, <3>1, <5>1, CurrentStays DEF CacheEntry
      <4> QED
        BY <4>1, <4>2
    <3> QED
      BY <3>2
  <2> QED
    BY <2>1, <2>2 DEF SearchStep
<1>7. PICK x : sr' = [sr EXCEPT ![s] = x]
  BY DEF SearchStep, SearchStart, SearchIndex, SearchHydrate, SearchStore, SearchFallback, SearchEnd
<1>8. \A t \in Searches \ {s} : SearchFresh(t)'
  <2>1. ASSUME NEW t \in Searches \ {s} PROVE SearchFresh(t)'
    <3>1. sr'[t] = sr[t] /\ SearchFresh(t)
      BY <1>1, <1>7, CacheParts DEF SearchInv
    <3> QED
      BY <1>2, <3>1 DEF SearchFresh, Current, Facets, Hydrated, Hits
  <2> QED
    BY <2>1
<1>9. SearchFresh(s)'
  <2>1. CASE SearchStart(s) \/ SearchStore(s) \/ SearchFallback(s)
    <3>1. sr'[s].pc \notin {"hydrate", "store"}
      BY <1>1, <2>1 DEF SearchStart, SearchStore, SearchFallback, SearchEnd, SearchIdle
    <3> QED
      BY <3>1 DEF SearchFresh
  <2>2. CASE SearchIndex(s)
    <3> DEFINE q == sr[s].q
    <3>1. \/ /\ q[1] = "search"
             /\ sr'[s] = [sr[s] EXCEPT !.pc = "hydrate", !.hits = Hits(q[2])]
          \/ /\ q[1] = "meta"
             /\ sr'[s] = [sr[s] EXCEPT !.pc = "store", !.shown = Facets(q[2])]
          \/ sr'[s] = [sr[s] EXCEPT !.pc = "fallback"]
          \/ sr'[s].pc = "done"
      BY <1>1, <2>2 DEF SearchIndex, SearchEnd, SearchIdle
    <3>2. CASE sr'[s] = [sr[s] EXCEPT !.pc = "hydrate", !.hits = Hits(q[2])]
      <4>1. sr'[s].pc = "hydrate" /\ sr'[s].hits = Hits(q[2]) /\ sr'[s].q = q
        BY <1>1, <3>2 DEF SearchState
      <4> QED
        BY <1>2, <4>1 DEF SearchFresh, Hits
    <3>3. CASE q[1] = "meta" /\ sr'[s] = [sr[s] EXCEPT !.pc = "store", !.shown = Facets(q[2])]
      <4>1. sr'[s].pc = "store" /\ sr'[s].shown = Facets(q[2]) /\ sr'[s].q = q
        BY <1>1, <3>3 DEF SearchState
      <4> QED
        BY <1>2, <3>3, <4>1 DEF SearchFresh, Current, Facets, Hits
    <3>4. CASE sr'[s].pc \notin {"hydrate", "store"}
      BY <3>4 DEF SearchFresh
    <3> QED
      BY <1>1, <3>1, <3>2, <3>3, <3>4 DEF SearchState
  <2>3. CASE SearchHydrate(s)
    <3> DEFINE q == sr[s].q
    <3>1. \/ sr'[s] = [sr[s] EXCEPT !.pc = "store", !.shown = Hydrated(sr[s].hits), !.hits = {}]
          \/ sr'[s] = [sr[s] EXCEPT !.pc = "fallback", !.hits = {}]
      BY <1>1, <2>3 DEF SearchHydrate
    <3>2. sr[s].pc = "hydrate" /\ q \in Queries /\ q[1] = "search"
          /\ (~sr[s].raced => sr[s].hits = Hits(q[2]))
      BY <1>1, <2>3 DEF SearchHydrate, SearchShape, SearchFresh
    <3>3. CASE sr'[s] = [sr[s] EXCEPT !.pc = "store", !.shown = Hydrated(sr[s].hits), !.hits = {}]
      <4>1. /\ sr'[s].pc = "store" /\ sr'[s].shown = Hydrated(sr[s].hits) /\ sr'[s].q = q
            /\ sr'[s].raced = sr[s].raced
        BY <1>1, <3>3 DEF SearchState
      <4>2. ~sr[s].raced => Hydrated(sr[s].hits) = Current(q)
        BY <3>2 DEF Current
      <4> QED
        BY <1>2, <3>2, <4>1, <4>2 DEF SearchFresh, Current, Facets, Hydrated, Hits
    <3>4. CASE sr'[s] = [sr[s] EXCEPT !.pc = "fallback", !.hits = {}]
      BY <1>1, <3>4 DEF SearchFresh, SearchState
    <3> QED
      BY <3>1, <3>3, <3>4
  <2> QED
    BY <2>1, <2>2, <2>3 DEF SearchStep
<1> QED
  BY <1>4, <1>6, <1>8, <1>9, CachePartsPrimed

(* A write step that changes what answers show still owes a clear, which   *)
(* excuses every cached answer; one that does not keeps each excuse.       *)
LEMMA WriteStepCache ==
    ASSUME SearchInv, WriteStep PROVE CacheInv'
<1>1. /\ sr' = [s \in Searches |-> IF Overtaken(s) THEN [sr[s] EXCEPT !.raced = TRUE] ELSE sr[s]]
      /\ UNCHANGED cache
      /\ scanned' = [p \in Writers |-> IF Writing(p)' THEN scanned[p] ELSE None]
      /\ owed' = (owed \/ Uncleared)
  BY DEF WriteStep, MarkRaced, Writers
<1>2. WriteFacts
  BY WriteStepFacts DEF SearchInv
<1>3. \A p \in Writers : scanned'[p] # None => Clearing(p)'
  BY <1>1, <1>2, CacheParts DEF SearchInv, WriteFacts, ClearsOrEnds
<1>4. ASSUME NEW s \in Searches PROVE SearchFresh(s)'
  <2>1. SearchShape(sr[s]) /\ sr[s] \in SearchState
    BY DEF SearchInv, SearchTypes, SearchTypeOK
  <2>2. CASE Overtaken(s)
    <3>1. sr'[s].raced
      BY <1>1, <2>1, <2>2 DEF SearchState
    <3> QED
      BY <3>1 DEF SearchFresh
  <2>3. CASE ~Overtaken(s)
    <3>1. sr'[s] = sr[s]
      BY <1>1, <2>3
    <3>2. sr[s].pc \in {"hydrate", "store"} => sr[s].q \in Queries
      BY <2>1 DEF SearchShape
    <3>3. sr[s].pc = "hydrate" => Hits(sr[s].q[2])' = sr[s].hits
      BY <2>3, <3>1, <3>2 DEF Overtaken, Hits
    <3>4. sr[s].pc = "store" => Current(sr[s].q)' = sr[s].shown
      BY <2>3, <3>1, <3>2 DEF Overtaken, Current, Facets, Hydrated, Hits
    <3> QED
      BY <3>1, <3>3, <3>4 DEF SearchFresh, Current, Facets, Hydrated, Hits
  <2> QED
    BY <2>2, <2>3
<1>5. ASSUME NEW q \in Queries PROVE CacheEntry(q)'
  <2>1. ASSUME NEW p \in Writers, Writing(p), ~Writing(p)' PROVE Excused(q)'
    BY <1>1, <2>1 DEF Uncleared, Writers, Excused
  <2>2. CASE Touches
    <3>1. Owing
      BY <1>2, <2>2 DEF WriteFacts
    <3>3. ASSUME NEW p \in Writers, Writing(p)', ~Clearing(p) PROVE Excused(q)'
      <4>1. scanned'[p] = None
        BY <1>1, <3>3, CacheParts DEF SearchInv
      <4> QED
        BY <3>3, <4>1 DEF Excused, Writers
    <3> QED
      BY <2>1, <3>1, <3>3 DEF Owing, CacheEntry
  <2>3. CASE ~Touches
    <3>1. UNCHANGED <<rows, docs>>
      BY <2>3 DEF Touches
    <3>2. ASSUME Excused(q) PROVE Excused(q)'
      <4>1. CASE owed
        BY <1>1, <4>1 DEF Excused
      <4>2. ASSUME NEW p \in Writers, Writing(p), scanned[p] = None \/ q \in scanned[p]
            PROVE  Excused(q)'
        <5>1. CASE Writing(p)'
          BY <1>1, <4>2, <5>1 DEF Excused, Writers
        <5> QED
          BY <2>1, <4>2, <5>1
      <4> QED
        BY <3>2, <4>1, <4>2 DEF Excused, Writers
    <3>3. CacheEntry(q)
      BY CacheParts DEF SearchInv
    <3> QED
      BY <1>1, <3>1, <3>2, <3>3, CurrentStays DEF CacheEntry
  <2> QED
    BY <2>2, <2>3
<1> QED
  BY <1>3, <1>4, <1>5, CachePartsPrimed

(* Searches do not see a step that leaves rows and documents alone.        *)
LEMMA SearchesUndisturbed ==
    ASSUME SearchInv, UNCHANGED <<rows, docs, sr>>
    PROVE  \A s \in Searches : SearchFresh(s)'
<1>1. ASSUME NEW s \in Searches PROVE SearchFresh(s)'
  <2>1. SearchFresh(s)
    BY CacheParts DEF SearchInv
  <2> QED
    BY <2>1 DEF SearchFresh, Current, Facets, Hydrated, Hits
<1> QED
  BY <1>1

LEMMA ClearScanCache ==
    ASSUME SearchInv, NEW p \in Writers, ClearScan(p) PROVE CacheInv'
<1>1. /\ UNCHANGED <<rows, docs, ed, up, cache, sr>> /\ Clearing(p)
      /\ scanned' = [scanned EXCEPT ![p] = {q \in Queries : cache[q] # None}]
      /\ scanned \in [Writers -> (SUBSET Queries) \cup {None}]
  BY DEF ClearScan, vars, SearchInv, SearchTypes, SearchTypeOK, Writers
<1>2. \A r \in Writers : scanned'[r] # None => Clearing(r)'
  BY <1>1, CacheParts DEF SearchInv, Clearing
<1>3. ASSUME NEW q \in Queries PROVE CacheEntry(q)'
  <2>1. Writing(p)' /\ scanned'[p] = {r \in Queries : cache[r] # None}
    BY <1>1 DEF Clearing, Writing
  <2> QED
    BY <1>1, <2>1 DEF CacheEntry, Excused, Writers
<1> QED
  BY <1>1, <1>2, <1>3, SearchesUndisturbed, CachePartsPrimed

(* What the two ways to answer 200 leave alone.                            *)
LEMMA RespondFacts ==
    ASSUME TypeInv, NEW p \in Writers, Respond(p)
    PROVE  /\ UNCHANGED <<rows, docs>>
           /\ \A r \in Writers \ {p} : (Clearing(r)' <=> Clearing(r)) /\ (Writing(r)' <=> Writing(r))
<1>1. ed \in [Editors -> EditState] /\ up \in [Uploads -> UploadState]
  BY DEF TypeInv, TypeOK
<1>2. CASE p \in Editors
  <2>1. UNCHANGED <<rows, docs, up>> /\ \A e \in Editors \ {p} : ed'[e] = ed[e]
    BY <1>1, <1>2 DEF Respond, EditRespond, EditEnd, db
  <2> QED
    BY <1>2, <2>1 DEF Clearing, Writing, Writers
<1>3. CASE p \notin Editors
  <2>1. UNCHANGED <<rows, docs, ed>> /\ \A u \in Uploads \ {p} : up'[u] = up[u]
    BY <1>1, <1>3 DEF Respond, UploadRespond, UploadEnd, db, Writers
  <2> QED
    BY <1>3, <2>1 DEF Clearing, Writing, Writers
<1> QED
  BY <1>2, <1>3

LEMMA ClearDeleteCache ==
    ASSUME SearchInv, NEW p \in Writers, ClearDelete(p) PROVE CacheInv'
<1>1. /\ scanned[p] # None /\ UNCHANGED <<sr, owed>>
      /\ cache' = [q \in Queries |-> IF q \in scanned[p] THEN None ELSE cache[q]]
      /\ scanned' = [scanned EXCEPT ![p] = None]
      /\ scanned \in [Writers -> (SUBSET Queries) \cup {None}]
  BY DEF ClearDelete, SearchInv, SearchTypes, SearchTypeOK, Writers
<1>2. /\ UNCHANGED <<rows, docs>>
      /\ \A r \in Writers \ {p} : (Clearing(r)' <=> Clearing(r)) /\ (Writing(r)' <=> Writing(r))
  BY RespondFacts DEF ClearDelete, SearchInv
<1>3. \A r \in Writers : scanned'[r] # None => Clearing(r)'
  BY <1>1, <1>2, CacheParts DEF SearchInv
<1>4. ASSUME NEW q \in Queries PROVE CacheEntry(q)'
  <2>1. CASE q \in scanned[p]
    BY <1>1, <2>1 DEF CacheEntry
  <2>2. CASE q \notin scanned[p]
    <3>1. cache'[q] = cache[q] /\ CacheEntry(q)
      BY <1>1, <2>2, CacheParts DEF SearchInv
    <3>2. Excused(q) => Excused(q)'
      BY <1>1, <1>2, <2>2 DEF Excused, Writers
    <3> QED
      BY <1>2, <3>1, <3>2, CurrentStays DEF CacheEntry
  <2> QED
    BY <2>1, <2>2
<1> QED
  BY <1>1, <1>2, <1>3, <1>4, SearchesUndisturbed, CachePartsPrimed

LEMMA ClearFailCache ==
    ASSUME SearchInv, NEW p \in Writers, ClearFail(p) PROVE CacheInv'
<1>1. /\ UNCHANGED <<sr, cache>> /\ owed'
      /\ scanned' = [scanned EXCEPT ![p] = None]
      /\ scanned \in [Writers -> (SUBSET Queries) \cup {None}]
  BY DEF ClearFail, SearchInv, SearchTypes, SearchTypeOK, Writers
<1>2. /\ UNCHANGED <<rows, docs>>
      /\ \A r \in Writers \ {p} : (Clearing(r)' <=> Clearing(r)) /\ (Writing(r)' <=> Writing(r))
  BY RespondFacts DEF ClearFail, SearchInv
<1>3. \A r \in Writers : scanned'[r] # None => Clearing(r)'
  BY <1>1, <1>2, CacheParts DEF SearchInv
<1>4. \A q \in Queries : CacheEntry(q)'
  BY <1>1 DEF CacheEntry, Excused
<1> QED
  BY <1>1, <1>2, <1>3, <1>4, SearchesUndisturbed, CachePartsPrimed

(* An expiry, or no step at all.                                           *)
LEMMA ExpireCache ==
    ASSUME SearchInv, UNCHANGED <<vars, sr, scanned, owed>>,
           \A q \in Queries : cache'[q] \in {cache[q], None}
    PROVE  CacheInv'
<1>1. UNCHANGED <<rows, docs, ed, up>>
  BY DEF vars
<1>2. \A p \in Writers : scanned'[p] # None => Clearing(p)'
  BY <1>1, CacheParts DEF SearchInv, Clearing
<1>3. ASSUME NEW q \in Queries PROVE CacheEntry(q)'
  <2>1. CacheEntry(q) /\ (Excused(q)' <=> Excused(q))
    BY <1>1, CacheParts DEF SearchInv, Excused, Writing
  <2> QED
    BY <1>1, <2>1, CurrentStays DEF CacheEntry
<1> QED
  BY <1>1, <1>2, <1>3, SearchesUndisturbed, CachePartsPrimed

-----------------------------------------------------------------------------
LEMMA InitSearchInv == SInit => SearchInv
<1> SUFFICES ASSUME SInit PROVE SearchInv
  OBVIOUS
<1>1. TypeInv
  BY InitTypeInv DEF SInit
<1>2. SearchShape(SearchIdle)
  BY DEF SearchShape, SearchState, SearchIdle
<1>3. SearchTypes
  BY <1>1, <1>2 DEF SInit, SearchTypes, SearchTypeOK, SearchShape, TypeInv
<1>4. CacheInv
  BY DEF SInit, CacheInv, SearchIdle
<1> QED
  BY <1>1, <1>3, <1>4 DEF SearchInv

LEMMA NextSearchInv == SearchInv /\ [SNext]_allvars => SearchInv'
<1> SUFFICES ASSUME SearchInv, [SNext]_allvars PROVE SearchInv'
  OBVIOUS
<1>1. TypeInv'
  BY SearchNextIsNext, NextTypeInv DEF SearchInv
<1>2. SearchTypes'
  BY <1>1, NextTypes DEF SearchInv
<1>3. CacheInv'
  <2>1. ASSUME NEW q \in Queries, Expire(q) PROVE CacheInv'
    <3>1. UNCHANGED <<vars, sr, scanned, owed>> /\ \A r \in Queries : cache'[r] \in {cache[r], None}
      BY <2>1 DEF Expire, SearchInv, SearchTypes, SearchTypeOK
    <3> QED
      BY <3>1, ExpireCache
  <2>2. CASE UNCHANGED allvars
    BY <2>2, ExpireCache DEF allvars
  <2> QED
    BY <2>1, <2>2, WriteStepCache, SearchStepCache, ClearScanCache, ClearDeleteCache,
       ClearFailCache DEF SNext, Writers
<1> QED
  BY <1>1, <1>2, <1>3 DEF SearchInv

(* Every behaviour of writes, searches and clears keeps the invariant.     *)
LEMMA SearchInvariant == SSpec => []SearchInv
  BY InitSearchInv, NextSearchInv, PTL DEF SSpec

(* The searches' state is well typed: what a request holds between two     *)
(* awaits, and what the cache may give back.                               *)
THEOREM SearchTypesCorrect == SSpec => []SearchTypeOK
<1>1. SearchInv => SearchTypeOK
  BY DEF SearchInv, SearchTypes
<1> QED
  BY <1>1, SearchInvariant, PTL

(* For any number of requests: when no write is under way and none owes a  *)
(* clear, a cached answer is stale only if a write overtook its search     *)
(* (services/pricing_search_cache.py, clear_pricing_search_caches).        *)
THEOREM CacheFollowsStores == SSpec => []CacheAgrees
<1>1. SearchInv => CacheAgrees
  BY DEF SearchInv, CacheInv, CacheAgrees, Quiet, Excused
<1> QED
  BY <1>1, SearchInvariant, PTL

(* The condition behind it, which holds also while writes are under way: a *)
(* search no write overtook has read what still stands, and a cached       *)
(* answer that no longer does is one a write under way has yet to scan or  *)
(* delete, unless a clear is owed (services/pricing_search_cache.py).      *)
THEOREM CacheIsOwedOrRight == SSpec => []CacheInv
<1>1. SearchInv => CacheInv
  BY DEF SearchInv
<1> QED
  BY <1>1, SearchInvariant, PTL
=============================================================================
