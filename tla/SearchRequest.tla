--------------------------- MODULE SearchRequest ---------------------------
(***************************************************************************)
(* What one search asks for, as the three readers of a request understand  *)
(* it: the cache (make_pricing_cache_key), the index (_build_filter_by)    *)
(* and the database, which steps in when the index is down                 *)
(* (db_fallback_search).  A client turns the pages of one request; each    *)
(* page may come from another reader.                                      *)
(*                                                                         *)
(* A request names stores (SKUs are treated alike, so they are left out)   *)
(* and the first and last day; the list may hold empty strings, as in      *)
(* `?store_id=`.  The rows do not change while the pages are turned, and   *)
(* every row has its document: what happens when not is PricingSearch's.   *)
(*                                                                         *)
(* Not covered: the text q, which both readers match in their own way      *)
(* (words with typing errors in the index, ILIKE in the database), and the *)
(* country, one equality in each.                                          *)
(***************************************************************************)
EXTENDS Naturals, Sequences, FiniteSets, SequencesExt, Positions

CONSTANTS
    Stores,      \* store ids
    Empty,       \* the empty string
    NoDay,       \* no bound
    Records,     \* a sequence of [store, day], as the index ranks them
    RequestsMade,\* requests of the clients
    PageSize

Days == {Records[i].day : i \in DOMAIN Records}

ASSUME RequestConstants ==
    /\ Records \in Seq([store: Stores, day: Nat])
    /\ RequestsMade \subseteq [stores: Seq(Stores \cup {Empty}), from: Days \cup {NoDay},
                               to: Days \cup {NoDay}]
    /\ PageSize \in Nat \ {0} /\ Empty \notin Stores /\ NoDay \notin Nat

VARIABLES
    request,  \* what the client asks
    pages     \* the answers so far: by whom, which records, of how many

qvars == <<request, pages>>

(* What a list names: its empty strings are left out.                      *)
Named(stores) == ToSet(stores) \ {Empty}

InDays(r, day) == (r.from = NoDay \/ r.from <= day) /\ (r.to = NoDay \/ day <= r.to)

(* Mutant of CacheKey: the last day is forgotten.                           *)
CacheKeyOpenEnded(r) == <<[s \in Stores |-> Cardinality({i \in DOMAIN r.stores : r.stores[i] = s})],
                          r.from>>

(* make_pricing_cache_key: the named stores in sorted order -- how often   *)
(* each occurs is all that says -- and the days.                           *)
CacheKey(r) == <<[s \in Stores |-> Cardinality({i \in DOMAIN r.stores : r.stores[i] = s})],
                 r.from, r.to>>

(* _build_filter_by: a list of empty strings only is no restriction.       *)
IndexFilter(r) == {i \in DOMAIN Records :
    /\ Named(r.stores) = {} \/ Records[i].store \in ToSet(r.stores)
    /\ InDays(r, Records[i].day)}

(* db_fallback_search_stmt: store_id IN (...), empty strings and all.      *)
DatabaseFilter(r) == {i \in DOMAIN Records :
    /\ r.stores = << >> \/ Records[i].store \in ToSet(r.stores)
    /\ InDays(r, Records[i].day)}

(* The n-th page of a sequence of records.                                 *)
PageOf(s, n) ==
    SubSeq(s, (n - 1) * PageSize + 1, IF n * PageSize < Len(s) THEN n * PageSize ELSE Len(s))

(* The client asks for the next page while there is one.                   *)
More == IF pages = << >> THEN TRUE ELSE Len(pages) * PageSize < pages[Len(pages)].total

Answer(by, ids) ==
    /\ pages' = Append(pages, [by |-> by, ids |-> PageOf(ids, Len(pages) + 1),
                               total |-> Len(ids)])
    /\ UNCHANGED request

(* The index, or the cache with what the index said to a request of the    *)
(* same key.  The rows are fetched by id and put in the order of the hits. *)
AskIndex ==
    /\ More
    /\ \E r \in RequestsMade :
          /\ CacheKey(r) = CacheKey(request)
          /\ Answer("index", InOrder(IndexFilter(r)))

(* ORDER BY date DESC says nothing of records of one day.                  *)
Newest(s) == \A i, j \in DOMAIN s : i < j => Records[s[i]].day >= Records[s[j]].day

(* The index is down: db_fallback_search, its own statement for each page. *)
AskDatabase ==
    /\ More
    /\ \E s \in SetToSeqs(DatabaseFilter(request)) : Newest(s) /\ Answer("database", s)

RequestInit == request \in RequestsMade /\ pages = << >>

RequestNext == AskIndex \/ AskDatabase

RequestSpec == RequestInit /\ [][RequestNext]_qvars

-----------------------------------------------------------------------------
(* Whoever answers, the records on a page are records the request asks     *)
(* for; and all readers find the same number of them, unless the list of   *)
(* stores is made of empty strings: then the index takes it for no list,   *)
(* and the database for stores that do not exist.                          *)
ReadersAgree ==
    \A n \in DOMAIN pages :
        /\ \A i \in ToSet(pages[n].ids) :
              /\ InDays(request, Records[i].day)
              /\ Named(request.stores) # {} => Records[i].store \in ToSet(request.stores)
        /\ request.stores = << >> \/ Named(request.stores) # {} =>
              pages[n].total = pages[1].total

(* Pages answered by one reader, turned to the end, show every record that *)
(* was found once -- from the database only if no two of them are of one   *)
(* day, for records of one day come in another order each time.            *)
PagesPartition ==
    \A by \in {"index", "database"} :
        LET found == IF by = "index" THEN IndexFilter(request) ELSE DatabaseFilter(request)
        IN  /\ pages # << >> /\ ~More
            /\ \A n \in DOMAIN pages : pages[n].by = by
            /\ by = "index" \/ \A i, j \in found : Records[i].day = Records[j].day => i = j
            => /\ UNION {ToSet(pages[n].ids) : n \in DOMAIN pages} = found
               /\ \A m, n \in DOMAIN pages :
                     \A k \in DOMAIN pages[m].ids, l \in DOMAIN pages[n].ids :
                        pages[m].ids[k] = pages[n].ids[l] => m = n /\ k = l

(* Who answers which page shows in the order of the records; in how many   *)
(* there are, when the list of stores is made of empty strings; and, when  *)
(* records of one day come from the database, in which ones are repeated   *)
(* or missed.  In nothing else.                                            *)
PagesAgree == ReadersAgree /\ PagesPartition
=============================================================================
