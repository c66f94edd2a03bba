---------------------------- MODULE WorkerCaches ----------------------------
(***************************************************************************)
(* The caches of search answers when no Redis is configured: every worker  *)
(* has two of its own, for answers and for facets (pricing_search_cache.py,*)
(* module TTLCache), and a write clears those of the worker that served    *)
(* it.  How old can an answer be?                                          *)
(*                                                                         *)
(* The catalogue is the number of its latest version; `since` says when    *)
(* each version was made.  A search takes at most Patience ticks from the  *)
(* moment it reads the catalogue to the moment it stores its answer.       *)
(*                                                                         *)
(* Not covered: keys (every search asks the same), the bound on entries    *)
(* (TTLCache), the index being behind the catalogue (IndexSync).           *)
(***************************************************************************)
EXTENDS Naturals, Sequences, FiniteSets

CONSTANTS
    Workers,
    Lifespan,   \* search_cache_ttl_seconds
    Patience,   \* how long a search may be in flight
    LastTick, LastVersion,  \* bounds, for model checking only
    Never       \* in place of an entry

CacheScopes == {"search", "meta"}

ASSUME WorkerConstants ==
    /\ {Lifespan, Patience, LastTick, LastVersion} \subseteq Nat
    /\ Never \notin [version: Nat, expires_at: Nat]

VARIABLES
    time,     \* time.monotonic, the same for all workers
    since,    \* version -> when it was committed
    writing,  \* workers that committed a version and have yet to clear
    cached,   \* worker -> scope -> its entry
    flight,   \* worker -> scope -> the search in flight: what it read, when
    seen,     \* history: the last answer, where, and whether from a cache
    floor     \* history: worker -> scope -> the version of its last clear,
              \* if no search was in flight then

wvars == <<time, since, writing, cached, flight, seen, floor>>

Version == Len(since)

Unseen == [worker |-> Never, scope |-> Never, version |-> 0, hit |-> FALSE]

WInit ==
    /\ time = 0 /\ since = <<0>>
    /\ writing = {}
    /\ cached = [w \in Workers |-> [s \in CacheScopes |-> Never]]
    /\ flight = [w \in Workers |-> [s \in CacheScopes |-> Never]]
    /\ seen = Unseen
    /\ floor = [w \in Workers |-> [s \in CacheScopes |-> 0]]

(* An edit or a chunk is committed by worker w.                            *)
Commit(w) ==
    /\ Version < LastVersion /\ w \notin writing
    /\ since' = Append(since, time)
    /\ writing' = writing \cup {w}
    /\ seen' = Unseen
    /\ UNCHANGED <<time, cached, flight, floor>>

(* What the caches of w may hold from now on.                              *)
Cleared(w) == [s \in CacheScopes |-> IF flight[w][s] = Never THEN Version ELSE floor[w][s]]

(* Mutant of ClearCaches: the facets stay.                                  *)
ClearSearchOnly(w) ==
    /\ w \in writing
    /\ writing' = writing \ {w}
    /\ cached' = [cached EXCEPT ![w]["search"] = Never]
    /\ seen' = Unseen
    /\ floor' = [floor EXCEPT ![w] = Cleared(w)]
    /\ UNCHANGED <<time, since, flight>>

(* clear_pricing_search_caches, at the worker that served the write.       *)
ClearCaches(w) ==
    /\ w \in writing
    /\ writing' = writing \ {w}
    /\ cached' = [cached EXCEPT ![w] = [s \in CacheScopes |-> Never]]
    /\ seen' = Unseen
    /\ floor' = [floor EXCEPT ![w] = Cleared(w)]
    /\ UNCHANGED <<time, since, flight>>

(* The write fails after its commit: nothing is cleared.                   *)
WriteFails(w) ==
    /\ w \in writing
    /\ writing' = writing \ {w}
    /\ seen' = Unseen
    /\ UNCHANGED <<time, since, cached, flight, floor>>

Fresh(e) == e # Never /\ time < e.expires_at

Hit(w, s) ==
    /\ Fresh(cached[w][s])
    /\ seen' = [worker |-> w, scope |-> s, version |-> cached[w][s].version, hit |-> TRUE]
    /\ UNCHANGED <<time, since, writing, cached, flight, floor>>

(* A miss reads the catalogue ...                                          *)
Read(w, s) ==
    /\ ~Fresh(cached[w][s]) /\ flight[w][s] = Never
    /\ flight' = [flight EXCEPT ![w][s] = [version |-> Version, at |-> time]]
    /\ cached' = [cached EXCEPT ![w][s] = Never]
    /\ seen' = Unseen
    /\ UNCHANGED <<time, since, writing, floor>>

(* ... and stores and returns what it read.                                *)
Store(w, s) ==
    /\ flight[w][s] # Never
    /\ LET v == flight[w][s].version IN
          /\ cached' = [cached EXCEPT ![w][s] =
                IF Lifespan > 0 THEN [version |-> v, expires_at |-> time + Lifespan] ELSE Never]
          /\ seen' = [worker |-> w, scope |-> s, version |-> v, hit |-> FALSE]
    /\ flight' = [flight EXCEPT ![w][s] = Never]
    /\ UNCHANGED <<time, since, writing, floor>>

Pass ==
    /\ time < LastTick
    /\ \A w \in Workers, s \in CacheScopes : flight[w][s] # Never => time < flight[w][s].at + Patience
    /\ time' = time + 1
    /\ seen' = Unseen
    /\ UNCHANGED <<since, writing, cached, flight, floor>>

WNext ==
    \/ Pass
    \/ \E w \in Workers :
          \/ Commit(w) \/ ClearCaches(w) \/ WriteFails(w)
          \/ \E s \in CacheScopes : Hit(w, s) \/ Read(w, s) \/ Store(w, s)

WSpec == WInit /\ [][WNext]_wvars

-----------------------------------------------------------------------------
(* Type invariant.                                                         *)
WorkersTypeOK ==
    /\ time \in Nat /\ since \in Seq(Nat) /\ writing \subseteq Workers
    /\ \A w \in Workers, s \in CacheScopes :
          /\ cached[w][s] \in [version: 1 .. Version, expires_at: Nat] \cup {Never}
          /\ flight[w][s] \in [version: 1 .. Version, at: 0 .. time] \cup {Never}
    /\ seen \in [worker: Workers \cup {Never}, scope: CacheScopes \cup {Never}, version: 0 .. Version, hit: BOOLEAN]

(* No answer hides a write for longer than an entry lives and a search     *)
(* takes, at whatever worker the write was served and whether or not it    *)
(* came to clear a cache.                                                  *)
StaleForALifespan ==
    seen.worker # Never /\ seen.version < Version =>
        IF seen.hit THEN time < since[seen.version + 1] + Patience + Lifespan
                    ELSE time <= since[seen.version + 1] + Patience

(* A worker that was asked to write and came to clear its caches does not  *)
(* answer from them, for searches or facets, as if nothing was written --  *)
(* unless a search was in flight while it cleared them.                    *)
OwnWritesSeen == seen.hit => seen.version >= floor[seen.worker][seen.scope]

(* What a write hides from whom, and for how long, is bounded.             *)
StalenessIsBounded == StaleForALifespan /\ OwnWritesSeen
=============================================================================
