------------------------------ MODULE TTLCache ------------------------------
(***************************************************************************)
(* core/ttl_cache.py: the in-process cache of search answers, an           *)
(* OrderedDict that bounds its entries by least recent use and lets each   *)
(* live TTL ticks from the moment it was set.  Each call holds the lock    *)
(* from beginning to end, so a call is one step.                           *)
(*                                                                         *)
(* `entry` and `order` are the OrderedDict (its values and its order);     *)
(* `reply` is what the last get returned.  `last` and `recency` are        *)
(* history: what was set since the last clear, and in which order the keys *)
(* were last used -- an ideal cache without a bound.                       *)
(***************************************************************************)
EXTENDS Naturals, Sequences, FiniteSets

CONSTANTS
    CacheKeys,   \* make_pricing_cache_key(..)
    Values,      \* cached answers
    MaxSize,     \* search_cache_max_entries
    TTL,         \* search_cache_ttl_seconds
    MaxTime,     \* bound on the clock, for model checking only
    Absent

ASSUME CacheSize == MaxSize \in Nat /\ TTL \in Nat /\ MaxTime \in Nat
ASSUME CacheNone ==
    /\ Absent \notin CacheKeys \cup Values
    /\ Absent \notin [value: Values, expires_at: Nat]

VARIABLES now, entry, order, reply, last, recency

cvars == <<now, entry, order, reply, last, recency>>

Entry == [value: Values, expires_at: Nat]
Held  == {k \in CacheKeys : entry[k] # Absent}

(* The place of a key in an order that names it once.                      *)
Position(s, k) == CHOOSE n \in DOMAIN s : s[n] = k

(* The removal of a key, and OrderedDict.move_to_end.                      *)
Without(s, k) ==
    IF \E n \in DOMAIN s : s[n] = k
    THEN [n \in 1 .. Len(s) - 1 |-> IF n < Position(s, k) THEN s[n] ELSE s[n + 1]]
    ELSE s

MoveToEnd(s, k) == Append(Without(s, k), k)

Enabled == MaxSize > 0 /\ TTL > 0

NoReply == [key |-> Absent, value |-> Absent]

CInit ==
    /\ now = 0
    /\ entry = [k \in CacheKeys |-> Absent]
    /\ order = << >>
    /\ reply = NoReply
    /\ last = [k \in CacheKeys |-> Absent]
    /\ recency = << >>

(* An entry counts as expired from the very tick it expires at.            *)
Alive(e) == e # Absent /\ e.expires_at > now

(* Mutant of GetHit: a hit that does not count as a use.                    *)
GetHitInPlace(k) ==
    /\ Enabled /\ Alive(entry[k])
    /\ reply' = [key |-> k, value |-> entry[k].value]
    /\ recency' = MoveToEnd(recency, k)
    /\ UNCHANGED <<now, entry, order, last>>

(* Mutant of GetHit: a hit prolongs the life of its entry.                  *)
GetHitProlongs(k) ==
    /\ Enabled /\ Alive(entry[k])
    /\ order' = MoveToEnd(order, k)
    /\ entry' = [entry EXCEPT ![k].expires_at = now + TTL]
    /\ reply' = [key |-> k, value |-> entry[k].value]
    /\ recency' = MoveToEnd(recency, k)
    /\ UNCHANGED <<now, last>>

(* A hit makes its key the most recently used.                             *)
GetHit(k) ==
    /\ Enabled /\ Alive(entry[k])
    /\ order' = MoveToEnd(order, k)
    /\ reply' = [key |-> k, value |-> entry[k].value]
    /\ recency' = MoveToEnd(recency, k)
    /\ UNCHANGED <<now, entry, last>>

(* A miss drops the entry it found too old.                                *)
GetMiss(k) ==
    /\ ~(Enabled /\ Alive(entry[k]))
    /\ entry' = [entry EXCEPT ![k] = Absent]
    /\ order' = Without(order, k)
    /\ reply' = [key |-> k, value |-> Absent]
    /\ UNCHANGED <<now, last, recency>>

(* Mutant of Overfull: one entry too many.                                  *)
OverfullByTwo(s) == Len(s) > MaxSize + 1

Overfull(s) == Len(s) > MaxSize

(* set: the key moves to the end, and the oldest ones go while there are   *)
(* more than MaxSize -- at most one, since one was added.                  *)
Set(k, v) ==
    LET e     == [value |-> v, expires_at |-> now + TTL]
        moved == MoveToEnd(order, k)
        full  == Overfull(moved)
    IN
    /\ IF Enabled
       THEN /\ order' = IF full THEN Tail(moved) ELSE moved
            /\ entry' = [j \in CacheKeys |-> IF full /\ j = Head(moved) THEN Absent
                                             ELSE IF j = k THEN e ELSE entry[j]]
            /\ last' = [last EXCEPT ![k] = e]
            /\ recency' = MoveToEnd(recency, k)
       ELSE UNCHANGED <<order, entry, last, recency>>
    /\ reply' = NoReply
    /\ UNCHANGED now

Clear ==
    /\ entry' = [k \in CacheKeys |-> Absent]
    /\ order' = << >>
    /\ last' = [k \in CacheKeys |-> Absent]
    /\ recency' = << >>
    /\ reply' = NoReply
    /\ UNCHANGED now

(* time.monotonic moves on between calls.                                  *)
Tick ==
    /\ now < MaxTime
    /\ now' = now + 1
    /\ reply' = NoReply
    /\ UNCHANGED <<entry, order, last, recency>>

CNext ==
    \/ \E k \in CacheKeys : GetHit(k) \/ GetMiss(k)
    \/ \E k \in CacheKeys, v \in Values : Set(k, v)
    \/ Clear
    \/ Tick

CSpec == CInit /\ [][CNext]_cvars

-----------------------------------------------------------------------------
(* The dictionary and its order name the same keys, each once, and never   *)
(* more than MaxSize of them.                                              *)
CacheTypeOK ==
    /\ now \in 0 .. MaxTime
    /\ entry \in [CacheKeys -> Entry \cup {Absent}]
    /\ {order[n] : n \in DOMAIN order} = Held
    /\ Len(order) = Cardinality(Held)
    /\ Len(order) <= MaxSize
    /\ reply \in [key: CacheKeys \cup {Absent}, value: Values \cup {Absent}]

(* Least recent use decides what goes: a key that was set, has not expired *)
(* and is no longer held was used before every key that is held, and the   *)
(* cache has seen MaxSize fresher keys since.                              *)
EvictsLeastRecent ==
    \A k \in CacheKeys : Alive(last[k]) /\ entry[k] = Absent =>
        /\ \A j \in Held : Position(recency, k) < Position(recency, j)
        /\ Len(recency) - Position(recency, k) >= MaxSize

(* The cache is one: to its callers it acts as ResponseCache promises,     *)
(* and its bound only ever shows as an answer it does not have.            *)
Promise == INSTANCE ResponseCache WITH held <- entry

ImplementsCache == Promise!RSpec
=============================================================================
