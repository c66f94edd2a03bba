--------------------------- MODULE ResponseCache ---------------------------
(***************************************************************************)
(* What a cache of search answers promises its callers, whatever it is     *)
(* made of: a get answers the value of the latest set of its key, if that  *)
(* is less than TTL ticks old and nothing was cleared since -- or nothing  *)
(* at all, for a cache may forget any entry at any time, and need not take *)
(* one in.  TTLCache implements it.                                        *)
(***************************************************************************)
EXTENDS Naturals

CONSTANTS CacheKeys, Values, TTL, Absent

VARIABLES now, held, reply

rvars == <<now, held, reply>>

Nothing == [key |-> Absent, value |-> Absent]

RInit ==
    /\ now = 0
    /\ held = [k \in CacheKeys |-> Absent]
    /\ reply = Nothing

(* Of the entries in h, some may be gone.                                  *)
Forgetful(h) ==
    \E kept \in SUBSET CacheKeys :
        held' = [k \in CacheKeys |-> IF k \in kept THEN h[k] ELSE Absent]

RGet(k) ==
    /\ \/ /\ held[k] # Absent /\ now < held[k].expires_at
          /\ reply' = [key |-> k, value |-> held[k].value]
       \/ reply' = [key |-> k, value |-> Absent]
    /\ Forgetful(held)
    /\ UNCHANGED now

RSet(k, v) ==
    /\ Forgetful([held EXCEPT ![k] = [value |-> v, expires_at |-> now + TTL]])
    /\ reply' = Nothing
    /\ UNCHANGED now

RClear ==
    /\ held' = [k \in CacheKeys |-> Absent]
    /\ reply' = Nothing
    /\ UNCHANGED now

RTick ==
    /\ now' = now + 1
    /\ Forgetful(held)
    /\ reply' = Nothing

RNext ==
    \/ \E k \in CacheKeys : RGet(k) \/ \E v \in Values : RSet(k, v)
    \/ RClear
    \/ RTick

RSpec == RInit /\ [][RNext]_rvars
=============================================================================
