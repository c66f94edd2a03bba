----------------------------- MODULE MCHistories -----------------------------
(* The two histories of the write paths, IndexSync's and FeedLedger's,     *)
(* watching the same instance of them: two uploads that overlap in a key,  *)
(* which one of them delivers twice, and an edit that corrects a record or *)
(* moves it from under one key to the other.                               *)
EXTENDS IndexSync, FeedLedger, TLC

CONSTANTS r1, r2, r3, k1, k2, cheap, dear, odd

hvars == <<vars, disturbed, overtaken>>

HInit == Init /\ disturbed = {} /\ overtaken = {}

HSpec == HInit /\ [][ISNext /\ Watch]_hvars

L(k, p) == [key |-> k, price |-> p]

MCSeed == [i \in Ids |-> IF i = r1 THEN L(k1, cheap) ELSE None]

MCPrices == {cheap, dear}
MCStored == [a \in Amounts |-> IF a = odd THEN dear ELSE a]

MCPlainChanges == {[key |-> None, price |-> dear], [key |-> k2, price |-> None]}

(* A price with more decimals than the column holds, and moves both ways.  *)
MCChanges == {[key |-> None, price |-> odd], [key |-> k1, price |-> None],
              [key |-> k2, price |-> None]}

(* Both keys and the second one again; the second one at another price.    *)
MCFiles == {<< <<L(k1, cheap), L(k2, cheap)>>, <<L(k2, odd)>> >>,
            << <<L(k2, dear)>> >>}

Symmetry == Permutations({r2, r3}) \cup Permutations(Uploads)
=============================================================================
