--------------------------- MODULE MCPricingWrites ---------------------------
(* PricingWrites on small instances: two keys, a seeded record and up to   *)
(* two more, files that overlap it.                                        *)
EXTENDS PricingWrites, TLC

CONSTANTS r1, r2, r3, k1, k2, cheap, dear,
          odd,  \* an amount with more decimals than the column, stored as dear
          bad   \* a price cell that does not parse, or is refused

L(k, p) == [key |-> k, price |-> p]

(* A record that is in the catalogue and in the index from the start.      *)
MCSeed == [i \in Ids |-> IF i = r1 THEN L(k1, cheap) ELSE None]

MCPrices == {cheap, dear}
MCStored == [a \in Amounts |-> CASE a = odd -> dear [] a = bad -> None [] OTHER -> a]

(* A price correction, and an edit that moves the record to another key.   *)
MCChanges == {[key |-> None, price |-> dear], [key |-> k2, price |-> None]}

(* The same with a price that will be rounded, and one that is too large.  *)
MCOddChanges == {[key |-> None, price |-> odd], [key |-> k2, price |-> None],
                 [key |-> k2, price |-> bad]}

(* Two chunks, the second of which updates what the first created or       *)
(* carries a refused price; one chunk that repeats a key.                  *)
MCFiles == {<< <<L(k1, dear), L(k2, cheap)>>, <<L(k2, odd)>> >>,
            << <<L(k2, cheap)>>, <<L(k1, bad)>> >>,
            << <<L(k2, cheap), L(k2, dear)>> >>}

Symmetry == Permutations({r2, r3}) \cup Permutations(Editors)
=============================================================================
