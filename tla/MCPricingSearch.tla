--------------------------- MODULE MCPricingSearch ---------------------------
(* PricingSearch with an edit and an upload of the same record, and two    *)
(* searches for it.                                                        *)
EXTENDS PricingSearch, TLC

CONSTANTS r1, r2, k1, k2, cheap, dear

L(k, p) == [key |-> k, price |-> p]

MCSeed == [i \in Ids |-> IF i = r1 THEN L(k1, cheap) ELSE None]

MCPrices == {cheap, dear}
MCStored == [a \in Amounts |-> a]

MCChanges == {[key |-> None, price |-> dear]}

(* A file that overwrites the seeded record and creates another.           *)
MCFiles == {<< <<L(k1, cheap), L(k2, dear)>> >>}

(* Every query asks for everything.                                        *)
MCFilters == {{k1, k2}}

Symmetry == Permutations(Searches)
=============================================================================
