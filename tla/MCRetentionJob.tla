---------------------------- MODULE MCRetentionJob ----------------------------
(* RetentionJob with one record that has expired and one edit of it.       *)
EXTENDS RetentionJob

CONSTANTS r1, k1, cheap, dear

MCSeed == [i \in Ids |-> [key |-> k1, price |-> cheap]]

MCPrices == {cheap, dear}
MCStored == [a \in Amounts |-> a]

MCChanges == {[key |-> None, price |-> dear]}
=============================================================================
