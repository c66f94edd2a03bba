------------------------------ MODULE MCStartup ------------------------------
(* Two workers, the second with newer settings (the guest has become an    *)
(* admin) and perhaps told to partition; a table that may hold two rows of *)
(* one key.                                                                *)
EXTENDS Startup, TLC

CONSTANTS w1, w2, boss, guest

MCSeeds == [w \in Workers |->
    << [email |-> boss, role |-> "admin"],
       [email |-> guest, role |-> IF w = w1 THEN "viewer" ELSE "admin"] >>]

MCPartitionSettings == {{}, {w2}}
=============================================================================
