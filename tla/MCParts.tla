------------------------------ MODULE MCParts ------------------------------
(***************************************************************************)
(* Seven parts of the system that share no state, each on a small instance *)
(* of its own: `part` says which of them runs, and the others stay as they *)
(* began.  (Their product would say no more of any of them.)               *)
(***************************************************************************)
EXTENDS TTLCache, FeedReader, Access, SearchRequest, WorkerCaches, EditDialog, DemoSeed

CONSTANTS ann, bob, sA, sB, price, tA, tB, half

(* FeedReader: prices of half a cent, on both sides of zero and of the     *)
(* largest price.                                                          *)
MCCells == {-6, -4, 5, 34, 36, Blank, Text}

(* Access: the first release gives one address two roles, the second makes *)
(* it a viewer and names another admin.                                    *)
MCSettings ==
    { [r \in Roles |-> IF r \in {"admin", "uploader"} THEN ann ELSE None],
      [r \in Roles |-> CASE r = "viewer" -> ann [] r = "admin" -> bob [] OTHER -> None] }

MCScopes == {{}, {"upload"}}

(* SearchRequest: one store with a record a day, one with two a day.       *)
MCRecords == << [store |-> sA, day |-> 2], [store |-> sB, day |-> 2], [store |-> sA, day |-> 3],
                [store |-> sB, day |-> 2], [store |-> sA, day |-> 1] >>

MCRequestsMade ==
    [stores: UNION {[1 .. n -> {sA, sB, Empty}] : n \in 0 .. 2},
     from: {1, 2, NoDay}, to: {2, 3, NoDay}]

(* EditDialog: a price of half a cent, which the column rounds to tB and   *)
(* the dialog shows as tA.                                                 *)
MCSavable == [f \in Fields |-> IF f = price THEN {tA, tB, half} ELSE {tA, tB}]
MCKept  == [f \in Fields |-> [t \in Texts |-> IF t = half THEN tB ELSE t]]
MCFixed == [f \in Fields |-> [t \in Texts |-> IF t = half THEN tA ELSE t]]

(* WorkerCaches: the workers are alike, and no property is a liveness one. *)
MCSymmetry == Permutations(Workers)

-----------------------------------------------------------------------------
VARIABLE part

vars == <<part, cvars, fvars, avars, qvars, wvars, evars, dvars>>

(* A part that does not run starts in one of its initial states only.      *)
Init ==
    /\ part \in {"cache", "feed", "access", "request", "workers", "dialog", "seed"}
    /\ CInit
    /\ part # "feed" => file = << >> /\ columns = TRUE
    /\ FInit
    /\ AccessInit
    /\ part # "request" => request = [stores |-> << >>, from |-> NoDay, to |-> NoDay]
    /\ RequestInit
    /\ WInit
    /\ part # "dialog" => record = CHOOSE r \in DialogRow : KeptRow(r) = r
    /\ EInit
    /\ DInit
    /\ part # "seed" => \A r \in Runs : job[r].chunk = CHOOSE n \in ChunkSizes : TRUE

Next ==
    \/ /\ part = "cache" /\ CNext
       /\ UNCHANGED <<part, fvars, avars, qvars, wvars, evars, dvars>>
    \/ /\ part = "feed" /\ FNext
       /\ UNCHANGED <<part, cvars, avars, qvars, wvars, evars, dvars>>
    \/ /\ part = "access" /\ AccessNext
       /\ UNCHANGED <<part, cvars, fvars, qvars, wvars, evars, dvars>>
    \/ /\ part = "request" /\ RequestNext
       /\ UNCHANGED <<part, cvars, fvars, avars, wvars, evars, dvars>>
    \/ /\ part = "workers" /\ WNext
       /\ UNCHANGED <<part, cvars, fvars, avars, qvars, evars, dvars>>
    \/ /\ part = "dialog" /\ ENext
       /\ UNCHANGED <<part, cvars, fvars, avars, qvars, wvars, dvars>>
    \/ /\ part = "seed" /\ DNext
       /\ UNCHANGED <<part, cvars, fvars, avars, qvars, wvars, evars>>

Spec == Init /\ [][Next]_vars

-----------------------------------------------------------------------------
(* Type invariant.                                                         *)
PartsTypeOK ==
    /\ CacheTypeOK /\ FeedTypeOK /\ AccessTypeOK
    /\ WorkersTypeOK /\ DialogTypeOK /\ SeedTypeOK
=============================================================================
