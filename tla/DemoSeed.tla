------------------------------ MODULE DemoSeed ------------------------------
(***************************************************************************)
(* cli/seed_demo_data.py: a job that fills the catalogue with made-up      *)
(* products, chunk by chunk, each chunk committed and then sent to the     *)
(* index.  It is started again after a failure, or on another day; two     *)
(* runs may overlap.                                                       *)
(*                                                                         *)
(* The prices come from one generator, seeded once per run: the n-th draw  *)
(* is the same number in every run, and stands here for the price.         *)
(* Products are numbered from 1 and spread over the stores by number.      *)
(*                                                                         *)
(* Not covered: the collection's creation (Startup), the attempts of an    *)
(* import (PricingWrites), other writers of the catalogue, other seeds of  *)
(* the generator.                                                          *)
(***************************************************************************)
EXTENDS Naturals, FiniteSets

CONSTANTS
    Runs,       \* runs of the job
    Products, StoreCount,  \* --products, --store-count, the same in all runs
    ChunkSizes, \* --chunk-size
    MaxChunk,   \* 32767 bind parameters, 14 to a row
    LastDay     \* bound on the days that pass, for model checking only

ASSUME SeedConstants ==
    /\ {Products, MaxChunk, LastDay} \subseteq Nat /\ StoreCount \in Nat \ {0}
    /\ ChunkSizes \subseteq Nat \ {0}

VARIABLES
    today,
    job,      \* run -> its arguments, offset and state
    rows,     \* business keys of the catalogue, with the price each has
    document  \* those of them the index has

dvars == <<today, job, rows, document>>

Row == [store: 0 .. StoreCount - 1, product: 1 .. Products, day: Nat, price: Nat]

DInit ==
    /\ today = 0
    /\ \E c \in [Runs -> ChunkSizes] :
          job = [r \in Runs |-> [state |-> "idle", chunk |-> c[r], day |-> 0,
                                 offset |-> 0, drawn |-> 0]]
    /\ rows = {} /\ document = {}

(* _parse_args: the business date is today's.                              *)
Launch(r) ==
    /\ job[r].state = "idle"
    /\ job' = [job EXCEPT ![r].state = "running", ![r].day = today]
    /\ UNCHANGED <<today, rows, document>>

(* _build_rows: the next n products, a draw for each.                      *)
BuildRows(j, n) ==
    {[store |-> i % StoreCount, product |-> i, day |-> j.day, price |-> j.drawn + i - j.offset] :
        i \in j.offset + 1 .. j.offset + n}

SameKey(a, b) == a.store = b.store /\ a.product = b.product /\ a.day = b.day

(* INSERT ... ON CONFLICT DO UPDATE.                                       *)
Upsert(old, new) == {a \in old : ~\E b \in new : SameKey(a, b)} \cup new

(* The job's next chunk has so many rows.                                  *)
ChunkLength(j) == IF j.chunk < Products - j.offset THEN j.chunk ELSE Products - j.offset

(* Mutant of SeedChunk: a statement that is refused is passed over.         *)
SeedChunkRegardless(r) ==
    LET j   == job[r]
        n   == ChunkLength(j)
        new == BuildRows(j, n)
        Go  == [job EXCEPT ![r].offset = j.offset + n, ![r].drawn = j.drawn + n]
    IN
    /\ j.state = "running" /\ j.offset < Products
    /\ IF n > MaxChunk THEN job' = Go /\ UNCHANGED <<rows, document>>
       ELSE /\ rows' = Upsert(rows, new)
            /\ \E taken \in SUBSET new : document' = Upsert(document, taken)
            /\ job' \in {Go, [job EXCEPT ![r].state = "failed"]}
    /\ UNCHANGED today

(* A chunk: committed, then sent to the index, which may refuse some of    *)
(* its documents unnoticed.  The import may fail for good and end the run; *)
(* the statement may have too many parameters; the process may be killed   *)
(* before, between and after.                                              *)
SeedChunk(r) ==
    LET j      == job[r]
        n      == ChunkLength(j)
        new    == BuildRows(j, n)
        Go     == [job EXCEPT ![r].offset = j.offset + n, ![r].drawn = j.drawn + n]
        Failed == [job EXCEPT ![r].state = "failed"]
    IN
    /\ j.state = "running" /\ j.offset < Products
    /\ IF n > MaxChunk THEN job' = Failed /\ UNCHANGED <<rows, document>>
       ELSE /\ rows' = Upsert(rows, new)
            /\ \E taken \in SUBSET new : document' = Upsert(document, taken)
            /\ job' \in {Go, Failed}
    /\ UNCHANGED today

Killed(r) ==
    /\ job[r].state = "running"
    /\ job' = [job EXCEPT ![r].state = "failed"]
    /\ UNCHANGED <<today, rows, document>>

Finished(r) ==
    /\ job[r].state = "running" /\ job[r].offset >= Products
    /\ job' = [job EXCEPT ![r].state = "done"]
    /\ UNCHANGED <<today, rows, document>>

Midnight ==
    /\ today < LastDay
    /\ today' = today + 1
    /\ UNCHANGED <<job, rows, document>>

DNext == Midnight \/ \E r \in Runs : Launch(r) \/ SeedChunk(r) \/ Killed(r) \/ Finished(r)

DSpec == DInit /\ [][DNext]_dvars

-----------------------------------------------------------------------------
(* Type invariant.                                                         *)
SeedTypeOK ==
    /\ today \in 0 .. LastDay
    /\ \A r \in Runs :
          /\ job[r] \in [state: {"idle", "running", "done", "failed"}, chunk: ChunkSizes,
                         day: 0 .. today, offset: 0 .. Products, drawn: 0 .. Products]
          /\ job[r].offset = job[r].drawn
    /\ rows \subseteq Row /\ document \subseteq Row

(* However often the job was cut off, started again or run twice at once,  *)
(* with whatever chunks, a product has one row a day, with the price any   *)
(* other run would give it; and no document says anything else.            *)
PricesRepeat ==
    /\ \A a, b \in rows : a.product = b.product => a.price = b.price /\ (a.day = b.day => a = b)
    /\ document \subseteq rows

(* A day's rows are the first so many products; all of them once a run of  *)
(* that day is done.                                                       *)
RowsAreAPrefix ==
    /\ \A a \in rows : \A i \in 1 .. a.product :
          \E b \in rows : b.product = i /\ b.day = a.day
    /\ \A r \in Runs : job[r].state = "done" =>
          {a.product : a \in {b \in rows : b.day = job[r].day}} = 1 .. Products

(* A run is repeatable, and may be continued by another.                   *)
SeedIsRepeatable == PricesRepeat /\ RowsAreAPrefix
=============================================================================
