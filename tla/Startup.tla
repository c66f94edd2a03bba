------------------------------- MODULE Startup -------------------------------
(***************************************************************************)
(* What a worker does before it serves (main.py, on_startup): bring the    *)
(* database schema up to date, seed the configured users, make sure the    *)
(* Typesense collection exists.  Several uvicorn workers in several        *)
(* replicas do it at the same time, on stores an older version may have    *)
(* left behind, with nothing but the stores between them.                  *)
(*                                                                         *)
(* The migration is one transaction; of its statements those matter that   *)
(* remove the duplicates of a business key (the newest row of each stays), *)
(* create the unique index, and forbid a price below zero, which an old    *)
(* table may hold.  The seeding reads a user and then inserts *)
(* or updates it; a second insert fails on the unique e-mail and takes the *)
(* worker down, whom its supervisor (uvicorn or the container runtime)     *)
(* starts again.  The two other phases are retried.                        *)
(*                                                                         *)
(* A worker may be told to partition pricing_records by month, inside the  *)
(* migration (core/partitioning.py); PartitioningRefused says what         *)
(* PostgreSQL makes of that.                                               *)
(*                                                                         *)
(* Not covered: passwords, the added columns and the non-unique indexes,   *)
(* two configured users of one e-mail (module Access).                     *)
(***************************************************************************)
EXTENDS Naturals, Sequences, FiniteSets

CONSTANTS
    Workers,
    Emails,
    Roles,
    Seeds,        \* worker -> the users its settings name, in seeding order
    RowIds,       \* ids of rows an older version may have left
    RowKeys,      \* their business keys
    MaxAttempts,  \* attempts = 40 of _retry
    MaxFaults,    \* how often a store may fail to do what it is asked
    PartitionSettings,  \* the sets of workers that may be told to partition
    None

ASSUME StartupConstants ==
    /\ Seeds \in [Workers -> Seq([email: Emails, role: Roles])]
    /\ \A w \in Workers : \A i, j \in DOMAIN Seeds[w] :
          Seeds[w][i].email = Seeds[w][j].email => i = j
    /\ RowIds \subseteq Nat
    /\ MaxAttempts \in Nat \ {0}
    /\ MaxFaults \in Nat
    /\ PartitionSettings \subseteq SUBSET Workers
    /\ None \notin RowKeys \cup Roles \cup {"old", "full"}

VARIABLES
    keyOf,       \* pricing_records: id -> business key, None where no row is
    audited,     \* ids that pricing_record_audits refers to
    unique,      \* the unique index on the business key exists
    checked,     \* the constraint CHECK (price >= 0) exists
    users,       \* table users: e-mail -> role
    collection,  \* the collection: absent, without the newer fields, or full
    wk,          \* the workers
    faults,      \* failures of the stores so far (bounded by MaxFaults)
    partitioning,  \* the workers with enable_pricing_partitioning
    below,       \* ids of the rows with a price below zero
    legacy       \* history: keyOf as the first worker found it

stores == <<keyOf, audited, unique, checked, users, collection>>
fixed == <<partitioning, below, legacy>>
startvars == <<stores, wk, faults, fixed>>

Fresh == [pc |-> "db", attempts |-> 0, seed |-> 1, unseen |-> FALSE]

(* Rows are numbered by age: of two ids the larger was updated last.       *)
StartInit ==
    /\ keyOf \in [RowIds -> RowKeys \cup {None}]
    /\ audited \in SUBSET {i \in RowIds : keyOf[i] # None}
    /\ unique \in BOOLEAN
    /\ unique => \A i, j \in RowIds : keyOf[i] = keyOf[j] /\ keyOf[i] # None => i = j
    /\ below \in SUBSET {i \in RowIds : keyOf[i] # None}
    /\ checked \in BOOLEAN
    /\ checked => below = {}
    /\ users \in [Emails -> Roles \cup {None}]
    /\ collection \in {None, "old", "full"}
    /\ wk = [w \in Workers |-> Fresh]
    /\ faults = 0
    /\ partitioning \in PartitionSettings
    /\ legacy = keyOf

-----------------------------------------------------------------------------
Goto(w, pc) == wk' = [wk EXCEPT ![w].pc = pc]

(* The database or Typesense does not answer, or too late.                 *)
Fault == faults < MaxFaults /\ faults' = faults + 1

(* Mutant of Retry: the attempts are counted and never compared.           *)
RetryForEver(w, pc) ==
    wk' = [wk EXCEPT ![w].pc = pc, ![w].attempts = @ + 1]

(* _retry: another attempt of the phase that starts at pc, or the last     *)
(* exception ends the worker.                                              *)
Retry(w, pc) ==
    wk' = [wk EXCEPT ![w] = IF @.attempts + 1 = MaxAttempts THEN [@ EXCEPT !.pc = "dead"]
                            ELSE [@ EXCEPT !.pc = pc, !.attempts = wk[w].attempts + 1]]

(* ROW_NUMBER() .. rn > 1: the rows of a key that are not its newest.      *)
Outdated ==
    {i \in RowIds : \E j \in RowIds : j > i /\ keyOf[i] # None /\ keyOf[j] = keyOf[i]}

(* Mutant of Deduped: the oldest row of each key is kept.                  *)
DedupedOldest ==
    [i \in RowIds |-> IF \E j \in RowIds : j < i /\ keyOf[j] = keyOf[i] THEN None ELSE keyOf[i]]

Deduped == [i \in RowIds |-> IF i \in Outdated THEN None ELSE keyOf[i]]

(* The rows that keep ADD CONSTRAINT from succeeding: a price below zero   *)
(* that is not removed as a duplicate earlier in the same transaction.     *)
Negative == {i \in below \ Outdated : keyOf[i] # None}

(* What there is to a statement here: how many commands it holds, the      *)
(* unique keys it gives a table partitioned by date, whether it copies the *)
(* rows to a table that has no partition yet, whether its parameters stand *)
(* inside a literal.                                                       *)
Plain == [commands |-> 1, uniques |-> {}, copies |-> FALSE, quoted |-> FALSE]

BusinessKey == {"country_code", "store_id", "sku", "date"}

(* convert_pricing_records_to_partitioned: LOCK; DROP and CREATE .. LIKE   *)
(* .. INCLUDING INDEXES; INSERT; the two renames; the unique index.        *)
ConvertTable ==
    << Plain, [Plain EXCEPT !.commands = 2, !.uniques = {{"id"}, BusinessKey}],
       [Plain EXCEPT !.copies = TRUE], Plain, Plain, [Plain EXCEPT !.uniques = {BusinessKey}] >>

(* ensure_monthly_partitions: one DO block.                                *)
EnsurePartitions == << [Plain EXCEPT !.quoted = TRUE] >>

(* PostgreSQL, behind asyncpg, which prepares every statement.             *)
Refused(s) ==
    \/ s.commands > 1
    \/ \E u \in s.uniques : "date" \notin u
    \/ s.copies /\ \E i \in RowIds : keyOf[i] # None
    \/ s.quoted

PartitioningRefused ==
    \E n \in 1 .. Len(ConvertTable \o EnsurePartitions) : Refused((ConvertTable \o EnsurePartitions)[n])

(* The transaction begins; whether the objects it creates were there.      *)
MigrateBegin(w) ==
    /\ wk[w].pc = "db"
    /\ wk' = [wk EXCEPT ![w] = [@ EXCEPT !.pc = "migrating", !.unseen = ~(unique /\ checked)]]
    /\ UNCHANGED <<stores, faults, fixed>>

(* It commits, unless a row it would remove has an audit entry (a foreign  *)
(* key without ON DELETE), a row it keeps has a price below zero, or it is *)
(* told to partition.                                                      *)
MigrateCommit(w) ==
    /\ wk[w].pc = "migrating"
    /\ Outdated \cap audited = {} /\ (w \in partitioning => ~PartitioningRefused)
    /\ checked \/ Negative = {}
    /\ keyOf' = Deduped
    /\ unique' = TRUE /\ checked' = TRUE
    /\ wk' = [wk EXCEPT ![w] = [@ EXCEPT !.pc = "seed", !.attempts = 0]]
    /\ UNCHANGED <<audited, users, collection, faults, fixed>>

(* It fails on that foreign key, on the constraint, on the conversion, on  *)
(* an object another worker created since it looked (IF NOT EXISTS does    *)
(* not wait for an uncommitted one), or because the database is not there. *)
MigrateFail(w) ==
    /\ wk[w].pc = "migrating"
    /\ \/ Outdated \cap audited # {} /\ UNCHANGED faults
       \/ ~checked /\ Negative # {} /\ UNCHANGED faults
       \/ w \in partitioning /\ PartitioningRefused /\ UNCHANGED faults
       \/ wk[w].unseen /\ unique /\ checked /\ UNCHANGED faults
       \/ Fault
    /\ Retry(w, "db")
    /\ UNCHANGED <<stores, fixed>>

-----------------------------------------------------------------------------
(* _seed_user, for one user after the other.                               *)

Seed(w) == Seeds[w][wk[w].seed]

NextSeed(w) == [wk[w] EXCEPT !.pc = "seed", !.seed = wk[w].seed + 1]

SeedRead(w) ==
    /\ wk[w].pc = "seed" /\ wk[w].seed <= Len(Seeds[w])
    /\ LET role == users[Seed(w).email] IN
       \/ role = None /\ Goto(w, "insert")
       \/ role \notin {None, Seed(w).role} /\ Goto(w, "update")
       \/ role = Seed(w).role /\ wk' = [wk EXCEPT ![w] = NextSeed(w)]
    /\ UNCHANGED <<stores, faults, fixed>>

SeedInsert(w) ==
    /\ wk[w].pc = "insert"
    /\ \/ /\ users[Seed(w).email] = None
          /\ users' = [users EXCEPT ![Seed(w).email] = Seed(w).role]
          /\ wk' = [wk EXCEPT ![w] = NextSeed(w)]
       \/ users[Seed(w).email] # None /\ Goto(w, "dead") /\ UNCHANGED users
    /\ UNCHANGED <<keyOf, audited, unique, checked, collection, faults, fixed>>

(* Mutant of SeedUpdate: the new role is not committed.                    *)
SeedUpdateLost(w) ==
    /\ wk[w].pc = "update"
    /\ wk' = [wk EXCEPT ![w] = NextSeed(w)]
    /\ UNCHANGED <<stores, faults, fixed>>

SeedUpdate(w) ==
    /\ wk[w].pc = "update"
    /\ users' = [users EXCEPT ![Seed(w).email] = Seed(w).role]
    /\ wk' = [wk EXCEPT ![w] = NextSeed(w)]
    /\ UNCHANGED <<keyOf, audited, unique, checked, collection, faults, fixed>>

(* Any exception of the seeding ends the worker: nothing retries it.       *)
SeedFail(w) ==
    /\ Fault
    /\ wk[w].pc \in {"seed", "insert", "update"}
    /\ Goto(w, "dead")
    /\ UNCHANGED <<stores, fixed>>

SeedDone(w) ==
    /\ wk[w].pc = "seed" /\ wk[w].seed > Len(Seeds[w])
    /\ Goto(w, "index")
    /\ UNCHANGED <<stores, faults, fixed>>

-----------------------------------------------------------------------------
(* ensure_pricing_collection.  Whatever goes wrong with the collection it  *)
(* retrieves, it tries to create one.                                      *)

EnsureRetrieve(w) ==
    /\ wk[w].pc = "index"
    /\ \/ collection = "full" /\ Goto(w, "serving") /\ UNCHANGED faults
       \/ collection = "old" /\ Goto(w, "patch") /\ UNCHANGED faults
       \/ collection = None /\ Goto(w, "create") /\ UNCHANGED faults
       \/ Goto(w, "create") /\ Fault
    /\ UNCHANGED <<stores, fixed>>

(* The fields it found missing are added; Typesense refuses a field that   *)
(* another worker has added meanwhile.  A call may fail before or after    *)
(* the server has done it.                                                 *)
EnsurePatch(w) ==
    /\ wk[w].pc = "patch"
    /\ \/ collection = "old" /\ collection' = "full" /\ Goto(w, "serving") /\ UNCHANGED faults
       \/ collection # "old" /\ Goto(w, "create") /\ UNCHANGED <<collection, faults>>
       \/ collection' \in {collection, "full"} /\ Goto(w, "create") /\ Fault
    /\ UNCHANGED <<keyOf, audited, unique, checked, users, fixed>>

(* Mutant of EnsureCreate: a refusal passes for success.                   *)
EnsureCreateAnyway(w) ==
    /\ wk[w].pc = "create"
    /\ collection' = IF collection = None THEN "full" ELSE collection
    /\ Goto(w, "serving")
    /\ UNCHANGED <<keyOf, audited, unique, checked, users, faults, fixed>>

(* The collection is created; one that exists is refused (409), and that   *)
(* is an attempt of _retry like any other.                                 *)
EnsureCreate(w) ==
    /\ wk[w].pc = "create"
    /\ \/ collection = None /\ collection' = "full" /\ Goto(w, "serving") /\ UNCHANGED faults
       \/ collection # None /\ Retry(w, "index") /\ UNCHANGED <<collection, faults>>
       \/ /\ collection' \in {collection, IF collection = None THEN "full" ELSE collection}
          /\ Retry(w, "index") /\ Fault
    /\ UNCHANGED <<keyOf, audited, unique, checked, users, fixed>>

(* Mutant of Restart: nobody watches over the workers.                     *)
NoRestart(w) == FALSE

(* The supervisor starts a worker that has ended.                          *)
Restart(w) ==
    /\ wk[w].pc = "dead"
    /\ wk' = [wk EXCEPT ![w] = Fresh]
    /\ UNCHANGED <<stores, faults, fixed>>

-----------------------------------------------------------------------------
WorkerStep(w) ==
    \/ MigrateBegin(w) \/ MigrateCommit(w) \/ MigrateFail(w)
    \/ SeedRead(w) \/ SeedInsert(w) \/ SeedUpdate(w) \/ SeedFail(w) \/ SeedDone(w)
    \/ EnsureRetrieve(w) \/ EnsurePatch(w) \/ EnsureCreate(w)
    \/ Restart(w)

StartNext == \E w \in Workers : WorkerStep(w)

(* Every worker runs on; the stores fail a bounded number of times.        *)
StartSpec ==
    /\ StartInit /\ [][StartNext]_startvars
    /\ \A w \in Workers : WF_startvars(WorkerStep(w))

-----------------------------------------------------------------------------
(* Type invariant.                                                         *)
StartTypeOK ==
    /\ keyOf \in [RowIds -> RowKeys \cup {None}]
    /\ audited \cup below \subseteq RowIds /\ {unique, checked} \subseteq BOOLEAN
    /\ users \in [Emails -> Roles \cup {None}]
    /\ collection \in {None, "old", "full"} /\ faults \in 0 .. MaxFaults
    /\ \A w \in Workers :
          /\ wk[w].attempts \in 0 .. MaxAttempts - 1
          /\ wk[w].seed \in 1 .. Len(Seeds[w]) + 1
          /\ wk[w].pc \in {"insert", "update"} => wk[w].seed <= Len(Seeds[w])

(* The migration keeps the newest row of every business key it found and   *)
(* none of its older ones, whoever runs it and however often, and never    *)
(* leaves an audit entry without its record.                               *)
DedupeKeepsNewest ==
    /\ \A i \in audited : keyOf[i] # None
    /\ \A i \in RowIds :
          /\ keyOf[i] \in {legacy[i], None}
          /\ legacy[i] # None /\ (\A j \in RowIds : j > i => legacy[j] # legacy[i]) =>
                keyOf[i] = legacy[i]
    /\ unique => \A i, j \in RowIds : keyOf[i] = keyOf[j] /\ keyOf[i] # None => i = j

(* A worker that serves finds all it needs: the unique index its upserts   *)
(* name as their conflict target, no price below zero and the constraint   *)
(* that keeps it so, the users its settings name, and every field of the   *)
(* collection.                                                             *)
ServingIsReady ==
    \A w \in Workers : wk[w].pc = "serving" =>
        /\ unique /\ checked /\ \A i \in below : keyOf[i] = None
        /\ \A i \in DOMAIN Seeds[w] : users[Seeds[w][i].email] # None
        /\ collection = "full"

(* When all workers serve, each seeded user has the role that one of the   *)
(* workers' settings gives it, not one left over from older settings.      *)
RolesFollowSettings ==
    (\A w \in Workers : wk[w].pc = "serving") =>
        \A w \in Workers : \A i \in DOMAIN Seeds[w] :
            \E v \in Workers : \E j \in DOMAIN Seeds[v] :
                /\ Seeds[v][j].email = Seeds[w][i].email
                /\ users[Seeds[w][i].email] = Seeds[v][j].role

(* Every worker comes to serve in the end, however the workers collide --  *)
(* those that partition keep nobody else from it --, from any leftover     *)
(* tables but two: an outdated row that is in the audit trail, and a row   *)
(* that stays with a price below zero.                                     *)
Migratable == Outdated \cap audited = {} /\ Negative = {}

EveryWorkerServes ==
    Migratable ~> \A w \in Workers \ partitioning : wk[w].pc = "serving"

(* What README.md says of ENABLE_PRICING_PARTITIONING, "to convert         *)
(* `pricing_records` to monthly partitions": the worker so configured does *)
(* it and serves.                                                          *)
PartitioningServes ==
    Migratable ~> \A w \in partitioning : wk[w].pc = "serving"
=============================================================================
