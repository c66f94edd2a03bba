---------------------------- MODULE TypesenseGate ----------------------------
(***************************************************************************)
(* What the requests of one worker compete for: the slots of the semaphore *)
(* that bounds its calls to Typesense (typesense_service.py), the threads  *)
(* of the executor that runs these calls and parses the chunks of a feed   *)
(* (asyncio.to_thread), and the connections of the database pool (db.py).  *)
(*                                                                         *)
(* A request is the list of what it needs, one after the other:            *)
(*   "call"    a slot, then a thread; both are free again when the call    *)
(*             ends                                                        *)
(*   "parse"   a thread                                                    *)
(*   "begin"   a connection, kept for what follows                         *)
(*   "rows"    the same (a SELECT); "fallback" when that or the index fails*)
(*   "commit"  a connection, unless it is held; the COMMIT gives it back;  *)
(*   "record"  the same, for the failure of a feed                         *)
(* Values, answers and the caches are the business of the other modules.   *)
(*                                                                         *)
(* External, as the code uses them: asyncio.Semaphore serves its waiters   *)
(* in their order and lets nobody pass them; the executor takes jobs in    *)
(* their order; the pool gives up on a waiter after pool_timeout; a call   *)
(* to Typesense has a timeout.                                             *)
(***************************************************************************)
EXTENDS Naturals, Sequences, FiniteSets

CONSTANTS
    Requests,
    KindOf,       \* request -> its kind
    Slots,        \* typesense_max_concurrency
    Threads,      \* workers of the default executor
    Connections,  \* db_pool_size + db_max_overflow
    ImportAttempts   \* max_attempts of an import

Kinds == {"search", "meta", "edit", "upload"}

ASSUME GateConstants ==
    /\ KindOf \in [Requests -> Kinds]
    /\ Slots \in Nat \ {0} /\ Threads \in Nat \ {0}
    /\ Connections \in Nat \ {0} /\ ImportAttempts \in Nat \ {0}

VARIABLES
    pc,        \* what each request is doing
    todo,      \* what it still needs, from the present on
    tries,     \* attempts of the import under way
    value,     \* Semaphore._value
    waiters,   \* Semaphore._waiters
    slots,     \* requests that have acquired it
    jobs,      \* the executor's queue
    conns      \* requests that hold a connection

gvars == <<pc, todo, tries, value, waiters, slots, jobs, conns>>

Need(r) == Head(todo[r])

(* Mutant of Plan: an edit pushes to the index before it commits.           *)
PlanPushFirst(r) ==
    [search |-> <<"call", "rows">>,
     meta   |-> <<"call", "call">>,
     edit   |-> <<"begin", "call", "commit">>,
     upload |-> <<"begin", "parse", "commit", "call", "parse", "commit", "call",
                  "parse", "commit">>][KindOf[r]]

(* search_pricing: the index, then the rows.  search_pricing_meta: facets, *)
(* then suggestions.  update_record: the transaction, then the index.      *)
(* upload_csv with two chunks: refresh(feed) leaves a transaction open,    *)
(* which the first chunk uses; the last parse finds no chunk.              *)
Plan(r) ==
    [search |-> <<"call", "rows">>,
     meta   |-> <<"call", "call">>,
     edit   |-> <<"commit", "call">>,
     upload |-> <<"begin", "parse", "commit", "call", "parse", "commit", "call",
                  "parse", "commit">>][KindOf[r]]

GInit ==
    /\ pc = [r \in Requests |-> "idle"]
    /\ todo = [r \in Requests |-> << >>]
    /\ tries = [r \in Requests |-> 0]
    /\ value = Slots /\ waiters = << >> /\ slots = {}
    /\ jobs = << >>
    /\ conns = {}

Arrive(r) ==
    /\ pc[r] = "idle"
    /\ pc' = [pc EXCEPT ![r] = "next"]
    /\ todo' = [todo EXCEPT ![r] = Plan(r)]
    /\ UNCHANGED <<tries, value, waiters, slots, jobs, conns>>

(* The request ends: its session closes and gives its connection back.     *)
Return(r) ==
    /\ pc[r] = "next" /\ todo[r] = << >>
    /\ pc' = [pc EXCEPT ![r] = "done"]
    /\ conns' = conns \ {r}
    /\ UNCHANGED <<todo, tries, value, waiters, slots, jobs>>

-----------------------------------------------------------------------------
(* Semaphore and executor.                                                 *)

(* async with _get_typesense_semaphore(): at once if there is a slot and   *)
(* nobody waits; then the call goes to the executor.                       *)
Acquire(r) ==
    /\ pc[r] = "next" /\ todo[r] # << >> /\ Need(r) = "call"
    /\ IF value > 0 /\ waiters = << >>
       THEN /\ value' = value - 1 /\ slots' = slots \cup {r}
            /\ pc' = [pc EXCEPT ![r] = "queued"] /\ jobs' = Append(jobs, r)
            /\ UNCHANGED waiters
       ELSE /\ waiters' = Append(waiters, r)
            /\ pc' = [pc EXCEPT ![r] = "slot"]
            /\ UNCHANGED <<value, slots, jobs>>
    /\ UNCHANGED <<todo, tries, conns>>

Parse(r) ==
    /\ pc[r] = "next" /\ todo[r] # << >> /\ Need(r) = "parse"
    /\ pc' = [pc EXCEPT ![r] = "queued"] /\ jobs' = Append(jobs, r)
    /\ UNCHANGED <<todo, tries, value, waiters, slots, conns>>

Running == {r \in Requests : pc[r] = "running"}

StartJob ==
    /\ jobs # << >> /\ Cardinality(Running) < Threads
    /\ pc' = [pc EXCEPT ![Head(jobs)] = "running"]
    /\ jobs' = Tail(jobs)
    /\ UNCHANGED <<todo, tries, value, waiters, slots, conns>>

(* What a failure leaves to do: a search falls back on the database, an    *)
(* upload records that it failed, and neither does so twice.               *)
Otherwise(r) ==
    CASE KindOf[r] = "search" /\ todo[r] # <<"fallback">> -> <<"fallback">>
      [] KindOf[r] = "upload" /\ todo[r] # <<"record">>   -> <<"record">>
      [] OTHER -> << >>

(* A chunk is read, or there is none, or it is refused.                    *)
Parsed(r) ==
    /\ pc[r] = "running" /\ Need(r) = "parse"
    /\ pc' = [pc EXCEPT ![r] = "next"]
    /\ \/ todo' = [todo EXCEPT ![r] = Tail(@)] /\ UNCHANGED conns
       \/ todo' = [todo EXCEPT ![r] = Otherwise(r)] /\ conns' = conns \ {r}
    /\ UNCHANGED <<tries, value, waiters, slots, jobs>>

(* The with block is left, with a result or an exception: the first waiter *)
(* gets the slot and sends its own call to the executor.                   *)
Release(r, then) ==
    IF waiters = << >>
    THEN /\ slots' = slots \ {r} /\ value' = value + 1
         /\ pc' = [pc EXCEPT ![r] = then]
         /\ UNCHANGED <<waiters, jobs>>
    ELSE /\ slots' = (slots \ {r}) \cup {Head(waiters)}
         /\ pc' = [pc EXCEPT ![r] = then, ![Head(waiters)] = "queued"]
         /\ jobs' = Append(jobs, Head(waiters))
         /\ waiters' = Tail(waiters)
         /\ UNCHANGED value

(* A search without hits reads no rows; a meta search without a query asks *)
(* for no suggestions.                                                     *)
CallSucceeds(r) ==
    /\ pc[r] = "running" /\ Need(r) = "call"
    /\ Release(r, "next")
    /\ \/ todo' = [todo EXCEPT ![r] = Tail(@)]
       \/ KindOf[r] \in {"search", "meta"} /\ todo' = [todo EXCEPT ![r] = << >>]
    /\ tries' = [tries EXCEPT ![r] = 0]
    /\ UNCHANGED conns

(* Mutant of CallFails: a slot that only a result gives back.               *)
CallFailsKeepsSlot(r) ==
    /\ pc[r] = "running" /\ Need(r) = "call"
    /\ pc' = [pc EXCEPT ![r] = "next"]
    /\ todo' = [todo EXCEPT ![r] = Otherwise(r)]
    /\ UNCHANGED <<tries, value, waiters, slots, jobs, conns>>

(* Mutant of CallFails: one attempt more than max_attempts.                 *)
CallFailsOnceMore(r) ==
    /\ pc[r] = "running" /\ Need(r) = "call"
    /\ IF KindOf[r] = "upload" /\ tries[r] < ImportAttempts
       THEN /\ Release(r, "pause")
            /\ tries' = [tries EXCEPT ![r] = @ + 1]
            /\ UNCHANGED todo
       ELSE /\ Release(r, "next")
            /\ todo' = [todo EXCEPT ![r] = Otherwise(r)]
            /\ UNCHANGED tries
    /\ UNCHANGED conns

(* A failed call: an import pauses and tries again, up to ImportAttempts.     *)
CallFails(r) ==
    /\ pc[r] = "running" /\ Need(r) = "call"
    /\ IF KindOf[r] = "upload" /\ tries[r] + 1 < ImportAttempts
       THEN /\ Release(r, "pause")
            /\ tries' = [tries EXCEPT ![r] = @ + 1]
            /\ UNCHANGED todo
       ELSE /\ Release(r, "next")
            /\ todo' = [todo EXCEPT ![r] = Otherwise(r)]
            /\ UNCHANGED tries
    /\ UNCHANGED conns

(* asyncio.sleep(delay) is over.                                           *)
Wake(r) ==
    /\ pc[r] = "pause"
    /\ pc' = [pc EXCEPT ![r] = "next"]
    /\ UNCHANGED <<todo, tries, value, waiters, slots, jobs, conns>>

-----------------------------------------------------------------------------
(* The pool.  Statements wait for no slot and no thread.                   *)

Statements == {"begin", "rows", "fallback", "commit", "record"}

Connect(r) ==
    /\ pc[r] = "next" /\ todo[r] # << >> /\ Need(r) \in Statements
    /\ r \in conns \/ Cardinality(conns) < Connections
    /\ conns' = conns \cup {r}
    /\ pc' = [pc EXCEPT ![r] = "db"]
    /\ UNCHANGED <<todo, tries, value, waiters, slots, jobs>>

(* The statements are done; or they fail, and an upload rolls back.        *)
Execute(r) ==
    /\ pc[r] = "db"
    /\ pc' = [pc EXCEPT ![r] = "next"]
    /\ \/ /\ todo' = [todo EXCEPT ![r] = Tail(@)]
          /\ conns' = IF Need(r) \in {"commit", "record"} THEN conns \ {r} ELSE conns
       \/ /\ todo' = [todo EXCEPT ![r] = Otherwise(r)]
          /\ conns' = IF KindOf[r] = "upload" THEN conns \ {r} ELSE conns
    /\ UNCHANGED <<tries, value, waiters, slots, jobs>>

(* pool_timeout is over.                                                   *)
PoolTimeout(r) ==
    /\ pc[r] = "next" /\ todo[r] # << >> /\ Need(r) \in Statements
    /\ r \notin conns /\ Cardinality(conns) = Connections
    /\ todo' = [todo EXCEPT ![r] = Otherwise(r)]
    /\ UNCHANGED <<pc, tries, value, waiters, slots, jobs, conns>>

Step(r) ==
    \/ Return(r) \/ Acquire(r) \/ Parse(r) \/ Parsed(r)
    \/ CallSucceeds(r) \/ CallFails(r) \/ Wake(r)
    \/ Connect(r) \/ Execute(r) \/ PoolTimeout(r)

GNext == StartJob \/ \E r \in Requests : Arrive(r) \/ Step(r)

(* The loop runs what is ready, a free thread takes the next job, calls    *)
(* return; nobody has to send a request.                                   *)
GateFairness == WF_gvars(StartJob) /\ \A r \in Requests : WF_gvars(Step(r))

GSpec == GInit /\ [][GNext]_gvars /\ GateFairness

-----------------------------------------------------------------------------
(* Type invariant.                                                         *)
GateTypeOK ==
    /\ pc \in [Requests -> {"idle", "next", "slot", "queued", "running", "pause", "db", "done"}]
    /\ \A r \in Requests :
          /\ todo[r] \in Seq(Statements \cup {"call", "parse"})
          /\ pc[r] \in {"slot", "queued", "running", "pause", "db"} => todo[r] # << >>
          /\ tries[r] \in 0 .. ImportAttempts - 1
    /\ value \in 0 .. Slots /\ Cardinality(Running) <= Threads
    /\ conns \subseteq Requests /\ Cardinality(conns) <= Connections

(* No slot is lost and none is made up, whatever fails: the slots are the  *)
(* free ones and those of calls queued or running, never more calls run at *)
(* once than there are slots, and nobody waits for a slot that is free.    *)
SlotsAccounted ==
    /\ value + Cardinality(slots) = Slots
    /\ slots = {r \in Requests : pc[r] \in {"queued", "running"} /\ Need(r) = "call"}
    /\ waiters # << >> => value = 0
    /\ {waiters[n] : n \in DOMAIN waiters} = {r \in Requests : pc[r] = "slot"}

(* Who waits for a slot, or sleeps before its next attempt, holds neither  *)
(* a slot nor a connection; who waits for a connection holds no slot.  So  *)
(* requests that wait for an index that is down keep neither a slot nor a  *)
(* connection from others.  An upload whose first chunk waits for a thread *)
(* does keep its connection: that the thread comes is RequestsEnd's.       *)
WaitsEmptyHanded ==
    \A r \in Requests :
        /\ pc[r] \in {"slot", "pause"} => r \notin slots /\ r \notin conns
        /\ pc[r] = "next" => r \notin slots
        /\ r \in slots => r \notin conns

(* Every request comes to its end, with whatever is scarce.                *)
RequestsEnd == \A r \in Requests : pc[r] = "next" ~> pc[r] = "done"
=============================================================================
