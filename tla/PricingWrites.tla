---------------------------- MODULE PricingWrites ----------------------------
(***************************************************************************)
(* The write paths of the pricing platform: PUT /pricing/{id} (a manual    *)
(* edit) and POST /upload-csv (a feed, ingested chunk by chunk), over the  *)
(* two stores they keep in step -- PostgreSQL, the source of truth, and    *)
(* the Typesense search index.                                             *)
(*                                                                         *)
(* A price is an amount as a request or a file spells it; the column is    *)
(* Numeric(12,2), so what a row holds is the amount rounded (Stored).  An  *)
(* upload indexes what RETURNING says its rows hold.  An edit's ORM object *)
(* keeps the amount it was given, and so do its audit entry and the        *)
(* document it pushes.                                                     *)
(*                                                                         *)
(* Every request is a slot of its own and stops wherever its coroutine     *)
(* awaits: between those points requests of any worker process interleave. *)
(* A transaction is atomic at its COMMIT (READ COMMITTED; row locks make   *)
(* writers of one record wait for each other).                             *)
(*                                                                         *)
(* Faults the environment may inject, by CONSTANT Faults:                  *)
(*   "db"     a transaction fails and leaves nothing behind                *)
(*   "index"  a Typesense call fails, with or without its effect, or an    *)
(*            import returns although some of its documents were refused   *)
(*   "crash"  the worker process that serves the request dies              *)
(*                                                                         *)
(* Not covered: the value columns other than price (product_name,          *)
(* currency_code, tax_inclusive travel with it), a COMMIT that succeeds    *)
(* but reports failure, and a Typesense call that takes effect after the   *)
(* client gave up on it.  Nothing here deletes records: see RetentionJob.  *)
(***************************************************************************)
EXTENDS Naturals, Sequences, FiniteSets

CONSTANTS
    Ids,          \* record identifiers (uuid4): an id is never drawn twice
    Keys,         \* business keys: (country_code, store_id, sku, date)
    Prices,       \* prices a row can hold: two decimals, >= 0
    Amounts,      \* prices as requests, files and documents spell them
    Stored,       \* amount -> what the column makes of it, None if refused
    Editors,      \* PUT requests
    Uploads,      \* POST requests; also the identity of their feed
    KeyUploads,   \* uploads authenticated by a service API key (no user)
    Files,        \* the CSV files that may be uploaded: sequences of chunks
    Changes,      \* the field sets a PUT may carry
    MaxAttempts,  \* attempts of an import before it gives up
    Faults,       \* the faults that may occur
    Seed,         \* records inserted and indexed by cli/seed_demo_data.py
    None          \* SQL NULL, an absent row, an absent document

(* What a row shows; what a line of a file, an ORM object or a document    *)
(* does.                                                                   *)
Val  == [key: Keys, price: Prices]
Line == [key: Keys, price: Amounts]

(* A pricing_records row, with the columns that say where it came from.    *)
Row == [key: Keys, price: Prices, src: {"ingest", "manual"},
        by: Editors \cup Uploads \cup {None}, feed: Uploads \cup {None}]

(* model_dump(exclude_none=True): an absent field is None.                 *)
Change == [key: Keys \cup {None}, price: Amounts \cup {None}]

ASSUME NoneIsFresh ==
    None \notin Ids \cup Keys \cup Amounts \cup Editors \cup Uploads \cup Line \cup Row
ASSUME RequestsAreDistinct == Editors \cap Uploads = {}
ASSUME ConstantTypes ==
    /\ KeyUploads \subseteq Uploads
    /\ Changes \subseteq Change
    /\ \A f \in Files : f \in Seq(Seq(Line))
    /\ MaxAttempts \in Nat \ {0}
    /\ Faults \subseteq {"db", "index", "crash"}
ASSUME RoundingIsIdempotent ==
    /\ Prices \subseteq Amounts
    /\ Stored \in [Amounts -> Prices \cup {None}]
    /\ \A p \in Prices : Stored[p] = p
ASSUME SeedIsUnique ==
    /\ Seed \in [Ids -> Val \cup {None}]
    /\ \A i, j \in Ids :
          Seed[i] # None /\ Seed[j] # None /\ Seed[i].key = Seed[j].key => i = j

VARIABLES
    rows,    \* table pricing_records: id -> row
    used,    \* ids drawn so far
    audits,  \* table pricing_record_audits
    docs,    \* the Typesense collection: id -> document
    feeds,   \* table pricing_feed_uploads: upload -> feed row
    ed,      \* the PUT requests in progress
    up       \* the uploads in progress

db   == <<rows, used, audits, feeds>>
vars == <<rows, used, audits, docs, feeds, ed, up>>

-----------------------------------------------------------------------------
Live == {i \in Ids : rows[i] # None}

ValueOf(row) == [key |-> row.key, price |-> row.price]

(* Mutant of Overlay: an absent key is dumped as NULL and overwrites.       *)
OverlayNullKey(v, c) == [key   |-> c.key,
                         price |-> IF c.price = None THEN v.price ELSE c.price]

(* The ORM object after UPDATE .. RETURNING: the request's fields replaced *)
(* on the object the SELECT had loaded; the others keep what was loaded.   *)
Overlay(v, c) == [key   |-> IF c.key   = None THEN v.key   ELSE c.key,
                  price |-> IF c.price = None THEN v.price ELSE c.price]

(* Mutant of KeyTaken: a table without its UNIQUE constraint.               *)
KeyNeverTaken(k, i) == FALSE

KeyTaken(k, i) == \E j \in Live \ {i} : rows[j].key = k

Audit == [by: Editors, id: Ids, old: Val, new: Line]
Feed  == [status: {"received", "processed", "failed"}, rowCount: Nat]
Answers == {"200", "404", "409", "4xx", "400", "500"}

ASSUME NoneIsNoOutcome == None \notin Feed \cup Answers

EditIdle == [pc |-> "idle", id |-> None, change |-> None, seen |-> None,
             push |-> None, res |-> None]
NoPush   == [i \in Ids |-> None]
UploadIdle == [pc |-> "idle", file |-> << >>, n |-> 0, offset |-> 0,
               attempts |-> 0, push |-> NoPush, res |-> None]

Init ==
    /\ rows = [i \in Ids |-> IF Seed[i] = None THEN None
                             ELSE [key |-> Seed[i].key, price |-> Seed[i].price,
                                   src |-> "ingest", by |-> None, feed |-> None]]
    /\ used = {i \in Ids : Seed[i] # None}
    /\ audits = {}
    /\ docs = Seed
    /\ feeds = [u \in Uploads |-> None]
    /\ ed = [e \in Editors |-> EditIdle]
    /\ up = [u \in Uploads |-> UploadIdle]

-----------------------------------------------------------------------------
(* PUT /pricing/{id}                                                       *)

(* The request ends: its locals die, its record id and answer remain.      *)
EditEnd(e, i, res) ==
    ed' = [ed EXCEPT ![e] = [EditIdle EXCEPT !.pc = "done", !.id = i, !.res = res]]

(* update_record reads the record it is about to change.                   *)
EditRead(e) ==
    /\ ed[e].pc = "idle"
    /\ \E i \in Ids :
          \/ /\ i \in Live
             /\ \E c \in Changes :
                   ed' = [ed EXCEPT ![e] = [EditIdle EXCEPT !.pc = "read", !.id = i,
                                            !.change = c, !.seen = ValueOf(rows[i])]]
          \/ i \notin Live /\ EditEnd(e, i, "404")
          \/ "db" \in Faults /\ EditEnd(e, i, "500")
    /\ UNCHANGED <<db, docs, up>>

(* Mutant of Edited: an edit that cuts the record off from its feed.        *)
EditedAsNew(e, row) ==
    LET v == Overlay(ValueOf(row), ed[e].change)
    IN  [key |-> v.key, price |-> Stored[v.price], src |-> "manual", by |-> e, feed |-> None]

(* What the UPDATE leaves in the row: the request's fields on its current  *)
(* values, the price rounded by the column.                                *)
Edited(e, row) ==
    LET v == Overlay(ValueOf(row), ed[e].change)
    IN  [key |-> v.key, price |-> Stored[v.price], src |-> "manual", by |-> e, feed |-> row.feed]

(* Mutant of AuditOf: old and new values are taken the wrong way round.     *)
AuditReversed(e) == [by |-> e, id |-> ed[e].id, old |-> Overlay(ed[e].seen, ed[e].change),
                     new |-> ed[e].seen]

(* The audit entry: old values as the SELECT read them, new values as the  *)
(* ORM object shows them after the UPDATE, the price as it was sent.       *)
AuditOf(e) == [by |-> e, id |-> ed[e].id, old |-> ed[e].seen,
               new |-> Overlay(ed[e].seen, ed[e].change)]

(* UPDATE .. RETURNING, the audit INSERT and COMMIT are one transaction.   *)
(* A price the column cannot hold is no IntegrityError.  The UPDATE finds  *)
(* the record the SELECT found: nothing deletes any.                       *)
EditWrite(e) ==
    LET i == ed[e].id
        row == Edited(e, rows[i]) IN
    /\ ed[e].pc = "read" /\ i \in Live
    /\ \/ /\ row.price # None /\ ~KeyTaken(row.key, i)
          /\ rows' = [rows EXCEPT ![i] = row]
          /\ audits' = audits \cup {AuditOf(e)}
          /\ ed' = [ed EXCEPT ![e] = [EditIdle EXCEPT !.pc = "committed", !.id = i,
                                                      !.push = AuditOf(e).new]]
       \/ /\ \/ row.price # None /\ KeyTaken(row.key, i) /\ EditEnd(e, i, "409")
             \/ /\ row.price = None \/ "db" \in Faults
                /\ EditEnd(e, i, "500")
          /\ UNCHANGED <<rows, audits>>
    /\ UNCHANGED <<used, docs, feeds, up>>

(* One attempt to update the document.  Typesense answers 404 for a        *)
(* document it does not hold; any exception becomes a 500.                 *)
EditIndex(e) ==
    LET i == ed[e].id
        pushed == [docs EXCEPT ![i] = ed[e].push]
    IN
    /\ ed[e].pc = "committed"
    /\ \/ docs[i] # None /\ docs' = pushed /\ ed' = [ed EXCEPT ![e].pc = "indexed"]
       \/ docs[i] = None /\ UNCHANGED docs /\ EditEnd(e, i, "500")
       \/ /\ "index" \in Faults
          /\ \/ UNCHANGED docs
             \/ docs[i] # None /\ docs' = pushed
          /\ EditEnd(e, i, "500")
    /\ UNCHANGED <<db, up>>

(* clear_pricing_search_caches, then the 200.                              *)
EditRespond(e) ==
    /\ ed[e].pc = "indexed"
    /\ EditEnd(e, ed[e].id, "200")
    /\ UNCHANGED <<db, docs, up>>

EditCrash(e) ==
    /\ "crash" \in Faults
    /\ ed[e].pc \in {"read", "committed", "indexed"}
    /\ EditEnd(e, ed[e].id, None)
    /\ UNCHANGED <<db, docs, up>>

-----------------------------------------------------------------------------
(* POST /upload-csv                                                        *)

UploadEnd(u, res) ==
    up' = [up EXCEPT ![u] = [@ EXCEPT !.pc = "done", !.push = NoPush, !.attempts = 0,
                                      !.res = res]]

(* Not a .csv, or larger than max_upload_bytes: refused without a feed.    *)
UploadReject(u) ==
    /\ up[u].pc = "idle"
    /\ UploadEnd(u, "4xx")
    /\ UNCHANGED <<db, docs, ed>>

(* The feed row is committed before anything is read from the file.        *)
UploadStart(u) ==
    /\ up[u].pc = "idle"
    /\ \E f \in Files :
          \/ /\ feeds' = [feeds EXCEPT ![u] = [status |-> "received", rowCount |-> 0]]
             /\ up' = [up EXCEPT ![u] = [@ EXCEPT !.pc = "chunk", !.file = f]]
          \/ /\ "db" \in Faults
             /\ up' = [up EXCEPT ![u] = [@ EXCEPT !.pc = "failing", !.file = f]]
             /\ UNCHANGED feeds
    /\ UNCHANGED <<rows, used, audits, docs, ed>>

KeysOf(chunk) == {chunk[l].key : l \in DOMAIN chunk}

(* A chunk the transaction accepts: every price parses, fits the column    *)
(* and passes the CHECK, and no key occurs twice (ON CONFLICT DO UPDATE    *)
(* refuses to touch a row a second time in one statement).                 *)
Acceptable(chunk) ==
    /\ \A l \in DOMAIN chunk : Stored[chunk[l].price] # None
    /\ \A l, m \in DOMAIN chunk : chunk[l].key = chunk[m].key => l = m

(* The ids a chunk's keys end up on: a key that is in the table keeps its  *)
(* row's id, any other line brings an id nobody has drawn.                 *)
Placements(chunk) ==
    {at \in [KeysOf(chunk) -> Ids] :
        /\ \A k \in KeysOf(chunk) :
              IF \E i \in Live : rows[i].key = k
              THEN at[k] \in Live /\ rows[at[k]].key = k
              ELSE at[k] \notin used
        /\ \A k, m \in KeysOf(chunk) : at[k] = at[m] => k = m}

UploadUser(u) == IF u \in KeyUploads THEN None ELSE u

(* The line of the chunk that lands on id i, when one does.                *)
LineAt(chunk, at, i) == {l \in DOMAIN chunk : at[chunk[l].key] = i}

(* Mutant of Ingested: an upsert that does not record its feed.             *)
IngestedUnsigned(u, line) ==
    [key |-> line.key, price |-> Stored[line.price], src |-> "ingest",
     by |-> UploadUser(u), feed |-> None]

(* What the row holds afterwards: EXCLUDED's values, the author replaced.  *)
Ingested(u, line) ==
    [key |-> line.key, price |-> Stored[line.price], src |-> "ingest",
     by |-> UploadUser(u), feed |-> u]

(* Mutant of UpsertedRows: ON CONFLICT DO NOTHING.                          *)
InsertedRows(u, chunk, at) ==
    [i \in Ids |-> IF LineAt(chunk, at, i) = {} \/ i \in Live THEN rows[i]
                   ELSE Ingested(u, chunk[CHOOSE l \in LineAt(chunk, at, i) : TRUE])]

UpsertedRows(u, chunk, at) ==
    [i \in Ids |-> IF LineAt(chunk, at, i) = {} THEN rows[i]
                   ELSE Ingested(u, chunk[CHOOSE l \in LineAt(chunk, at, i) : TRUE])]

(* Mutant of Canonical: only the records the chunk created are returned.    *)
CanonicalCreated(u, chunk, at) ==
    [i \in Ids |-> IF LineAt(chunk, at, i) = {} \/ i \in Live THEN None
                   ELSE ValueOf(UpsertedRows(u, chunk, at)[i])]

(* RETURNING: the canonical records, which become the documents to import. *)
Canonical(u, chunk, at) ==
    [i \in Ids |-> IF LineAt(chunk, at, i) = {} THEN None
                   ELSE ValueOf(UpsertedRows(u, chunk, at)[i])]

(* The next chunk: read, checked, upserted and committed, or refused.      *)
UploadPersist(u) ==
    /\ up[u].pc = "chunk" /\ up[u].n < Len(up[u].file)
    /\ LET chunk == up[u].file[up[u].n + 1] IN
       \/ /\ Acceptable(chunk)
          /\ \E at \in Placements(chunk) :
                /\ rows' = UpsertedRows(u, chunk, at)
                /\ used' = used \cup {at[k] : k \in KeysOf(chunk)}
                /\ up' = [up EXCEPT ![u] = [@ EXCEPT !.pc = "index",
                                                     !.push = Canonical(u, chunk, at)]]
       \/ /\ ~Acceptable(chunk) \/ "db" \in Faults
          /\ up' = [up EXCEPT ![u].pc = "failing"]
          /\ UNCHANGED <<rows, used>>
    /\ UNCHANGED <<audits, docs, feeds, ed>>

Targets(u) == {i \in Ids : up[u].push[i] # None}

(* Mutant of Import: the import replaces the collection.                    *)
ImportReplacing(u, applied) ==
    docs' = [i \in Ids |-> IF i \in applied THEN up[u].push[i] ELSE None]

(* The documents of `applied` take the values pushed for them.             *)
Import(u, applied) ==
    docs' = [i \in Ids |-> IF i \in applied THEN up[u].push[i] ELSE docs[i]]

(* Mutant of AfterFailure: the count of attempts starts again at its limit. *)
RetriesForEver(u) ==
    [up[u] EXCEPT !.attempts = (up[u].attempts + 1) % MaxAttempts]

(* A failed attempt is repeated after a pause; the last one ends the loop.  *)
AfterFailure(u) ==
    IF up[u].attempts + 1 = MaxAttempts
    THEN [up[u] EXCEPT !.pc = "failing", !.push = NoPush]
    ELSE [up[u] EXCEPT !.attempts = up[u].attempts + 1]

(* One attempt of upsert_documents_with_retry.  import_ reports refused    *)
(* documents in its result, which nobody reads.                            *)
UploadIndex(u) ==
    /\ up[u].pc = "index"
    /\ \/ /\ \E applied \in SUBSET Targets(u) :
                /\ applied = Targets(u) \/ "index" \in Faults
                /\ Import(u, applied)
          /\ up' = [up EXCEPT ![u] =
                      [@ EXCEPT !.pc = "chunk", !.attempts = 0, !.push = NoPush,
                                !.n = up[u].n + 1,
                                !.offset = up[u].offset + Len(up[u].file[up[u].n + 1])]]
       \/ /\ "index" \in Faults /\ Targets(u) # {}
          /\ \E applied \in SUBSET Targets(u) : Import(u, applied)
          /\ up' = [up EXCEPT ![u] = AfterFailure(u)]
    /\ UNCHANGED <<db, ed>>

(* No chunk is left: the feed is closed with the number of lines read.     *)
UploadFinish(u) ==
    /\ up[u].pc = "chunk" /\ up[u].n = Len(up[u].file)
    /\ \/ /\ feeds' = [feeds EXCEPT ![u] = [status |-> "processed", rowCount |-> up[u].offset]]
          /\ up' = [up EXCEPT ![u].pc = "closed"]
       \/ /\ "db" \in Faults
          /\ up' = [up EXCEPT ![u].pc = "failing"]
          /\ UNCHANGED feeds
    /\ UNCHANGED <<rows, used, audits, docs, ed>>

(* Mutant of UploadFail: the answer does not wait for the failure's commit. *)
UploadFailUnrecorded(u) ==
    /\ up[u].pc = "failing"
    /\ \/ feeds' = [feeds EXCEPT ![u] = [status |-> "failed", rowCount |-> 0]]
       \/ "db" \in Faults /\ UNCHANGED feeds
    /\ UploadEnd(u, "400")
    /\ UNCHANGED <<rows, used, audits, docs, ed>>

(* The except clauses: roll back, record the failure, answer 400.  When    *)
(* that commit fails too the feed stays as it is and the answer is a 500.  *)
UploadFail(u) ==
    /\ up[u].pc = "failing"
    /\ \/ /\ feeds' = [feeds EXCEPT ![u] = [status |-> "failed", rowCount |-> 0]]
          /\ UploadEnd(u, "400")
       \/ "db" \in Faults /\ UNCHANGED feeds /\ UploadEnd(u, "500")
    /\ UNCHANGED <<rows, used, audits, docs, ed>>

(* clear_pricing_search_caches, then the 200.                              *)
UploadRespond(u) ==
    /\ up[u].pc = "closed"
    /\ UploadEnd(u, "200")
    /\ UNCHANGED <<db, docs, ed>>

UploadCrash(u) ==
    /\ "crash" \in Faults
    /\ up[u].pc \in {"chunk", "index", "failing", "closed"}
    /\ UploadEnd(u, None)
    /\ UNCHANGED <<db, docs, ed>>

-----------------------------------------------------------------------------
EditStep(e) ==
    EditRead(e) \/ EditWrite(e) \/ EditIndex(e) \/ EditRespond(e)

UploadStep(u) ==
    \/ UploadReject(u) \/ UploadStart(u) \/ UploadPersist(u) \/ UploadIndex(u)
    \/ UploadFinish(u) \/ UploadFail(u) \/ UploadRespond(u)

Next ==
    \/ \E e \in Editors : EditStep(e) \/ EditCrash(e)
    \/ \E u \in Uploads : UploadStep(u) \/ UploadCrash(u)

Spec == Init /\ [][Next]_vars

(* A coroutine that has started is resumed by its event loop; nobody is    *)
(* obliged to send a request.                                              *)
Fairness ==
    /\ \A e \in Editors : WF_vars(ed[e].pc # "idle" /\ EditStep(e))
    /\ \A u \in Uploads : WF_vars(up[u].pc # "idle" /\ UploadStep(u))

-----------------------------------------------------------------------------
(* Properties                                                              *)

EditState == [pc: {"idle", "read", "committed", "indexed", "done"},
              id: Ids \cup {None}, change: Change \cup {None}, seen: Val \cup {None},
              push: Line \cup {None}, res: {"200", "404", "409", "500", None}]
UploadState == [pc: {"idle", "chunk", "index", "failing", "closed", "done"},
                file: Files \cup {<< >>}, n: Nat, offset: Nat, attempts: 0 .. MaxAttempts - 1,
                push: [Ids -> Line \cup {None}], res: {"200", "4xx", "400", "500", None}]

(* Type invariant of the stores and of the requests' local state.          *)
TypeOK ==
    /\ rows \in [Ids -> Row \cup {None}]
    /\ used \subseteq Ids
    /\ audits \subseteq Audit
    /\ docs \in [Ids -> Line \cup {None}]
    /\ feeds \in [Uploads -> Feed \cup {None}]
    /\ ed \in [Editors -> EditState]
    /\ up \in [Uploads -> UploadState]

(* No two records share (country, store, sku, date), whatever edits that   *)
(* move keys and uploads that create records do to each other.             *)
UniqueBusinessKey ==
    \A i, j \in Live : rows[i].key = rows[j].key => i = j

(* The audit trail stays complete: a request enters at most one change,    *)
(* and the latest change of a record marked manual is in the trail under   *)
(* its author, with every field the entry says was changed showing in the  *)
(* record -- a price as the column rounds the one in the entry.            *)
AuditTrail ==
    /\ \A a, b \in audits : a.by = b.by => a = b
    /\ \A i \in Live : rows[i].src = "manual" =>
          \E a \in audits :
              /\ a.id = i /\ a.by = rows[i].by
              /\ a.new.key   # a.old.key   => rows[i].key   = a.new.key
              /\ a.new.price # a.old.price => rows[i].price = Stored[a.new.price]

LinesOf(file) == UNION {{file[c][l] : l \in DOMAIN file[c]} : c \in DOMAIN file}

(* Provenance: feed_id and the audit trail together explain every value.   *)
(* An ingested record is a line of its feed (or a seeded record); a field  *)
(* of a corrected one is audited or still comes from that feed.  Prices    *)
(* are compared as the column rounds them.                                 *)
ValuesTraceable ==
    \A i \in Live :
        LET row  == rows[i]
            from == IF row.feed = None THEN {Seed[i]} ELSE LinesOf(up[row.feed].file)
        IN  \/ \E o \in from : o # None /\ o.key = row.key /\ Stored[o.price] = row.price
            \/ /\ row.src = "manual"
               /\ \/ \E a \in audits : a.id = i /\ a.new.key = row.key
                  \/ \E o \in from : o # None /\ o.key = row.key
               /\ \/ \E a \in audits : a.id = i /\ Stored[a.new.price] = row.price
                  \/ \E o \in from : o # None /\ Stored[o.price] = row.price

(* An answer tells the client what happened: a 200 to an edit means it is  *)
(* in the trail, a 404 or 409 that it changed nothing; a 200 to an upload  *)
(* means a processed feed, a 400 a failed one, an early refusal none.      *)
AnswersHonest ==
    /\ \A e \in Editors :
          /\ ed[e].res = "200" => \E a \in audits : a.by = e /\ a.id = ed[e].id
          /\ ed[e].res \in {"404", "409"} => \A a \in audits : a.by # e
    /\ \A u \in Uploads :
          /\ up[u].res = "200" => feeds[u] # None /\ feeds[u].status = "processed"
          /\ up[u].res = "400" => feeds[u] # None /\ feeds[u].status = "failed"
          /\ up[u].res = "4xx" => feeds[u] = None

(* Every request that has started is answered, however often Typesense     *)
(* fails: the retries of an import are bounded.                            *)
RequestsSettle ==
    /\ \A e \in Editors : ed[e].pc # "idle" ~> ed[e].pc = "done"
    /\ \A u \in Uploads : up[u].pc # "idle" ~> up[u].pc = "done"

(* The tables implement the abstract catalogue: a manual change and its    *)
(* audit entry are one step, and a chunk of an announced file arrives      *)
(* whole -- every line of it, and nothing else -- under stable ids.        *)
Abstract == INSTANCE Catalog WITH files <- [u \in Uploads |-> up[u].file]
ImplementsCatalog == Abstract!Spec

(* DD-06, "Capture old/new values": the entry an edit adds shows what the  *)
(* record held before the edit and what it holds after.                    *)
AuditShowsChange ==
    [][\A a \in audits' \ audits :
          a.old = ValueOf(rows[a.id]) /\ a.new = ValueOf(rows'[a.id])]_vars
=============================================================================
