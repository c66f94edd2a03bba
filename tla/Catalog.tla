------------------------------- MODULE Catalog -------------------------------
(***************************************************************************)
(* What the pricing catalogue promises its readers, without the requests   *)
(* that maintain it: a set of live records under unique business keys that *)
(* are never lost, an audit trail that grows by exactly one entry with     *)
(* every manual change, and feeds whose chunks arrive whole.               *)
(* PricingWrites, which models the request handlers step by step, is shown *)
(* to implement this specification.                                        *)
(***************************************************************************)
EXTENDS Naturals, Sequences, FiniteSets

CONSTANTS
    Ids,          \* record identifiers (uuid4)
    Stored,       \* amount as spelled -> price as stored
    Editors,      \* manual changes, one per PUT request
    Uploads,      \* feeds, one per uploaded file
    Files,        \* the files: sequences of chunks, which are sequences of lines
    Seed,         \* records present from the start
    None          \* the absent value

VARIABLES
    rows,    \* id -> its record, None where there is none
    audits,  \* the audit trail
    files    \* feed -> its file, empty before it is announced

catalog == <<rows, audits, files>>

-----------------------------------------------------------------------------
Live(r) == {i \in Ids : r[i] # None}

UniqueKeys(r) ==
    \A i, j \in Live(r) : r[i].key = r[j].key => i = j

Init ==
    /\ rows = [i \in Ids |-> IF Seed[i] = None THEN None
                             ELSE [key |-> Seed[i].key, price |-> Seed[i].price,
                                   src |-> "ingest", by |-> None, feed |-> None]]
    /\ audits = {}
    /\ files = [u \in Uploads |-> << >>]

(* A manual change: one record and one audit entry, together.  A field of  *)
(* the record either keeps its value or takes the audited new one, a price *)
(* as it is stored.                                                        *)
Correct(e, i) ==
    /\ i \in Live(rows)
    /\ \A a \in audits : a.by # e
    /\ \E a \in audits' :
          /\ a.by = e /\ a.id = i
          /\ audits' = audits \cup {a}
          /\ rows'[i].key \in {rows[i].key, a.new.key}
          /\ rows'[i].price \in {rows[i].price, Stored[a.new.price]}
    /\ rows' = [rows EXCEPT ![i] = [key |-> rows'[i].key, price |-> rows'[i].price,
                                    src |-> "manual", by |-> e, feed |-> rows[i].feed]]
    /\ UniqueKeys(rows')
    /\ UNCHANGED files

(* The file of a feed, fixed before its first chunk is read.               *)
Announce(u) ==
    /\ files[u] = << >>
    /\ \E f \in Files : files' = [files EXCEPT ![u] = f]
    /\ UNCHANGED <<rows, audits>>

(* The record a line of feed u leaves.                                     *)
Delivers(u, line, row) ==
    /\ row.key = line.key /\ row.price = Stored[line.price]
    /\ row.src = "ingest" /\ row.feed = u /\ row.by \in {u, None}

(* Chunk c of feed u, whole: each of its lines is a record now; what moved *)
(* is one of its lines, created or put over the record that had its key.   *)
Ingest(u, c) ==
    LET chunk == files[u][c] IN
    /\ \A l \in DOMAIN chunk : \E i \in Live(rows') : Delivers(u, chunk[l], rows'[i])
    /\ \A i \in Ids :
          \/ rows'[i] = rows[i]
          \/ /\ \E l \in DOMAIN chunk : Delivers(u, chunk[l], rows'[i])
             /\ i \in Live(rows) => rows'[i].key = rows[i].key
    /\ UniqueKeys(rows')
    /\ UNCHANGED <<audits, files>>

Next ==
    \/ \E e \in Editors, i \in Ids : Correct(e, i)
    \/ \E u \in Uploads : Announce(u) \/ \E c \in DOMAIN files[u] : Ingest(u, c)

Spec == Init /\ [][Next]_catalog
=============================================================================
