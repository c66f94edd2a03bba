------------------------------ MODULE IndexSync ------------------------------
(***************************************************************************)
(* When does the search index agree with the database?  The write paths    *)
(* commit first and push to Typesense afterwards, without a queue, an      *)
(* order between pushes or a reconciliation job, so the index may stay     *)
(* wrong.  This module says exactly when: a record's document is its value *)
(* unless the record was DISTURBED, by one of three things --              *)
(*   an overlap  it was written again before an earlier push for it ended; *)
(*   a stale push  a commit pushes something else than it left in the row  *)
(*               (the edit's SELECT was out of date by its UPDATE, or the  *)
(*               edit's price has more decimals than the column keeps);    *)
(*   a lost push  a push ended without its value being in the index        *)
(*               (the call failed, the document was refused, the worker    *)
(*               died).                                                    *)
(* The next write that has the record to itself puts the index right.      *)
(* `disturbed` is a history variable: it watches PricingWrites and changes *)
(* none of its steps.                                                      *)
(***************************************************************************)
EXTENDS PricingWrites

VARIABLE disturbed    \* ids whose document may differ from their row

Requests == Editors \cup Uploads

(* Request p has committed a value for id i and still owes its push.       *)
Pending(p, i) ==
    IF p \in Editors THEN ed[p].pc = "committed" /\ ed[p].id = i
                     ELSE up[p].pc = "index" /\ up[p].push[i] # None

Pushed(p, i) == IF p \in Editors THEN ed[p].push ELSE up[p].push[i]

Commits(p, i) == ~Pending(p, i) /\ Pending(p, i)'
Ends(p, i)    == Pending(p, i) /\ ~Pending(p, i)'

Overlap(i) ==
    \E p, q \in Requests : p # q /\ Commits(p, i) /\ Pending(q, i)
StalePush(i) ==
    \E p \in Requests : Commits(p, i) /\ Pushed(p, i)' # ValueOf(rows'[i])
LostPush(i) ==
    \E p \in Requests : Ends(p, i) /\ docs'[i] # Pushed(p, i)

Disturbed(i) == Overlap(i) \/ StalePush(i) \/ LostPush(i)

(* A write that no earlier push overlaps: whatever the index holds now,    *)
(* this push will replace.                                                 *)
WrittenAlone(i) ==
    \E p \in Requests :
        Commits(p, i) /\ \A q \in Requests \ {p} : ~Pending(q, i)

ISInit == Init /\ disturbed = {}

ISNext ==
    /\ Next
    /\ disturbed' = {i \in disturbed : ~WrittenAlone(i)} \cup {i \in Ids : Disturbed(i)}

isvars == <<vars, disturbed>>

ISSpec == ISInit /\ [][ISNext]_isvars

-----------------------------------------------------------------------------
(* The inductive form: at most one push is on its way for a live record    *)
(* that was left alone, it carries the row's value, and without one the    *)
(* document is the row's value already.                                    *)
InStep ==
    \A i \in Live \ disturbed :
        /\ \A p, q \in Requests : Pending(p, i) /\ Pending(q, i) => p = q
        /\ \A p \in Requests : Pending(p, i) => Pushed(p, i) = ValueOf(rows[i])
        /\ (\A p \in Requests : ~Pending(p, i)) => docs[i] = ValueOf(rows[i])

(* "Index synchronization after database commit": once the requests that   *)
(* wrote an undisturbed record have made their push, what a search on the  *)
(* index finds for it is what the database holds.                          *)
IndexAgrees ==
    \A i \in Live \ disturbed :
        (\A p \in Requests : ~Pending(p, i)) => docs[i] = ValueOf(rows[i])

(* DD-03 calls the difference between the stores a matter of eventual      *)
(* consistency, "mitigated with post-write index updates": with no request *)
(* at work, every record's document is its value.                          *)
AtRest ==
    /\ \A e \in Editors : ed[e].pc \in {"idle", "done"}
    /\ \A u \in Uploads : up[u].pc \in {"idle", "done"}
IndexCatchesUp ==
    AtRest => \A i \in Live : docs[i] = ValueOf(rows[i])
=============================================================================
