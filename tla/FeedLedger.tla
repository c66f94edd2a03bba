----------------------------- MODULE FeedLedger -----------------------------
(***************************************************************************)
(* What became of the lines of a feed?  A record a feed has delivered may  *)
(* be overwritten by another feed or moved to another key by an edit; both *)
(* are in order, and nothing else is.  `overtaken` is a history variable:  *)
(* it watches PricingWrites, changes none of its steps, and keeps for each *)
(* feed the keys it delivered and lost to one of the two, until it holds   *)
(* the key again.                                                          *)
(***************************************************************************)
EXTENDS PricingWrites

VARIABLE overtaken    \* pairs <<feed, key>>

Holder(u, k) == {i \in Live : rows[i].key = k /\ rows[i].feed = u}

(* Another feed's chunk lands on the record.                               *)
OverwrittenBy(v, i) ==
    /\ up[v].pc = "chunk" /\ up'[v].pc = "index"
    /\ rows'[i].feed = v /\ rows'[i].src = "ingest"

(* An edit moves the record to another key.                                *)
MovedBy(e, i) ==
    /\ ed[e].pc = "read" /\ ed'[e].pc = "committed"
    /\ ed[e].id = i /\ rows'[i].by = e /\ rows'[i].key # rows[i].key

Overtakes(u, k) ==
    \E i \in Holder(u, k) :
        \/ \E v \in Uploads \ {u} : OverwrittenBy(v, i)
        \/ \E e \in Editors : MovedBy(e, i)

LInit == Init /\ overtaken = {}

Watch ==
    overtaken' = {p \in Uploads \X Keys :
        /\ p \in overtaken \/ Overtakes(p[1], p[2])
        /\ Holder(p[1], p[2])' = {}}

LNext == Next /\ Watch

lvars == <<vars, overtaken>>

LSpec == LInit /\ [][LNext]_lvars

-----------------------------------------------------------------------------
(* The line of a file that decides what a key gets: its last occurrence.   *)
Decisive(file, c, l) ==
    ~ \E d \in DOMAIN file : d > c /\ file[c][l].key \in KeysOf(file[d])

(* A line of feed u has arrived: the record of its key is u's, and unless  *)
(* corrected since holds the line's price.                                 *)
Arrived(u, line) ==
    \E i \in Holder(u, line.key) :
        rows[i].src = "ingest" => rows[i].price = Stored[line.price]

(* A processed feed counts all its lines, and each line that decides about *)
(* its key has arrived, unless that very record was overwritten by another *)
(* feed or moved off the key by an edit.  A failed feed counts none.  A    *)
(* feed left "received" by a finished request means that its worker or the *)
(* database died.                                                          *)
FeedAccounting ==
    \A u \in Uploads : feeds[u] # None =>
        LET file == up[u].file IN
        /\ feeds[u].status = "processed" =>
              /\ feeds[u].rowCount =
                    Cardinality(UNION {{c} \X DOMAIN file[c] : c \in DOMAIN file})
              /\ \A c \in DOMAIN file : \A l \in DOMAIN file[c] :
                    \/ ~Decisive(file, c, l)
                    \/ Arrived(u, file[c][l])
                    \/ <<u, file[c][l].key>> \in overtaken
        /\ feeds[u].status = "failed" => feeds[u].rowCount = 0
        /\ feeds[u].status = "received" /\ up[u].pc = "done" => up[u].res \in {"500", None}
=============================================================================
