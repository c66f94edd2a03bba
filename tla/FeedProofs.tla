------------------------------ MODULE FeedProofs ------------------------------
(* Theorems about what PricingWrites tells its clients and leaves behind   *)
(* of a feed, for every value of its constants: honest answers, the origin *)
(* of every value, and the accounts of a processed feed.                   *)
EXTENDS FeedLedger, PricingWritesProofs, SequenceTheorems

-----------------------------------------------------------------------------
(* Answers                                                                 *)

(* What will have to be answered is on record before it is: an edit past   *)
(* its commit has its entry, an upload past its last commit its feed.      *)
Answered ==
    /\ \A e \in Editors :
          /\ ed[e].pc \in {"committed", "indexed"} =>
                \E a \in audits : a.by = e /\ a.id = ed[e].id
          /\ ed[e].pc # "done" => ed[e].res = None
    /\ \A u \in Uploads :
          /\ up[u].pc # "done" => up[u].res = None
          /\ up[u].pc = "idle" => feeds[u] = None
          /\ up[u].pc = "closed" => feeds[u] # None /\ feeds[u].status = "processed"

AnswersInv == Answered /\ AnswersHonest

LEMMA InitAnswers == Init => AnswersInv
  BY NoneIsNoOutcome DEF Init, AnswersInv, Answered, AnswersHonest, EditIdle, UploadIdle, Answers

(* The part of AnswersInv one request is responsible for.                  *)
EditorHonest(e) ==
    /\ ed[e].pc \in {"committed", "indexed"} => \E a \in audits : a.by = e /\ a.id = ed[e].id
    /\ ed[e].pc # "done" => ed[e].res = None
    /\ ed[e].res = "200" => \E a \in audits : a.by = e /\ a.id = ed[e].id
    /\ ed[e].res \in {"404", "409"} => \A a \in audits : a.by # e
UploaderHonest(u) ==
    /\ up[u].pc # "done" => up[u].res = None
    /\ up[u].pc = "idle" => feeds[u] = None
    /\ up[u].pc = "closed" => feeds[u] # None /\ feeds[u].status = "processed"
    /\ up[u].res = "200" => feeds[u] # None /\ feeds[u].status = "processed"
    /\ up[u].res = "400" => feeds[u] # None /\ feeds[u].status = "failed"
    /\ up[u].res = "4xx" => feeds[u] = None

LEMMA AnswersSplit ==
    AnswersInv <=> (\A e \in Editors : EditorHonest(e)) /\ (\A u \in Uploads : UploaderHonest(u))
  BY DEF AnswersInv, Answered, AnswersHonest, EditorHonest, UploaderHonest

(* A step of one edit leaves every other one as honest as it was: the      *)
(* trail only ever gains an entry of that edit.                            *)
LEMMA EditAnswers ==
    ASSUME IInv, AnswersInv, NEW e \in Editors, EditStep(e) \/ EditCrash(e)
    PROVE  AnswersInv'
<1>0. /\ ed \in [Editors -> EditState] /\ ed[e] \in EditState
      /\ EditorHonest(e) /\ None \notin Answers
  BY AnswersSplit, NoneIsNoOutcome DEF IInv, TypeInv, TypeOK
<1>1. UNCHANGED <<feeds, up>>
  BY DEF EditStep, EditRead, EditWrite, EditIndex, EditRespond, EditCrash, db
<1>2. \A u \in Uploads : UploaderHonest(u)'
  BY <1>1, AnswersSplit DEF UploaderHonest
<1>3. /\ \A d \in Editors \ {e} : ed'[d] = ed[d]
      /\ \A a \in audits : a \in audits'
      /\ \A a \in audits' \ audits : a.by = e
  <2>1. \E x : ed' = [ed EXCEPT ![e] = x]
    BY DEF EditStep, EditRead, EditWrite, EditIndex, EditRespond, EditCrash, EditEnd
  <2>2. UNCHANGED audits \/ audits' = audits \cup {AuditOf(e)}
    BY DEF EditStep, EditRead, EditWrite, EditIndex, EditRespond, EditCrash, db
  <2>3. AuditOf(e).by = e
    BY DEF AuditOf
  <2> QED
    BY <1>0, <2>1, <2>2, <2>3
<1>4. ASSUME NEW d \in Editors \ {e} PROVE EditorHonest(d)'
  <2>1. EditorHonest(d)
    BY AnswersSplit
  <2> QED
    BY <1>3, <2>1 DEF EditorHonest
<1> SUFFICES EditorHonest(e)'
  BY <1>2, <1>4 DEF AnswersInv, Answered, AnswersHonest, EditorHonest, UploaderHonest
<1>5. ASSUME NEW i, NEW res \in {"500", None}, EditEnd(e, i, res) PROVE EditorHonest(e)'
  <2>1. ed'[e].pc = "done" /\ ed'[e].res = res
    BY <1>0, <1>5 DEF EditEnd, EditIdle
  <2> QED
    BY <1>0, <2>1 DEF EditorHonest, Answers
<1>6. ASSUME NEW i, NEW res \in {"404", "409"}, EditEnd(e, i, res), UNCHANGED audits,
             ed[e].pc \in {"idle", "read"}
      PROVE  EditorHonest(e)'
  <2>1. ed'[e].pc = "done" /\ ed'[e].res = res
    BY <1>0, <1>6 DEF EditEnd, EditIdle
  <2> QED
    BY <1>0, <1>6, <2>1 DEF EditorHonest, Answers, IInv, Unaudited
<1>7. CASE EditRead(e)
  <2>1. CASE \E i \in Ids, c \in Changes :
                ed' = [ed EXCEPT ![e] = [EditIdle EXCEPT !.pc = "read", !.id = i,
                                         !.change = c, !.seen = ValueOf(rows[i])]]
    <3>1. ed'[e].pc = "read" /\ ed'[e].res = None
      BY <1>0, <2>1 DEF EditIdle
    <3> QED
      BY <1>0, <3>1 DEF EditorHonest, Answers
  <2> QED
    BY <1>5, <1>6, <1>7, <2>1 DEF EditRead, db
<1>8. CASE EditWrite(e)
  <2>1. CASE /\ audits' = audits \cup {AuditOf(e)}
             /\ ed' = [ed EXCEPT ![e] = [EditIdle EXCEPT !.pc = "committed", !.id = ed[e].id,
                                                        !.push = AuditOf(e).new]]
    <3>1. ed'[e].pc = "committed" /\ ed'[e].res = None /\ ed'[e].id = ed[e].id
      BY <1>0, <2>1 DEF EditIdle
    <3>2. AuditOf(e).by = e /\ AuditOf(e).id = ed[e].id
      BY DEF AuditOf
    <3> QED
      BY <1>0, <2>1, <3>1, <3>2 DEF EditorHonest, Answers
  <2> QED
    BY <1>5, <1>6, <1>8, <2>1 DEF EditWrite
<1>9. CASE EditIndex(e)
  <2>1. CASE ed' = [ed EXCEPT ![e].pc = "indexed"]
    <3>1. ed'[e].pc = "indexed" /\ ed'[e].res = ed[e].res /\ ed'[e].id = ed[e].id
      BY <1>0, <2>1 DEF EditState
    <3> QED
      BY <1>0, <1>9, <3>1 DEF EditorHonest, EditIndex, db, Answers
  <2> QED
    BY <1>5, <1>9, <2>1 DEF EditIndex
<1>10. CASE EditRespond(e)
  <2>1. ed'[e].pc = "done" /\ ed'[e].res = "200" /\ ed'[e].id = ed[e].id
    BY <1>0, <1>10 DEF EditRespond, EditEnd, EditIdle
  <2> QED
    BY <1>0, <1>10, <2>1 DEF EditorHonest, EditRespond, db
<1>11. CASE EditCrash(e)
  BY <1>5, <1>11 DEF EditCrash
<1> QED
  BY <1>7, <1>8, <1>9, <1>10, <1>11 DEF EditStep

(* What one attempt of an import makes of its upload: the chunk is done,   *)
(* or nothing is left to try, or the attempt is counted.                   *)
LEMMA IndexMoves ==
    ASSUME TypeInv, NEW u \in Uploads, UploadIndex(u)
    PROVE  \/ up'[u] = [up[u] EXCEPT !.pc = "chunk", !.attempts = 0, !.push = NoPush,
                          !.n = up[u].n + 1,
                          !.offset = up[u].offset + Len(up[u].file[up[u].n + 1])]
           \/ up'[u] = [up[u] EXCEPT !.pc = "failing", !.push = NoPush]
           \/ up'[u] = [up[u] EXCEPT !.attempts = up[u].attempts + 1]
<1>1. up \in [Uploads -> UploadState]
  BY DEF TypeInv, TypeOK
<1>2. \/ up' = [up EXCEPT ![u] =
              [up[u] EXCEPT !.pc = "chunk", !.attempts = 0, !.push = NoPush,
                 !.n = up[u].n + 1, !.offset = up[u].offset + Len(up[u].file[up[u].n + 1])]]
      \/ up' = [up EXCEPT ![u] = [up[u] EXCEPT !.pc = "failing", !.push = NoPush]]
      \/ up' = [up EXCEPT ![u] = [up[u] EXCEPT !.attempts = up[u].attempts + 1]]
  BY DEF UploadIndex, AfterFailure
<1> QED
  BY <1>1, <1>2

LEMMA UploadAnswers ==
    ASSUME IInv, AnswersInv, NEW u \in Uploads, UploadStep(u) \/ UploadCrash(u)
    PROVE  AnswersInv'
<1>0. /\ up \in [Uploads -> UploadState] /\ up[u] \in UploadState
      /\ feeds \in [Uploads -> Feed \cup {None}]
      /\ UploaderHonest(u) /\ None \notin Answers /\ None \notin Feed
  BY AnswersSplit, NoneIsNoOutcome DEF IInv, TypeInv, TypeOK
<1>1. UNCHANGED <<audits, ed>>
  BY DEF UploadStep, UploadReject, UploadStart, UploadPersist, UploadIndex, UploadFinish,
         UploadFail, UploadRespond, UploadCrash, db
<1>2. \A e \in Editors : EditorHonest(e)'
  BY <1>1, AnswersSplit DEF EditorHonest
<1>3. \A v \in Uploads \ {u} : up'[v] = up[v] /\ feeds'[v] = feeds[v]
  BY <1>0 DEF UploadStep, UploadReject, UploadStart, UploadPersist, UploadIndex, UploadFinish,
         UploadFail, UploadRespond, UploadCrash, UploadEnd, db
<1>4. ASSUME NEW v \in Uploads \ {u} PROVE UploaderHonest(v)'
  <2>1. UploaderHonest(v)
    BY AnswersSplit
  <2> QED
    BY <1>3, <2>1 DEF UploaderHonest
<1> SUFFICES UploaderHonest(u)'
  BY <1>2, <1>4 DEF AnswersInv, Answered, AnswersHonest, EditorHonest, UploaderHonest
<1>5. ASSUME NEW res, UploadEnd(u, res) PROVE up'[u].pc = "done" /\ up'[u].res = res
  BY <1>0, <1>5 DEF UploadEnd, UploadState
<1>6. CASE UploadReject(u)
  BY <1>0, <1>5, <1>6 DEF UploadReject, UploaderHonest, Answers, db
<1>7. CASE UploadStart(u)
  <2>0. \E p \in {"chunk", "failing"}, f \in Files :
           up'[u] = [up[u] EXCEPT !.pc = p, !.file = f]
    BY <1>0, <1>7 DEF UploadStart
  <2>1. up'[u].pc \in {"chunk", "failing"} /\ up'[u].res = up[u].res
    BY <1>0, <2>0 DEF UploadState
  <2>2. up[u].res = None
    BY <1>0, <1>7 DEF UploadStart, UploaderHonest
  <2> QED
    BY <1>0, <2>1, <2>2 DEF UploaderHonest, Answers
<1>8. CASE UploadPersist(u)
  <2>0. \/ \E x : up'[u] = [up[u] EXCEPT !.pc = "index", !.push = x]
        \/ up'[u] = [up[u] EXCEPT !.pc = "failing"]
    BY <1>0, <1>8 DEF UploadPersist
  <2>1. up'[u].pc \in {"index", "failing"} /\ up'[u].res = up[u].res
    BY <1>0, <2>0 DEF UploadState
  <2>2. up[u].res = None
    BY <1>0, <1>8 DEF UploadPersist, UploaderHonest
  <2> QED
    BY <1>0, <2>1, <2>2 DEF UploaderHonest, Answers
<1>9. CASE UploadIndex(u)
  <2>0. up[u].pc = "index"
    BY <1>9 DEF UploadIndex
  <2>1. up'[u].pc \in {"chunk", "failing", "index"} /\ up'[u].res = up[u].res
    BY <1>0, <1>9, <2>0, IndexMoves DEF UploadState, IInv
  <2>2. up[u].res = None
    BY <1>0, <1>9 DEF UploadIndex, UploaderHonest
  <2> QED
    BY <1>0, <2>1, <2>2 DEF UploaderHonest, Answers
<1>10. CASE UploadFinish(u)
  <2>1. \/ /\ up'[u].pc = "closed" /\ up'[u].res = None
           /\ feeds'[u] = [status |-> "processed", rowCount |-> up[u].offset]
        \/ up'[u].pc = "failing" /\ up'[u].res = None
    BY <1>0, <1>10 DEF UploadFinish, UploaderHonest, UploadState
  <2>2. [status |-> "processed", rowCount |-> up[u].offset] \in Feed
    BY <1>0 DEF Feed, UploadState
  <2> QED
    BY <1>0, <2>1, <2>2 DEF UploaderHonest, Answers
<1>11. CASE UploadFail(u)
  <2>1. [status |-> "failed", rowCount |-> 0] \in Feed
    BY DEF Feed
  <2>2. CASE UploadEnd(u, "400") /\ feeds' = [feeds EXCEPT ![u] = [status |-> "failed", rowCount |-> 0]]
    <3>1. feeds'[u] # None /\ feeds'[u].status = "failed"
      BY <1>0, <2>1, <2>2
    <3> QED
      BY <1>0, <1>5, <2>2, <3>1 DEF UploaderHonest, Answers
  <2>3. CASE UploadEnd(u, "500")
    BY <1>0, <1>5, <2>3 DEF UploaderHonest, Answers
  <2> QED
    BY <1>11, <2>2, <2>3 DEF UploadFail
<1>12. CASE UploadRespond(u)
  BY <1>0, <1>5, <1>12 DEF UploadRespond, UploaderHonest, Answers, db
<1>13. CASE UploadCrash(u)
  BY <1>0, <1>5, <1>13 DEF UploadCrash, UploaderHonest, Answers
<1>14. UploaderHonest(u)'
  BY <1>6, <1>7, <1>8, <1>9, <1>10, <1>11, <1>12, <1>13 DEF UploadStep
<1>15. \A v \in Uploads : UploaderHonest(v)'
  BY <1>4, <1>14
<1> QED
  BY <1>2, <1>15 DEF AnswersInv, Answered, AnswersHonest, EditorHonest, UploaderHonest

LEMMA NextAnswers == IInv /\ AnswersInv /\ [Next]_vars => AnswersInv'
<1> SUFFICES ASSUME IInv, AnswersInv, [Next]_vars PROVE AnswersInv'
  OBVIOUS
<1>1. CASE UNCHANGED vars
  <2>1. UNCHANGED <<audits, feeds, ed, up>>
    BY <1>1 DEF vars
  <2> QED
    BY <2>1 DEF AnswersInv, Answered, AnswersHonest
<1> QED
  BY <1>1, EditAnswers, UploadAnswers DEF Next

(* Whatever fails and whoever interferes, an answer is true: an edit told  *)
(* 200 is in the trail and one told 404 or 409 is not, an upload told 200  *)
(* has a processed feed, one told 400 a failed one, one refused none.      *)
THEOREM AnswersAreHonest == Spec => []AnswersHonest
<1>1. AnswersInv => AnswersHonest
  BY DEF AnswersInv
<1> QED
  BY InitIInv, NextIInv, InitAnswers, NextAnswers, <1>1, PTL DEF Spec

-----------------------------------------------------------------------------
(* Provenance                                                              *)

(* Where the values of the record with id i may come from untouched.       *)
Sources(i) == IF rows[i].feed = None THEN {Seed[i]} ELSE LinesOf(up[rows[i].feed].file)

WholeFromSource(i) ==
    \E o \in Sources(i) : o # None /\ o.key = rows[i].key /\ Stored[o.price] = rows[i].price
KeyExplained(i) ==
    \/ \E a \in audits : a.id = i /\ a.new.key = rows[i].key
    \/ \E o \in Sources(i) : o # None /\ o.key = rows[i].key
PriceExplained(i) ==
    \/ \E a \in audits : a.id = i /\ Stored[a.new.price] = rows[i].price
    \/ \E o \in Sources(i) : o # None /\ Stored[o.price] = rows[i].price
Explained(i) ==
    \/ WholeFromSource(i)
    \/ rows[i].src = "manual" /\ KeyExplained(i) /\ PriceExplained(i)

(* A feed that left a record behind has a file, which it keeps.            *)
Originated == \A i \in Live : rows[i].feed # None => up[rows[i].feed].pc # "idle"

TraceInv == Originated /\ ValuesTraceable

LEMMA TraceSplit == ValuesTraceable <=> \A i \in Live : Explained(i)
  BY DEF ValuesTraceable, Explained, WholeFromSource, KeyExplained, PriceExplained, Sources

LEMMA InitTrace == Init => TraceInv
<1> SUFFICES ASSUME Init PROVE TraceInv
  OBVIOUS
<1>1. ASSUME NEW i \in Live
      PROVE  /\ Seed[i] # None /\ rows[i].key = Seed[i].key /\ rows[i].price = Seed[i].price
             /\ rows[i].feed = None /\ Stored[Seed[i].price] = Seed[i].price
  <2>1. /\ Seed[i] # None /\ rows[i].key = Seed[i].key /\ rows[i].price = Seed[i].price
        /\ rows[i].feed = None
    BY DEF Init, Live
  <2>2. Seed[i] \in Val
    BY <2>1, SeedIsUnique DEF Live
  <2> QED
    BY <2>1, <2>2, RoundingIsIdempotent DEF Val
<1>2. \A i \in Live : Explained(i)
  BY <1>1 DEF Explained, WholeFromSource, Sources
<1> QED
  BY <1>1, <1>2, TraceSplit DEF TraceInv, Originated

(* An upload that has begun keeps its file to its end.                     *)
FilesKept ==
    \A v \in Uploads : up[v].pc # "idle" => up'[v].pc # "idle" /\ up'[v].file = up[v].file

LEMMA StepKeepsFiles == TypeInv /\ [Next]_vars => FilesKept
<1> SUFFICES ASSUME TypeInv, [Next]_vars, NEW v \in Uploads, up[v].pc # "idle"
             PROVE  up'[v].pc # "idle" /\ up'[v].file = up[v].file
  BY DEF FilesKept
<1>0. up \in [Uploads -> UploadState] /\ up[v] \in UploadState
  BY DEF TypeInv, TypeOK
<1>1. CASE up' = up
  BY <1>1
<1>2. ASSUME NEW u \in Uploads \ {v}, NEW x, up' = [up EXCEPT ![u] = x]
      PROVE  up'[v] = up[v]
  BY <1>0, <1>2
<1>3. ASSUME NEW u \in Uploads, UploadStep(u) \/ UploadCrash(u) PROVE \E x : up' = [up EXCEPT ![u] = x]
  BY <1>3 DEF UploadStep, UploadReject, UploadStart, UploadPersist, UploadIndex, UploadFinish,
     UploadFail, UploadRespond, UploadCrash, UploadEnd
<1>4. ASSUME NEW res, UploadEnd(v, res) PROVE up'[v].pc # "idle" /\ up'[v].file = up[v].file
  BY <1>0, <1>4 DEF UploadEnd, UploadState
<1>5. CASE UploadPersist(v)
  <2>1. \/ \E x : up'[v] = [up[v] EXCEPT !.pc = "index", !.push = x]
        \/ up'[v] = [up[v] EXCEPT !.pc = "failing"]
    BY <1>0, <1>5 DEF UploadPersist
  <2> QED
    BY <1>0, <2>1 DEF UploadState
<1>6. CASE UploadIndex(v)
  BY <1>0, <1>6, IndexMoves DEF UploadState
<1>7. CASE UploadFinish(v)
  BY <1>0, <1>7 DEF UploadFinish, UploadState
<1>8. CASE UploadStep(v) \/ UploadCrash(v)
  BY <1>0, <1>4, <1>5, <1>6, <1>7, <1>8
     DEF UploadStep, UploadReject, UploadStart, UploadFail, UploadRespond, UploadCrash
<1>9. CASE UNCHANGED vars \/ \E e \in Editors : EditStep(e) \/ EditCrash(e)
  <2>1. up' = up
    BY <1>9 DEF vars, EditStep, EditRead, EditWrite, EditIndex, EditRespond, EditCrash
  <2> QED
    BY <1>1, <2>1
<1> QED
  BY <1>2, <1>3, <1>8, <1>9 DEF Next

(* A record that is not written keeps its explanation.                     *)
LEMMA KeptExplained ==
    ASSUME TypeInv, TraceInv, FilesKept, NEW i \in Live,
           rows'[i] = rows[i], audits \subseteq audits'
    PROVE  Explained(i)' /\ (rows[i].feed # None => up'[rows[i].feed].pc # "idle")
<1>1. rows[i].feed \in Uploads \cup {None}
  BY DEF TypeInv, TypeOK, Live, Row
<1>2. Sources(i)' = Sources(i) /\ (rows[i].feed # None => up'[rows[i].feed].pc # "idle")
  BY <1>1 DEF Sources, FilesKept, TraceInv, Originated
<1>3. Explained(i)
  BY TraceSplit DEF TraceInv
<1>4. (rows[i])' = rows[i]
  OBVIOUS
<1> QED
  BY <1>2, <1>3, <1>4 DEF Explained, WholeFromSource, KeyExplained, PriceExplained

(* Those records that are written must be explained anew.                  *)
LEMMA WrittenExplained ==
    ASSUME TypeInv, TraceInv, FilesKept, audits \subseteq audits',
           NEW W \in SUBSET Ids,
           \A i \in Live' : i \in W \/ (i \in Live /\ rows'[i] = rows[i]),
           \A i \in Live' : i \in W =>
               /\ Explained(i)'
               /\ rows'[i].feed # None => up'[rows'[i].feed].pc # "idle"
    PROVE  TraceInv'
<1>1. \A i \in Live' : Explained(i)'
  BY KeptExplained
<1>2. Originated'
  BY KeptExplained DEF Originated
<1>3. ValuesTraceable'
  BY <1>1 DEF ValuesTraceable, Explained, WholeFromSource, KeyExplained, PriceExplained, Sources
<1> QED
  BY <1>2, <1>3 DEF TraceInv

LEMMA UnwrittenExplained ==
    ASSUME TypeInv, TraceInv, FilesKept, audits \subseteq audits',
           \A i \in Live' : i \in Live /\ rows'[i] = rows[i]
    PROVE  TraceInv'
<1>1. {} \in SUBSET Ids
  OBVIOUS
<1>2. \A i \in Live' : i \in {} \/ (i \in Live /\ rows'[i] = rows[i])
  OBVIOUS
<1> QED
  BY <1>1, <1>2, WrittenExplained

(* An edit replaces fields its entry shows, and inherits the others; what  *)
(* the column rounded before it does not round again.                      *)
LEMMA EditTrace ==
    ASSUME IInv, TraceInv, FilesKept, NEW e \in Editors, EditWrite(e) PROVE TraceInv'
<1> PICK i \in Live, c \in Change : i = ed[e].id /\ c = ed[e].change
  BY EditWriteValues DEF IInv
<1>0. TypeInv /\ rows \in [Ids -> Row \cup {None}] /\ up' = up /\ rows[i] \in Row /\ i \in Ids
  BY EditWriteValues DEF EditWrite, IInv, TypeInv, TypeOK, Live
<1>1. CASE UNCHANGED <<rows, audits>>
  <2>1. \A j \in Live' : j \in Live /\ rows'[j] = rows[j]
    BY <1>1 DEF Live
  <2> QED
    BY <1>0, <1>1, <2>1, UnwrittenExplained
<1>2. CASE /\ rows' = [rows EXCEPT ![i] = Edited(e, rows[i])]
           /\ audits' = audits \cup {AuditOf(e)}
  <2>1. /\ \A j \in Live' : j \in {i} \/ (j \in Live /\ rows'[j] = rows[j])
        /\ rows'[i] = Edited(e, rows[i])
    BY <1>0, <1>2 DEF Live
  <2>2. /\ rows'[i].key = IF c.key = None THEN rows[i].key ELSE c.key
        /\ rows'[i].price = IF c.price = None THEN rows[i].price ELSE Stored[c.price]
        /\ rows'[i].src = "manual" /\ rows'[i].feed = rows[i].feed
    <3>1. Stored[rows[i].price] = rows[i].price
      BY <1>0, RoundingIsIdempotent DEF Row
    <3> QED
      BY <2>1, <3>1 DEF Edited, Overlay, ValueOf
  <2>3. /\ AuditOf(e) \in audits' /\ AuditOf(e).id = i
        /\ c.key # None => AuditOf(e).new.key = c.key
        /\ c.price # None => AuditOf(e).new.price = c.price
    BY <1>2 DEF AuditOf, Overlay
  <2>4. rows[i].feed \in Uploads \cup {None}
    BY <1>0, <1>2 DEF Live, Row
  <2>5. Sources(i)' = Sources(i)
    BY <1>0, <2>2, <2>4 DEF Sources
  <2>6. KeyExplained(i) /\ PriceExplained(i)
    <3>1. Explained(i)
      BY <1>2, TraceSplit DEF TraceInv
    <3> QED
      BY <3>1 DEF Explained, WholeFromSource, KeyExplained, PriceExplained
  <2>7. KeyExplained(i)'
    BY <1>2, <2>2, <2>3, <2>5, <2>6 DEF KeyExplained
  <2>8. PriceExplained(i)'
    BY <1>2, <2>2, <2>3, <2>5, <2>6 DEF PriceExplained
  <2>9. Explained(i)'
    BY <2>2, <2>7, <2>8 DEF Explained
  <2>10. rows'[i].feed # None => up'[rows'[i].feed].pc # "idle"
    BY <1>0, <1>2, <2>2, <2>4 DEF TraceInv, Originated
  <2>11. {i} \in SUBSET Ids /\ audits \subseteq audits'
    BY <1>0, <1>2
  <2> QED
    BY <1>0, <2>1, <2>9, <2>10, <2>11, WrittenExplained
<1> QED
  BY <1>1, <1>2 DEF EditWrite

(* A chunk leaves lines of its own file behind.                            *)
LEMMA PersistTrace ==
    ASSUME IInv, TraceInv, FilesKept, NEW u \in Uploads, UploadPersist(u) PROVE TraceInv'
<1> DEFINE chunk == up[u].file[up[u].n + 1]
<1>0. /\ TypeInv /\ up[u] \in UploadState /\ up[u].pc = "chunk" /\ up[u].n < Len(up[u].file)
      /\ audits' = audits
  BY DEF UploadPersist, IInv, TypeInv, TypeOK
<1>1. chunk \in Seq(Line)
  BY <1>0, ChunkType
<1>2. CASE UNCHANGED rows
  <2>1. \A j \in Live' : j \in Live /\ rows'[j] = rows[j]
    BY <1>2 DEF Live
  <2> QED
    BY <1>0, <2>1, UnwrittenExplained
<1>3. CASE /\ Acceptable(chunk)
           /\ \E at \in Placements(chunk) : rows' = UpsertedRows(u, chunk, at)
  <2>1. PICK at \in Placements(chunk) : rows' = UpsertedRows(u, chunk, at)
    BY <1>3
  <2> DEFINE W == {i \in Ids : LineAt(chunk, at, i) # {}}
  <2>2. ASSUME NEW j \in Live' PROVE j \in W \/ (j \in Live /\ rows'[j] = rows[j])
    <3>1. j \in Ids /\ rows'[j] # None
      BY DEF Live
    <3>2. LineAt(chunk, at, j) = {} => rows'[j] = rows[j]
      BY <2>1, <3>1 DEF UpsertedRows
    <3> QED
      BY <3>1, <3>2 DEF Live
  <2>3. ASSUME NEW i \in W
        PROVE  Explained(i)' /\ (rows'[i].feed # None => up'[rows'[i].feed].pc # "idle")
    <3>1. PICK l \in DOMAIN chunk :
             /\ at[chunk[l].key] = i
             /\ chunk[l].key \in Keys /\ Stored[chunk[l].price] \in Prices
             /\ rows'[i] = Ingested(u, chunk[l])
      <4>1. i \in Ids /\ LineAt(chunk, at, i) # {}
        OBVIOUS
      <4>2. rows'[i] = UpsertedRows(u, chunk, at)[i]
        BY <2>1
      <4> HIDE DEF chunk, W
      <4> QED
        BY <1>1, <1>3, <4>1, <4>2, UpsertedRow
    <3>2. up'[u].pc # "idle" /\ up'[u].file = up[u].file
      BY <1>0 DEF FilesKept
    <3>0. /\ rows'[i].key = chunk[l].key /\ rows'[i].price = Stored[chunk[l].price]
          /\ rows'[i].src = "ingest" /\ rows'[i].feed = u
      BY <3>1 DEF Ingested
    <3>3. u # None /\ Sources(i)' = LinesOf(up[u].file)
      BY <3>0, <3>2, NoneIsFresh DEF Sources
    <3>4. chunk[l] \in LinesOf(up[u].file)
      <4>1. up[u].n + 1 \in DOMAIN up[u].file
        <5>1. up[u].n \in Nat /\ up[u].file \in Files \cup {<< >>}
          BY <1>0 DEF UploadState
        <5>2. up[u].file \in Seq(Seq(Line))
          BY <1>0, <5>1, ConstantTypes
        <5> QED
          BY <1>0, <5>1, <5>2
      <4>2. chunk[l] \in {up[u].file[up[u].n + 1][m] : m \in DOMAIN up[u].file[up[u].n + 1]}
        OBVIOUS
      <4> QED
        BY <4>1, <4>2 DEF LinesOf
    <3>5. chunk[l] # None
      <4> HIDE DEF chunk
      <4>1. chunk[l] \in Line
        BY <1>1
      <4> QED
        BY <4>1, NoneIsFresh
    <3>6. WholeFromSource(i)'
      BY <3>0, <3>3, <3>4, <3>5 DEF WholeFromSource
    <3> QED
      BY <3>0, <3>2, <3>6 DEF Explained
  <2> QED
    BY <1>0, <2>2, <2>3, WrittenExplained
<1> QED
  BY <1>2, <1>3 DEF UploadPersist

LEMMA NextTrace == IInv /\ TraceInv /\ [Next]_vars => TraceInv'
<1> SUFFICES ASSUME IInv, TraceInv, [Next]_vars PROVE TraceInv'
  OBVIOUS
<1>1. TypeInv /\ FilesKept
  BY StepKeepsFiles DEF IInv
<1>2. ASSUME audits' = audits, \A i \in Live' : i \in Live /\ rows'[i] = rows[i] PROVE TraceInv'
  BY <1>1, <1>2, UnwrittenExplained
<1>3. CASE UNCHANGED <<rows, audits>>
  BY <1>2, <1>3 DEF Live
<1>5. ASSUME NEW e \in Editors, EditStep(e) \/ EditCrash(e) PROVE TraceInv'
  BY <1>1, <1>3, <1>5, EditTrace DEF EditStep, EditRead, EditIndex, EditRespond, EditCrash, db
<1>6. ASSUME NEW u \in Uploads, UploadStep(u) \/ UploadCrash(u) PROVE TraceInv'
  BY <1>1, <1>3, <1>6, PersistTrace
     DEF UploadStep, UploadReject, UploadStart, UploadIndex, UploadFinish, UploadFail,
         UploadRespond, UploadCrash, db
<1> QED
  BY <1>3, <1>5, <1>6 DEF Next, vars

(* Every value of every record can be accounted for, whatever edits and    *)
(* uploads did to it in whatever order: a feed's line, a seeded record, or *)
(* field by field an audited correction, each price as the column rounds   *)
(* what the line or the correction says.                                   *)
THEOREM EveryValueIsTraceable == Spec => []ValuesTraceable
<1>1. TraceInv => ValuesTraceable
  BY DEF TraceInv
<1> QED
  BY InitIInv, NextIInv, InitTrace, NextTrace, <1>1, PTL DEF Spec

-----------------------------------------------------------------------------
(* The accounts of a feed                                                  *)

(* The places of the lines in the first m chunks of a file.                *)
LinesRead(file, m) == UNION {{c} \X DOMAIN file[c] : c \in 1 .. m}

(* Where an upload stands: offset counts the lines of the chunks that are  *)
(* through, and the status of its feed goes with what it is doing.         *)
Accounted(u) ==
    /\ up[u].n <= Len(up[u].file)
    /\ IsFiniteSet(LinesRead(up[u].file, up[u].n))
    /\ up[u].offset = Cardinality(LinesRead(up[u].file, up[u].n))
    /\ up[u].pc = "idle" => feeds[u] = None /\ up[u].n = 0 /\ up[u].offset = 0
    /\ up[u].pc \in {"chunk", "index"} => feeds[u] # None /\ feeds[u].status = "received"
    /\ feeds[u] # None =>
          /\ feeds[u].status = "processed" =>
                /\ up[u].pc \in {"closed", "done"} /\ up[u].n = Len(up[u].file)
                /\ feeds[u].rowCount = up[u].offset
          /\ feeds[u].status = "failed" => feeds[u].rowCount = 0 /\ up[u].pc = "done"
          /\ feeds[u].status = "received" /\ up[u].pc = "done" => up[u].res \in {"500", None}

LEMMA CountNone == \A file : LinesRead(file, 0) = {}
  BY DEF LinesRead

(* One chunk more is as many places more as it has lines.                  *)
LEMMA CountChunk ==
    ASSUME NEW file \in Seq(Seq(Line)), NEW m \in Nat, m < Len(file),
           IsFiniteSet(LinesRead(file, m))
    PROVE  /\ IsFiniteSet(LinesRead(file, m + 1))
           /\ Cardinality(LinesRead(file, m + 1)) =
                 Cardinality(LinesRead(file, m)) + Len(file[m + 1])
<1> DEFINE k     == Len(file[m + 1])
           chunk == {m + 1} \X (1 .. k)
           f     == [l \in 1 .. k |-> <<m + 1, l>>]
<1>1. file[m + 1] \in Seq(Line) /\ k \in Nat /\ DOMAIN file[m + 1] = 1 .. k
  BY LenProperties
<1>2. LinesRead(file, m + 1) = LinesRead(file, m) \cup chunk
  <2>1. 1 .. m + 1 = (1 .. m) \cup {m + 1}
    OBVIOUS
  <2> QED
    BY <1>1, <2>1 DEF LinesRead
<1>3. LinesRead(file, m) \cap chunk = {}
  <2>1. \A p \in LinesRead(file, m) : p[1] \in 1 .. m
    BY DEF LinesRead
  <2>2. \A p \in chunk : p[1] = m + 1
    OBVIOUS
  <2> QED
    BY <2>1, <2>2
<1>4. IsFiniteSet(1 .. k) /\ Cardinality(1 .. k) = k
  <2> HIDE DEF k
  <2> QED
    BY <1>1, FS_Interval
<1>5. ExistsBijection(1 .. k, chunk)
  <2>1. f \in [1 .. k -> chunk]
    OBVIOUS
  <2>2. \A a, b \in 1 .. k : f[a] = f[b] => a = b
    OBVIOUS
  <2>3. \A p \in chunk : \E a \in 1 .. k : f[a] = p
    OBVIOUS
  <2> HIDE DEF f, chunk, k
  <2>4. f \in Bijection(1 .. k, chunk)
    BY <2>1, <2>2, <2>3 DEF Bijection, Injection, Surjection, IsInjective
  <2> QED
    BY <2>4 DEF ExistsBijection
<1>6. IsFiniteSet(chunk) /\ Cardinality(chunk) = k
  <2> HIDE DEF chunk, k
  <2> QED
    BY <1>4, <1>5, FS_Bijection
<1>7. Cardinality(LinesRead(file, m) \cap chunk) = 0
  BY <1>3, FS_EmptySet
<1>8. Cardinality(LinesRead(file, m)) \in Nat
  BY FS_CardinalityType
<1> HIDE DEF chunk, k
<1>9. /\ IsFiniteSet(LinesRead(file, m) \cup chunk)
      /\ Cardinality(LinesRead(file, m) \cup chunk) =
           Cardinality(LinesRead(file, m)) + Cardinality(chunk)
             - Cardinality(LinesRead(file, m) \cap chunk)
  BY <1>6, FS_Union
<1>10. k \in Nat
  BY <1>1
<1>11. Cardinality(LinesRead(file, m + 1)) = Cardinality(LinesRead(file, m)) + k
  <2>1. \A a \in Nat : a + k - 0 = a + k
    BY <1>10
  <2>2. Cardinality(LinesRead(file, m + 1)) = Cardinality(LinesRead(file, m)) + k - 0
    BY <1>2, <1>6, <1>7, <1>9, Zenon
  <2> QED
    BY <1>8, <2>1, <2>2, Zenon
<1> QED
  BY <1>2, <1>9, <1>11 DEF k

LEMMA FileType == TypeInv => \A u \in Uploads : up[u].file \in Seq(Seq(Line))
<1> SUFFICES ASSUME TypeInv, NEW u \in Uploads PROVE up[u].file \in Seq(Seq(Line))
  OBVIOUS
<1>1. up[u].file \in Files \cup {<< >>}
  BY DEF TypeInv, TypeOK, UploadState
<1>2. << >> \in Seq(Seq(Line))
  OBVIOUS
<1> QED
  BY <1>1, <1>2, ConstantTypes

(* Nothing of an upload's accounts depends on anybody else.                *)
LEMMA SameAccounts ==
    ASSUME NEW u \in Uploads, Accounted(u), up'[u] = up[u], feeds'[u] = feeds[u]
    PROVE  Accounted(u)'
  BY DEF Accounted

(* The steps that count no chunk.                                          *)
LEMMA KeptAccounts ==
    ASSUME NEW u \in Uploads, Accounted(u), up[u].pc # "idle",
           up'[u].n = up[u].n, up'[u].offset = up[u].offset, up'[u].file = up[u].file,
           up'[u].pc # "idle", feeds'[u] = feeds[u],
           up'[u].pc \in {"chunk", "index"} => up[u].pc \in {"chunk", "index"},
           feeds[u] # None =>
             /\ feeds[u].status = "processed" => up'[u].pc \in {"closed", "done"}
             /\ feeds[u].status = "failed" => up'[u].pc = "done"
             /\ feeds[u].status = "received" /\ up'[u].pc = "done" => up'[u].res \in {"500", None}
    PROVE  Accounted(u)'
  BY DEF Accounted

LEMMA UploadEndMoves ==
    ASSUME TypeInv, NEW u \in Uploads, NEW res, UploadEnd(u, res)
    PROVE  /\ up'[u].pc = "done" /\ up'[u].res = res
           /\ up'[u].n = up[u].n /\ up'[u].offset = up[u].offset /\ up'[u].file = up[u].file
<1>1. up \in [Uploads -> UploadState]
  BY DEF TypeInv, TypeOK
<1>2. up'[u] = [up[u] EXCEPT !.pc = "done", !.push = NoPush, !.attempts = 0, !.res = res]
  BY <1>1 DEF UploadEnd
<1> QED
  BY <1>1, <1>2 DEF UploadState

LEMMA UploadAccounts ==
    ASSUME TypeInv, NEW u \in Uploads, UploaderHonest(u), Accounted(u),
           UploadStep(u) \/ UploadCrash(u)
    PROVE  Accounted(u)'
<1>0. /\ up \in [Uploads -> UploadState] /\ up[u] \in UploadState
      /\ feeds \in [Uploads -> Feed \cup {None}] /\ None \notin Feed
      /\ up[u].file \in Seq(Seq(Line)) /\ up[u].n \in Nat /\ up[u].offset \in Nat
  BY FileType, NoneIsNoOutcome DEF TypeInv, TypeOK, UploadState
<1>1. CASE UploadReject(u)
  <2>1. up[u].pc = "idle" /\ UploadEnd(u, "4xx") /\ feeds' = feeds
    BY <1>1 DEF UploadReject, db
  <2> QED
    BY <2>1, UploadEndMoves DEF Accounted
<1>2. CASE UploadStart(u)
  <2>1. PICK f \in Files :
           \/ /\ feeds' = [feeds EXCEPT ![u] = [status |-> "received", rowCount |-> 0]]
              /\ up' = [up EXCEPT ![u] = [up[u] EXCEPT !.pc = "chunk", !.file = f]]
           \/ /\ up' = [up EXCEPT ![u] = [up[u] EXCEPT !.pc = "failing", !.file = f]]
              /\ UNCHANGED feeds
    BY <1>2 DEF UploadStart
  <2>2. up[u].pc = "idle" /\ feeds[u] = None /\ up[u].n = 0 /\ up[u].offset = 0
    BY <1>2 DEF UploadStart, Accounted
  <2>3. /\ up'[u].n = 0 /\ up'[u].offset = 0 /\ up'[u].file = f
        /\ \/ up'[u].pc = "chunk" /\ feeds'[u] = [status |-> "received", rowCount |-> 0]
           \/ up'[u].pc = "failing" /\ feeds'[u] = None
    <3>1. \/ /\ up'[u] = [up[u] EXCEPT !.pc = "chunk", !.file = f]
             /\ feeds'[u] = [status |-> "received", rowCount |-> 0]
          \/ up'[u] = [up[u] EXCEPT !.pc = "failing", !.file = f] /\ feeds'[u] = None
      BY <1>0, <2>1, <2>2
    <3> QED
      BY <1>0, <2>2, <3>1 DEF UploadState
  <2>4. [status |-> "received", rowCount |-> 0] \in Feed
    BY DEF Feed
  <2>5. 0 <= Len(f)
    BY ConstantTypes, LenProperties
  <2>6. IsFiniteSet(LinesRead(f, 0)) /\ Cardinality(LinesRead(f, 0)) = 0
    BY CountNone, FS_EmptySet
  <2> QED
    BY <1>0, <2>3, <2>4, <2>5, <2>6 DEF Accounted
<1>3. CASE UploadPersist(u)
  <2>1. \/ \E x : up'[u] = [up[u] EXCEPT !.pc = "index", !.push = x]
        \/ up'[u] = [up[u] EXCEPT !.pc = "failing"]
    BY <1>0, <1>3 DEF UploadPersist
  <2>2. /\ up'[u].n = up[u].n /\ up'[u].offset = up[u].offset /\ up'[u].file = up[u].file
        /\ up'[u].pc \in {"index", "failing"}
    BY <1>0, <2>1 DEF UploadState
  <2>3. feeds' = feeds /\ up[u].pc = "chunk"
    BY <1>3 DEF UploadPersist
  <2>4. feeds[u] # None /\ feeds[u].status = "received"
    BY <2>3 DEF Accounted
  <2> QED
    BY <2>2, <2>3, <2>4, KeptAccounts
<1>4. CASE UploadIndex(u)
  <2>1. feeds' = feeds /\ up[u].pc = "index" /\ up[u].n < Len(up[u].file)
    BY <1>4 DEF UploadIndex, db, TypeInv, Shape
  <2>2. feeds[u] # None /\ feeds[u].status = "received"
    BY <2>1 DEF Accounted
  <2>3. CASE up'[u] = [up[u] EXCEPT !.pc = "chunk", !.attempts = 0, !.push = NoPush,
                          !.n = up[u].n + 1,
                          !.offset = up[u].offset + Len(up[u].file[up[u].n + 1])]
    <3>1. /\ up'[u].pc = "chunk" /\ up'[u].file = up[u].file /\ up'[u].n = up[u].n + 1
          /\ up'[u].offset = up[u].offset + Len(up[u].file[up[u].n + 1])
      BY <1>0, <2>3 DEF UploadState
    <3>2. /\ IsFiniteSet(LinesRead(up[u].file, up[u].n + 1))
          /\ Cardinality(LinesRead(up[u].file, up[u].n + 1)) =
                Cardinality(LinesRead(up[u].file, up[u].n)) + Len(up[u].file[up[u].n + 1])
      BY <1>0, <2>1, CountChunk DEF Accounted
    <3>3. up[u].offset = Cardinality(LinesRead(up[u].file, up[u].n))
      BY DEF Accounted
    <3>4. up'[u].n <= Len(up'[u].file)
      BY <1>0, <2>1, <3>1, LenProperties
    <3> QED
      BY <2>1, <2>2, <3>1, <3>2, <3>3, <3>4 DEF Accounted
  <2>4. CASE \/ up'[u] = [up[u] EXCEPT !.pc = "failing", !.push = NoPush]
             \/ up'[u] = [up[u] EXCEPT !.attempts = up[u].attempts + 1]
    <3>1. /\ up'[u].n = up[u].n /\ up'[u].offset = up[u].offset /\ up'[u].file = up[u].file
          /\ up'[u].pc \in {"index", "failing"}
      BY <1>0, <2>1, <2>4 DEF UploadState
    <3> QED
      BY <2>1, <2>2, <3>1, KeptAccounts
  <2> QED
    BY <1>4, <2>3, <2>4, IndexMoves
<1>5. CASE UploadFinish(u)
  <2>1. up[u].pc = "chunk" /\ up[u].n = Len(up[u].file) /\ feeds[u] # None /\ feeds[u].status = "received"
    BY <1>5 DEF UploadFinish, Accounted
  <2>2. CASE /\ feeds' = [feeds EXCEPT ![u] = [status |-> "processed", rowCount |-> up[u].offset]]
             /\ up' = [up EXCEPT ![u].pc = "closed"]
    <3>1. /\ up'[u].n = up[u].n /\ up'[u].offset = up[u].offset /\ up'[u].file = up[u].file
          /\ up'[u].pc = "closed"
      BY <1>0, <2>2 DEF UploadState
    <3>2. feeds'[u].status = "processed" /\ feeds'[u].rowCount = up[u].offset
      BY <1>0, <2>2
    <3> QED
      BY <2>1, <3>1, <3>2 DEF Accounted
  <2>3. CASE up' = [up EXCEPT ![u].pc = "failing"] /\ UNCHANGED feeds
    <3>1. /\ up'[u].n = up[u].n /\ up'[u].offset = up[u].offset /\ up'[u].file = up[u].file
          /\ up'[u].pc = "failing"
      BY <1>0, <2>3 DEF UploadState
    <3> QED
      BY <2>1, <2>3, <3>1, KeptAccounts
  <2> QED
    BY <1>5, <2>2, <2>3 DEF UploadFinish
<1>6. CASE UploadFail(u)
  <2>1. up[u].pc = "failing"
    BY <1>6 DEF UploadFail
  <2>2. CASE /\ feeds' = [feeds EXCEPT ![u] = [status |-> "failed", rowCount |-> 0]]
             /\ UploadEnd(u, "400")
    <3>1. feeds'[u].status = "failed" /\ feeds'[u].rowCount = 0
      BY <1>0, <2>2
    <3> QED
      BY <2>2, <3>1, UploadEndMoves DEF Accounted
  <2>3. CASE UNCHANGED feeds /\ UploadEnd(u, "500")
    <3>1. feeds[u] # None => feeds[u].status \notin {"processed", "failed"}
      BY <2>1 DEF Accounted
    <3> QED
      BY <2>1, <2>3, <3>1, UploadEndMoves, KeptAccounts
  <2> QED
    BY <1>6, <2>2, <2>3 DEF UploadFail
<1>7. CASE UploadRespond(u) \/ UploadCrash(u)
  <2>1. PICK res \in {"200", None} : UploadEnd(u, res) /\ (res = "200" => up[u].pc = "closed")
    BY <1>7, NoneIsNoOutcome DEF UploadRespond, UploadCrash, Answers
  <2>2. up[u].pc # "idle" /\ feeds' = feeds
    BY <1>7 DEF UploadRespond, UploadCrash, db
  <2>3. up[u].pc = "closed" => feeds[u].status = "processed"
    BY DEF UploaderHonest
  <2> QED
    BY <2>1, <2>2, <2>3, UploadEndMoves, KeptAccounts
<1> QED
  BY <1>1, <1>2, <1>3, <1>4, <1>5, <1>6, <1>7 DEF UploadStep

-----------------------------------------------------------------------------
(* What a feed delivered                                                   *)

(* The chunks whose transaction has committed.                             *)
Persisted(u) == IF up[u].pc = "index" THEN up[u].n + 1 ELSE up[u].n

Delivered(u, line) == Arrived(u, line) \/ <<u, line.key>> \in overtaken

Delivers(u) ==
    \A c \in 1 .. Persisted(u) : \A l \in DOMAIN up[u].file[c] :
        Decisive(up[u].file, c, l) => Delivered(u, up[u].file[c][l])

(* What a feed has lost it does not hold.                                  *)
OvertakenIsLost ==
    /\ overtaken \subseteq Uploads \X Keys
    /\ \A u \in Uploads, k \in Keys : <<u, k>> \in overtaken => Holder(u, k) = {}

FeedInv == OvertakenIsLost /\ \A u \in Uploads : Accounted(u) /\ Delivers(u)

LEMMA InitFeeds == LInit => FeedInv
<1> SUFFICES ASSUME LInit, NEW u \in Uploads
             PROVE  OvertakenIsLost /\ Accounted(u) /\ Delivers(u)
  BY DEF FeedInv, LInit, OvertakenIsLost
<1>1. /\ up[u].pc = "idle" /\ up[u].n = 0 /\ up[u].offset = 0 /\ up[u].file = << >>
      /\ feeds[u] = None /\ overtaken = {}
  BY DEF LInit, Init, UploadIdle
<1>2. IsFiniteSet(LinesRead(<< >>, 0)) /\ Cardinality(LinesRead(<< >>, 0)) = 0
  BY CountNone, FS_EmptySet
<1>3. Accounted(u)
  BY <1>1, <1>2 DEF Accounted
<1>4. Delivers(u)
  BY <1>1 DEF Delivers, Persisted
<1> QED
  BY <1>1, <1>3, <1>4 DEF OvertakenIsLost

LEMMA WatchLost == Watch => OvertakenIsLost'
  BY DEF Watch, OvertakenIsLost

(* A key's line stays delivered when the key is lost to nothing but another *)
(* feed or a move, and when whoever comes to hold it was moved there.      *)
LEMMA HolderKeeps ==
    ASSUME UniqueBusinessKey, OvertakenIsLost, Watch,
           NEW u \in Uploads, NEW line \in Line, Delivered(u, line),
           Holder(u, line.key) # {} /\ Holder(u, line.key)' = {} => Overtakes(u, line.key),
           \A j \in Holder(u, line.key)' :
              (j \in Live /\ rows'[j] = rows[j]) \/ rows'[j].src = "manual"
    PROVE  Delivered(u, line)'
<1> DEFINE k == line.key
<1>0. k \in Keys
  BY DEF Line
<1>1. ASSUME NEW j \in Holder(u, k)', rows'[j].src = "manual" PROVE Arrived(u, line)'
  BY <1>1 DEF Arrived
<1>2. ASSUME NEW j \in Holder(u, k)', j \in Live, rows'[j] = rows[j] PROVE Arrived(u, line)'
  <2>1. j \in Holder(u, k)
    BY <1>2 DEF Holder
  <2>2. <<u, k>> \notin overtaken
    BY <1>0, <2>1 DEF OvertakenIsLost
  <2>3. PICK i \in Holder(u, k) : rows[i].src = "ingest" => rows[i].price = Stored[line.price]
    BY <2>2 DEF Delivered, Arrived
  <2>4. i = j
    BY <2>1, <2>3 DEF Holder, UniqueBusinessKey
  <2> QED
    BY <1>2, <2>3, <2>4 DEF Arrived
<1>3. CASE Holder(u, k)' # {}
  BY <1>1, <1>2, <1>3 DEF Delivered
<1>4. CASE Holder(u, k)' = {}
  <2>1. <<u, k>> \in overtaken \/ Overtakes(u, k)
    BY <1>4 DEF Delivered, Arrived
  <2>2. <<u, k>> \in overtaken'
    BY <1>0, <1>4, <2>1 DEF Watch
  <2> QED
    BY <2>2 DEF Delivered
<1> QED
  BY <1>3, <1>4

(* The lines an upload has read are lines.                                 *)
LEMMA ReadLines ==
    ASSUME TypeInv, NEW u \in Uploads, Accounted(u),
           NEW c \in 1 .. Persisted(u), NEW l \in DOMAIN up[u].file[c]
    PROVE  c \in DOMAIN up[u].file /\ up[u].file[c][l] \in Line
<1>1. /\ up[u].file \in Seq(Seq(Line)) /\ up[u].n \in Nat /\ Len(up[u].file) \in Nat
      /\ DOMAIN up[u].file = 1 .. Len(up[u].file)
  BY FileType, LenProperties DEF TypeInv, TypeOK, UploadState
<1>2. Persisted(u) <= Len(up[u].file) /\ Persisted(u) \in Nat
  BY <1>1 DEF Persisted, Accounted, TypeInv, Shape
<1>3. c \in DOMAIN up[u].file
  BY <1>1, <1>2
<1> QED
  BY <1>1, <1>3

(* While the records stand still, what was delivered stays so; an upload   *)
(* that reads no further has nothing more to deliver.                      *)
LEMMA QuietDelivers ==
    ASSUME IInv, FeedInv, Watch, UNCHANGED rows, NEW u \in Uploads,
           up'[u].file = up[u].file, 1 .. Persisted(u)' \subseteq 1 .. Persisted(u)
    PROVE  Delivers(u)'
<1>1. UniqueBusinessKey /\ OvertakenIsLost /\ Delivers(u) /\ Accounted(u) /\ TypeInv
  BY DEF IInv, FeedInv
<1>2. \A k : Holder(u, k)' = Holder(u, k)
  BY DEF Holder, Live
<1>3. ASSUME NEW line \in Line, Delivered(u, line) PROVE Delivered(u, line)'
  <2>1. \A j \in Holder(u, line.key)' : j \in Live /\ rows'[j] = rows[j]
    BY <1>2 DEF Holder
  <2> QED
    BY <1>1, <1>2, <1>3, <2>1, HolderKeeps
<1> SUFFICES ASSUME NEW c \in 1 .. Persisted(u)', NEW l \in DOMAIN up[u].file[c],
                    Decisive(up[u].file, c, l)
             PROVE  Delivered(u, up[u].file[c][l])'
  BY DEF Delivers
<1>4. c \in 1 .. Persisted(u)
  OBVIOUS
<1>5. Delivered(u, up[u].file[c][l]) /\ up[u].file[c][l] \in Line
  BY <1>1, <1>4, ReadLines DEF Delivers
<1> QED
  BY <1>3, <1>5

(* An edit leaves the record to its feed: on its key, where it is now      *)
(* marked manual, or off it, which is a move.                              *)
LEMMA EditDelivers ==
    ASSUME IInv, FeedInv, Watch, NEW e \in Editors, EditWrite(e), NEW u \in Uploads
    PROVE  Delivers(u)'
<1> PICK i \in Live : i = ed[e].id
  BY EditWriteValues DEF IInv
<1>0. /\ rows \in [Ids -> Row \cup {None}] /\ ed \in [Editors -> EditState] /\ up' = up
      /\ i \in Ids /\ ed[e].pc = "read" /\ TypeInv /\ UniqueBusinessKey /\ OvertakenIsLost
      /\ Delivers(u) /\ Accounted(u)
  BY DEF EditWrite, IInv, TypeInv, TypeOK, Live, FeedInv
<1>1. CASE UNCHANGED rows
  BY <1>0, <1>1, QuietDelivers DEF Persisted
<1>2. CASE /\ Edited(e, rows[i]).price # None
           /\ rows' = [rows EXCEPT ![i] = Edited(e, rows[i])]
           /\ ed' = [ed EXCEPT ![e] = [EditIdle EXCEPT !.pc = "committed", !.id = i,
                                                       !.push = AuditOf(e).new]]
  <2>1. /\ rows'[i].feed = rows[i].feed /\ rows'[i].src = "manual" /\ rows'[i].by = e
        /\ \A j \in Ids \ {i} : rows'[j] = rows[j]
    BY <1>0, <1>2 DEF Edited
  <2>2. rows'[i] # None
    <3>1. Edited(e, rows[i]) \in Row
      BY <1>0, <1>2, EditWriteValues
    <3> QED
      BY <1>0, <1>2, <3>1, NoneIsFresh
  <2>3. Live' = Live
    BY <1>0, <2>1, <2>2 DEF Live
  <2>4. ed'[e].pc = "committed"
    BY <1>0, <1>2 DEF EditIdle
  <2>5. ASSUME NEW line \in Line, Delivered(u, line) PROVE Delivered(u, line)'
    <3>1. \A j \in Holder(u, line.key)' :
             (j \in Live /\ rows'[j] = rows[j]) \/ rows'[j].src = "manual"
      BY <2>1, <2>3 DEF Holder, Live
    <3>2. ASSUME NEW h \in Holder(u, line.key), h \notin Holder(u, line.key)'
          PROVE  Overtakes(u, line.key)
      <4>1. h = i /\ rows'[i].key # rows[i].key
        BY <2>1, <2>3, <3>2 DEF Holder, Live
      <4>2. MovedBy(e, i)
        BY <1>0, <2>1, <2>4, <4>1 DEF MovedBy
      <4> QED
        BY <4>1, <4>2 DEF Overtakes
    <3> QED
      BY <1>0, <2>5, <3>1, <3>2, HolderKeeps
  <2> SUFFICES ASSUME NEW c \in 1 .. Persisted(u), NEW l \in DOMAIN up[u].file[c],
                      Decisive(up[u].file, c, l)
               PROVE  Delivered(u, up[u].file[c][l])'
    BY <1>0 DEF Delivers, Persisted
  <2>6. Delivered(u, up[u].file[c][l]) /\ up[u].file[c][l] \in Line
    BY <1>0, ReadLines DEF Delivers
  <2> QED
    BY <1>0, <2>5, <2>6
<1> QED
  BY <1>1, <1>2 DEF EditWrite

(* The lines of the chunk that commits are there, each on its own record.  *)
LEMMA ChunkDelivered ==
    ASSUME TypeInv, NEW chunk \in Seq(Line), Acceptable(chunk),
           NEW at \in Placements(chunk), NEW u \in Uploads,
           rows' = UpsertedRows(u, chunk, at), NEW l \in DOMAIN chunk
    PROVE  Arrived(u, chunk[l])'
<1> DEFINE i == at[chunk[l].key]
<1>1. i \in Ids /\ rows'[i] = Ingested(u, chunk[l]) /\ chunk[l] \in Line
  BY ChunkArrives
<1>2. /\ rows'[i].key = chunk[l].key /\ rows'[i].feed = u
      /\ rows'[i].price = Stored[chunk[l].price]
  BY <1>1 DEF Ingested
<1>3. rows'[i] \in Row
  <2>1. chunk[l].key \in Keys /\ Stored[chunk[l].price] \in Prices
    BY <1>1, RoundingIsIdempotent DEF Line, Acceptable
  <2>2. UploadUser(u) \in Editors \cup Uploads \cup {None}
    BY DEF UploadUser
  <2> QED
    BY <1>1, <2>1, <2>2 DEF Row, Ingested
<1>4. i \in Holder(u, chunk[l].key)'
  BY <1>1, <1>2, <1>3, NoneIsFresh DEF Holder, Live
<1> QED
  BY <1>2, <1>4 DEF Arrived

(* What a chunk does to a key: another feed's overtakes the record it      *)
(* lands on, and the upload's own touches none but the keys it names.      *)
LEMMA ChunkKeeps ==
    ASSUME IInv, OvertakenIsLost, Watch, NEW w \in Uploads,
           up[w].pc = "chunk", up'[w].pc = "index",
           NEW chunk \in Seq(Line), Acceptable(chunk), NEW at \in Placements(chunk),
           rows' = UpsertedRows(w, chunk, at),
           NEW u \in Uploads, NEW line \in Line, Delivered(u, line),
           w = u => line.key \notin KeysOf(chunk)
    PROVE  Delivered(u, line)'
<1>0. TypeInv /\ Drawn /\ UniqueBusinessKey
  BY DEF IInv
<1>1. ASSUME NEW i \in Ids
      PROVE  /\ LineAt(chunk, at, i) = {} => rows'[i] = rows[i]
             /\ LineAt(chunk, at, i) # {} =>
                  /\ rows'[i].src = "ingest" /\ rows'[i].feed = w
                  /\ rows'[i].key \in KeysOf(chunk)
                  /\ i \in Live => rows'[i].key = rows[i].key
  BY <1>0, UpsertKeys
<1>2. ASSUME NEW j \in Holder(u, line.key)' PROVE j \in Live /\ rows'[j] = rows[j]
  <2>1. j \in Ids /\ rows'[j] # None /\ rows'[j].feed = u /\ rows'[j].key = line.key
    BY DEF Holder, Live
  <2>2. LineAt(chunk, at, j) = {}
    BY <1>1, <2>1
  <2> QED
    BY <1>1, <2>1, <2>2 DEF Live
<1>3. ASSUME NEW h \in Holder(u, line.key), h \notin Holder(u, line.key)'
      PROVE  Overtakes(u, line.key)
  <2>1. h \in Ids /\ rows[h] # None /\ rows[h].feed = u /\ rows[h].key = line.key /\ h \in Live
    BY DEF Holder, Live
  <2>2. LineAt(chunk, at, h) # {}
    BY <1>1, <1>3, <2>1 DEF Holder, Live
  <2>3. rows'[h].src = "ingest" /\ rows'[h].feed = w /\ w # u
    BY <1>1, <2>1, <2>2
  <2>4. OverwrittenBy(w, h)
    BY <2>3 DEF OverwrittenBy
  <2> QED
    BY <2>3, <2>4 DEF Overtakes
<1> QED
  BY <1>0, <1>2, <1>3, HolderKeeps

(* A chunk of another feed, or of the upload itself: then the keys of its  *)
(* earlier decisive lines are none of those the chunk names.               *)
LEMMA PersistDelivers ==
    ASSUME IInv, FeedInv, Watch, NEW w \in Uploads, UploadPersist(w), NEW u \in Uploads
    PROVE  Delivers(u)'
<1>0. /\ TypeInv /\ up \in [Uploads -> UploadState] /\ OvertakenIsLost
      /\ up[w].pc = "chunk" /\ up[w].n < Len(up[w].file) /\ Delivers(u) /\ Accounted(u)
  BY DEF UploadPersist, IInv, TypeInv, TypeOK, FeedInv
<1>1. /\ \A v \in Uploads : up'[v].file = up[v].file /\ up'[v].n = up[v].n
      /\ \A v \in Uploads \ {w} : up'[v] = up[v]
  <2>1. \/ \E x : up' = [up EXCEPT ![w] = [up[w] EXCEPT !.pc = "index", !.push = x]]
        \/ up' = [up EXCEPT ![w] = [up[w] EXCEPT !.pc = "failing"]]
    BY DEF UploadPersist
  <2>2. \A v \in Uploads \ {w} : up'[v] = up[v]
    BY <1>0, <2>1
  <2>3. \/ \E x : up'[w] = [up[w] EXCEPT !.pc = "index", !.push = x]
        \/ up'[w] = [up[w] EXCEPT !.pc = "failing"]
    BY <1>0, <2>1
  <2>4. up'[w].file = up[w].file /\ up'[w].n = up[w].n
    BY <1>0, <2>3 DEF UploadState
  <2> QED
    BY <2>2, <2>4
<1> PICK file : file = up[u].file
  OBVIOUS
<1>2. CASE UNCHANGED rows /\ up' = [up EXCEPT ![w] = [up[w] EXCEPT !.pc = "failing"]]
  <2>1. up'[w].pc = "failing"
    BY <1>0, <1>2 DEF UploadState
  <2>2. Persisted(u)' = Persisted(u)
    BY <1>0, <1>1, <2>1 DEF Persisted
  <2> QED
    BY <1>1, <1>2, <2>2, QuietDelivers
<1> PICK chunk : chunk = up[w].file[up[w].n + 1]
  OBVIOUS
<1>3. CASE /\ Acceptable(chunk)
           /\ \E at \in Placements(chunk) :
                 /\ rows' = UpsertedRows(w, chunk, at)
                 /\ up' = [up EXCEPT ![w] = [up[w] EXCEPT !.pc = "index",
                                                          !.push = Canonical(w, chunk, at)]]
  <2>1. PICK at \in Placements(chunk) :
           /\ rows' = UpsertedRows(w, chunk, at)
           /\ up' = [up EXCEPT ![w] = [up[w] EXCEPT !.pc = "index",
                                                    !.push = Canonical(w, chunk, at)]]
    BY <1>3
  <2>2. chunk \in Seq(Line) /\ up'[w].pc = "index"
    BY <1>0, <2>1, ChunkType DEF UploadState
  <2>3. ASSUME NEW line \in Line, Delivered(u, line), w = u => line.key \notin KeysOf(chunk)
        PROVE  Delivered(u, line)'
    BY <1>0, <1>3, <2>1, <2>2, <2>3, ChunkKeeps
  <2>4. ASSUME NEW c \in 1 .. Persisted(u), NEW l \in DOMAIN file[c], Decisive(file, c, l),
               w = u => c < up[u].n + 1
        PROVE  Delivered(u, file[c][l])'
    <3>1. Delivered(u, file[c][l]) /\ file[c][l] \in Line
      BY <1>0, <2>4, ReadLines DEF Delivers
    <3>2. ASSUME w = u PROVE file[c][l].key \notin KeysOf(chunk)
      <4>1. file \in Seq(Seq(Line)) /\ up[u].n \in Nat /\ up[u].n < Len(file)
        BY <1>0, <3>2, FileType DEF UploadState
      <4>2. up[u].n + 1 \in DOMAIN file /\ up[u].n + 1 > c
        BY <2>4, <3>2, <4>1
      <4> QED
        BY <2>4, <3>2, <4>2 DEF Decisive
    <3> QED
      BY <2>3, <3>1, <3>2
  <2>5. CASE w # u
    <3>1. up'[u] = up[u]
      BY <1>1, <2>5
    <3>2. Persisted(u)' = Persisted(u)
      BY <3>1 DEF Persisted
    <3> QED
      BY <2>4, <2>5, <3>1, <3>2 DEF Delivers
  <2>6. CASE w = u
    <3>1. /\ Persisted(u) = up[u].n /\ Persisted(u)' = up[u].n + 1 /\ up[u].n \in Nat
          /\ up'[u].file = file
      BY <1>0, <1>1, <2>2, <2>6 DEF Persisted, UploadState
    <3> SUFFICES ASSUME NEW c \in 1 .. up[u].n + 1, NEW l \in DOMAIN file[c],
                        Decisive(file, c, l)
                 PROVE  Delivered(u, file[c][l])'
      BY <3>1 DEF Delivers
    <3>2. CASE c = up[u].n + 1
      <4>1. file[c] = chunk /\ l \in DOMAIN chunk
        BY <2>6, <3>2
      <4>2. Arrived(u, chunk[l])'
        BY <1>0, <1>3, <2>1, <2>2, <2>6, <4>1, ChunkDelivered
      <4> QED
        BY <4>1, <4>2 DEF Delivered
    <3>3. CASE c # up[u].n + 1
      <4>1. c \in 1 .. Persisted(u) /\ c < up[u].n + 1
        BY <3>1, <3>3
      <4> QED
        BY <2>4, <4>1
    <3> QED
      BY <3>2, <3>3
  <2> QED
    BY <2>5, <2>6
<1> QED
  BY <1>2, <1>3 DEF UploadPersist

(* The steps that write no record: none reads on past what is persisted.   *)
LEMMA UploadDelivers ==
    ASSUME IInv, FeedInv, Watch, NEW w \in Uploads, UploadStep(w) \/ UploadCrash(w),
           NEW u \in Uploads
    PROVE  Delivers(u)'
<1>0. /\ TypeInv /\ up \in [Uploads -> UploadState] /\ up[w] \in UploadState /\ Delivers(u)
      /\ up[w].n \in Nat
  BY DEF IInv, TypeInv, TypeOK, FeedInv, UploadState
<1>1. CASE UploadPersist(w)
  BY <1>1, PersistDelivers
<1> SUFFICES ASSUME ~UploadPersist(w) PROVE Delivers(u)'
  BY <1>1
<1>2. UNCHANGED rows /\ \E x : up' = [up EXCEPT ![w] = x]
  BY DEF UploadStep, UploadReject, UploadStart, UploadIndex, UploadFinish, UploadFail,
     UploadRespond, UploadCrash, UploadEnd, db
<1>3. CASE w # u
  <2>1. up'[u] = up[u]
    BY <1>0, <1>2, <1>3
  <2>2. Persisted(u)' = Persisted(u)
    BY <2>1 DEF Persisted
  <2> QED
    BY <1>2, <2>1, <2>2, QuietDelivers
<1>4. ASSUME up'[w].file = up[w].file, up'[w].n = up[w].n, w = u,
             up'[w].pc = "index" => up[w].pc = "index"
      PROVE  Delivers(u)'
  <2>1. 1 .. Persisted(u)' \subseteq 1 .. Persisted(u)
    BY <1>0, <1>4 DEF Persisted
  <2> QED
    BY <1>2, <1>4, <2>1, QuietDelivers
<1>5. CASE w = u /\ UploadStart(w)
  <2>1. up[w].n = 0 /\ up[w].pc = "idle"
    BY <1>5 DEF UploadStart, FeedInv, Accounted
  <2>2. \E p \in {"chunk", "failing"}, f \in Files : up'[w] = [up[w] EXCEPT !.pc = p, !.file = f]
    BY <1>0, <1>5 DEF UploadStart
  <2>3. up'[w].n = 0 /\ up'[w].pc # "index"
    BY <1>0, <2>1, <2>2 DEF UploadState
  <2> QED
    BY <1>5, <2>3 DEF Delivers, Persisted
<1>6. CASE w = u /\ UploadIndex(w)
  <2>1. up[w].pc = "index"
    BY <1>6 DEF UploadIndex
  <2>2. CASE up'[u] = [up[u] EXCEPT !.pc = "chunk", !.attempts = 0, !.push = NoPush,
                          !.n = up[u].n + 1,
                          !.offset = up[u].offset + Len(up[u].file[up[u].n + 1])]
    <3>1. up'[u].pc = "chunk" /\ up'[u].file = up[u].file /\ up'[u].n = up[u].n + 1
      BY <1>0, <1>6, <2>2 DEF UploadState
    <3>2. Persisted(u)' = Persisted(u)
      BY <1>6, <2>1, <3>1 DEF Persisted
    <3> QED
      BY <1>2, <1>6, <3>1, <3>2, QuietDelivers
  <2>3. CASE \/ up'[u] = [up[u] EXCEPT !.pc = "failing", !.push = NoPush]
             \/ up'[u] = [up[u] EXCEPT !.attempts = up[u].attempts + 1]
    <3>1. /\ up'[u].n = up[u].n /\ up'[u].file = up[u].file
      BY <1>0, <1>6, <2>3 DEF UploadState
    <3> QED
      BY <1>4, <1>6, <2>1, <3>1
  <2> QED
    BY <1>0, <1>6, <2>2, <2>3, IndexMoves
<1>7. CASE UploadFinish(w)
  <2>1. \E p \in {"closed", "failing"} : up'[w] = [up[w] EXCEPT !.pc = p]
    BY <1>0, <1>7 DEF UploadFinish
  <2>2. up'[w].file = up[w].file /\ up'[w].n = up[w].n /\ up'[w].pc # "index"
    BY <1>0, <2>1 DEF UploadState
  <2> QED
    BY <1>3, <1>4, <2>2
<1>8. ASSUME NEW res, UploadEnd(w, res) PROVE Delivers(u)'
  BY <1>0, <1>3, <1>4, <1>8, UploadEndMoves
<1> QED
  BY <1>3, <1>5, <1>6, <1>7, <1>8
     DEF UploadStep, UploadReject, UploadFail, UploadRespond, UploadCrash

LEMMA NextFeeds == IInv /\ AnswersInv /\ FeedInv /\ [LNext]_lvars => FeedInv'
<1> SUFFICES ASSUME IInv, AnswersInv, FeedInv, [LNext]_lvars PROVE FeedInv'
  OBVIOUS
<1>0. /\ TypeInv /\ up \in [Uploads -> UploadState] /\ feeds \in [Uploads -> Feed \cup {None}]
      /\ \A u \in Uploads : UploaderHonest(u) /\ Accounted(u) /\ Delivers(u)
  BY AnswersSplit DEF IInv, TypeInv, TypeOK, FeedInv
<1>1. CASE UNCHANGED lvars
  <2>1. UNCHANGED <<rows, feeds, up, overtaken>>
    BY <1>1 DEF lvars, vars
  <2> QED
    BY <2>1 DEF FeedInv, OvertakenIsLost, Holder, Live, Accounted, Delivers, Delivered, Arrived,
       Persisted
<1> SUFFICES ASSUME Next, Watch, NEW u \in Uploads PROVE Accounted(u)' /\ Delivers(u)'
  BY <1>1, WatchLost DEF LNext, FeedInv
<1>2. ASSUME NEW w \in Uploads, UploadStep(w) \/ UploadCrash(w)
      PROVE  Accounted(u)' /\ Delivers(u)'
  <2>1. CASE w = u
    BY <1>0, <1>2, <2>1, UploadAccounts, UploadDelivers
  <2>2. CASE w # u
    <3>1. up'[u] = up[u] /\ feeds'[u] = feeds[u]
      BY <1>0, <1>2, <2>2 DEF UploadStep, UploadReject, UploadStart, UploadPersist,
         UploadIndex, UploadFinish, UploadFail, UploadRespond, UploadCrash, UploadEnd, db
    <3> QED
      BY <1>0, <1>2, <3>1, SameAccounts, UploadDelivers
  <2> QED
    BY <2>1, <2>2
<1>3. ASSUME NEW e \in Editors, EditStep(e) \/ EditCrash(e)
      PROVE  Accounted(u)' /\ Delivers(u)'
  <2>1. UNCHANGED <<feeds, up>> /\ (UNCHANGED rows \/ EditWrite(e))
    BY <1>3 DEF EditStep, EditRead, EditWrite, EditIndex, EditRespond, EditCrash, db
  <2>2. Accounted(u)'
    BY <1>0, <2>1, SameAccounts
  <2>3. CASE UNCHANGED rows
    <3>1. up'[u].file = up[u].file /\ Persisted(u)' = Persisted(u)
      BY <2>1 DEF Persisted
    <3> QED
      BY <2>2, <2>3, <3>1, QuietDelivers
  <2> QED
    BY <2>1, <2>2, <2>3, EditDelivers
<1> QED
  BY <1>2, <1>3 DEF Next

LEMMA FeedInvAccounts == TypeInv /\ FeedInv => FeedAccounting
<1> SUFFICES ASSUME TypeInv, FeedInv, NEW u \in Uploads, feeds[u] # None
             PROVE  LET file == up[u].file IN
                    /\ feeds[u].status = "processed" =>
                          /\ feeds[u].rowCount =
                                Cardinality(UNION {{c} \X DOMAIN file[c] : c \in DOMAIN file})
                          /\ \A c \in DOMAIN file : \A l \in DOMAIN file[c] :
                                \/ ~Decisive(file, c, l)
                                \/ Arrived(u, file[c][l])
                                \/ <<u, file[c][l].key>> \in overtaken
                    /\ feeds[u].status = "failed" => feeds[u].rowCount = 0
                    /\ feeds[u].status = "received" /\ up[u].pc = "done" => up[u].res \in {"500", None}
  BY DEF FeedAccounting
<1> DEFINE file == up[u].file
<1>1. Accounted(u) /\ Delivers(u) /\ file \in Seq(Seq(Line))
  BY FileType DEF FeedInv
<1>2. DOMAIN file = 1 .. Len(file)
  BY <1>1, LenProperties
<1>3. ASSUME feeds[u].status = "processed"
      PROVE  feeds[u].rowCount = Cardinality(UNION {{c} \X DOMAIN file[c] : c \in DOMAIN file})
  <2>1. feeds[u].rowCount = Cardinality(LinesRead(file, Len(file)))
    BY <1>1, <1>3 DEF Accounted
  <2> QED
    BY <1>2, <2>1 DEF LinesRead
<1>4. ASSUME feeds[u].status = "processed", NEW c \in DOMAIN file, NEW l \in DOMAIN file[c],
             Decisive(file, c, l)
      PROVE  Delivered(u, file[c][l])
  <2>1. Persisted(u) = Len(file)
    BY <1>1, <1>4 DEF Accounted, Persisted
  <2> QED
    BY <1>1, <1>2, <1>4, <2>1 DEF Delivers
<1> HIDE DEF file
<1> QED
  BY <1>1, <1>3, <1>4 DEF Accounted, Delivered, file

(* The watcher changes nothing: what it watches is PricingWrites.          *)
LEMMA WatchedIsSpec ==
    /\ LInit => Init
    /\ [LNext]_lvars => [Next]_vars
  BY DEF LInit, LNext, lvars

(* A processed feed counts every line of its file and has delivered the    *)
(* decisive ones, whatever edits, failures and other uploads came between  *)
(* its chunks, each unless that very record went to another feed or was    *)
(* moved off its key; a failed feed counts nothing; a feed left open by a  *)
(* request that ended is one whose worker or database died.                *)
THEOREM FeedsAreAccounted == LSpec => []FeedAccounting
<1>1. IInv /\ FeedInv => FeedAccounting
  BY FeedInvAccounts DEF IInv
<1> QED
  BY InitIInv, NextIInv, InitAnswers, NextAnswers, InitFeeds, NextFeeds, WatchedIsSpec, <1>1, PTL
     DEF LSpec
=============================================================================
