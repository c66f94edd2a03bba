--------------------------- MODULE IndexSyncProofs ---------------------------
(* The index agrees with the database on every record left undisturbed,    *)
(* for every value of the constants.                                       *)
EXTENDS IndexSync, PricingWritesProofs

SyncInv == TypeInv /\ InStep

(* What one step may do to id i: at most one request commits a value for   *)
(* it, a push on its way does not change, a row changes only by a commit,  *)
(* a document only by a push on its way.                                   *)
OneCommit(i) ==
    \A p, q \in Requests : Commits(p, i) /\ Commits(q, i) => p = q
PushKept(i) ==
    \A p \in Requests : Pending(p, i) /\ Pending(p, i)' => Pushed(p, i)' = Pushed(p, i)
RowByCommit(i) ==
    rows'[i] = rows[i] \/ \E p \in Requests : Commits(p, i)
DocByPush(i) ==
    docs'[i] = docs[i] \/ \E p \in Requests : Pending(p, i) /\ docs'[i] = Pushed(p, i)

StepFacts(i) == OneCommit(i) /\ PushKept(i) /\ RowByCommit(i) /\ DocByPush(i)

(* The requests other than the one that moves are as they were.            *)
Still(r, i) ==
    \A p \in Requests \ {r} :
        /\ Pending(p, i)' <=> Pending(p, i)
        /\ Pushed(p, i)' = Pushed(p, i)

LEMMA EditStill ==
    ASSUME TypeInv, NEW e \in Editors, NEW x, ed' = [ed EXCEPT ![e] = x], UNCHANGED up, NEW i \in Ids
    PROVE  Still(e, i)
  BY DEF TypeInv, TypeOK, Still, Requests, Pending, Pushed

LEMMA UploadStill ==
    ASSUME TypeInv, NEW u \in Uploads, NEW x, up' = [up EXCEPT ![u] = x], UNCHANGED ed, NEW i \in Ids
    PROVE  Still(u, i)
  BY DEF TypeInv, TypeOK, Still, Requests, Pending, Pushed

(* When only r moves, the facts about commits and pushes are facts of r.   *)
LEMMA StillFacts ==
    ASSUME NEW i \in Ids, NEW r \in Requests, Still(r, i),
           Pending(r, i) /\ Pending(r, i)' => Pushed(r, i)' = Pushed(r, i)
    PROVE  OneCommit(i) /\ PushKept(i)
  BY DEF Still, OneCommit, PushKept, Commits

-----------------------------------------------------------------------------
LEMMA EditWriteFacts ==
    ASSUME TypeInv, NEW e \in Editors, EditWrite(e), NEW i \in Ids PROVE StepFacts(i)
<1>1. /\ ed \in [Editors -> EditState] /\ ed[e].pc = "read" /\ UNCHANGED <<up, docs>>
      /\ rows \in [Ids -> Row \cup {None}] /\ e \in Requests
  BY DEF EditWrite, TypeInv, TypeOK, Requests
<1>2. PICK x : ed' = [ed EXCEPT ![e] = x]
  BY DEF EditWrite, EditEnd
<1>3. Still(e, i)
  BY <1>1, <1>2, EditStill
<1>4. ~Pending(e, i)
  BY <1>1 DEF Pending
<1>5. RowByCommit(i)
  <2>1. CASE rows'[i] = rows[i]
    BY <2>1 DEF RowByCommit
  <2>2. CASE rows'[i] # rows[i]
    <3>1. /\ i = ed[e].id
          /\ ed' = [ed EXCEPT ![e] = [EditIdle EXCEPT !.pc = "committed", !.id = ed[e].id,
                                                      !.push = AuditOf(e).new]]
      BY <1>1, <2>2 DEF EditWrite
    <3>2. Pending(e, i)'
      BY <1>1, <3>1 DEF Pending, EditIdle
    <3> QED
      BY <1>1, <1>4, <3>2 DEF RowByCommit, Commits
  <2> QED
    BY <2>1, <2>2
<1>6. DocByPush(i)
  BY <1>1 DEF DocByPush
<1> QED
  BY <1>1, <1>3, <1>4, <1>5, <1>6, StillFacts DEF StepFacts

LEMMA EditIndexFacts ==
    ASSUME TypeInv, NEW e \in Editors, EditIndex(e), NEW i \in Ids PROVE StepFacts(i)
<1>1. /\ ed \in [Editors -> EditState] /\ ed[e].pc = "committed" /\ UNCHANGED <<up, rows>>
      /\ docs \in [Ids -> Line \cup {None}] /\ e \in Requests
  BY DEF EditIndex, TypeInv, TypeOK, Requests, db
<1>2. PICK x : ed' = [ed EXCEPT ![e] = x]
  BY DEF EditIndex, EditEnd
<1>3. Still(e, i)
  BY <1>1, <1>2, EditStill
<1>4. ~Pending(e, i)'
  <2>1. CASE ed' = [ed EXCEPT ![e].pc = "indexed"]
    BY <1>1, <2>1 DEF Pending, EditState
  <2>2. CASE EditEnd(e, ed[e].id, "500")
    BY <1>1, <2>2 DEF Pending, EditEnd, EditIdle
  <2> QED
    BY <2>1, <2>2 DEF EditIndex
<1>5. DocByPush(i)
  <2>1. docs' = docs \/ docs' = [docs EXCEPT ![ed[e].id] = ed[e].push]
    BY DEF EditIndex
  <2>2. CASE ed[e].id = i
    BY <1>1, <2>1, <2>2 DEF DocByPush, Pending, Pushed
  <2>3. CASE ed[e].id # i
    BY <1>1, <2>1, <2>3 DEF DocByPush
  <2> QED
    BY <2>2, <2>3
<1>6. RowByCommit(i)
  BY <1>1 DEF RowByCommit
<1> QED
  BY <1>1, <1>3, <1>4, <1>5, <1>6, StillFacts DEF StepFacts

LEMMA EditOtherFacts ==
    ASSUME TypeInv, NEW e \in Editors, EditRead(e) \/ EditRespond(e) \/ EditCrash(e), NEW i \in Ids
    PROVE  StepFacts(i)
<1>1. /\ ed \in [Editors -> EditState] /\ UNCHANGED <<up, rows, docs>> /\ e \in Requests
  BY DEF EditRead, EditRespond, EditCrash, TypeInv, TypeOK, Requests, db
<1>2. PICK x : ed' = [ed EXCEPT ![e] = x] /\ x.pc # "committed"
  <2>1. ASSUME NEW j, NEW res, EditEnd(e, j, res)
        PROVE  \E x : ed' = [ed EXCEPT ![e] = x] /\ x.pc # "committed"
    <3>1. [EditIdle EXCEPT !.pc = "done", !.id = j, !.res = res].pc # "committed"
      BY DEF EditIdle
    <3> QED
      BY <2>1, <3>1 DEF EditEnd
  <2>2. ASSUME NEW j, NEW c, NEW v,
               ed' = [ed EXCEPT ![e] = [EditIdle EXCEPT !.pc = "read", !.id = j,
                                                        !.change = c, !.seen = v]]
        PROVE  \E x : ed' = [ed EXCEPT ![e] = x] /\ x.pc # "committed"
    <3>1. [EditIdle EXCEPT !.pc = "read", !.id = j, !.change = c, !.seen = v].pc # "committed"
      BY DEF EditIdle
    <3> QED
      BY <2>2, <3>1
  <2>3. CASE EditRead(e)
    <3>1. PICK j \in Ids :
            \/ \E c \in Changes :
                  ed' = [ed EXCEPT ![e] = [EditIdle EXCEPT !.pc = "read", !.id = j,
                                             !.change = c, !.seen = ValueOf(rows[j])]]
            \/ EditEnd(e, j, "404")
            \/ EditEnd(e, j, "500")
      BY <2>3 DEF EditRead
    <3> QED
      BY <2>1, <2>2, <3>1
  <2>4. CASE EditRespond(e) \/ EditCrash(e)
    BY <2>1, <2>4 DEF EditRespond, EditCrash
  <2> QED
    BY <2>3, <2>4
<1>3. ~Pending(e, i)'
  BY <1>1, <1>2 DEF Pending
<1> QED
  BY <1>1, <1>2, <1>3, EditStill, StillFacts DEF StepFacts, RowByCommit, DocByPush

LEMMA UploadPersistFacts ==
    ASSUME TypeInv, NEW u \in Uploads, UploadPersist(u), NEW i \in Ids PROVE StepFacts(i)
<1> DEFINE chunk == up[u].file[up[u].n + 1]
<1>1. /\ up \in [Uploads -> UploadState] /\ up[u].pc = "chunk" /\ UNCHANGED <<ed, docs>>
      /\ u \in Requests /\ u \notin Editors
  BY RequestsAreDistinct DEF UploadPersist, TypeInv, TypeOK, Requests
<1>2. PICK x : up' = [up EXCEPT ![u] = x]
  BY DEF UploadPersist
<1>3. ~Pending(u, i)
  BY <1>1 DEF Pending
<1>4. RowByCommit(i)
  <2>1. CASE rows'[i] = rows[i]
    BY <2>1 DEF RowByCommit
  <2>2. CASE rows'[i] # rows[i]
    <3>1. chunk \in Seq(Line)
      BY ChunkType DEF UploadPersist
    <3>2. Acceptable(chunk) /\ \E at \in Placements(chunk) :
                /\ rows' = UpsertedRows(u, chunk, at)
                /\ up' = [up EXCEPT ![u] = [up[u] EXCEPT !.pc = "index",
                                                     !.push = Canonical(u, chunk, at)]]
      BY <2>2 DEF UploadPersist
    <3>3. PICK at \in Placements(chunk) :
                /\ rows' = UpsertedRows(u, chunk, at)
                /\ up' = [up EXCEPT ![u] = [up[u] EXCEPT !.pc = "index",
                                                     !.push = Canonical(u, chunk, at)]]
      BY <3>2
    <3>4. Canonical(u, chunk, at)[i] \in Line
      BY <2>2, <3>1, <3>2, <3>3, CanonicalValue
    <3>5. up'[u].pc = "index" /\ up'[u].push[i] = Canonical(u, chunk, at)[i]
      BY <1>1, <3>3 DEF UploadState
    <3>6. Pending(u, i)'
      BY <1>1, <3>4, <3>5, NoneIsFresh DEF Pending
    <3> QED
      BY <1>1, <1>3, <3>6 DEF RowByCommit, Commits
  <2> QED
    BY <2>1, <2>2
<1>5. DocByPush(i)
  BY <1>1 DEF DocByPush
<1> QED
  BY <1>1, <1>2, <1>3, <1>4, <1>5, UploadStill, StillFacts DEF StepFacts

LEMMA UploadIndexFacts ==
    ASSUME TypeInv, NEW u \in Uploads, UploadIndex(u), NEW i \in Ids PROVE StepFacts(i)
<1>1. /\ up \in [Uploads -> UploadState] /\ up[u].pc = "index" /\ UNCHANGED <<ed, rows>>
      /\ u \in Requests /\ u \notin Editors
  BY RequestsAreDistinct DEF UploadIndex, TypeInv, TypeOK, Requests, db
<1>2. PICK x : up' = [up EXCEPT ![u] = x]
  BY DEF UploadIndex
<1>3. Pending(u, i)' => Pushed(u, i)' = Pushed(u, i)
  <2>1. CASE up' = [up EXCEPT ![u].attempts = up[u].attempts + 1]
    BY <1>1, <2>1 DEF Pushed, UploadState
  <2>2. CASE up'[u].pc # "index"
    BY <1>1, <2>2 DEF Pending
  <2>3. \/ up' = [up EXCEPT ![u] =
                [up[u] EXCEPT !.pc = "chunk", !.attempts = 0, !.push = NoPush,
                   !.n = up[u].n + 1, !.offset = up[u].offset + Len(up[u].file[up[u].n + 1])]]
        \/ up' = [up EXCEPT ![u] = [up[u] EXCEPT !.pc = "failing", !.push = NoPush]]
        \/ up' = [up EXCEPT ![u].attempts = up[u].attempts + 1]
    BY DEF UploadIndex, AfterFailure
  <2>4. CASE up' = [up EXCEPT ![u] =
                [up[u] EXCEPT !.pc = "chunk", !.attempts = 0, !.push = NoPush,
                   !.n = up[u].n + 1, !.offset = up[u].offset + Len(up[u].file[up[u].n + 1])]]
    BY <1>1, <2>2, <2>4 DEF UploadState
  <2>5. CASE up' = [up EXCEPT ![u] = [up[u] EXCEPT !.pc = "failing", !.push = NoPush]]
    BY <1>1, <2>2, <2>5 DEF UploadState
  <2> QED
    BY <2>1, <2>3, <2>4, <2>5
<1>4. DocByPush(i)
  <2>1. PICK applied \in SUBSET Targets(u) : Import(u, applied)
    BY DEF UploadIndex
  <2>2. CASE i \in applied
    BY <1>1, <2>1, <2>2 DEF DocByPush, Import, Targets, Pending, Pushed
  <2>3. CASE i \notin applied
    BY <2>1, <2>3 DEF DocByPush, Import
  <2> QED
    BY <2>2, <2>3
<1>5. RowByCommit(i)
  BY <1>1 DEF RowByCommit
<1> QED
  BY <1>1, <1>2, <1>3, <1>4, <1>5, UploadStill, StillFacts DEF StepFacts

LEMMA UploadOtherFacts ==
    ASSUME TypeInv, NEW u \in Uploads, NEW i \in Ids,
           \/ UploadReject(u) \/ UploadStart(u) \/ UploadFinish(u) \/ UploadFail(u)
           \/ UploadRespond(u) \/ UploadCrash(u)
    PROVE  StepFacts(i)
<1>1. /\ up \in [Uploads -> UploadState] /\ UNCHANGED <<ed, rows, docs>>
      /\ u \in Requests /\ u \notin Editors
  BY RequestsAreDistinct DEF UploadReject, UploadStart, UploadFinish, UploadFail, UploadRespond,
     UploadCrash, TypeInv, TypeOK, Requests, db
<1>2. PICK x : up' = [up EXCEPT ![u] = x] /\ x.pc # "index"
  <2>1. ASSUME NEW res, UploadEnd(u, res)
        PROVE  \E x : up' = [up EXCEPT ![u] = x] /\ x.pc # "index"
    <3>1. [up[u] EXCEPT !.pc = "done", !.push = NoPush, !.attempts = 0, !.res = res].pc # "index"
      BY <1>1 DEF UploadState
    <3> QED
      BY <2>1, <3>1 DEF UploadEnd
  <2>2. ASSUME NEW f, NEW p \in {"chunk", "failing"},
               up' = [up EXCEPT ![u] = [up[u] EXCEPT !.pc = p, !.file = f]]
        PROVE  \E x : up' = [up EXCEPT ![u] = x] /\ x.pc # "index"
    <3>1. [up[u] EXCEPT !.pc = p, !.file = f].pc # "index"
      BY <1>1 DEF UploadState
    <3> QED
      BY <2>2, <3>1
  <2>3. CASE UploadStart(u)
    BY <2>2, <2>3 DEF UploadStart
  <2>4. CASE UploadFinish(u)
    <3>1. PICK p \in {"closed", "failing"} : up' = [up EXCEPT ![u] = [up[u] EXCEPT !.pc = p]]
      BY <2>4 DEF UploadFinish
    <3>2. [up[u] EXCEPT !.pc = p].pc # "index"
      BY <1>1 DEF UploadState
    <3> QED
      BY <3>1, <3>2
  <2> QED
    BY <2>1, <2>3, <2>4 DEF UploadReject, UploadFail, UploadRespond, UploadCrash
<1>3. ~Pending(u, i)'
  BY <1>1, <1>2 DEF Pending
<1> QED
  BY <1>1, <1>2, <1>3, UploadStill, StillFacts DEF StepFacts, RowByCommit, DocByPush

LEMMA IdleFacts ==
    ASSUME TypeInv, UNCHANGED vars, NEW i \in Ids PROVE StepFacts(i)
<1>1. UNCHANGED <<ed, up, docs, rows>>
  BY DEF vars
<1> QED
  BY <1>1 DEF StepFacts, OneCommit, PushKept, RowByCommit, DocByPush, Commits, Pending, Pushed

LEMMA AllStepFacts ==
    ASSUME TypeInv, [Next]_vars, NEW i \in Ids PROVE StepFacts(i)
<1>1. ASSUME NEW e \in Editors, EditStep(e) \/ EditCrash(e) PROVE StepFacts(i)
  BY <1>1, EditWriteFacts, EditIndexFacts, EditOtherFacts DEF EditStep
<1>2. ASSUME NEW u \in Uploads, UploadStep(u) \/ UploadCrash(u) PROVE StepFacts(i)
  BY <1>2, UploadPersistFacts, UploadIndexFacts, UploadOtherFacts DEF UploadStep
<1> QED
  BY <1>1, <1>2, IdleFacts DEF Next

-----------------------------------------------------------------------------
LEMMA InitSync == ISInit => SyncInv
<1> SUFFICES ASSUME ISInit PROVE SyncInv
  OBVIOUS
<1>1. TypeInv
  BY InitTypeInv DEF ISInit
<1>2. \A p \in Requests, i \in Ids : ~Pending(p, i)
  BY DEF ISInit, Init, Requests, Pending, EditIdle, UploadIdle
<1>3. \A i \in Live : docs[i] = ValueOf(rows[i])
  <2>1. TAKE i \in Live
  <2>2. i \in Ids /\ Seed[i] # None
    BY DEF ISInit, Init, Live
  <2>3. Seed[i] \in Val
    BY <2>2, SeedIsUnique
  <2>4. rows[i] = [key |-> Seed[i].key, price |-> Seed[i].price,
                   src |-> "ingest", by |-> None, feed |-> None] /\ docs = Seed
    BY <2>2 DEF ISInit, Init
  <2> QED
    BY <2>3, <2>4 DEF ValueOf, Val
<1> QED
  BY <1>1, <1>2, <1>3 DEF SyncInv, InStep, Live

(* A record some request just wrote, without being disturbed: that request *)
(* had it to itself and owes exactly the value it left.                    *)
LEMMA JustWritten ==
    ASSUME NEW i \in Ids, NEW p \in Requests, Commits(p, i), ~Disturbed(i), StepFacts(i)
    PROVE  /\ \A q \in Requests : Pending(q, i)' => q = p
           /\ Pushed(p, i)' = ValueOf(rows'[i])
<1>1. \A q \in Requests \ {p} : ~Pending(q, i)
  BY DEF Disturbed, Overlap
<1>2. \A q \in Requests : Pending(q, i)' => q = p
  BY <1>1 DEF StepFacts, OneCommit, Commits
<1> QED
  BY <1>2 DEF Disturbed, StalePush

(* A record nobody wrote in this step: it was in step, and stays so.       *)
LEMMA NotWritten ==
    ASSUME InStep, NEW i \in Ids, i \in Live', i \notin disturbed, ~Disturbed(i), StepFacts(i),
           \A p \in Requests : ~Commits(p, i)
    PROVE  /\ \A p, q \in Requests : Pending(p, i)' /\ Pending(q, i)' => p = q
           /\ \A p \in Requests : Pending(p, i)' => Pushed(p, i)' = ValueOf(rows'[i])
           /\ (\A p \in Requests : ~Pending(p, i)') => docs'[i] = ValueOf(rows'[i])
<1>1. rows'[i] = rows[i] /\ i \in Live
  BY DEF StepFacts, RowByCommit, Live
<1>2. \A p \in Requests : Pending(p, i)' => Pending(p, i)
  BY DEF Commits
<1>3. ASSUME \A p \in Requests : ~Pending(p, i)'
      PROVE  docs'[i] = ValueOf(rows[i])
  <2>1. CASE \A p \in Requests : ~Pending(p, i)
    BY <1>1, <2>1 DEF InStep, StepFacts, DocByPush
  <2>2. CASE \E p \in Requests : Pending(p, i)
    <3>1. PICK p \in Requests : Pending(p, i)
      BY <2>2
    <3>2. docs'[i] = Pushed(p, i)
      BY <1>3, <3>1 DEF Disturbed, LostPush, Ends
    <3> QED
      BY <1>1, <3>1, <3>2 DEF InStep
  <2> QED
    BY <2>1, <2>2
<1> QED
  BY <1>1, <1>2, <1>3 DEF InStep, StepFacts, PushKept

LEMMA NextSync == SyncInv /\ [ISNext]_isvars => SyncInv'
<1> SUFFICES ASSUME SyncInv, [ISNext]_isvars PROVE SyncInv'
  OBVIOUS
<1>1. [Next]_vars
  BY DEF ISNext, isvars
<1>2. TypeInv'
  BY <1>1, NextTypeInv DEF SyncInv
<1>3. CASE ISNext
  <2>1. ASSUME NEW i \in Live', i \notin disturbed'
        PROVE  /\ \A p, q \in Requests : Pending(p, i)' /\ Pending(q, i)' => p = q
               /\ \A p \in Requests : Pending(p, i)' => Pushed(p, i)' = ValueOf(rows'[i])
               /\ (\A p \in Requests : ~Pending(p, i)') => docs'[i] = ValueOf(rows'[i])
    <3>1. i \in Ids /\ ~Disturbed(i) /\ (i \in disturbed => WrittenAlone(i))
      BY <1>3, <2>1 DEF ISNext, Live
    <3>2. StepFacts(i)
      BY <1>1, <3>1, AllStepFacts DEF SyncInv
    <3>3. CASE \E p \in Requests : Commits(p, i)
      <4>1. PICK p \in Requests : Commits(p, i)
        BY <3>3
      <4>2. Pending(p, i)'
        BY <4>1 DEF Commits
      <4> QED
        BY <3>1, <3>2, <4>1, <4>2, JustWritten
    <3>4. CASE \A p \in Requests : ~Commits(p, i)
      <4>1. i \notin disturbed
        BY <3>1, <3>4 DEF WrittenAlone
      <4> QED
        BY <2>1, <3>1, <3>2, <3>4, <4>1, NotWritten DEF SyncInv
    <3> QED
      BY <3>3, <3>4
  <2> QED
    BY <1>2, <2>1 DEF SyncInv, InStep
<1>4. CASE UNCHANGED isvars
  <2>1. InStep'
    BY <1>4 DEF SyncInv, InStep, isvars, vars, Live, Pending, Pushed
  <2> QED
    BY <1>2, <2>1 DEF SyncInv
<1> QED
  BY <1>3, <1>4

(* "Index synchronization after database commit", made exact: whatever the *)
(* number of requests, records and faults, a live record's document is its *)
(* value unless a push for it is on its way or the last write to it was    *)
(* disturbed -- overlapped, out of date or lost.                           *)
THEOREM IndexFollowsDatabase == ISSpec => []IndexAgrees
<1>1. SyncInv => IndexAgrees
  BY DEF SyncInv, InStep, IndexAgrees
<1> QED
  BY InitSync, NextSync, <1>1, PTL DEF ISSpec

(* The condition behind it, for every id at every instant: unless its last *)
(* write was disturbed, at most one push for a live record is on its way,  *)
(* that push carries the value of the committed row, and with none on its  *)
(* way the document is the row's value (services/pricing_service.py,       *)
(* update_record and the chunks of upload_csv).                            *)
THEOREM SynchronizationHolds == ISSpec => []InStep
<1>1. SyncInv => InStep
  BY DEF SyncInv
<1> QED
  BY InitSync, NextSync, <1>1, PTL DEF ISSpec
=============================================================================
