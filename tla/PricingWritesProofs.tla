------------------------- MODULE PricingWritesProofs -------------------------
(* Theorems about PricingWrites for every value of its constants: the type *)
(* invariant, the uniqueness of business keys and the completeness of the  *)
(* audit trail, from one inductive invariant, and that it implements       *)
(* Catalog.                                                                *)
EXTENDS PricingWrites, TLAPS, FiniteSetTheorems

(* What a request carries at each point of its handler.                    *)
Shape ==
    /\ \A e \in Editors :
          /\ ed[e].pc = "read" => ed[e].id \in Ids /\ ed[e].change \in Change /\ ed[e].seen \in Val
          /\ ed[e].pc = "committed" => ed[e].id \in Ids /\ ed[e].push \in Line
          /\ ed[e].pc = "indexed" => ed[e].id \in Ids
    /\ \A u \in Uploads :
          /\ up[u].pc = "index" => up[u].n < Len(up[u].file)
          /\ up[u].pc = "idle" => up[u].file = << >>

TypeInv == TypeOK /\ Shape

-----------------------------------------------------------------------------
LEMMA InitTypeInv == Init => TypeInv
<1> SUFFICES ASSUME Init PROVE TypeInv
  OBVIOUS
<1> USE NoneIsFresh, ConstantTypes, SeedIsUnique, RoundingIsIdempotent
<1>1. rows \in [Ids -> Row \cup {None}]
  BY DEF Init, Row, Val
<1>2. used \subseteq Ids /\ audits \subseteq Audit /\ docs \in [Ids -> Line \cup {None}]
  BY DEF Init, Val, Line
<1>3. feeds \in [Uploads -> Feed \cup {None}]
  BY DEF Init
<1>4. ed \in [Editors -> EditState]
  BY DEF Init, EditState, EditIdle
<1>5. up \in [Uploads -> UploadState]
  BY DEF Init, UploadState, UploadIdle, NoPush
<1>6. Shape
  BY DEF Init, Shape, EditIdle, UploadIdle
<1> QED
  BY <1>1, <1>2, <1>3, <1>4, <1>5, <1>6 DEF TypeInv, TypeOK

(* A chunk of an uploaded file is a sequence of lines.                     *)
LEMMA ChunkType ==
    ASSUME TypeInv, NEW u \in Uploads, up[u].n < Len(up[u].file)
    PROVE  up[u].file[up[u].n + 1] \in Seq(Line)
<1>1. up[u] \in UploadState
  BY DEF TypeInv, TypeOK
<1>2. up[u].n \in Nat /\ up[u].file \in Files \cup {<< >>}
  BY <1>1 DEF UploadState
<1>3. up[u].file # << >>
  BY <1>2
<1>4. up[u].file \in Seq(Seq(Line))
  BY <1>2, <1>3, ConstantTypes
<1> QED
  BY <1>2, <1>4

(* An accepted chunk leaves, on every id it lands on, one of its lines.    *)
LEMMA UpsertedRow ==
    ASSUME NEW chunk \in Seq(Line), Acceptable(chunk),
           NEW at \in Placements(chunk), NEW u \in Uploads,
           NEW i \in Ids, LineAt(chunk, at, i) # {}
    PROVE  \E l \in DOMAIN chunk :
             /\ at[chunk[l].key] = i
             /\ chunk[l].key \in Keys /\ Stored[chunk[l].price] \in Prices
             /\ UpsertedRows(u, chunk, at)[i] = Ingested(u, chunk[l])
<1> DEFINE l == CHOOSE m \in LineAt(chunk, at, i) : TRUE
<1>1. l \in LineAt(chunk, at, i)
  OBVIOUS
<1>2. l \in DOMAIN chunk /\ at[chunk[l].key] = i
  BY <1>1 DEF LineAt
<1>3. chunk[l] \in Line
  BY <1>2
<1>4. chunk[l].key \in Keys /\ Stored[chunk[l].price] \in Prices
  BY <1>2, <1>3, RoundingIsIdempotent DEF Line, Acceptable
<1>5. UpsertedRows(u, chunk, at)[i] = Ingested(u, chunk[l])
  BY DEF UpsertedRows
<1> QED
  BY <1>2, <1>4, <1>5

(* RETURNING hands back, for those ids and no others, the row's value.     *)
LEMMA CanonicalValue ==
    ASSUME NEW chunk \in Seq(Line), Acceptable(chunk),
           NEW at \in Placements(chunk), NEW u \in Uploads
    PROVE  /\ UpsertedRows(u, chunk, at) \in [Ids -> Row \cup {rows[i] : i \in Ids}]
           /\ Canonical(u, chunk, at) \in [Ids -> Line \cup {None}]
           /\ \A i \in Ids :
                IF LineAt(chunk, at, i) = {}
                THEN UpsertedRows(u, chunk, at)[i] = rows[i] /\ Canonical(u, chunk, at)[i] = None
                ELSE /\ UpsertedRows(u, chunk, at)[i] \in Row
                     /\ Canonical(u, chunk, at)[i] = ValueOf(UpsertedRows(u, chunk, at)[i])
                     /\ Canonical(u, chunk, at)[i] \in Line
<1>1. ASSUME NEW i \in Ids, LineAt(chunk, at, i) = {}
      PROVE  UpsertedRows(u, chunk, at)[i] = rows[i] /\ Canonical(u, chunk, at)[i] = None
  BY <1>1 DEF UpsertedRows, Canonical
<1>2. ASSUME NEW i \in Ids, LineAt(chunk, at, i) # {}
      PROVE  /\ UpsertedRows(u, chunk, at)[i] \in Row
             /\ Canonical(u, chunk, at)[i] = ValueOf(UpsertedRows(u, chunk, at)[i])
             /\ Canonical(u, chunk, at)[i] \in Line
  <2>1. UpsertedRows(u, chunk, at)[i] \in Row
    <3>1. PICK l \in DOMAIN chunk :
             /\ chunk[l].key \in Keys /\ Stored[chunk[l].price] \in Prices
             /\ UpsertedRows(u, chunk, at)[i] = Ingested(u, chunk[l])
      BY <1>2, UpsertedRow
    <3>2. UploadUser(u) \in Editors \cup Uploads \cup {None}
      BY DEF UploadUser
    <3> QED
      BY <3>1, <3>2 DEF Row, Ingested
  <2>2. Canonical(u, chunk, at)[i] = ValueOf(UpsertedRows(u, chunk, at)[i])
    BY <1>2 DEF Canonical
  <2>3. ValueOf(UpsertedRows(u, chunk, at)[i]) \in Line
    BY <2>1, RoundingIsIdempotent DEF ValueOf, Line, Row
  <2> QED
    BY <2>1, <2>2, <2>3
<1>3. UpsertedRows(u, chunk, at) \in [Ids -> Row \cup {rows[i] : i \in Ids}]
  <2>1. \A i \in Ids : UpsertedRows(u, chunk, at)[i] \in Row \cup {rows[j] : j \in Ids}
    BY <1>1, <1>2
  <2> QED
    BY <2>1 DEF UpsertedRows
<1>4. Canonical(u, chunk, at) \in [Ids -> Line \cup {None}]
  <2>1. \A i \in Ids : Canonical(u, chunk, at)[i] \in Line \cup {None}
    BY <1>1, <1>2
  <2> QED
    BY <2>1 DEF Canonical
<1> QED
  BY <1>1, <1>2, <1>3, <1>4
-----------------------------------------------------------------------------
(* A request's record is replaced by one of the right type and shape.      *)
EditShape(x) ==
    /\ x \in EditState
    /\ x.pc = "read" => x.id \in Ids /\ x.change \in Change /\ x.seen \in Val
    /\ x.pc = "committed" => x.id \in Ids /\ x.push \in Line
    /\ x.pc = "indexed" => x.id \in Ids
UploadShape(x) ==
    /\ x \in UploadState
    /\ x.pc = "index" => x.n < Len(x.file)
    /\ x.pc = "idle" => x.file = << >>

LEMMA EditPut ==
    ASSUME TypeInv, NEW e \in Editors, NEW x, EditShape(x),
           ed' = [ed EXCEPT ![e] = x], UNCHANGED up,
           rows' \in [Ids -> Row \cup {None}], used' \subseteq Ids, audits' \subseteq Audit,
           docs' \in [Ids -> Line \cup {None}], feeds' \in [Uploads -> Feed \cup {None}]
    PROVE  TypeInv'
  BY DEF TypeInv, TypeOK, Shape, EditShape

LEMMA UploadPut ==
    ASSUME TypeInv, NEW u \in Uploads, NEW x, UploadShape(x),
           up' = [up EXCEPT ![u] = x], UNCHANGED ed,
           rows' \in [Ids -> Row \cup {None}], used' \subseteq Ids, audits' \subseteq Audit,
           docs' \in [Ids -> Line \cup {None}], feeds' \in [Uploads -> Feed \cup {None}]
    PROVE  TypeInv'
  BY DEF TypeInv, TypeOK, Shape, UploadShape

LEMMA EditEndShape ==
    ASSUME NEW i \in Ids \cup {None}, NEW res \in {"200", "404", "409", "500", None}
    PROVE  EditShape([EditIdle EXCEPT !.pc = "done", !.id = i, !.res = res])
  BY DEF EditShape, EditState, EditIdle

LEMMA UploadEndShape ==
    ASSUME TypeInv, NEW u \in Uploads, NEW res \in {"200", "4xx", "400", "500", None}
    PROVE  UploadShape([up[u] EXCEPT !.pc = "done", !.push = NoPush, !.attempts = 0,
                                     !.res = res])
<1>1. up[u] \in UploadState
  BY DEF TypeInv, TypeOK
<1>2. 0 \in 0 .. MaxAttempts - 1
  BY ConstantTypes
<1>3. NoPush \in [Ids -> Line \cup {None}]
  BY DEF NoPush
<1> QED
  BY <1>1, <1>2, <1>3 DEF UploadShape, UploadState

LEMMA EditReadType ==
    ASSUME TypeInv, NEW e \in Editors, EditRead(e) PROVE TypeInv'
<1>1. PICK i \in Ids :
          \/ /\ i \in Live
             /\ \E c \in Changes :
                   ed' = [ed EXCEPT ![e] = [EditIdle EXCEPT !.pc = "read", !.id = i,
                                            !.change = c, !.seen = ValueOf(rows[i])]]
          \/ i \notin Live /\ EditEnd(e, i, "404")
          \/ "db" \in Faults /\ EditEnd(e, i, "500")
  BY DEF EditRead
<1>2. UNCHANGED <<rows, used, audits, feeds, docs, up>>
  BY DEF EditRead, db
<1>3. ASSUME i \in Live, NEW c \in Changes
      PROVE  EditShape([EditIdle EXCEPT !.pc = "read", !.id = i,
                                        !.change = c, !.seen = ValueOf(rows[i])])
  <2>1. rows[i] \in Row
    BY <1>3 DEF Live, TypeInv, TypeOK
  <2>2. ValueOf(rows[i]) \in Val
    BY <2>1 DEF ValueOf, Row, Val
  <2> QED
    BY <2>2, ConstantTypes DEF EditShape, EditState, EditIdle
<1>4. PICK x : EditShape(x) /\ ed' = [ed EXCEPT ![e] = x]
  BY <1>1, <1>3, EditEndShape DEF EditEnd
<1> QED
  BY <1>2, <1>4, EditPut DEF TypeInv, TypeOK

(* The entry and the document show amounts, the row a price.               *)
LEMMA EditWriteValues ==
    ASSUME TypeInv, NEW e \in Editors, EditWrite(e)
    PROVE  /\ ed[e].id \in Live /\ ed[e].change \in Change /\ ed[e].seen \in Val
           /\ ed[e] \in EditState /\ ed[e].pc = "read"
           /\ rows[ed[e].id] \in Row
           /\ AuditOf(e) \in Audit /\ AuditOf(e).new \in Line
           /\ Edited(e, rows[ed[e].id]).price # None => Edited(e, rows[ed[e].id]) \in Row
<1> DEFINE i == ed[e].id
           v == Overlay(ValueOf(rows[i]), ed[e].change)
<1>1. /\ i \in Live /\ i \in Ids /\ ed[e].change \in Change /\ ed[e].seen \in Val
      /\ ed[e] \in EditState /\ ed[e].pc = "read" /\ rows[i] \in Row
  BY DEF EditWrite, TypeInv, TypeOK, Shape, Live
<1>2. AuditOf(e) \in Audit /\ AuditOf(e).new \in Line
  BY <1>1, RoundingIsIdempotent DEF AuditOf, Audit, Overlay, Val, Line, Change
<1>3. v.key \in Keys /\ v.price \in Amounts
  BY <1>1, RoundingIsIdempotent DEF Overlay, ValueOf, Row, Change
<1>4. Stored[v.price] \in Prices \cup {None}
  BY <1>3, RoundingIsIdempotent
<1>5. Edited(e, rows[i]) = [key |-> v.key, price |-> Stored[v.price], src |-> "manual",
                            by |-> e, feed |-> rows[i].feed]
  BY DEF Edited
<1>6. rows[i].feed \in Uploads \cup {None}
  BY <1>1 DEF Row
<1>7. Edited(e, rows[i]).price # None => Edited(e, rows[i]) \in Row
  <2> HIDE DEF v
  <2> QED
    BY <1>3, <1>4, <1>5, <1>6 DEF Row
<1> QED
  BY <1>1, <1>2, <1>7

LEMMA EditWriteType ==
    ASSUME TypeInv, NEW e \in Editors, EditWrite(e) PROVE TypeInv'
<1> DEFINE i == ed[e].id
           row == Edited(e, rows[i])
<1>1. i \in Live /\ i \in Ids /\ AuditOf(e) \in Audit /\ AuditOf(e).new \in Line
  BY EditWriteValues DEF Live
<1>2. CASE /\ row.price # None
           /\ rows' = [rows EXCEPT ![i] = row]
           /\ audits' = audits \cup {AuditOf(e)}
           /\ ed' = [ed EXCEPT ![e] = [EditIdle EXCEPT !.pc = "committed", !.id = i,
                                                      !.push = AuditOf(e).new]]
  <2>1. row \in Row
    BY <1>2, EditWriteValues
  <2>2. EditShape([EditIdle EXCEPT !.pc = "committed", !.id = i, !.push = AuditOf(e).new])
    BY <1>1 DEF EditShape, EditState, EditIdle
  <2> HIDE DEF row
  <2> QED
    BY <1>1, <1>2, <2>1, <2>2, EditPut DEF EditWrite, TypeInv, TypeOK
<1>3. CASE /\ EditEnd(e, i, "409") \/ EditEnd(e, i, "500")
           /\ UNCHANGED <<rows, audits>>
  <2>1. PICK x : EditShape(x) /\ ed' = [ed EXCEPT ![e] = x]
    BY <1>1, <1>3, EditEndShape DEF EditEnd
  <2> QED
    BY <1>3, <2>1, EditPut DEF EditWrite, TypeInv, TypeOK
<1> QED
  BY <1>2, <1>3 DEF EditWrite

LEMMA EditIndexType ==
    ASSUME TypeInv, NEW e \in Editors, EditIndex(e) PROVE TypeInv'
<1> DEFINE i == ed[e].id
<1>1. i \in Ids /\ ed[e].push \in Line /\ ed[e] \in EditState
  BY DEF EditIndex, TypeInv, TypeOK, Shape
<1>2. docs' \in [Ids -> Line \cup {None}]
  BY <1>1 DEF EditIndex, TypeInv, TypeOK
<1>3. PICK x : EditShape(x) /\ ed' = [ed EXCEPT ![e] = x]
  <2>1. EditShape([ed[e] EXCEPT !.pc = "indexed"])
    BY <1>1 DEF EditShape, EditState
  <2>2. \/ ed' = [ed EXCEPT ![e] = [ed[e] EXCEPT !.pc = "indexed"]]
        \/ EditEnd(e, i, "500")
    BY DEF EditIndex
  <2> QED
    BY <1>1, <2>1, <2>2, EditEndShape DEF EditEnd
<1> QED
  BY <1>2, <1>3, EditPut DEF EditIndex, TypeInv, TypeOK, db

LEMMA EditStopType ==
    ASSUME TypeInv, NEW e \in Editors, EditRespond(e) \/ EditCrash(e) PROVE TypeInv'
<1>1. ed[e].id \in Ids
  BY DEF EditRespond, EditCrash, TypeInv, Shape
<1>2. PICK x : EditShape(x) /\ ed' = [ed EXCEPT ![e] = x]
  BY <1>1, EditEndShape DEF EditEnd, EditRespond, EditCrash
<1> QED
  BY <1>2, EditPut DEF EditRespond, EditCrash, TypeInv, TypeOK, db

LEMMA UploadStartType ==
    ASSUME TypeInv, NEW u \in Uploads, UploadStart(u) PROVE TypeInv'
<1>1. up[u] \in UploadState /\ up[u].pc = "idle"
  BY DEF UploadStart, TypeInv, TypeOK
<1>2. PICK f \in Files :
          \/ /\ feeds' = [feeds EXCEPT ![u] = [status |-> "received", rowCount |-> 0]]
             /\ up' = [up EXCEPT ![u] = [up[u] EXCEPT !.pc = "chunk", !.file = f]]
          \/ /\ up' = [up EXCEPT ![u] = [up[u] EXCEPT !.pc = "failing", !.file = f]]
             /\ UNCHANGED feeds
  BY DEF UploadStart
<1>3. \A p \in {"chunk", "failing"} : UploadShape([up[u] EXCEPT !.pc = p, !.file = f])
  BY <1>1 DEF UploadShape, UploadState
<1>4. feeds' \in [Uploads -> Feed \cup {None}]
  BY <1>2 DEF TypeInv, TypeOK, Feed
<1>5. PICK x : UploadShape(x) /\ up' = [up EXCEPT ![u] = x]
  BY <1>2, <1>3
<1> QED
  BY <1>4, <1>5, UploadPut DEF UploadStart, TypeInv, TypeOK

LEMMA UploadPersistType ==
    ASSUME TypeInv, NEW u \in Uploads, UploadPersist(u) PROVE TypeInv'
<1> DEFINE chunk == up[u].file[up[u].n + 1]
<1>1. up[u] \in UploadState /\ up[u].pc = "chunk" /\ up[u].n < Len(up[u].file)
  BY DEF UploadPersist, TypeInv, TypeOK
<1>2. chunk \in Seq(Line)
  BY <1>1, ChunkType
<1>3. CASE /\ Acceptable(chunk)
           /\ \E at \in Placements(chunk) :
                /\ rows' = UpsertedRows(u, chunk, at)
                /\ used' = used \cup {at[k] : k \in KeysOf(chunk)}
                /\ up' = [up EXCEPT ![u] = [up[u] EXCEPT !.pc = "index",
                                                     !.push = Canonical(u, chunk, at)]]
  <2>1. PICK at \in Placements(chunk) :
                /\ rows' = UpsertedRows(u, chunk, at)
                /\ used' = used \cup {at[k] : k \in KeysOf(chunk)}
                /\ up' = [up EXCEPT ![u] = [up[u] EXCEPT !.pc = "index",
                                                     !.push = Canonical(u, chunk, at)]]
    BY <1>3
  <2>2. rows' \in [Ids -> Row \cup {None}]
    BY <1>2, <1>3, <2>1, CanonicalValue DEF TypeInv, TypeOK
  <2>3. used' \subseteq Ids
    BY <2>1 DEF Placements, TypeInv, TypeOK
  <2>4. Canonical(u, chunk, at) \in [Ids -> Line \cup {None}]
    BY <1>2, <1>3, CanonicalValue
  <2>5. UploadShape([up[u] EXCEPT !.pc = "index", !.push = Canonical(u, chunk, at)])
    BY <1>1, <2>4 DEF UploadShape, UploadState
  <2> QED
    BY <2>1, <2>2, <2>3, <2>5, UploadPut DEF UploadPersist, TypeInv, TypeOK
<1>4. CASE up' = [up EXCEPT ![u] = [up[u] EXCEPT !.pc = "failing"]] /\ UNCHANGED <<rows, used>>
  <2>1. UploadShape([up[u] EXCEPT !.pc = "failing"])
    BY <1>1 DEF UploadShape, UploadState
  <2> QED
    BY <1>4, <2>1, UploadPut DEF UploadPersist, TypeInv, TypeOK
<1> QED
  BY <1>3, <1>4 DEF UploadPersist

LEMMA UploadIndexType ==
    ASSUME TypeInv, NEW u \in Uploads, UploadIndex(u) PROVE TypeInv'
<1>1. up[u] \in UploadState /\ up[u].pc = "index" /\ up[u].n < Len(up[u].file)
  BY DEF UploadIndex, TypeInv, TypeOK, Shape
<1>2. Len(up[u].file[up[u].n + 1]) \in Nat
  BY <1>1, ChunkType
<1>3. docs' \in [Ids -> Line \cup {None}]
  <2>1. PICK applied \in SUBSET Targets(u) : Import(u, applied)
    BY DEF UploadIndex
  <2>2. up[u].push \in [Ids -> Line \cup {None}]
    BY <1>1 DEF UploadState
  <2> QED
    BY <2>1, <2>2 DEF Import, TypeInv, TypeOK
<1>4. NoPush \in [Ids -> Line \cup {None}] /\ 0 \in 0 .. MaxAttempts - 1
  BY ConstantTypes DEF NoPush
<1>5. UploadShape([up[u] EXCEPT !.pc = "chunk", !.attempts = 0, !.push = NoPush,
                     !.n = up[u].n + 1, !.offset = up[u].offset + Len(up[u].file[up[u].n + 1])])
  <2>1. up[u].offset + Len(up[u].file[up[u].n + 1]) \in Nat /\ up[u].n + 1 \in Nat
    BY <1>1, <1>2 DEF UploadState
  <2> QED
    BY <1>1, <1>4, <2>1 DEF UploadShape, UploadState
<1>6. UploadShape([up[u] EXCEPT !.pc = "failing", !.push = NoPush])
  BY <1>1, <1>4 DEF UploadShape, UploadState
<1>7. ASSUME up[u].attempts + 1 # MaxAttempts
      PROVE  UploadShape([up[u] EXCEPT !.attempts = up[u].attempts + 1])
  <2>1. up[u].attempts + 1 \in 0 .. MaxAttempts - 1
    BY <1>1, <1>7, ConstantTypes DEF UploadState
  <2> QED
    BY <1>1, <2>1 DEF UploadShape, UploadState
<1>8. \/ up' = [up EXCEPT ![u] =
              [up[u] EXCEPT !.pc = "chunk", !.attempts = 0, !.push = NoPush,
                 !.n = up[u].n + 1, !.offset = up[u].offset + Len(up[u].file[up[u].n + 1])]]
      \/ up' = [up EXCEPT ![u] = [up[u] EXCEPT !.pc = "failing", !.push = NoPush]]
      \/ /\ up[u].attempts + 1 # MaxAttempts
         /\ up' = [up EXCEPT ![u] = [up[u] EXCEPT !.attempts = up[u].attempts + 1]]
  BY DEF UploadIndex, AfterFailure
<1>9. PICK x : UploadShape(x) /\ up' = [up EXCEPT ![u] = x]
  BY <1>5, <1>6, <1>7, <1>8
<1> QED
  BY <1>3, <1>9, UploadPut DEF UploadIndex, TypeInv, TypeOK, db

LEMMA UploadStopType ==
    ASSUME TypeInv, NEW u \in Uploads,
           UploadReject(u) \/ UploadRespond(u) \/ UploadCrash(u)
    PROVE  TypeInv'
<1>1. PICK x : UploadShape(x) /\ up' = [up EXCEPT ![u] = x]
  BY UploadEndShape DEF UploadEnd, UploadReject, UploadRespond, UploadCrash
<1> QED
  BY <1>1, UploadPut DEF UploadReject, UploadRespond, UploadCrash, TypeInv, TypeOK, db

LEMMA UploadCloseType ==
    ASSUME TypeInv, NEW u \in Uploads, UploadFinish(u) \/ UploadFail(u) PROVE TypeInv'
<1>1. up[u] \in UploadState
  BY DEF TypeInv, TypeOK
<1>2. feeds' \in [Uploads -> Feed \cup {None}]
  BY <1>1 DEF UploadFinish, UploadFail, TypeInv, TypeOK, UploadState, Feed
<1>3. \A p \in {"closed", "failing"} : UploadShape([up[u] EXCEPT !.pc = p])
  BY <1>1 DEF UploadShape, UploadState
<1>4. PICK x : UploadShape(x) /\ up' = [up EXCEPT ![u] = x]
  BY <1>3, UploadEndShape DEF UploadEnd, UploadFinish, UploadFail
<1> QED
  BY <1>2, <1>4, UploadPut DEF UploadFinish, UploadFail, TypeInv, TypeOK

LEMMA NextTypeInv == TypeInv /\ [Next]_vars => TypeInv'
<1> SUFFICES ASSUME TypeInv, [Next]_vars PROVE TypeInv'
  OBVIOUS
<1>1. ASSUME NEW e \in Editors, EditStep(e) \/ EditCrash(e) PROVE TypeInv'
  BY <1>1, EditReadType, EditWriteType, EditIndexType, EditStopType DEF EditStep
<1>2. ASSUME NEW u \in Uploads, UploadStep(u) \/ UploadCrash(u) PROVE TypeInv'
  BY <1>2, UploadStartType, UploadPersistType, UploadIndexType, UploadStopType,
     UploadCloseType DEF UploadStep
<1>3. CASE UNCHANGED vars
  BY <1>3 DEF vars, TypeInv, TypeOK, Shape
<1> QED
  BY <1>1, <1>2, <1>3 DEF Next

(* The stores and the requests keep their types: in particular no request  *)
(* tries an import more than MaxAttempts times, and none indexes a chunk   *)
(* its file does not have.                                                 *)
THEOREM TypeCorrect == Spec => []TypeOK
<1>1. TypeInv => TypeOK
  BY DEF TypeInv
<1> QED
  BY InitTypeInv, NextTypeInv, <1>1, PTL DEF Spec

-----------------------------------------------------------------------------
(* Business keys and the audit trail                                       *)

(* A request that has not committed its edit has no entry in the trail.    *)
Unaudited ==
    \A e \in Editors : ed[e].pc \in {"idle", "read"} => \A a \in audits : a.by # e

(* An id names one record for ever: what is live was drawn before.         *)
Drawn == Live \subseteq used

IInv == TypeInv /\ Drawn /\ UniqueBusinessKey /\ Unaudited /\ AuditTrail

LEMMA InitIInv == Init => IInv
<1> SUFFICES ASSUME Init PROVE IInv
  OBVIOUS
<1>1. TypeInv
  BY InitTypeInv
<1>2. \A i \in Ids : i \in Live => /\ Seed[i] # None /\ rows[i].key = Seed[i].key
                                  /\ rows[i].src = "ingest"
  BY DEF Init, Live
<1>3. Drawn
  BY <1>2 DEF Drawn, Init, Live
<1>4. UniqueBusinessKey
  BY <1>2, SeedIsUnique DEF UniqueBusinessKey, Live
<1>5. Unaudited /\ AuditTrail
  BY <1>2 DEF Unaudited, AuditTrail, Init, Live
<1> QED
  BY <1>1, <1>3, <1>4, <1>5 DEF IInv

(* What an upsert does to the rows: an id in the table keeps its key, an   *)
(* id that was not gets a key nobody had, two ids get two keys.            *)
LEMMA UpsertKeys ==
    ASSUME TypeInv, Drawn, UniqueBusinessKey,
           NEW chunk \in Seq(Line), Acceptable(chunk),
           NEW at \in Placements(chunk), NEW u \in Uploads,
           NEW new, new = UpsertedRows(u, chunk, at), NEW i \in Ids
    PROVE  /\ LineAt(chunk, at, i) = {} => new[i] = rows[i]
           /\ LineAt(chunk, at, i) # {} =>
                /\ new[i] \in Row /\ new[i].src = "ingest" /\ new[i].feed = u
                /\ new[i].key \in KeysOf(chunk) /\ at[new[i].key] = i
                /\ i \in Live => new[i].key = rows[i].key
                /\ \A j \in Live : rows[j].key = new[i].key => j = i
<1>1. CASE LineAt(chunk, at, i) = {}
  BY <1>1 DEF UpsertedRows
<1>2. CASE LineAt(chunk, at, i) # {}
  <2>1. PICK l \in DOMAIN chunk :
           /\ at[chunk[l].key] = i
           /\ chunk[l].key \in Keys /\ Stored[chunk[l].price] \in Prices
           /\ new[i] = Ingested(u, chunk[l])
    BY <1>2, UpsertedRow
  <2>2. chunk[l].key \in KeysOf(chunk)
    BY DEF KeysOf
  <2>3. IF \E j \in Live : rows[j].key = chunk[l].key
        THEN at[chunk[l].key] \in Live /\ rows[at[chunk[l].key]].key = chunk[l].key
        ELSE at[chunk[l].key] \notin used
    BY <2>2 DEF Placements
  <2>4. i \in Live => rows[i].key = chunk[l].key
    BY <2>1, <2>3 DEF Drawn
  <2>5. ASSUME NEW j \in Live, rows[j].key = chunk[l].key PROVE j = i
    BY <2>1, <2>3, <2>5 DEF UniqueBusinessKey
  <2>6. new[i] \in Row
    BY <1>2, CanonicalValue
  <2>7. new[i].src = "ingest" /\ new[i].feed = u /\ new[i].key = chunk[l].key
    BY <2>1 DEF Ingested
  <2> QED
    BY <1>2, <2>1, <2>2, <2>4, <2>5, <2>6, <2>7
<1> QED
  BY <1>1, <1>2

LEMMA UpsertUnique ==
    ASSUME TypeInv, Drawn, UniqueBusinessKey,
           NEW chunk \in Seq(Line), Acceptable(chunk),
           NEW at \in Placements(chunk), NEW u \in Uploads,
           NEW new, new = UpsertedRows(u, chunk, at),
           NEW i \in Ids, NEW j \in Ids, new[i] # None, new[j] # None, new[i].key = new[j].key
    PROVE  i = j
<1>1. CASE LineAt(chunk, at, i) = {} /\ LineAt(chunk, at, j) = {}
  BY <1>1, UpsertKeys DEF UniqueBusinessKey, Live
<1>2. CASE LineAt(chunk, at, i) # {} /\ LineAt(chunk, at, j) = {}
  BY <1>2, UpsertKeys DEF Live
<1>3. CASE LineAt(chunk, at, i) = {} /\ LineAt(chunk, at, j) # {}
  BY <1>3, UpsertKeys DEF Live
<1>4. CASE LineAt(chunk, at, i) # {} /\ LineAt(chunk, at, j) # {}
  BY <1>4, UpsertKeys
<1> QED
  BY <1>1, <1>2, <1>3, <1>4

(* A step that touches neither the records nor the trail.                  *)
LEMMA QuietIInv ==
    ASSUME IInv, TypeInv', UNCHANGED <<rows, used, audits>>,
           \A e \in Editors : ed'[e].pc \in {"idle", "read"} => ed[e].pc \in {"idle", "read"}
    PROVE  IInv'
  BY DEF IInv, Drawn, UniqueBusinessKey, Unaudited, AuditTrail, Live

LEMMA EditReadIInv ==
    ASSUME IInv, NEW e \in Editors, EditRead(e), TypeInv' PROVE IInv'
<1>1. UNCHANGED <<rows, used, audits>>
  BY DEF EditRead, db
<1>2. \E x : ed' = [ed EXCEPT ![e] = x]
  BY DEF EditRead, EditEnd
<1>3. \A d \in Editors : ed'[d].pc \in {"idle", "read"} => ed[d].pc \in {"idle", "read"}
  BY <1>2 DEF EditRead, IInv, TypeInv, TypeOK
<1> QED
  BY <1>1, <1>3, QuietIInv

LEMMA EditWriteIInv ==
    ASSUME IInv, NEW e \in Editors, EditWrite(e), TypeInv' PROVE IInv'
<1> DEFINE i == ed[e].id
<1>1. /\ i \in Ids /\ ed[e].change \in Change /\ ed[e].seen \in Val /\ ed[e].pc = "read"
      /\ ed \in [Editors -> EditState] /\ rows \in [Ids -> Row \cup {None}] /\ i \in Live
  BY DEF EditWrite, IInv, TypeInv, TypeOK, Shape
<1>2. CASE /\ Edited(e, rows[i]).price # None
           /\ ~KeyTaken(Edited(e, rows[i]).key, i)
           /\ rows' = [rows EXCEPT ![i] = Edited(e, rows[i])]
           /\ audits' = audits \cup {AuditOf(e)}
           /\ ed' = [ed EXCEPT ![e] = [EditIdle EXCEPT !.pc = "committed", !.id = i,
                                                      !.push = AuditOf(e).new]]
  <2>1. rows[i] \in Row /\ Edited(e, rows[i]) \in Row
    BY <1>2, EditWriteValues DEF IInv
  <2>2. Live' = Live /\ Edited(e, rows[i]) # None
    BY <1>1, <1>2, <2>1, NoneIsFresh DEF Live
  <2>3. Drawn'
    BY <2>2 DEF Drawn, IInv, EditWrite
  <2>4. UniqueBusinessKey'
    BY <1>1, <1>2, <2>2 DEF UniqueBusinessKey, KeyTaken, IInv, Live
  <2>5. /\ AuditOf(e).by = e /\ AuditOf(e).id = i
        /\ AuditOf(e).new = Overlay(ed[e].seen, ed[e].change)
        /\ AuditOf(e).old = ed[e].seen
    BY DEF AuditOf
  <2>6. \A a \in audits : a.by # e
    BY <1>1 DEF IInv, Unaudited
  <2>7. Unaudited'
    <3>1. ed'[e].pc = "committed"
      BY <1>1, <1>2 DEF EditIdle
    <3> QED
      BY <1>1, <1>2, <2>5, <3>1 DEF Unaudited, IInv
  <2>8. \A a, b \in audits' : a.by = b.by => a = b
    BY <1>2, <2>5, <2>6 DEF IInv, AuditTrail
  <2>9. ASSUME NEW j \in Live', rows'[j].src = "manual"
        PROVE  \E a \in audits' :
                  /\ a.id = j /\ a.by = rows'[j].by
                  /\ a.new.key   # a.old.key   => rows'[j].key   = a.new.key
                  /\ a.new.price # a.old.price => rows'[j].price = Stored[a.new.price]
    <3>1. CASE j # i
      BY <1>1, <1>2, <2>2, <2>9, <3>1 DEF IInv, AuditTrail, Live
    <3>2. CASE j = i
      <4>1. rows'[i] = Edited(e, rows[i])
        BY <1>1, <1>2
      <4>2. rows'[i].by = e
        BY <4>1 DEF Edited
      <4>3. AuditOf(e).new.key # AuditOf(e).old.key => rows'[i].key = AuditOf(e).new.key
        BY <2>5, <4>1 DEF Edited, Overlay
      <4>4. AuditOf(e).new.price # AuditOf(e).old.price => rows'[i].price = Stored[AuditOf(e).new.price]
        BY <2>5, <4>1 DEF Edited, Overlay
      <4> QED
        BY <1>2, <2>5, <3>2, <4>2, <4>3, <4>4
    <3> QED
      BY <3>1, <3>2
  <2> QED
    BY <2>3, <2>4, <2>7, <2>8, <2>9 DEF IInv, AuditTrail
<1>3. CASE /\ EditEnd(e, i, "409") \/ EditEnd(e, i, "500")
           /\ UNCHANGED <<rows, audits>>
  <2>1. \A d \in Editors : ed'[d].pc \in {"idle", "read"} => ed[d].pc \in {"idle", "read"}
    BY <1>1, <1>3 DEF EditEnd
  <2> QED
    BY <1>3, <2>1, QuietIInv DEF EditWrite
<1> QED
  BY <1>2, <1>3 DEF EditWrite

LEMMA EditLaterIInv ==
    ASSUME IInv, NEW e \in Editors, EditIndex(e) \/ EditRespond(e) \/ EditCrash(e), TypeInv'
    PROVE  IInv'
<1>1. ed \in [Editors -> EditState]
  BY DEF IInv, TypeInv, TypeOK
<1>2. ASSUME NEW i, NEW res, EditEnd(e, i, res) PROVE ed'[e].pc = "done"
  BY <1>1, <1>2 DEF EditEnd, EditIdle
<1>3. ed'[e].pc \in {"indexed", "done"}
  <2>1. CASE ed' = [ed EXCEPT ![e].pc = "indexed"]
    BY <1>1, <2>1 DEF EditState
  <2>2. CASE EditEnd(e, ed[e].id, "500") \/ EditRespond(e) \/ EditCrash(e)
    BY <1>2, <2>2 DEF EditRespond, EditCrash
  <2> QED
    BY <2>1, <2>2 DEF EditIndex
<1>4. \A d \in Editors \ {e} : ed'[d] = ed[d]
  BY <1>1 DEF EditIndex, EditRespond, EditCrash, EditEnd
<1>5. \A d \in Editors : ed'[d].pc \in {"idle", "read"} => ed[d].pc \in {"idle", "read"}
  BY <1>3, <1>4
<1> QED
  BY <1>5, QuietIInv DEF EditIndex, EditRespond, EditCrash, db

LEMMA UploadPersistIInv ==
    ASSUME IInv, NEW u \in Uploads, UploadPersist(u), TypeInv' PROVE IInv'
<1> DEFINE chunk == up[u].file[up[u].n + 1]
<1>1. chunk \in Seq(Line)
  BY ChunkType DEF UploadPersist, IInv
<1>2. CASE UNCHANGED <<rows, used>>
  BY <1>2, QuietIInv DEF UploadPersist
<1>3. CASE /\ Acceptable(chunk)
           /\ \E at \in Placements(chunk) :
                /\ rows' = UpsertedRows(u, chunk, at)
                /\ used' = used \cup {at[k] : k \in KeysOf(chunk)}
  <2>1. PICK at \in Placements(chunk) :
                /\ rows' = UpsertedRows(u, chunk, at)
                /\ used' = used \cup {at[k] : k \in KeysOf(chunk)}
    BY <1>3
  <2>2. ASSUME NEW i \in Ids
        PROVE  /\ LineAt(chunk, at, i) = {} => rows'[i] = rows[i]
               /\ LineAt(chunk, at, i) # {} =>
                    /\ rows'[i] \in Row /\ rows'[i].src = "ingest"
                    /\ rows'[i].key \in KeysOf(chunk) /\ at[rows'[i].key] = i
    BY <1>1, <1>3, <2>1, UpsertKeys DEF IInv
  <2>4. Drawn'
    BY <2>1, <2>2 DEF Drawn, Live, IInv
  <2>5. UniqueBusinessKey'
    BY <1>1, <1>3, <2>1, UpsertUnique DEF UniqueBusinessKey, Live, IInv
  <2>6. UNCHANGED <<audits, ed>>
    BY DEF UploadPersist
  <2>7. Unaudited'
    BY <2>6 DEF Unaudited, IInv
  <2>8. \A i \in Live' : rows'[i].src = "manual" => i \in Live /\ rows'[i] = rows[i]
    BY <2>2 DEF Live
  <2>9. AuditTrail'
    BY <2>6, <2>8 DEF AuditTrail, IInv
  <2> QED
    BY <2>4, <2>5, <2>7, <2>9 DEF IInv
<1> QED
  BY <1>2, <1>3 DEF UploadPersist

LEMMA UploadOtherIInv ==
    ASSUME IInv, NEW u \in Uploads, TypeInv',
           \/ UploadReject(u) \/ UploadStart(u) \/ UploadIndex(u) \/ UploadFinish(u)
           \/ UploadFail(u) \/ UploadRespond(u) \/ UploadCrash(u)
    PROVE  IInv'
<1>1. UNCHANGED <<rows, used, audits, ed>>
  BY DEF UploadReject, UploadStart, UploadIndex, UploadFinish, UploadFail, UploadRespond,
         UploadCrash, db
<1> QED
  BY <1>1, QuietIInv

LEMMA NextIInv == IInv /\ [Next]_vars => IInv'
<1> SUFFICES ASSUME IInv, [Next]_vars PROVE IInv'
  OBVIOUS
<1>1. TypeInv'
  BY NextTypeInv DEF IInv
<1>2. ASSUME NEW e \in Editors, EditStep(e) \/ EditCrash(e) PROVE IInv'
  BY <1>1, <1>2, EditReadIInv, EditWriteIInv, EditLaterIInv DEF EditStep
<1>3. ASSUME NEW u \in Uploads, UploadStep(u) \/ UploadCrash(u) PROVE IInv'
  BY <1>1, <1>3, UploadPersistIInv, UploadOtherIInv DEF UploadStep
<1>4. CASE UNCHANGED vars
  BY <1>1, <1>4, QuietIInv DEF vars
<1> QED
  BY <1>1, <1>2, <1>3, <1>4 DEF Next

(* No two records ever share a business key, however many requests edit    *)
(* keys and upload files at once and wherever they fail.                   *)
THEOREM KeysStayUnique == Spec => []UniqueBusinessKey
<1>1. IInv => UniqueBusinessKey
  BY DEF IInv
<1> QED
  BY InitIInv, NextIInv, <1>1, PTL DEF Spec

(* The audit trail stays complete for any number of edits, uploads and     *)
(* crashes, and however prices round: a request has at most one entry, and *)
(* a record marked manual shows what its author's entry says was changed,  *)
(* a price as the column stores the one that was sent.                     *)
THEOREM TrailIsComplete == Spec => []AuditTrail
<1>1. IInv => AuditTrail
  BY DEF IInv
<1> QED
  BY InitIInv, NextIInv, <1>1, PTL DEF Spec

-----------------------------------------------------------------------------
(* PricingWrites implements Catalog: what the handlers do between their    *)
(* awaits adds up to atomic corrections and whole chunks.                  *)

FilesNow == [u \in Uploads |-> up[u].file]
TablesNow == <<rows, audits, FilesNow>>

LEMMA InitRefines == Init => Abstract!Init
  BY DEF Init, UploadIdle, Abstract!Init

LEMMA EditWriteRefines ==
    ASSUME IInv, IInv', NEW e \in Editors, EditWrite(e)
    PROVE  [Abstract!Next]_TablesNow
<1> DEFINE i == ed[e].id
<1>1. UNCHANGED FilesNow
  BY DEF EditWrite, FilesNow
<1>2. CASE /\ rows' = [rows EXCEPT ![i] = Edited(e, rows[i])]
           /\ audits' = audits \cup {AuditOf(e)}
  <2>1. /\ i \in Ids /\ ed[e].change \in Change /\ ed[e].seen \in Val /\ i \in Live
        /\ rows \in [Ids -> Row \cup {None}] /\ ed[e].pc = "read"
    BY DEF EditWrite, IInv, TypeInv, TypeOK, Shape
  <2>2. rows'[i] = Edited(e, rows[i])
    BY <1>2, <2>1
  <2>3. /\ AuditOf(e).by = e /\ AuditOf(e).id = i
        /\ AuditOf(e).new = Overlay(ed[e].seen, ed[e].change)
    BY DEF AuditOf
  <2>4. rows[i] \in Row
    BY <2>1 DEF Live
  <2>5. /\ rows'[i].key \in {rows[i].key, AuditOf(e).new.key}
        /\ rows'[i].price \in {rows[i].price, Stored[AuditOf(e).new.price]}
    <3>1. Stored[rows[i].price] = rows[i].price
      BY <2>4, RoundingIsIdempotent DEF Row
    <3> QED
      BY <2>2, <2>3, <3>1 DEF Edited, Overlay, ValueOf
  <2>6. rows' = [rows EXCEPT ![i] = [key |-> rows'[i].key, price |-> rows'[i].price,
                                     src |-> "manual", by |-> e, feed |-> rows[i].feed]]
    BY <1>2, <2>2 DEF Edited
  <2>7. \A a \in audits : a.by # e
    BY <2>1 DEF IInv, Unaudited
  <2>8. Abstract!UniqueKeys(rows')
    BY DEF IInv, UniqueBusinessKey, Live, Abstract!UniqueKeys, Abstract!Live
  <2>9. i \in Abstract!Live(rows)
    BY <2>1 DEF Live, Abstract!Live
  <2>10. Abstract!Correct(e, i)
    BY <1>1, <1>2, <2>3, <2>5, <2>6, <2>7, <2>8, <2>9 DEF Abstract!Correct, FilesNow
  <2> QED
    BY <2>1, <2>10 DEF Abstract!Next
<1>3. CASE UNCHANGED <<rows, audits>>
  BY <1>1, <1>3 DEF TablesNow
<1> QED
  BY <1>2, <1>3 DEF EditWrite

(* Every line of the chunk is what the row it lands on becomes.            *)
LEMMA ChunkArrives ==
    ASSUME TypeInv, NEW chunk \in Seq(Line), Acceptable(chunk),
           NEW at \in Placements(chunk), NEW u \in Uploads, NEW l \in DOMAIN chunk,
           NEW i, i = at[chunk[l].key]
    PROVE  /\ i \in Ids /\ LineAt(chunk, at, i) # {}
           /\ UpsertedRows(u, chunk, at)[i] = Ingested(u, chunk[l])
<1>1. chunk[l].key \in KeysOf(chunk)
  BY DEF KeysOf
<1>2. i \in Ids
  BY <1>1 DEF Placements
<1>3. LineAt(chunk, at, i) # {}
  BY DEF LineAt
<1>4. PICK m \in DOMAIN chunk :
         /\ at[chunk[m].key] = i
         /\ chunk[m].key \in Keys /\ Stored[chunk[m].price] \in Prices
         /\ UpsertedRows(u, chunk, at)[i] = Ingested(u, chunk[m])
  BY <1>2, <1>3, UpsertedRow
<1>5. chunk[m].key \in KeysOf(chunk)
  BY DEF KeysOf
<1>6. chunk[m].key = chunk[l].key
  BY <1>1, <1>4, <1>5 DEF Placements
<1>7. m = l
  BY <1>6 DEF Acceptable
<1> QED
  BY <1>2, <1>3, <1>4, <1>7

LEMMA UploadPersistRefines ==
    ASSUME IInv, IInv', NEW u \in Uploads, UploadPersist(u)
    PROVE  [Abstract!Next]_TablesNow
<1> DEFINE c == up[u].n + 1
           chunk == up[u].file[c]
<1>1. chunk \in Seq(Line)
  BY ChunkType DEF UploadPersist, IInv
<1>2. UNCHANGED <<audits, FilesNow>>
  <2>1. UNCHANGED audits
    BY DEF UploadPersist
  <2>2. up \in [Uploads -> UploadState]
    BY DEF IInv, TypeInv, TypeOK
  <2>3. \/ up' = [up EXCEPT ![u] = [up[u] EXCEPT !.pc = "failing"]]
        \/ \E p : up' = [up EXCEPT ![u] = [up[u] EXCEPT !.pc = "index", !.push = p]]
    BY DEF UploadPersist
  <2>4. \E x : up' = [up EXCEPT ![u] = x] /\ x.file = up[u].file
    <3>1. up[u] \in UploadState
      BY <2>2
    <3>2. [up[u] EXCEPT !.pc = "failing"].file = up[u].file
      BY <3>1 DEF UploadState
    <3>3. \A p : [up[u] EXCEPT !.pc = "index", !.push = p].file = up[u].file
      BY <3>1 DEF UploadState
    <3> QED
      BY <2>3, <3>2, <3>3
  <2>5. \A v \in Uploads : up'[v].file = up[v].file
    BY <2>2, <2>4
  <2> QED
    BY <2>1, <2>5 DEF FilesNow
<1>3. CASE UNCHANGED rows
  BY <1>2, <1>3 DEF TablesNow
<1>4. CASE Acceptable(chunk) /\ \E at \in Placements(chunk) : rows' = UpsertedRows(u, chunk, at)
  <2>1. PICK at \in Placements(chunk) : rows' = UpsertedRows(u, chunk, at)
    BY <1>4
  <2>2. UploadUser(u) \in {u, None}
    BY DEF UploadUser
  <2>3. ASSUME NEW l \in DOMAIN chunk
        PROVE  \E i \in Abstract!Live(rows') : Abstract!Delivers(u, chunk[l], rows'[i])
    <3>1. PICK i \in Ids :
            /\ LineAt(chunk, at, i) # {}
            /\ UpsertedRows(u, chunk, at)[i] = Ingested(u, chunk[l])
      BY <1>1, <1>4, ChunkArrives DEF IInv
    <3>2. rows'[i] \in Row
      BY <1>1, <1>4, <2>1, <3>1, UpsertKeys DEF IInv
    <3>3. rows'[i] # None
      BY <3>2, NoneIsFresh
    <3>4. Abstract!Delivers(u, chunk[l], rows'[i])
      <4>1. /\ rows'[i].key = chunk[l].key /\ rows'[i].price = Stored[chunk[l].price]
            /\ rows'[i].src = "ingest" /\ rows'[i].feed = u /\ rows'[i].by = UploadUser(u)
        BY <2>1, <3>1 DEF Ingested
      <4> QED
        BY <2>2, <4>1 DEF Abstract!Delivers
    <3> QED
      BY <3>3, <3>4 DEF Abstract!Live
  <2>4. ASSUME NEW i \in Ids
        PROVE  \/ rows'[i] = rows[i]
               \/ /\ \E l \in DOMAIN chunk : Abstract!Delivers(u, chunk[l], rows'[i])
                  /\ i \in Abstract!Live(rows) => rows'[i].key = rows[i].key
    <3>1. CASE LineAt(chunk, at, i) = {}
      BY <1>1, <1>4, <2>1, <3>1, UpsertKeys DEF IInv
    <3>2. CASE LineAt(chunk, at, i) # {}
      <4>1. PICK l \in DOMAIN chunk :
               /\ at[chunk[l].key] = i
               /\ chunk[l].key \in Keys /\ Stored[chunk[l].price] \in Prices
               /\ UpsertedRows(u, chunk, at)[i] = Ingested(u, chunk[l])
        BY <1>1, <1>4, <3>2, UpsertedRow
      <4>2. Abstract!Delivers(u, chunk[l], rows'[i])
        BY <2>1, <2>2, <4>1 DEF Abstract!Delivers, Ingested
      <4>3. i \in Live => rows'[i].key = rows[i].key
        BY <1>1, <1>4, <2>1, <3>2, UpsertKeys DEF IInv
      <4> QED
        BY <4>2, <4>3 DEF Live, Abstract!Live
    <3> QED
      BY <3>1, <3>2
  <2>5. Abstract!UniqueKeys(rows')
    BY DEF IInv, UniqueBusinessKey, Live, Abstract!UniqueKeys, Abstract!Live
  <2>6. FilesNow[u][c] = chunk
    BY DEF FilesNow
  <2>7. c \in DOMAIN FilesNow[u]
    <3>1. up[u].n \in Nat /\ up[u].file \in Files \cup {<< >>} /\ up[u].n < Len(up[u].file)
      BY DEF UploadPersist, IInv, TypeInv, TypeOK, UploadState
    <3>2. up[u].file \in Seq(Seq(Line))
      BY <3>1, ConstantTypes
    <3>3. c \in DOMAIN up[u].file
      BY <3>1, <3>2
    <3> QED
      BY <3>3 DEF FilesNow
  <2> HIDE DEF c, chunk
  <2>8. Abstract!Ingest(u, c)
    BY <1>2, <2>3, <2>4, <2>5, <2>6 DEF Abstract!Ingest, FilesNow
  <2> QED
    BY <2>7, <2>8 DEF Abstract!Next, FilesNow
<1> QED
  BY <1>3, <1>4 DEF UploadPersist

LEMMA UploadStartRefines ==
    ASSUME IInv, NEW u \in Uploads, UploadStart(u)
    PROVE  [Abstract!Next]_TablesNow
<1>1. up \in [Uploads -> UploadState] /\ up[u].pc = "idle" /\ UNCHANGED <<rows, audits>>
  BY DEF UploadStart, IInv, TypeInv, TypeOK
<1>2. FilesNow[u] = << >>
  BY <1>1 DEF IInv, TypeInv, Shape, FilesNow
<1>3. PICK f \in Files, p \in {"chunk", "failing"} :
        up' = [up EXCEPT ![u] = [up[u] EXCEPT !.pc = p, !.file = f]]
  BY DEF UploadStart
<1>4. \A v \in Uploads : up'[v].file = IF v = u THEN f ELSE up[v].file
  BY <1>1, <1>3 DEF UploadState
<1>5. FilesNow' = [FilesNow EXCEPT ![u] = f]
  BY <1>4 DEF FilesNow
<1>6. Abstract!Announce(u)
  BY <1>1, <1>2, <1>5 DEF Abstract!Announce, FilesNow
<1> QED
  BY <1>6 DEF Abstract!Next

LEMMA StepRefines == IInv /\ IInv' /\ [Next]_vars => [Abstract!Next]_TablesNow
<1> SUFFICES ASSUME IInv, IInv', [Next]_vars PROVE [Abstract!Next]_TablesNow
  OBVIOUS
<1>1. ASSUME NEW e \in Editors, EditStep(e) \/ EditCrash(e)
      PROVE  [Abstract!Next]_TablesNow
  <2>1. CASE EditWrite(e)
    BY <2>1, EditWriteRefines
  <2>2. CASE EditRead(e) \/ EditIndex(e) \/ EditRespond(e) \/ EditCrash(e)
    BY <2>2 DEF EditRead, EditIndex, EditRespond, EditCrash, db, TablesNow, FilesNow
  <2> QED
    BY <1>1, <2>1, <2>2 DEF EditStep
<1>2. ASSUME NEW u \in Uploads, UploadStep(u) \/ UploadCrash(u)
      PROVE  [Abstract!Next]_TablesNow
  <2>1. CASE UploadPersist(u)
    BY <2>1, UploadPersistRefines
  <2>2. CASE UploadStart(u)
    BY <2>2, UploadStartRefines
  <2>3. CASE \/ UploadReject(u) \/ UploadIndex(u) \/ UploadFinish(u)
             \/ UploadFail(u) \/ UploadRespond(u) \/ UploadCrash(u)
    <3>1. UNCHANGED <<rows, audits>>
      BY <2>3 DEF UploadReject, UploadIndex, UploadFinish, UploadFail, UploadRespond,
                  UploadCrash, db
    <3>2. up \in [Uploads -> UploadState]
      BY DEF IInv, TypeInv, TypeOK
    <3>3. \E x : up' = [up EXCEPT ![u] = x] /\ x.file = up[u].file
      <4>1. up[u] \in UploadState
        BY <3>2
      <4>2. CASE UploadIndex(u)
        BY <4>1, <4>2 DEF UploadIndex, AfterFailure, UploadState
      <4>3. CASE UploadFinish(u)
        BY <4>1, <4>3 DEF UploadFinish, UploadState
      <4>4. CASE UploadReject(u) \/ UploadFail(u) \/ UploadRespond(u) \/ UploadCrash(u)
        BY <4>1, <4>4 DEF UploadReject, UploadFail, UploadRespond, UploadCrash, UploadEnd,
                          UploadState
      <4> QED
        BY <2>3, <4>2, <4>3, <4>4
    <3>4. \A v \in Uploads : up'[v].file = up[v].file
      BY <3>2, <3>3
    <3> QED
      BY <3>1, <3>4 DEF TablesNow, FilesNow
  <2> QED
    BY <1>2, <2>1, <2>2, <2>3 DEF UploadStep
<1>3. CASE UNCHANGED vars
  BY <1>3 DEF vars, TablesNow, FilesNow
<1> QED
  BY <1>1, <1>2, <1>3 DEF Next

(* Whatever the requests are doing, the tables only ever change the way    *)
(* the abstract catalogue does: a correction with its audit entry in one   *)
(* step, a chunk of an announced file with all its lines or not at all.    *)
THEOREM WritesImplementCatalog == Spec => ImplementsCatalog
<1>1. IInv /\ IInv' /\ [Next]_vars => [Abstract!Next]_(Abstract!catalog)
  BY StepRefines DEF Abstract!catalog, TablesNow, FilesNow
<1> QED
  BY InitIInv, NextIInv, InitRefines, <1>1, PTL DEF Spec, ImplementsCatalog, Abstract!Spec
=============================================================================
