----------------------------- MODULE PartsProofs -----------------------------
(***************************************************************************)
(* Theorems about parts of the system that share no state, for any values  *)
(* of their constants and any number of steps:                             *)
(*   EditDialog    nothing that was typed and saved is lost                *)
(*   WorkerCaches  how long a write stays hidden behind a cached answer    *)
(*   Access        every grant was somebody's right a moment ago, and the  *)
(*                 settings of a release decide the roles of their users   *)
(*   DemoSeed      a run of the job is repeatable and can be continued     *)
(*   TTLCache      implements ResponseCache                                *)
(*   FeedReader    rows lead back to their lines, and a cell that cannot   *)
(*                 be taken costs its chunk                                *)
(*   SearchRequest what shows of who answers which page                    *)
(***************************************************************************)
EXTENDS MCParts, FiniteSetTheorems, SequenceTheorems, WellFoundedInduction, TLAPS

-----------------------------------------------------------------------------
(* EditDialog.                                                             *)

CopyN   == [row: DialogRow, rev: Nat]
OpenedN == [row: DialogRow, rev: Nat, exact: BOOLEAN]
PutN    == [user: People, texts: DialogRow, typed: [Fields -> Texts \cup {NoText}], base: Nat,
            exact: BOOLEAN, answer: CopyN \cup {Closed}]

(* A row somebody has seen under the number of the record's present state  *)
(* is the record once it is kept; a dialog that began with it, shown as    *)
(* the column has it, shows the record; and an edit from there says of     *)
(* every field what was typed, or what the record holds.                   *)
UpToDate(copy) == copy.rev <= rev /\ (copy.rev = rev => KeptRow(copy.row) = record)

Current(d) == d.rev <= rev /\ (d.rev = rev /\ d.exact => d.row = record)

Faithful(p) ==
    /\ p \in PutN /\ p.base <= rev
    /\ p.base = rev /\ p.exact => \A f \in Fields :
          Kept[f][p.texts[f]] = IF p.typed[f] = NoText THEN record[f] ELSE Kept[f][p.typed[f]]
    /\ p.answer # Closed => UpToDate(p.answer)

DialogInv ==
    /\ rev \in Nat /\ record \in DialogRow /\ KeptRow(record) = record
    /\ typed \in DialogRow /\ overlap \in BOOLEAN
    /\ shown \in [People -> CopyN] /\ dialog \in [People -> OpenedN \cup {Closed}]
    /\ \A u \in People : UpToDate(shown[u]) /\ (dialog[u] # Closed => Current(dialog[u]))
    /\ \A p \in puts : Faithful(p)
    /\ NothingTypedIsLost

LEMMA KeptRowIs ==
    ASSUME NEW texts \in DialogRow
    PROVE  /\ KeptRow(texts) \in DialogRow /\ KeptRow(KeptRow(texts)) = KeptRow(texts)
           /\ \A f \in Fields : KeptRow(texts)[f] = Kept[f][texts[f]]
<1>1. \A f \in Fields : texts[f] \in Texts /\ Kept[f] \in [Texts -> Texts]
  BY DialogConstants DEF DialogRow
<1>2. \A f \in Fields : Kept[f][texts[f]] \in Texts
  BY <1>1
<1>3. /\ KeptRow(texts) \in DialogRow
      /\ \A f \in Fields : KeptRow(texts)[f] = Kept[f][texts[f]]
  BY <1>2 DEF KeptRow, DialogRow
<1>4. KeptRow(KeptRow(texts)) = [f \in Fields |-> Kept[f][Kept[f][texts[f]]]]
  BY <1>3 DEF KeptRow
<1>5. \A f \in Fields : Kept[f][Kept[f][texts[f]]] = Kept[f][texts[f]]
  BY <1>1, DialogConstants
<1> QED
  BY <1>3, <1>4, <1>5 DEF KeptRow

LEMMA InitDialogInv == EInit => DialogInv
<1> SUFFICES ASSUME EInit PROVE DialogInv
  OBVIOUS
<1>1. /\ record \in DialogRow /\ KeptRow(record) = record /\ typed = record /\ rev = 0
      /\ overlap = FALSE /\ puts = {}
      /\ shown = [u \in People |-> [row |-> record, rev |-> 0]]
      /\ dialog = [u \in People |-> Closed]
  BY DEF EInit
<1>2. shown \in [People -> CopyN] /\ dialog \in [People -> OpenedN \cup {Closed}]
  BY <1>1 DEF CopyN
<1>3. \A u \in People : UpToDate(shown[u]) /\ dialog[u] = Closed
  BY <1>1 DEF UpToDate
<1> QED
  BY <1>1, <1>2, <1>3 DEF DialogInv, NothingTypedIsLost

(* A dialog opens.                                                         *)
LEMMA OpenedIsCurrent ==
    ASSUME DialogInv, NEW u \in People, OpenDialog(u)
    PROVE  DialogInv'
<1>1. PICK c \in CopyN : c = shown[u] /\ UpToDate(c)
  BY DEF DialogInv
<1>2. PICK row : row = [f \in Fields |-> Fixed[f][c.row[f]]]
  OBVIOUS
<1>3. PICK b \in BOOLEAN : b = (KeptRow(c.row) = c.row)
  OBVIOUS
<1>4. PICK new : new = [row |-> row, rev |-> c.rev, exact |-> b]
  OBVIOUS
<1>5. /\ dialog' = [dialog EXCEPT ![u] = new]
      /\ UNCHANGED <<record, rev, shown, puts, typed, overlap>>
  BY <1>1, <1>2, <1>3, <1>4 DEF OpenDialog
<1>6. c.row \in DialogRow /\ c.rev \in Nat
  BY DEF CopyN
<1>7. \A f \in Fields : c.row[f] \in Texts /\ Fixed[f] \in [Texts -> Texts]
  BY <1>6, DialogConstants DEF DialogRow
<1>8. \A f \in Fields : Fixed[f][c.row[f]] \in Texts
  BY <1>7
<1>9. new \in OpenedN
  BY <1>2, <1>3, <1>4, <1>6, <1>8 DEF OpenedN, DialogRow
<1>10. Current(new)
  <2> SUFFICES ASSUME c.rev = rev, KeptRow(c.row) = c.row PROVE row = record
    BY <1>1, <1>3, <1>4 DEF Current, UpToDate
  <2>1. c.row = record
    BY <1>1 DEF UpToDate
  <2>2. \A f \in Fields : Fixed[f][Kept[f][c.row[f]]] = Kept[f][c.row[f]]
    BY <1>7, DialogConstants
  <2>3. \A f \in Fields : Kept[f][c.row[f]] = c.row[f]
    BY <1>6, KeptRowIs
  <2>4. \A f \in Fields : row[f] = c.row[f]
    BY <1>2, <2>2, <2>3
  <2> QED
    BY <1>2, <1>6, <2>1, <2>4 DEF DialogRow
<1>11. (\A p \in puts' : Faithful(p)') /\ Current(new)' /\ NothingTypedIsLost'
  BY <1>5, <1>10 DEF DialogInv, Faithful, UpToDate, Current, NothingTypedIsLost
<1>12. /\ dialog' \in [People -> OpenedN \cup {Closed}]
       /\ \A v \in People : dialog'[v] = IF v = u THEN new ELSE dialog[v]
  BY <1>5, <1>9 DEF DialogInv
<1>13. \A v \in People : UpToDate(shown[v])' /\ (dialog'[v] # Closed => Current(dialog[v])')
  BY <1>5, <1>11, <1>12 DEF DialogInv, UpToDate, Current
<1> QED
  BY <1>5, <1>11, <1>12, <1>13 DEF DialogInv

(* What a save sends.                                                      *)
LEMMA SaveIsFaithful ==
    ASSUME DialogInv, NEW u \in People, NEW texts \in [Fields -> Texts], Save(u, texts)
    PROVE  DialogInv' /\ \E new \in PutN : puts' = puts \cup {new}
<1>1. PICK d \in OpenedN : d = dialog[u] /\ Current(d) /\ dialog[u] # Closed
  BY DEF Save, DialogInv
<1>2. PICK what : what = TypedIn(texts, d)
  OBVIOUS
<1>3. PICK put : put = [user |-> u, texts |-> texts, typed |-> what, base |-> d.rev,
                        exact |-> d.exact, answer |-> Closed]
  OBVIOUS
<1>4. /\ dialog' = [dialog EXCEPT ![u] = Closed] /\ puts' = puts \cup {put}
      /\ UNCHANGED <<record, rev, shown, typed, overlap>>
  BY <1>1, <1>2, <1>3 DEF Save, Sent
<1>5. \A f \in Fields : what[f] = IF texts[f] = d.row[f] THEN NoText ELSE texts[f]
  BY <1>2 DEF TypedIn
<1>6. put \in PutN
  <2>1. what \in [Fields -> Texts \cup {NoText}]
    BY <1>2 DEF TypedIn
  <2> QED
    BY <1>3, <2>1 DEF PutN, OpenedN, DialogRow
<1>7. d.rev = rev /\ d.exact => \A f \in Fields :
          Kept[f][texts[f]] = IF what[f] = NoText THEN record[f] ELSE Kept[f][what[f]]
  <2> SUFFICES ASSUME d.rev = rev, d.exact, NEW f \in Fields
               PROVE  Kept[f][texts[f]] = IF what[f] = NoText THEN record[f] ELSE Kept[f][what[f]]
    OBVIOUS
  <2>1. d.row = record
    BY <1>1 DEF Current
  <2>2. Kept[f][record[f]] = record[f]
    BY KeptRowIs DEF DialogInv
  <2>3. texts[f] \in Texts /\ NoText \notin Texts
    BY DialogConstants
  <2> QED
    BY <1>5, <2>1, <2>2, <2>3
<1>8. Faithful(put)
  BY <1>1, <1>3, <1>6, <1>7 DEF Faithful, Current
<1>9. \A p \in puts' : Faithful(p)'
  BY <1>4, <1>8 DEF DialogInv, Faithful, UpToDate
<1>10. /\ dialog' \in [People -> OpenedN \cup {Closed}]
       /\ \A v \in People : dialog'[v] # Closed => dialog'[v] = dialog[v]
  BY <1>4 DEF DialogInv
<1>11. \A v \in People : UpToDate(shown[v])' /\ (dialog'[v] # Closed => Current(dialog[v])')
  BY <1>4, <1>10 DEF DialogInv, UpToDate, Current
<1> QED
  BY <1>4, <1>6, <1>9, <1>10, <1>11 DEF DialogInv, NothingTypedIsLost

(* An edit is served: the record has a new number, which nobody has seen.  *)
LEMMA ServeIsFaithful ==
    ASSUME DialogInv, NEW p \in puts, Serve(p)
    PROVE  DialogInv' /\ \E new \in PutN : puts' = (puts \ {p}) \cup {new} /\ new.answer # Closed
<1>1. PICK answer : answer = [row |-> p.texts, rev |-> rev + 1]
  OBVIOUS
<1>2. PICK new : new = [p EXCEPT !.answer = answer]
  OBVIOUS
<1>3. /\ p.answer = Closed /\ record' = KeptRow(p.texts) /\ rev' = rev + 1
      /\ puts' = (puts \ {p}) \cup {new}
      /\ typed' = [f \in Fields |-> IF p.typed[f] = NoText THEN typed[f] ELSE p.typed[f]]
      /\ overlap' = (overlap \/ p.base # rev \/ ~p.exact)
      /\ UNCHANGED <<shown, dialog>>
  BY <1>1, <1>2 DEF Serve
<1>4. /\ Faithful(p) /\ p \in PutN /\ rev \in Nat
      /\ record \in DialogRow /\ typed \in DialogRow /\ overlap \in BOOLEAN
  BY DEF DialogInv, Faithful
<1>5. answer \in CopyN /\ answer # Closed
  BY <1>1, <1>4, DialogConstants DEF CopyN, PutN, DialogRow
<1>6. new \in PutN /\ new.answer = answer /\ new.base = p.base
  BY <1>2, <1>4, <1>5 DEF PutN
<1>7. p.texts \in DialogRow /\ p.typed \in [Fields -> Texts \cup {NoText}]
  BY <1>4 DEF PutN
<1>8. record' \in DialogRow /\ KeptRow(record)' = record' /\ rev' \in Nat /\ overlap' \in BOOLEAN
  BY <1>3, <1>4, <1>7, KeptRowIs DEF PutN, KeptRow
<1>9. typed' \in DialogRow
  BY <1>3, <1>4, <1>7 DEF DialogRow
<1>10. UpToDate(answer)'
  BY <1>1, <1>3, <1>4 DEF UpToDate, KeptRow
<1>11. Faithful(new)'
  <2>1. p.base \in Nat /\ p.base <= rev
    BY <1>4 DEF Faithful, PutN
  <2> QED
    BY <1>3, <1>4, <1>6, <1>10, <2>1 DEF Faithful
<1>12. \A q \in puts : Faithful(q)'
  <2> SUFFICES ASSUME NEW q \in puts PROVE Faithful(q)'
    OBVIOUS
  <2>1. Faithful(q) /\ q \in PutN
    BY DEF DialogInv, Faithful
  <2>2. q.base \in Nat /\ (q.answer # Closed => q.answer.rev \in Nat)
    BY <2>1 DEF PutN, CopyN
  <2> QED
    BY <1>3, <1>4, <2>1, <2>2 DEF Faithful, UpToDate
<1>13. \A q \in puts' : Faithful(q)'
  BY <1>3, <1>11, <1>12
<1>14. \A u \in People : UpToDate(shown[u])' /\ (dialog'[u] # Closed => Current(dialog[u])')
  <2> SUFFICES ASSUME NEW u \in People
               PROVE  UpToDate(shown[u])' /\ (dialog'[u] # Closed => Current(dialog[u])')
    OBVIOUS
  <2>1. /\ shown[u].rev \in Nat /\ UpToDate(shown[u])
        /\ dialog[u] # Closed => dialog[u].rev \in Nat /\ Current(dialog[u])
    BY DEF DialogInv, CopyN, OpenedN
  <2> QED
    BY <1>3, <1>4, <2>1 DEF UpToDate, Current
<1>15. NothingTypedIsLost'
  <2> SUFFICES ASSUME ~overlap' PROVE record' = KeptRow(typed')
    BY DEF NothingTypedIsLost, KeptRow
  <2>1. ~overlap /\ p.base = rev /\ p.exact /\ record = KeptRow(typed)
    BY <1>3, <1>4 DEF DialogInv, NothingTypedIsLost, PutN
  <2>2. \A f \in Fields : record[f] = Kept[f][typed[f]]
    BY <1>4, <2>1, KeptRowIs
  <2>3. \A f \in Fields : record'[f] = Kept[f][typed'[f]]
    <3> SUFFICES ASSUME NEW f \in Fields PROVE record'[f] = Kept[f][typed'[f]]
      OBVIOUS
    <3>1. record'[f] = IF p.typed[f] = NoText THEN record[f] ELSE Kept[f][p.typed[f]]
      BY <1>3, <1>4, <1>7, <2>1, KeptRowIs DEF Faithful
    <3>2. typed'[f] = IF p.typed[f] = NoText THEN typed[f] ELSE p.typed[f]
      BY <1>3
    <3> QED
      BY <2>2, <3>1, <3>2
  <2> QED
    BY <1>8, <1>9, <2>3, KeptRowIs DEF DialogRow
<1> QED
  BY <1>3, <1>5, <1>6, <1>8, <1>9, <1>13, <1>14, <1>15 DEF DialogInv

LEMMA NextDialogInv == DialogInv /\ [ENext]_evars => DialogInv'
<1> SUFFICES ASSUME DialogInv, [ENext]_evars PROVE DialogInv'
  OBVIOUS
<1>1. ASSUME NEW u \in People, Load(u) \/ Dismiss(u) PROVE DialogInv'
  <2>1. /\ UNCHANGED <<record, rev, puts, typed, overlap>>
        /\ \A p \in puts : Faithful(p)
    BY <1>1 DEF Load, Dismiss, DialogInv
  <2>2. (\A p \in puts' : Faithful(p)') /\ NothingTypedIsLost'
    BY <2>1 DEF DialogInv, UpToDate, Faithful, NothingTypedIsLost
  <2>3. CASE Load(u)
    <3>1. PICK c \in CopyN : c = [row |-> record, rev |-> rev]
      BY DEF DialogInv, CopyN
    <3>2. UpToDate(c)
      BY <3>1 DEF DialogInv, UpToDate
    <3>3. shown' = [shown EXCEPT ![u] = c] /\ UNCHANGED dialog
      BY <2>3, <3>1 DEF Load
    <3>4. \A v \in People : UpToDate(shown[v])' /\ (dialog'[v] # Closed => Current(dialog[v])')
      BY <2>1, <3>2, <3>3 DEF DialogInv, UpToDate, Current
    <3> QED
      BY <2>1, <2>2, <3>3, <3>4 DEF DialogInv
  <2>4. CASE Dismiss(u)
    <3>1. \A v \in People : UpToDate(shown[v])' /\ (dialog'[v] # Closed => Current(dialog[v])')
      BY <2>1, <2>4 DEF Dismiss, DialogInv, UpToDate, Current
    <3> QED
      BY <2>1, <2>2, <2>4, <3>1 DEF Dismiss, DialogInv
  <2> QED
    BY <1>1, <2>3, <2>4
<1>2. ASSUME NEW p \in puts, Answered(p) \/ Lost(p) PROVE DialogInv'
  <2>1. /\ Faithful(p) /\ p \in PutN
        /\ UNCHANGED <<record, rev, dialog, typed, overlap>> /\ puts' \subseteq puts
        /\ \/ UNCHANGED shown
           \/ p.answer # Closed /\ shown' = [shown EXCEPT ![p.user] = p.answer]
    BY <1>2 DEF DialogInv, Faithful, Answered, Lost
  <2>2. (\A q \in puts' : Faithful(q)') /\ NothingTypedIsLost'
    BY <2>1 DEF DialogInv, UpToDate, Faithful, NothingTypedIsLost
  <2>3. p.answer # Closed => p.answer \in CopyN /\ UpToDate(p.answer)
    BY <2>1 DEF Faithful, PutN
  <2>4. \A v \in People : UpToDate(shown[v])' /\ (dialog'[v] # Closed => Current(dialog[v])')
    BY <2>1, <2>3 DEF DialogInv, UpToDate, Current
  <2>5. shown' \in [People -> CopyN]
    BY <2>1, <2>3 DEF DialogInv
  <2> QED
    BY <2>1, <2>2, <2>4, <2>5 DEF DialogInv
<1>3. CASE UNCHANGED evars
  BY <1>3 DEF evars, DialogInv, UpToDate, Current, Faithful, NothingTypedIsLost
<1> QED
  BY <1>1, <1>2, <1>3, OpenedIsCurrent, SaveIsFaithful, ServeIsFaithful DEF ENext

(* For any number of users and fields and any rounding: as long as no save *)
(* is served to a record newer than the list it is based on, or began with *)
(* a price of more decimals than are kept, the record holds what was last  *)
(* typed into each field and saved, as its column keeps it (_editRecord,   *)
(* search_page.dart).                                                      *)
THEOREM TypingIsNotLost == ESpec => []NothingTypedIsLost
<1>1. DialogInv => NothingTypedIsLost
  BY DEF DialogInv
<1> QED
  BY InitDialogInv, NextDialogInv, <1>1, PTL DEF ESpec

-----------------------------------------------------------------------------
(* WorkerCaches.                                                           *)

(* What is cached was read at most Patience ticks after the next version,  *)
(* if there is one, and not before the last clear that no search outlived; *)
(* what is in flight was read before that version.                         *)
EntryInv(w, s) ==
    cached[w][s] # Never =>
        /\ cached[w][s] \in [version: 1 .. Version, expires_at: Nat]
        /\ cached[w][s].expires_at <= time + Lifespan
        /\ cached[w][s].version < Version =>
              cached[w][s].expires_at <= since[cached[w][s].version + 1] + Patience + Lifespan
        /\ cached[w][s].version >= floor[w][s]

FlightInv(w, s) ==
    flight[w][s] # Never =>
        /\ flight[w][s] \in [version: 1 .. Version, at: Nat]
        /\ flight[w][s].at <= time /\ time <= flight[w][s].at + Patience
        /\ flight[w][s].version < Version => flight[w][s].at <= since[flight[w][s].version + 1]
        /\ flight[w][s].version >= floor[w][s]

WorkersInv ==
    /\ time \in Nat /\ since \in Seq(Nat) /\ since # << >>
    /\ \A n \in 1 .. Version : since[n] <= time
    /\ cached \in [Workers -> [CacheScopes -> [version: Nat, expires_at: Nat] \cup {Never}]]
    /\ flight \in [Workers -> [CacheScopes -> [version: Nat, at: Nat] \cup {Never}]]
    /\ floor \in [Workers -> [CacheScopes -> 0 .. Version]]
    /\ \A w \in Workers, s \in CacheScopes : EntryInv(w, s) /\ FlightInv(w, s)
    /\ seen.worker # Never => seen.version \in Nat
    /\ StalenessIsBounded

LEMMA InitWorkersInv == WInit => WorkersInv
<1> SUFFICES ASSUME WInit PROVE WorkersInv
  OBVIOUS
<1>1. /\ time = 0 /\ since = <<0>> /\ seen = Unseen
      /\ cached = [w \in Workers |-> [s \in CacheScopes |-> Never]]
      /\ flight = [w \in Workers |-> [s \in CacheScopes |-> Never]]
      /\ floor = [w \in Workers |-> [s \in CacheScopes |-> 0]]
  BY DEF WInit
<1>2. since \in Seq(Nat) /\ since # << >> /\ Version = 1 /\ since[1] = 0
  BY <1>1 DEF Version
<1>3. /\ cached \in [Workers -> [CacheScopes -> [version: Nat, expires_at: Nat] \cup {Never}]]
      /\ flight \in [Workers -> [CacheScopes -> [version: Nat, at: Nat] \cup {Never}]]
      /\ floor \in [Workers -> [CacheScopes -> 0 .. 1]]
  BY <1>1
<1>4. \A w \in Workers, s \in CacheScopes : EntryInv(w, s) /\ FlightInv(w, s)
  BY <1>1 DEF EntryInv, FlightInv
<1>5. /\ seen.worker # Never => seen.version \in Nat
      /\ StalenessIsBounded
  BY <1>1 DEF Unseen, StalenessIsBounded, StaleForALifespan, OwnWritesSeen
<1> QED
  BY <1>1, <1>2, <1>3, <1>4, <1>5 DEF WorkersInv

(* The facts about the versions that the steps need.                       *)
LEMMA VersionFacts ==
    ASSUME WorkersInv
    PROVE  /\ Version \in Nat \ {0} /\ DOMAIN since = 1 .. Version
           /\ \A n \in 1 .. Version : since[n] \in Nat /\ since[n] <= time
           /\ time \in Nat /\ Lifespan \in Nat /\ Patience \in Nat
BY WorkerConstants DEF WorkersInv, Version

(* What a step leaves alone keeps what is said of it.                      *)
LEMMA UnseenIsBounded ==
    ASSUME seen' = Unseen
    PROVE  StalenessIsBounded' /\ (seen'.worker # Never => seen'.version \in Nat)
BY DEF Unseen, StalenessIsBounded, StaleForALifespan, OwnWritesSeen

LEMMA PassStep ==
    ASSUME WorkersInv, Pass
    PROVE  WorkersInv'
<1>1. /\ time' = time + 1 /\ seen' = Unseen
      /\ UNCHANGED <<since, writing, cached, flight, floor>>
      /\ \A w \in Workers, s \in CacheScopes : flight[w][s] # Never => time < flight[w][s].at + Patience
  BY DEF Pass
<1>2. ASSUME NEW w \in Workers, NEW s \in CacheScopes PROVE EntryInv(w, s)' /\ FlightInv(w, s)'
  <2>1. EntryInv(w, s) /\ FlightInv(w, s)
    BY DEF WorkersInv
  <2>2. EntryInv(w, s)'
    BY <1>1, <2>1, VersionFacts DEF EntryInv, Version
  <2>3. FlightInv(w, s)'
    BY <1>1, <2>1, VersionFacts DEF FlightInv, Version
  <2> QED
    BY <2>2, <2>3
<1>3. \A n \in 1 .. Version : since[n] <= time'
  BY <1>1, VersionFacts
<1> QED
  BY <1>1, <1>2, <1>3, UnseenIsBounded DEF WorkersInv, Version

LEMMA CommitStep ==
    ASSUME WorkersInv, NEW v \in Workers, Commit(v)
    PROVE  WorkersInv'
<1>1. since' = Append(since, time) /\ seen' = Unseen /\ UNCHANGED <<time, cached, flight, floor>>
  BY DEF Commit
<1>2. /\ since' \in Seq(Nat) /\ since' # << >> /\ Version' = Version + 1
      /\ since'[Version + 1] = time
      /\ \A n \in 1 .. Version : since'[n] = since[n]
  BY <1>1, VersionFacts DEF WorkersInv, Version
<1>3. ASSUME NEW w \in Workers, NEW s \in CacheScopes PROVE EntryInv(w, s)' /\ FlightInv(w, s)'
  <2>1. EntryInv(w, s) /\ FlightInv(w, s)
    BY DEF WorkersInv
  <2>2. EntryInv(w, s)'
    <3> SUFFICES ASSUME cached[w][s] # Never PROVE EntryInv(w, s)'
      BY <1>1 DEF EntryInv
    <3> PICK e : e = cached[w][s]
      OBVIOUS
    <3>1. /\ e \in [version: 1 .. Version, expires_at: Nat] /\ e.expires_at <= time + Lifespan
          /\ e.version < Version => e.expires_at <= since[e.version + 1] + Patience + Lifespan
          /\ e.version >= floor[w][s]
      BY <2>1 DEF EntryInv
    <3>2. e.version < Version + 1 => e.expires_at <= since'[e.version + 1] + Patience + Lifespan
      <4>1. e.version \in 1 .. Version /\ e.expires_at \in Nat
        BY <3>1
      <4>4. Version \in Nat
        BY VersionFacts
      <4>2. CASE e.version = Version
        <5>1. since'[e.version + 1] = time
          BY <1>2, <4>2
        <5> QED
          BY <3>1, <4>1, <5>1, VersionFacts
      <4>3. CASE e.version < Version
        <5>1. e.version + 1 \in 1 .. Version
          BY <4>1, <4>3, <4>4
        <5>2. since'[e.version + 1] = since[e.version + 1]
          BY <1>2, <5>1
        <5> QED
          BY <3>1, <4>3, <5>2
      <4> QED
        BY <4>1, <4>2, <4>3, VersionFacts
    <3>3. e \in [version: 1 .. Version + 1, expires_at: Nat]
      BY <3>1, VersionFacts
    <3> QED
      BY <1>1, <1>2, <3>1, <3>2, <3>3 DEF EntryInv
  <2>3. FlightInv(w, s)'
    <3> SUFFICES ASSUME flight[w][s] # Never PROVE FlightInv(w, s)'
      BY <1>1 DEF FlightInv
    <3> PICK f : f = flight[w][s]
      OBVIOUS
    <3>1. /\ f \in [version: 1 .. Version, at: Nat] /\ f.at <= time /\ time <= f.at + Patience
          /\ f.version < Version => f.at <= since[f.version + 1]
          /\ f.version >= floor[w][s]
      BY <2>1 DEF FlightInv
    <3>2. f.version < Version + 1 => f.at <= since'[f.version + 1]
      <4>1. f.version \in 1 .. Version
        BY <3>1
      <4>2. CASE f.version = Version
        BY <1>2, <3>1, <4>2
      <4>3. CASE f.version < Version
        <5>1. f.version + 1 \in 1 .. Version
          BY <4>1, <4>3, VersionFacts
        <5>2. since'[f.version + 1] = since[f.version + 1]
          BY <1>2, <5>1
        <5> QED
          BY <3>1, <4>3, <5>2
      <4> QED
        BY <4>1, <4>2, <4>3, VersionFacts
    <3>3. f \in [version: 1 .. Version + 1, at: Nat]
      BY <3>1, VersionFacts
    <3> QED
      BY <1>1, <1>2, <3>1, <3>2, <3>3 DEF FlightInv
  <2> QED
    BY <2>2, <2>3
<1>4. \A n \in 1 .. Version' : since'[n] <= time'
  BY <1>1, <1>2, VersionFacts
<1>5. floor' \in [Workers -> [CacheScopes -> 0 .. Version']]
  <2>1. 0 .. Version \subseteq 0 .. Version + 1
    BY VersionFacts
  <2>2. floor \in [Workers -> [CacheScopes -> 0 .. Version + 1]]
    BY <2>1 DEF WorkersInv
  <2> QED
    BY <1>1, <1>2, <2>2
<1> QED
  BY <1>1, <1>2, <1>3, <1>4, <1>5, UnseenIsBounded DEF WorkersInv

LEMMA ClearStep ==
    ASSUME WorkersInv, NEW v \in Workers, ClearCaches(v) \/ WriteFails(v)
    PROVE  WorkersInv'
<1>1. CASE WriteFails(v)
  <2>1. seen' = Unseen /\ UNCHANGED <<time, since, cached, flight, floor>>
    BY <1>1 DEF WriteFails
  <2> QED
    BY <2>1, UnseenIsBounded DEF WorkersInv, EntryInv, FlightInv, Version
<1>2. CASE ClearCaches(v)
  <2>1. /\ cached' = [cached EXCEPT ![v] = [s \in CacheScopes |-> Never]]
        /\ floor' = [floor EXCEPT ![v] = Cleared(v)]
        /\ seen' = Unseen /\ UNCHANGED <<time, since, flight>>
    BY <1>2 DEF ClearCaches
  <2>2. Cleared(v) \in [CacheScopes -> 0 .. Version]
    BY VersionFacts DEF Cleared, WorkersInv
  <2>3. ASSUME NEW w \in Workers, NEW s \in CacheScopes PROVE EntryInv(w, s)' /\ FlightInv(w, s)'
    <3>1. EntryInv(w, s) /\ FlightInv(w, s)
      BY DEF WorkersInv
    <3>2. CASE w = v
      <4>1. cached'[w][s] = Never /\ (flight[w][s] # Never => floor'[w][s] = floor[w][s])
        BY <2>1, <3>2 DEF WorkersInv, Cleared
      <4> QED
        BY <2>1, <3>1, <4>1 DEF EntryInv, FlightInv, Version
    <3>3. CASE w # v
      <4>1. cached'[w] = cached[w] /\ floor'[w] = floor[w]
        BY <2>1, <3>3 DEF WorkersInv
      <4> QED
        BY <2>1, <3>1, <4>1 DEF EntryInv, FlightInv, Version
    <3> QED
      BY <3>2, <3>3
  <2>4. /\ cached' \in [Workers -> [CacheScopes -> [version: Nat, expires_at: Nat] \cup {Never}]]
        /\ floor' \in [Workers -> [CacheScopes -> 0 .. Version]]
    BY <2>1, <2>2 DEF WorkersInv
  <2> QED
    BY <2>1, <2>3, <2>4, UnseenIsBounded DEF WorkersInv, Version
<1> QED
  BY <1>1, <1>2

LEMMA HitStep ==
    ASSUME WorkersInv, NEW w \in Workers, NEW s \in CacheScopes, Hit(w, s)
    PROVE  WorkersInv'
<1> PICK e : e = cached[w][s]
  OBVIOUS
<1>1. /\ e # Never /\ time < e.expires_at
      /\ seen' = [worker |-> w, scope |-> s, version |-> e.version, hit |-> TRUE]
      /\ UNCHANGED <<time, since, cached, flight, floor>>
  BY DEF Hit, Fresh
<1>2. /\ e \in [version: 1 .. Version, expires_at: Nat]
      /\ e.version < Version => e.expires_at <= since[e.version + 1] + Patience + Lifespan
      /\ e.version >= floor[w][s]
  BY <1>1 DEF WorkersInv, EntryInv
<1>3. StaleForALifespan'
  <2>1. e.version < Version => time < since[e.version + 1] + Patience + Lifespan
    BY <1>1, <1>2, VersionFacts
  <2> QED
    BY <1>1, <2>1 DEF StaleForALifespan, Version
<1>4. OwnWritesSeen'
  BY <1>1, <1>2 DEF OwnWritesSeen
<1>5. seen'.version \in Nat
  BY <1>1, <1>2, VersionFacts
<1> QED
  BY <1>1, <1>3, <1>4, <1>5 DEF WorkersInv, EntryInv, FlightInv, Version, StalenessIsBounded

LEMMA ReadStep ==
    ASSUME WorkersInv, NEW v \in Workers, NEW z \in CacheScopes, Read(v, z)
    PROVE  WorkersInv'
<1> PICK f : f = [version |-> Version, at |-> time]
  OBVIOUS
<1>1. /\ flight' = [flight EXCEPT ![v][z] = f] /\ cached' = [cached EXCEPT ![v][z] = Never]
      /\ seen' = Unseen /\ UNCHANGED <<time, since, floor>>
  BY DEF Read
<1>2. /\ flight' \in [Workers -> [CacheScopes -> [version: Nat, at: Nat] \cup {Never}]]
      /\ cached' \in [Workers -> [CacheScopes -> [version: Nat, expires_at: Nat] \cup {Never}]]
      /\ flight'[v][z] = f /\ cached'[v][z] = Never
      /\ \A w \in Workers, s \in CacheScopes :
            ~(w = v /\ s = z) => flight'[w][s] = flight[w][s] /\ cached'[w][s] = cached[w][s]
  BY <1>1, VersionFacts DEF WorkersInv
<1>3. ASSUME NEW w \in Workers, NEW s \in CacheScopes PROVE EntryInv(w, s)' /\ FlightInv(w, s)'
  <2>1. CASE w = v /\ s = z
    <3>1. floor[v][z] \in 0 .. Version
      BY DEF WorkersInv
    <3>2. EntryInv(v, z)'
      BY <1>2 DEF EntryInv
    <3>3. FlightInv(v, z)'
      BY <1>1, <1>2, <3>1, VersionFacts DEF FlightInv, Version
    <3> QED
      BY <2>1, <3>2, <3>3
  <2>2. CASE ~(w = v /\ s = z)
    <3>1. EntryInv(w, s) /\ FlightInv(w, s)
      BY DEF WorkersInv
    <3> QED
      BY <1>1, <1>2, <2>2, <3>1 DEF EntryInv, FlightInv, Version
  <2> QED
    BY <2>1, <2>2
<1> QED
  BY <1>1, <1>2, <1>3, UnseenIsBounded DEF WorkersInv, Version

LEMMA StoreStep ==
    ASSUME WorkersInv, NEW v \in Workers, NEW z \in CacheScopes, Store(v, z)
    PROVE  WorkersInv'
<1> PICK f : f = flight[v][z]
  OBVIOUS
<1> PICK e : e = IF Lifespan > 0 THEN [version |-> f.version, expires_at |-> time + Lifespan] ELSE Never
  OBVIOUS
<1>1. /\ f # Never /\ cached' = [cached EXCEPT ![v][z] = e]
      /\ seen' = [worker |-> v, scope |-> z, version |-> f.version, hit |-> FALSE]
      /\ flight' = [flight EXCEPT ![v][z] = Never] /\ UNCHANGED <<time, since, floor>>
  BY DEF Store
<1>2. /\ f \in [version: 1 .. Version, at: Nat] /\ time <= f.at + Patience
      /\ f.version < Version => f.at <= since[f.version + 1]
      /\ f.version >= floor[v][z]
  BY <1>1 DEF WorkersInv, FlightInv
<1>3. f.version \in Nat /\ f.version < Version => time <= since[f.version + 1] + Patience
  <2> SUFFICES ASSUME f.version < Version PROVE time <= since[f.version + 1] + Patience
    BY <1>2
  <2>1. f.version + 1 \in 1 .. Version /\ f.at \in Nat
    BY <1>2, VersionFacts
  <2>2. since[f.version + 1] \in Nat
    BY <2>1, VersionFacts
  <2> QED
    BY <1>2, <2>1, <2>2, VersionFacts
<1>4. e # Never =>
         /\ e \in [version: 1 .. Version, expires_at: Nat] /\ e.expires_at = time + Lifespan
         /\ e.version = f.version
  BY <1>2, VersionFacts
<1>5. /\ flight' \in [Workers -> [CacheScopes -> [version: Nat, at: Nat] \cup {Never}]]
      /\ cached' \in [Workers -> [CacheScopes -> [version: Nat, expires_at: Nat] \cup {Never}]]
      /\ flight'[v][z] = Never /\ cached'[v][z] = e
      /\ \A w \in Workers, s \in CacheScopes :
            ~(w = v /\ s = z) => flight'[w][s] = flight[w][s] /\ cached'[w][s] = cached[w][s]
  BY <1>1, <1>4, VersionFacts DEF WorkersInv
<1>6. ASSUME NEW w \in Workers, NEW s \in CacheScopes PROVE EntryInv(w, s)' /\ FlightInv(w, s)'
  <2>1. CASE w = v /\ s = z
    <3>1. FlightInv(v, z)'
      BY <1>5 DEF FlightInv
    <3>2. e # Never /\ e.version < Version =>
             e.expires_at <= since[e.version + 1] + Patience + Lifespan
      <4> SUFFICES ASSUME e # Never, f.version < Version
                   PROVE  time + Lifespan <= since[f.version + 1] + Patience + Lifespan
        BY <1>4
      <4>1. f.version + 1 \in 1 .. Version /\ time <= since[f.version + 1] + Patience
        BY <1>2, <1>3, VersionFacts
      <4>2. since[f.version + 1] \in Nat
        BY <4>1, VersionFacts
      <4> QED
        BY <4>1, <4>2, VersionFacts
    <3>3. EntryInv(v, z)'
      BY <1>1, <1>2, <1>4, <1>5, <3>2 DEF EntryInv, Version
    <3> QED
      BY <2>1, <3>1, <3>3
  <2>2. CASE ~(w = v /\ s = z)
    <3>1. EntryInv(w, s) /\ FlightInv(w, s)
      BY DEF WorkersInv
    <3> QED
      BY <1>1, <1>5, <2>2, <3>1 DEF EntryInv, FlightInv, Version
  <2> QED
    BY <2>1, <2>2
<1>7. StalenessIsBounded' /\ seen'.version \in Nat
  BY <1>1, <1>2, <1>3, VersionFacts DEF StalenessIsBounded, StaleForALifespan, OwnWritesSeen, Version
<1> QED
  BY <1>1, <1>5, <1>6, <1>7 DEF WorkersInv, Version

LEMMA NextWorkersInv == WorkersInv /\ [WNext]_wvars => WorkersInv'
<1> SUFFICES ASSUME WorkersInv, [WNext]_wvars PROVE WorkersInv'
  OBVIOUS
<1>1. CASE UNCHANGED wvars
  BY <1>1 DEF wvars, WorkersInv, EntryInv, FlightInv, Version, StalenessIsBounded,
              StaleForALifespan, OwnWritesSeen
<1> QED
  BY <1>1, PassStep, CommitStep, ClearStep, HitStep, ReadStep, StoreStep DEF WNext

(* For any number of workers: an answer hides a write for no longer than   *)
(* an entry lives and a search takes, and never hides from a worker the    *)
(* write it has cleared its own caches for, unless a search was in flight  *)
(* across the clear (services/pricing_search_cache.py, core/ttl_cache.py). *)
THEOREM StalenessHasABound == WSpec => []StalenessIsBounded
<1>1. WorkersInv => StalenessIsBounded
  BY DEF WorkersInv
<1> QED
  BY InitWorkersInv, NextWorkersInv, <1>1, PTL DEF WSpec

-----------------------------------------------------------------------------
(* Access.                                                                 *)

(* What a token or a key stands for was somebody's right when it was made: *)
(* history does not run ahead of the clock, a token does not outlive the   *)
(* role it carries by more than a token's life, a key's maker was an admin.*)
RightsInv ==
    /\ \A u \in Users, r \in Roles : lastHeld[u][r] # None => lastHeld[u][r] <= clock
    /\ \A t \in tokens : HeldRecently(t.sub, {t.role}, t.exp)
    /\ \A n \in KeyNames : keys[n] # None =>
          \E u \in Users : HeldRecently(u, {"admin"}, keys[n].created_at)

(* The last of these roles that is seeded.                                 *)
Strongest(rs) == IF "uploader" \in rs THEN "uploader"
                 ELSE IF "editor" \in rs THEN "editor"
                 ELSE IF "viewer" \in rs THEN "viewer" ELSE "admin"

(* Of the roles seeded so far each user has the last that names it.        *)
Wins(done) == \A r \in done :
    setting[r] # None => role[setting[r]] = Strongest({q \in done : setting[q] = setting[r]})

SeedingInv ==
    \/ todo = <<"admin", "viewer", "editor", "uploader">>
    \/ todo = <<"viewer", "editor", "uploader">> /\ Wins({"admin"})
    \/ todo = <<"editor", "uploader">> /\ Wins({"admin", "viewer"})
    \/ todo = <<"uploader">> /\ Wins({"admin", "viewer", "editor"})
    \/ todo = << >> /\ Wins(Roles)

AccessInv == AccessTypeOK /\ RightsInv /\ SeedingInv /\ GrantsAreRightful

LEMMA InitAccessInv == AccessInit => AccessInv
<1> SUFFICES ASSUME AccessInit PROVE AccessInv
  OBVIOUS
<1> USE DEF AccessInit
<1>1. AccessTypeOK
  BY DEF AccessTypeOK, Nothing, Grant, Roles
<1>2. RightsInv
  BY DEF RightsInv
<1>3. SeedingInv
  BY DEF SeedingInv, Wins
<1>4. GrantsAreRightful
  BY DEF GrantsAreRightful, RoleHeldRecently, UploadsAnswerable, Nothing
<1> QED
  BY <1>1, <1>2, <1>3, <1>4 DEF AccessInv

-----------------------------------------------------------------------------
(* The types, before history is brought up to date.                        *)
StepKeepsTypes ==
    /\ clock' \in Nat /\ clock' >= clock
    /\ role' \in [Users -> Roles \cup {None}] /\ active' \subseteq Users
    /\ keys' \in [KeyNames -> Key \cup {None}]
    /\ tokens' \subseteq Token
    /\ setting' \in [Roles -> Users \cup {None}]
    /\ granted' \in Grant

LEMMA NothingIsGrant == Nothing \in Grant
BY DEF Nothing, Grant

LEMMA AccessStepTypes ==
    ASSUME AccessTypeOK, SeedingInv, AccessStep
    PROVE  StepKeepsTypes
<1> USE NothingIsGrant DEF AccessTypeOK, StepKeepsTypes
<1>1. CASE Deploy
  BY <1>1, AccessConstants DEF Deploy, tables
<1>2. CASE SeedUser
  <2>1. todo # << >> => Head(todo) \in Roles
    BY DEF SeedingInv, Roles
  <2>2. /\ UNCHANGED <<clock, keys, tokens, setting>> /\ granted' = Nothing /\ todo # << >>
    BY <1>2 DEF SeedUser
  <2>3. PICK u \in Users \cup {None} : u = setting[Head(todo)]
    BY <2>1, <2>2
  <2>4. \/ UNCHANGED <<role, active>>
        \/ /\ u \in Users /\ role' = [role EXCEPT ![u] = Head(todo)]
           /\ active' = active \/ active' = active \cup {u}
    BY <1>2, <2>3 DEF SeedUser
  <2>5. role' \in [Users -> Roles \cup {None}] /\ active' \subseteq Users
    BY <2>1, <2>2, <2>4
  <2> QED
    BY <2>2, <2>5
<1>3. CASE Minute
  BY <1>3 DEF Minute, tables
<1>4. ASSUME NEW u \in Users, DeactivateUser(u) PROVE StepKeepsTypes
  BY <1>4 DEF DeactivateUser
<1>5. ASSUME NEW u \in Users, Login(u) PROVE StepKeepsTypes
  <2>1. [sub |-> u, role |-> role[u], exp |-> clock + Lifetime] \in Token
    BY <1>5, AccessConstants DEF Login, Token
  <2> QED
    BY <1>5, <2>1 DEF Login, tables
<1>6. ASSUME NEW n \in KeyNames, DeactivateKey(n) PROVE StepKeepsTypes
  <2>1. [keys[n] EXCEPT !.active = FALSE] \in Key
    BY <1>6 DEF DeactivateKey, Key
  <2> QED
    BY <1>6, <2>1 DEF DeactivateKey
<1>7. ASSUME NEW t \in tokens, Search(t) \/ Edit(t) PROVE StepKeepsTypes
  <2>1. t.sub \in Users
    BY DEF Token
  <2>2. granted' \in Grant
    BY <1>7, <2>1 DEF Search, Edit, Grant
  <2> QED
    BY <1>7, <2>2 DEF Search, Edit, tables
<1>8. ASSUME NEW t \in tokens, NEW n \in KeyNames, CreateKey(t, n) PROVE StepKeepsTypes
  <2>1. t.sub \in Users
    BY DEF Token
  <2>2. granted' \in Grant
    BY <1>8, <2>1 DEF CreateKey, Grant
  <2>3. PICK s \in Scopes :
           keys' = [keys EXCEPT ![n] = [scopes |-> s, active |-> TRUE, created_at |-> clock]]
    BY <1>8 DEF CreateKey
  <2>4. [scopes |-> s, active |-> TRUE, created_at |-> clock] \in Key
    BY DEF Key
  <2>5. keys' \in [KeyNames -> Key \cup {None}]
    BY <2>3, <2>4
  <2>6. UNCHANGED <<clock, role, active, tokens, setting>>
    BY <1>8 DEF CreateKey
  <2> QED
    BY <2>2, <2>5, <2>6
<1>9. ASSUME NEW t \in tokens \cup {None}, NEW n \in KeyNames \cup {None}, Upload(t, n)
      PROVE  StepKeepsTypes
  <2>1. granted' \in Grant
    <3>1. t # None => t.sub \in Users
      BY DEF Token
    <3> QED
      BY <1>9, <3>1 DEF Upload, Grant
  <2> QED
    BY <1>9, <2>1 DEF Upload, tables
<1> QED
  BY <1>1, <1>2, <1>3, <1>4, <1>5, <1>6, <1>7, <1>8, <1>9 DEF AccessStep

-----------------------------------------------------------------------------
(* Time and history.                                                       *)

(* Who held a role recently for some moment still did so then.             *)
LEMMA HistoryOnlyGrows ==
    ASSUME AccessInv, AccessNext
    PROVE  /\ lastHeld' \in [Users -> [Roles -> Nat \cup {None}]]
           /\ \A u \in Users, r \in Roles : lastHeld'[u][r] # None => lastHeld'[u][r] <= clock'
           /\ \A u \in Users, rs \in SUBSET Roles, m \in Nat :
                 HeldRecently(u, rs, m) => HeldRecently(u, rs, m)'
<1>1. StepKeepsTypes
  BY AccessStepTypes DEF AccessInv, AccessNext
<1>2. /\ lastHeld \in [Users -> [Roles -> Nat \cup {None}]] /\ clock \in Nat
      /\ \A u \in Users, r \in Roles : lastHeld[u][r] # None => lastHeld[u][r] <= clock
  BY DEF AccessInv, AccessTypeOK, RightsInv
<1>3. lastHeld' = [u \in Users |-> [r \in Roles |->
          IF role'[u] = r /\ u \in active' THEN clock' ELSE lastHeld[u][r]]]
  BY DEF AccessNext
<1>4. lastHeld' \in [Users -> [Roles -> Nat \cup {None}]]
  BY <1>1, <1>2, <1>3 DEF StepKeepsTypes
<1>5. \A u \in Users, r \in Roles : lastHeld'[u][r] \in {clock', lastHeld[u][r]}
  BY <1>3
<1>6. \A u \in Users, r \in Roles : lastHeld'[u][r] # None => lastHeld'[u][r] <= clock'
  BY <1>1, <1>2, <1>5 DEF StepKeepsTypes
<1>7. ASSUME NEW u \in Users, NEW rs \in SUBSET Roles, NEW m \in Nat, HeldRecently(u, rs, m)
      PROVE  HeldRecently(u, rs, m)'
  <2>1. PICK r \in rs : lastHeld[u][r] # None /\ m <= lastHeld[u][r] + Lifetime
    BY <1>7 DEF HeldRecently
  <2>2. lastHeld[u][r] \in Nat /\ lastHeld[u][r] <= clock'
    BY <1>1, <1>2, <2>1 DEF StepKeepsTypes
  <2>3. lastHeld'[u][r] # None /\ m <= lastHeld'[u][r] + Lifetime
    BY <1>1, <1>5, <2>1, <2>2, AccessConstants, AccessNone DEF StepKeepsTypes
  <2> QED
    BY <2>3 DEF HeldRecently
<1> QED
  BY <1>4, <1>6, <1>7

(* A valid token answers for its user.                                     *)
LEMMA AdmittedHeldRecently ==
    ASSUME AccessInv, NEW t \in tokens, NEW op \in {"search", "edit", "upload", "key"},
           Admits(t, op)
    PROVE  /\ t.sub \in Users /\ Allowed(op) \subseteq Roles
           /\ HeldRecently(t.sub, Allowed(op), clock)
<1>1. /\ t \in Token /\ clock \in Nat /\ lastHeld \in [Users -> [Roles -> Nat \cup {None}]]
      /\ HeldRecently(t.sub, {t.role}, t.exp)
  BY DEF AccessInv, AccessTypeOK, RightsInv
<1>2. clock <= t.exp /\ t.role \in Allowed(op)
  BY DEF Admits, Valid
<1>3. t.sub \in Users /\ t.role \in Roles /\ t.exp \in Nat
  BY <1>1 DEF Token
<1>4. lastHeld[t.sub][t.role] \in Nat \cup {None}
  BY <1>1, <1>3
<1>5. lastHeld[t.sub][t.role] # None /\ t.exp <= lastHeld[t.sub][t.role] + Lifetime
  BY <1>1 DEF HeldRecently
<1>6. clock <= lastHeld[t.sub][t.role] + Lifetime
  BY <1>1, <1>2, <1>3, <1>4, <1>5, AccessConstants
<1>7. HeldRecently(t.sub, Allowed(op), clock)
  BY <1>2, <1>5, <1>6 DEF HeldRecently
<1> QED
  BY <1>3, <1>7 DEF Allowed, Roles

-----------------------------------------------------------------------------
(* What the invariant says of tokens, keys and grants, step by step.       *)
LEMMA TokensHold ==
    ASSUME AccessInv, AccessNext
    PROVE  \A t \in tokens' : HeldRecently(t.sub, {t.role}, t.exp)'
<1>1. StepKeepsTypes /\ AccessTypeOK
  BY AccessStepTypes DEF AccessInv, AccessNext
<1>2. ASSUME NEW t \in tokens PROVE HeldRecently(t.sub, {t.role}, t.exp)'
  <2>1. t.sub \in Users /\ t.role \in Roles /\ t.exp \in Nat
    BY <1>1 DEF AccessTypeOK, Token
  <2>2. {t.role} \in SUBSET Roles /\ HeldRecently(t.sub, {t.role}, t.exp)
    BY <2>1 DEF AccessInv, RightsInv
  <2> QED
    BY <2>1, <2>2, HistoryOnlyGrows
<1>3. CASE \E u \in Users : Login(u)
  <2> PICK u \in Users : Login(u)
    BY <1>3
  <2> PICK new : new = [sub |-> u, role |-> role[u], exp |-> clock + Lifetime]
    OBVIOUS
  <2>1. /\ role[u] # None /\ u \in active /\ tokens' = tokens \cup {new}
        /\ UNCHANGED <<clock, role, active>>
    BY DEF Login, tables
  <2>2. role[u] \in Roles /\ clock \in Nat
    BY <1>1, <2>1 DEF AccessTypeOK
  <2>3. lastHeld'[u][role[u]] = clock
    BY <2>1, <2>2 DEF AccessNext
  <2>4. HeldRecently(new.sub, {new.role}, new.exp)'
    BY <2>2, <2>3, AccessConstants, AccessNone DEF HeldRecently
  <2> QED
    BY <1>2, <2>1, <2>4
<1>4. CASE ~\E u \in Users : Login(u)
  <2>1. tokens' = tokens
    BY <1>4 DEF AccessNext, AccessStep, Deploy, SeedUser, Minute, DeactivateUser, DeactivateKey,
                Search, Edit, CreateKey, Upload
  <2> QED
    BY <1>2, <2>1
<1> QED
  BY <1>3, <1>4

LEMMA KeysHold ==
    ASSUME AccessInv, AccessNext
    PROVE  \A n \in KeyNames : keys'[n] # None =>
              \E u \in Users : HeldRecently(u, {"admin"}, keys[n].created_at)'
<1>1. StepKeepsTypes /\ AccessTypeOK /\ {"admin"} \in SUBSET Roles
  BY AccessStepTypes DEF AccessInv, AccessNext, Roles
<1>2. ASSUME NEW n \in KeyNames, keys[n] # None, keys'[n] # None,
             keys'[n].created_at = keys[n].created_at
      PROVE  \E u \in Users : HeldRecently(u, {"admin"}, keys[n].created_at)'
  <2>1. keys[n].created_at \in Nat
    BY <1>1, <1>2 DEF AccessTypeOK, Key
  <2>2. PICK u \in Users : HeldRecently(u, {"admin"}, keys[n].created_at)
    BY <1>2 DEF AccessInv, RightsInv
  <2>3. PICK m \in Nat : m = keys[n].created_at
    BY <2>1
  <2>4. HeldRecently(u, {"admin"}, m)'
    BY <1>1, <2>2, <2>3, HistoryOnlyGrows
  <2> QED
    BY <1>2, <2>3, <2>4
<1>3. ASSUME NEW k \in KeyNames, DeactivateKey(k), NEW n \in KeyNames, keys'[n] # None
      PROVE  \E u \in Users : HeldRecently(u, {"admin"}, keys[n].created_at)'
  <2>1. keys[k] # None /\ keys' = [keys EXCEPT ![k].active = FALSE]
    BY <1>3 DEF DeactivateKey
  <2>2. keys[n] # None /\ keys'[n].created_at = keys[n].created_at
    BY <1>1, <1>3, <2>1 DEF AccessTypeOK, Key
  <2> QED
    BY <1>2, <1>3, <2>2
<1>4. ASSUME NEW t \in tokens, NEW k \in KeyNames, CreateKey(t, k), NEW n \in KeyNames,
             keys'[n] # None
      PROVE  \E u \in Users : HeldRecently(u, {"admin"}, keys[n].created_at)'
  <2>1. PICK s \in Scopes :
           keys' = [keys EXCEPT ![k] = [scopes |-> s, active |-> TRUE, created_at |-> clock]]
    BY <1>4 DEF CreateKey
  <2>2. CASE n = k
    <3>1. keys'[n].created_at = clock /\ clock \in Nat
      BY <1>1, <2>1, <2>2 DEF AccessTypeOK
    <3>2. HeldRecently(t.sub, {"admin"}, clock) /\ t.sub \in Users
      BY <1>4, AdmittedHeldRecently DEF CreateKey, Allowed
    <3>3. PICK m \in Nat : m = clock
      BY <3>1
    <3>4. PICK u \in Users : u = t.sub
      BY <3>2
    <3>5. HeldRecently(u, {"admin"}, m)'
      BY <1>1, <3>2, <3>3, <3>4, HistoryOnlyGrows
    <3> QED
      BY <3>1, <3>3, <3>5
  <2>3. CASE n # k
    <3>1. keys'[n] = keys[n]
      BY <2>1, <2>3
    <3> QED
      BY <1>2, <1>4, <3>1
  <2> QED
    BY <2>2, <2>3
<1>5. CASE keys' = keys
  BY <1>2, <1>5
<1>6. \/ keys' = keys
      \/ \E k \in KeyNames : DeactivateKey(k)
      \/ \E t \in tokens, k \in KeyNames : CreateKey(t, k)
  BY DEF AccessNext, AccessStep, Deploy, SeedUser, Minute, DeactivateUser, Login, Search, Edit,
         Upload, tables
<1> QED
  BY <1>3, <1>4, <1>5, <1>6

(* What a step lets through.                                               *)
LEMMA GrantsHold ==
    ASSUME AccessInv, AccessNext
    PROVE  GrantsAreRightful'
<1>1. CASE granted' = Nothing
  BY <1>1 DEF Nothing, GrantsAreRightful, RoleHeldRecently, UploadsAnswerable
<1>2. ASSUME NEW t \in tokens, NEW op \in {"search", "edit", "upload", "key"}, Admits(t, op),
             granted'.op = op, granted'.user = t.sub, op = "upload" => granted'.key = None,
             clock' = clock
      PROVE  GrantsAreRightful'
  <2>1. /\ t.sub \in Users /\ Allowed(op) \in SUBSET Roles
        /\ HeldRecently(t.sub, Allowed(op), clock) /\ clock \in Nat
    BY <1>2, AdmittedHeldRecently DEF AccessInv, AccessTypeOK
  <2>2. PICK u \in Users : u = t.sub
    BY <2>1
  <2>3. PICK m \in Nat : m = clock
    BY <2>1
  <2>4. HeldRecently(u, Allowed(op), m)'
    BY <2>1, <2>2, <2>3, HistoryOnlyGrows
  <2>5. u # None
    BY AccessNone
  <2>6. RoleHeldRecently'
    BY <1>2, <2>2, <2>3, <2>4 DEF RoleHeldRecently, Allowed
  <2>7. UploadsAnswerable'
    BY <1>2, <2>2, <2>5 DEF UploadsAnswerable
  <2> QED
    BY <2>6, <2>7 DEF GrantsAreRightful
<1>3. ASSUME NEW n \in KeyNames, Verified(n), granted' = [op |-> "upload", user |-> None, key |-> n],
             UNCHANGED keys
      PROVE  GrantsAreRightful'
  <2>1. Verified(n)' /\ n # None /\ keys[n] # None
    BY <1>3, AccessNone DEF Verified
  <2>2. \E u \in Users : HeldRecently(u, {"admin"}, keys[n].created_at)'
    BY <1>3, <2>1, KeysHold
  <2>3. UploadsAnswerable'
    BY <1>3, <2>1, <2>2 DEF UploadsAnswerable
  <2>4. RoleHeldRecently'
    BY <1>3 DEF RoleHeldRecently
  <2> QED
    BY <2>3, <2>4 DEF GrantsAreRightful
<1>4. ASSUME NEW t \in tokens, Search(t) PROVE GrantsAreRightful'
  BY <1>2, <1>4 DEF Search
<1>5. ASSUME NEW t \in tokens, Edit(t) PROVE GrantsAreRightful'
  BY <1>2, <1>5 DEF Edit
<1>6. ASSUME NEW t \in tokens, NEW n \in KeyNames, CreateKey(t, n) PROVE GrantsAreRightful'
  BY <1>2, <1>6 DEF CreateKey
<1>7. ASSUME NEW t \in tokens \cup {None}, NEW n \in KeyNames \cup {None}, Upload(t, n)
      PROVE  GrantsAreRightful'
  <2>1. CASE /\ t # None /\ Admits(t, "upload")
             /\ granted' = [op |-> "upload", user |-> t.sub, key |-> None]
    BY <1>2, <1>7, <2>1 DEF Upload
  <2>2. CASE n # None /\ Verified(n) /\ granted' = [op |-> "upload", user |-> None, key |-> n]
    BY <1>3, <1>7, <2>2 DEF Upload, tables
  <2> QED
    BY <1>7, <2>1, <2>2 DEF Upload
<1>8. \/ granted' = Nothing
      \/ \E t \in tokens : Search(t) \/ Edit(t) \/ \E n \in KeyNames : CreateKey(t, n)
      \/ \E t \in tokens \cup {None}, n \in KeyNames \cup {None} : Upload(t, n)
  BY DEF AccessNext, AccessStep, Deploy, SeedUser, Minute, DeactivateUser, Login, DeactivateKey
<1> QED
  BY <1>1, <1>4, <1>5, <1>6, <1>7, <1>8

-----------------------------------------------------------------------------
(* The roles of the seeded users.                                          *)
LEMMA SeedOne ==
    ASSUME NEW done \in SUBSET Roles, NEW x \in Roles, x \notin done,
           \A rs \in SUBSET (done \cup {x}) : x \in rs => Strongest(rs) = x,
           Wins(done), setting \in [Roles -> Users \cup {None}],
           role \in [Users -> Roles \cup {None}],
           IF setting[x] = None THEN UNCHANGED role ELSE role' = [role EXCEPT ![setting[x]] = x],
           UNCHANGED setting
    PROVE  Wins(done \cup {x})'
<1> SUFFICES ASSUME NEW r \in done \cup {x}, setting[r] # None
             PROVE  role'[setting[r]] = Strongest({q \in done \cup {x} : setting[q] = setting[r]})
  BY DEF Wins
<1>1. CASE setting[r] = setting[x]
  <2>1. {q \in done \cup {x} : setting[q] = setting[r]} \in SUBSET (done \cup {x})
    OBVIOUS
  <2>2. x \in {q \in done \cup {x} : setting[q] = setting[r]}
    BY <1>1
  <2>3. Strongest({q \in done \cup {x} : setting[q] = setting[r]}) = x
    BY <2>1, <2>2
  <2> QED
    BY <1>1, <2>3
<1>2. CASE setting[r] # setting[x]
  <2>1. {q \in done \cup {x} : setting[q] = setting[r]} = {q \in done : setting[q] = setting[r]}
    BY <1>2
  <2>2. r \in done /\ role'[setting[r]] = role[setting[r]]
    BY <1>2
  <2>3. role[setting[r]] = Strongest({q \in done : setting[q] = setting[r]})
    BY <2>2 DEF Wins
  <2> QED
    BY <2>1, <2>2, <2>3
<1> QED
  BY <1>1, <1>2

LEMMA SeedingHolds ==
    ASSUME AccessInv, AccessNext
    PROVE  SeedingInv'
<1>1. /\ setting \in [Roles -> Users \cup {None}] /\ role \in [Users -> Roles \cup {None}]
      /\ SeedingInv
  BY DEF AccessInv, AccessTypeOK
<1>2. CASE Deploy
  BY <1>2 DEF Deploy, SeedingInv
<1>3. CASE SeedUser
  <2> PICK x : x = Head(todo)
    OBVIOUS
  <2>1. /\ todo # << >> /\ todo' = Tail(todo) /\ UNCHANGED setting
        /\ IF setting[x] = None THEN UNCHANGED role ELSE role' = [role EXCEPT ![setting[x]] = x]
    BY <1>3 DEF SeedUser
  <2>2. CASE todo = <<"admin", "viewer", "editor", "uploader">>
    <3>1. x = "admin" /\ todo' = <<"viewer", "editor", "uploader">>
      BY <2>1, <2>2
    <3>2. Wins({})
      BY DEF Wins
    <3>3. \A rs \in SUBSET ({} \cup {x}) : x \in rs => Strongest(rs) = x
      BY <3>1 DEF Strongest
    <3>4. Wins({} \cup {x})'
      BY <1>1, <2>1, <3>1, <3>2, <3>3, SeedOne DEF Roles
    <3>5. {} \cup {x} = {"admin"}
      BY <3>1
    <3> QED
      BY <3>1, <3>4, <3>5 DEF SeedingInv
  <2>3. CASE todo = <<"viewer", "editor", "uploader">>
    <3>1. x = "viewer" /\ todo' = <<"editor", "uploader">> /\ Wins({"admin"})
      BY <1>1, <2>1, <2>3 DEF SeedingInv
    <3>2. \A rs \in SUBSET ({"admin"} \cup {x}) : x \in rs => Strongest(rs) = x
      BY <3>1 DEF Strongest
    <3>3. Wins({"admin"} \cup {x})'
      BY <1>1, <2>1, <3>1, <3>2, SeedOne DEF Roles
    <3>4. {"admin"} \cup {x} = {"admin", "viewer"}
      BY <3>1
    <3> QED
      BY <3>1, <3>3, <3>4 DEF SeedingInv
  <2>4. CASE todo = <<"editor", "uploader">>
    <3>1. x = "editor" /\ todo' = <<"uploader">> /\ Wins({"admin", "viewer"})
      BY <1>1, <2>1, <2>4 DEF SeedingInv
    <3>2. \A rs \in SUBSET ({"admin", "viewer"} \cup {x}) : x \in rs => Strongest(rs) = x
      <4> SUFFICES ASSUME NEW rs \in SUBSET {"admin", "viewer", "editor"}, "editor" \in rs
                   PROVE  Strongest(rs) = "editor"
        BY <3>1
      <4>1. "uploader" \notin rs
        OBVIOUS
      <4> QED
        BY <4>1 DEF Strongest
    <3>3. Wins({"admin", "viewer"} \cup {x})'
      BY <1>1, <2>1, <3>1, <3>2, SeedOne DEF Roles
    <3>4. {"admin", "viewer"} \cup {x} = {"admin", "viewer", "editor"}
      BY <3>1
    <3> QED
      BY <3>1, <3>3, <3>4 DEF SeedingInv
  <2>5. CASE todo = <<"uploader">>
    <3>1. x = "uploader" /\ todo' = << >> /\ Wins({"admin", "viewer", "editor"})
      BY <1>1, <2>1, <2>5 DEF SeedingInv
    <3>2. \A rs \in SUBSET ({"admin", "viewer", "editor"} \cup {x}) : x \in rs => Strongest(rs) = x
      <4> SUFFICES ASSUME NEW rs, "uploader" \in rs PROVE Strongest(rs) = "uploader"
        BY <3>1
      <4> QED
        BY DEF Strongest
    <3>3. Wins({"admin", "viewer", "editor"} \cup {x})'
      BY <1>1, <2>1, <3>1, <3>2, SeedOne DEF Roles
    <3>4. {"admin", "viewer", "editor"} \cup {x} = Roles
      BY <3>1 DEF Roles
    <3> QED
      BY <3>1, <3>3, <3>4 DEF SeedingInv
  <2> QED
    BY <1>1, <2>1, <2>2, <2>3, <2>4, <2>5 DEF SeedingInv
<1>4. CASE ~Deploy /\ ~SeedUser
  <2>1. UNCHANGED <<todo, setting, role>>
    BY <1>4 DEF AccessNext, AccessStep, Minute, DeactivateUser, Login, DeactivateKey, Search, Edit,
                CreateKey, Upload, tables
  <2> QED
    BY <1>1, <2>1 DEF SeedingInv, Wins
<1> QED
  BY <1>2, <1>3, <1>4

LEMMA NextAccessInv == AccessInv /\ [AccessNext]_avars => AccessInv'
<1>1. ASSUME AccessInv, AccessNext PROVE AccessInv'
  <2>1. StepKeepsTypes /\ SeedingInv'
    BY <1>1, AccessStepTypes, SeedingHolds DEF AccessInv, AccessNext
  <2>2. todo' \in Seq(Roles)
    <3>1. /\ <<"admin", "viewer", "editor", "uploader">> \in Seq(Roles)
          /\ <<"viewer", "editor", "uploader">> \in Seq(Roles)
          /\ <<"editor", "uploader">> \in Seq(Roles) /\ <<"uploader">> \in Seq(Roles)
          /\ << >> \in Seq(Roles)
      BY DEF Roles
    <3> QED
      BY <2>1, <3>1 DEF SeedingInv
  <2>3. AccessTypeOK'
    BY <1>1, <2>1, <2>2, HistoryOnlyGrows DEF StepKeepsTypes, AccessTypeOK
  <2>4. RightsInv'
    BY <1>1, HistoryOnlyGrows, TokensHold, KeysHold DEF RightsInv
  <2> QED
    BY <1>1, <2>1, <2>3, <2>4, GrantsHold DEF AccessInv
<1>2. ASSUME AccessInv, UNCHANGED avars PROVE AccessInv'
  <2>1. UNCHANGED <<clock, role, active, keys, tokens, setting, todo, granted, lastHeld>>
    BY <1>2 DEF avars
  <2> QED
    BY <1>2, <2>1 DEF AccessInv, AccessTypeOK, RightsInv, HeldRecently, SeedingInv, Wins,
                      GrantsAreRightful, RoleHeldRecently, UploadsAnswerable, Verified
<1> QED
  BY <1>1, <1>2

LEMMA AccessInvariant == AccessSpec => []AccessInv
  BY InitAccessInv, NextAccessInv, PTL DEF AccessSpec

(* For any users, keys, settings and lifetime of a token: who was let edit,*)
(* upload or create a key held a role that allows it, as an active user,   *)
(* no longer ago than a token lives; and an upload is answered for by one  *)
(* user, or by one key an admin made (api/deps.py, services/auth_service.py*)
(* and services/service_api_key_service.py).                               *)
THEOREM GrantsWereRights == AccessSpec => []GrantsAreRightful
<1>1. AccessInv => GrantsAreRightful
  BY DEF AccessInv
<1> QED
  BY <1>1, AccessInvariant, PTL

(* Once a worker has seeded, every user its settings name has the role of  *)
(* the last setting that names it (_seed_user, main.py).                   *)
THEOREM SettingsDecideRoles == AccessSpec => []SettingsWin
<1>1. AccessInv => SettingsWin
  BY DEF AccessInv, SeedingInv, Wins, Strongest, SettingsWin
<1> QED
  BY <1>1, AccessInvariant, PTL

-----------------------------------------------------------------------------
(* DemoSeed.                                                               *)

(* What any run makes of product i on some day: the store and the price    *)
(* follow from the number.                                                 *)
LineOf(i, day) == [store |-> i % StoreCount, product |-> i, day |-> day, price |-> i]

JobRecord == [state: {"idle", "running", "done", "failed"}, chunk: ChunkSizes,
              day: Nat, offset: 0 .. Products, drawn: 0 .. Products]

(* A run has drawn as often as it has passed products, and the catalogue   *)
(* has a row for each of those.                                            *)
JobInv(j) ==
    /\ j \in JobRecord /\ j.day <= today /\ j.offset = j.drawn
    /\ j.state = "idle" => j.offset = 0
    /\ j.state = "done" => j.offset = Products
    /\ \A i \in 1 .. j.offset : LineOf(i, j.day) \in rows

RowInv(a) ==
    /\ a.product \in 1 .. Products /\ a.day \in Nat /\ a = LineOf(a.product, a.day)
    /\ \A i \in 1 .. a.product : LineOf(i, a.day) \in rows

SeedInv ==
    /\ today \in 0 .. LastDay
    /\ job \in [Runs -> JobRecord] /\ \A r \in Runs : JobInv(job[r])
    /\ \A a \in rows : RowInv(a)
    /\ document \subseteq rows

LEMMA InitSeedInv == DInit => SeedInv
<1> SUFFICES ASSUME DInit PROVE SeedInv
  OBVIOUS
<1>1. PICK c \in [Runs -> ChunkSizes] :
        job = [r \in Runs |-> [state |-> "idle", chunk |-> c[r], day |-> 0,
                               offset |-> 0, drawn |-> 0]]
  BY DEF DInit
<1>2. today = 0 /\ rows = {} /\ document = {} /\ Products \in Nat /\ LastDay \in Nat
  BY SeedConstants DEF DInit
<1>3. \A r \in Runs : JobInv(job[r])
  BY <1>1, <1>2 DEF JobInv, JobRecord
<1>4. job \in [Runs -> JobRecord]
  BY <1>1, <1>2 DEF JobRecord
<1> QED
  BY <1>2, <1>3, <1>4 DEF SeedInv

(* A chunk brings the lines of the products it goes through.               *)
LEMMA ChunkIsLines ==
  ASSUME NEW j \in JobRecord, j.offset = j.drawn, j.offset < Products, NEW n, n = ChunkLength(j)
  PROVE  /\ n \in Nat /\ j.offset + n \in 0 .. Products
         /\ BuildRows(j, n) = {LineOf(i, j.day) : i \in j.offset + 1 .. j.offset + n}
<1>1. Products \in Nat /\ j.offset \in Nat /\ j.chunk \in Nat
  <2>1. Products \in Nat
    BY SeedConstants
  <2>2. j.offset \in Nat
    <3>1. \A p \in Nat : \A i \in 0 .. p : i \in Nat
      OBVIOUS
    <3>2. j.offset \in 0 .. Products
      BY DEF JobRecord
    <3> QED
      BY <2>1, <3>1, <3>2, Zenon
  <2>3. j.chunk \in Nat
    <3>1. j.chunk \in ChunkSizes
      BY DEF JobRecord
    <3> QED
      BY <3>1, SeedConstants
  <2> QED
    BY <2>1, <2>2, <2>3, Zenon
<1>2. n \in Nat /\ j.offset + n \in 0 .. Products
  BY <1>1 DEF ChunkLength
<1>3. \A i \in j.offset + 1 .. j.offset + n : j.drawn + i - j.offset = i
  BY <1>1, <1>2
<1>4. BuildRows(j, n) = {LineOf(i, j.day) : i \in j.offset + 1 .. j.offset + n}
  BY <1>3 DEF BuildRows, LineOf
<1> QED
  BY <1>2, <1>4

(* Lines of one business key are one line: an upsert of lines only adds.   *)
LEMMA UpsertAdds ==
  ASSUME NEW old, NEW new, \A a \in old \cup new : a = LineOf(a.product, a.day)
  PROVE  Upsert(old, new) = old \cup new
<1>1. \A a, b \in old \cup new : SameKey(a, b) => a = b
  BY DEF SameKey
<1> QED
  BY <1>1 DEF Upsert

LEMMA SeedChunkStep == ASSUME SeedInv, NEW r \in Runs, SeedChunk(r) PROVE SeedInv'
<1>1. PICK j \in JobRecord : j = job[r]
  BY DEF SeedInv
<1>2. PICK n \in Nat : n = ChunkLength(j) /\ j.offset + n \in 0 .. Products
  BY <1>1, ChunkIsLines DEF SeedInv, JobInv, SeedChunk
<1>3. PICK new : new = BuildRows(j, n)
  OBVIOUS
<1>4. new = {LineOf(i, j.day) : i \in j.offset + 1 .. j.offset + n}
  BY <1>1, <1>2, <1>3, ChunkIsLines DEF SeedInv, JobInv, SeedChunk
<1>5. Products \in Nat /\ j.offset \in Nat /\ j.day \in Nat
  BY SeedConstants DEF JobRecord
<1>6. \A a \in new : /\ a.product \in j.offset + 1 .. j.offset + n /\ a.day = j.day
                     /\ a = LineOf(a.product, a.day)
  BY <1>4 DEF LineOf
<1>7. /\ today' = today
      /\ \/ /\ job' = [job EXCEPT ![r].state = "failed"]
            /\ UNCHANGED <<rows, document>>
         \/ /\ rows' = Upsert(rows, new)
            /\ \E taken \in SUBSET new : document' = Upsert(document, taken)
            /\ \/ job' = [job EXCEPT ![r].offset = j.offset + n, ![r].drawn = j.drawn + n]
               \/ job' = [job EXCEPT ![r].state = "failed"]
  BY <1>1, <1>2, <1>3 DEF SeedChunk
<1>8. rows \subseteq rows' /\ rows' \in {rows, rows \cup new} /\ document' \subseteq rows'
  <2>1. CASE UNCHANGED <<rows, document>>
    BY <2>1 DEF SeedInv
  <2>2. CASE /\ rows' = Upsert(rows, new)
             /\ \E taken \in SUBSET new : document' = Upsert(document, taken)
    <3>1. PICK taken \in SUBSET new : document' = Upsert(document, taken)
      BY <2>2
    <3>2. \A a \in rows : a = LineOf(a.product, a.day)
      BY DEF SeedInv, RowInv
    <3>3. rows' = rows \cup new
      BY <2>2, <3>2, <1>6, UpsertAdds
    <3>4. document' = document \cup taken
      <4>1. \A a \in document \cup taken : a = LineOf(a.product, a.day)
        BY <3>2, <1>6 DEF SeedInv
      <4> QED
        BY <4>1, <3>1, UpsertAdds
    <3> QED
      BY <3>3, <3>4 DEF SeedInv
  <2> QED
    BY <1>7, <2>1, <2>2
<1>9. \A a \in rows' : RowInv(a)'
  <2> SUFFICES ASSUME NEW a \in rows' PROVE RowInv(a)'
    OBVIOUS
  <2>1. CASE a \in rows
    BY <2>1, <1>8 DEF SeedInv, RowInv
  <2>2. CASE a \in new /\ rows' = rows \cup new
    <3>1. \A i \in 1 .. j.offset : LineOf(i, j.day) \in rows
      BY <1>1 DEF SeedInv, JobInv
    <3>2. \A i \in 1 .. a.product : LineOf(i, j.day) \in rows'
      BY <2>2, <3>1, <1>2, <1>4, <1>5, <1>6
    <3> QED
      BY <2>2, <3>2, <1>2, <1>5, <1>6 DEF RowInv
  <2> QED
    BY <2>1, <2>2, <1>8
<1>10. job' \in [Runs -> JobRecord] /\ \A q \in Runs : JobInv(job[q])'
  <2>0. /\ JobInv(job[r]) /\ j.state = "running" /\ j.offset < Products
        /\ \A q \in Runs : JobInv(job[q])
    BY <1>1 DEF SeedInv, SeedChunk
  <2>1. CASE job' = [job EXCEPT ![r].state = "failed"]
    <3>1. job' = [job EXCEPT ![r] = [j EXCEPT !.state = "failed"]]
      BY <2>1, <1>1
    <3>2. [j EXCEPT !.state = "failed"] \in JobRecord
      BY DEF JobRecord
    <3>3. job' \in [Runs -> JobRecord]
      BY <3>1, <3>2 DEF SeedInv
    <3>4. job'[r] = [j EXCEPT !.state = "failed"] /\ \A q \in Runs : q # r => job'[q] = job[q]
      BY <3>1 DEF SeedInv
    <3>5. JobInv(job[r])'
      BY <3>2, <3>4, <1>1, <1>7, <1>8, <2>0 DEF JobInv, JobRecord
    <3> QED
      BY <3>3, <3>4, <3>5, <2>0, <1>7, <1>8 DEF JobInv
  <2>2. CASE /\ job' = [job EXCEPT ![r].offset = j.offset + n, ![r].drawn = j.drawn + n]
             /\ rows' = rows \cup new
    <3> DEFINE go == [j EXCEPT !.offset = j.offset + n, !.drawn = j.drawn + n]
    <3>0. PICK g : g = go
      OBVIOUS
    <3>1. job' = [job EXCEPT ![r] = g]
      BY <2>2, <1>1, <3>0
    <3>2. g \in JobRecord /\ g.offset = j.offset + n /\ g.drawn = g.offset /\ g.day = j.day
          /\ g.state = "running"
      BY <3>0, <1>1, <1>2, <2>0 DEF JobRecord, JobInv
    <3>3. job' \in [Runs -> JobRecord]
      BY <3>1, <3>2 DEF SeedInv
    <3>4. job'[r] = g /\ \A q \in Runs : q # r => job'[q] = job[q]
      BY <3>1 DEF SeedInv
    <3>5. \A i \in 1 .. g.offset : LineOf(i, g.day) \in rows'
      BY <2>2, <2>0, <3>2, <1>1, <1>2, <1>4, <1>5 DEF JobInv
    <3>6. JobInv(job[r])'
      BY <3>2, <3>4, <3>5, <2>0, <1>1, <1>7 DEF JobInv
    <3> QED
      BY <3>3, <3>4, <3>6, <2>0, <1>7, <1>8 DEF JobInv
  <2>3. rows' = Upsert(rows, new) => rows' = rows \cup new
    <3>1. \A a \in rows : a = LineOf(a.product, a.day)
      BY DEF SeedInv, RowInv
    <3> QED
      BY <3>1, <1>6, UpsertAdds
  <2> QED
    BY <1>7, <2>1, <2>2, <2>3
<1> QED
  BY <1>7, <1>8, <1>9, <1>10 DEF SeedInv

LEMMA NextSeedInv == SeedInv /\ [DNext]_dvars => SeedInv'
<1>1. ASSUME SeedInv, UNCHANGED <<rows, document>>, today' \in 0 .. LastDay, today <= today',
             job' \in [Runs -> JobRecord], \A q \in Runs : job'[q] = job[q] \/ JobInv(job[q])'
      PROVE  SeedInv'
  <2>1. \A q \in Runs : JobInv(job[q])'
    <3> SUFFICES ASSUME NEW q \in Runs, job'[q] = job[q] PROVE JobInv(job[q])'
      BY <1>1
    <3>1. JobInv(job[q]) /\ today \in Nat /\ today' \in Nat /\ job[q].day \in Nat
      BY <1>1, SeedConstants DEF SeedInv, JobRecord
    <3> QED
      BY <1>1, <3>1 DEF JobInv
  <2>2. \A a \in rows' : RowInv(a)'
    BY <1>1 DEF SeedInv, RowInv
  <2> QED
    BY <1>1, <2>1, <2>2 DEF SeedInv
<1>2. ASSUME SeedInv, NEW r \in Runs, Launch(r) \/ Killed(r) \/ Finished(r)
      PROVE  SeedInv'
  <2>1. PICK j \in JobRecord : j = job[r]
    BY <1>2 DEF SeedInv
  <2>2. today \in Nat /\ today' = today /\ UNCHANGED <<rows, document>> /\ Products \in Nat
        /\ JobInv(job[r]) /\ j.offset \in 0 .. Products
    BY <1>2, SeedConstants, <2>1 DEF SeedInv, Launch, Killed, Finished, JobRecord
  <2>3. PICK g \in {[j EXCEPT !.state = "running", !.day = today], [j EXCEPT !.state = "failed"],
                    [j EXCEPT !.state = "done"]} : job' = [job EXCEPT ![r] = g]
    BY <1>2, <2>1 DEF Launch, Killed, Finished
  <2>4. g \in JobRecord
    BY <2>2, <2>3 DEF JobRecord
  <2>5. job' \in [Runs -> JobRecord] /\ job'[r] = g /\ \A q \in Runs : q # r => job'[q] = job[q]
    BY <1>2, <2>3, <2>4 DEF SeedInv
  <2>6. JobInv(job[r])'
    <3>1. CASE Launch(r)
      <4>1. j.offset = 0 /\ g = [j EXCEPT !.state = "running", !.day = today]
        <5>1. g.state = "running"
          BY <3>1, <2>1, <2>5 DEF Launch, JobRecord
        <5> QED
          BY <3>1, <5>1, <2>1, <2>2, <2>3 DEF Launch, JobInv, JobRecord
      <4> QED
        <5>1. g.offset = 0 /\ g.drawn = j.drawn /\ g.day = today /\ g.state = "running"
          BY <4>1, <2>1 DEF JobRecord
        <5>2. j.drawn = 0 /\ today <= today'
          BY <4>1, <2>1, <2>2 DEF JobInv
        <5> QED
          BY <5>1, <5>2, <2>2, <2>4, <2>5 DEF JobInv
    <3>2. CASE Killed(r)
      <4>1. g = [j EXCEPT !.state = "failed"]
        <5>1. g.state = "failed"
          BY <3>2, <2>1, <2>5, <1>2 DEF Killed, JobRecord, SeedInv
        <5> QED
          BY <5>1, <2>3 DEF JobRecord
      <4> QED
        BY <4>1, <2>1, <2>2, <2>4, <2>5 DEF JobInv, JobRecord
    <3>3. CASE Finished(r)
      <4>1. g = [j EXCEPT !.state = "done"] /\ j.offset = Products
        <5>1. g.state = "done"
          BY <3>3, <2>1, <2>5, <1>2 DEF Finished, JobRecord, SeedInv
        <5> QED
          <6>1. j.offset >= Products
            BY <3>3, <2>1 DEF Finished
          <6>2. g = [j EXCEPT !.state = "done"]
            BY <5>1, <2>3 DEF JobRecord
          <6> QED
            BY <6>1, <6>2, <2>2
      <4> QED
        BY <4>1, <2>1, <2>2, <2>4, <2>5 DEF JobInv, JobRecord
    <3> QED
      BY <1>2, <3>1, <3>2, <3>3
  <2>7. today' \in 0 .. LastDay /\ today <= today'
    BY <1>2, <2>2 DEF SeedInv
  <2> QED
    BY <1>1, <1>2, <2>2, <2>5, <2>6, <2>7
<1>3. ASSUME SeedInv, Midnight PROVE SeedInv'
  BY <1>1, <1>3, SeedConstants DEF Midnight, SeedInv
<1>4. ASSUME SeedInv, UNCHANGED dvars PROVE SeedInv'
  BY <1>1, <1>4, SeedConstants DEF dvars, SeedInv
<1> QED
  BY <1>2, <1>3, <1>4, SeedChunkStep DEF DNext

LEMMA SeedInvariant == DSpec => []SeedInv
  BY InitSeedInv, NextSeedInv, PTL DEF DSpec

LEMMA SeedTypesFollow == SeedInv => SeedTypeOK
<1> SUFFICES ASSUME SeedInv PROVE SeedTypeOK
  OBVIOUS
<1>1. rows \subseteq Row
  <2> SUFFICES ASSUME NEW a \in rows PROVE a \in Row
    OBVIOUS
  <2>1. a = LineOf(a.product, a.day) /\ a.product \in 1 .. Products /\ a.day \in Nat
    BY DEF SeedInv, RowInv
  <2>2. a.product \in Nat /\ a.product % StoreCount \in 0 .. StoreCount - 1
    BY <2>1, SeedConstants
  <2> QED
    BY <2>1, <2>2 DEF LineOf, Row
<1>2. document \subseteq Row
  BY <1>1 DEF SeedInv
<1>3. \A r \in Runs :
        /\ job[r] \in [state: {"idle", "running", "done", "failed"}, chunk: ChunkSizes,
                       day: 0 .. today, offset: 0 .. Products, drawn: 0 .. Products]
        /\ job[r].offset = job[r].drawn
  <2> SUFFICES ASSUME NEW r \in Runs
               PROVE  /\ job[r] \in [state: {"idle", "running", "done", "failed"},
                                     chunk: ChunkSizes, day: 0 .. today,
                                     offset: 0 .. Products, drawn: 0 .. Products]
                      /\ job[r].offset = job[r].drawn
    OBVIOUS
  <2>1. JobInv(job[r]) /\ today \in Nat
    BY SeedConstants DEF SeedInv
  <2> QED
    BY <2>1 DEF JobInv, JobRecord
<1> QED
  BY <1>1, <1>2, <1>3 DEF SeedInv, SeedTypeOK

(* For any number of runs, products, stores, chunk sizes and days: the     *)
(* types of DemoSeed, and one draw for each product passed.                *)
THEOREM SeedTypesCorrect == DSpec => []SeedTypeOK
  BY SeedTypesFollow, SeedInvariant, PTL

(* For any number of runs, products, stores, chunk sizes and days: a       *)
(* product has one row a day and one price for ever, whichever runs made   *)
(* the rows and wherever they were cut off; a day's rows are a prefix of   *)
(* the products, and all of them once a run of the day is done             *)
(* (cli/seed_demo_data.py).                                                *)
THEOREM RunsRepeat == DSpec => []SeedIsRepeatable
<1>1. SeedInv => SeedIsRepeatable
  <2> SUFFICES ASSUME SeedInv PROVE SeedIsRepeatable
    OBVIOUS
  <2>1. \A a \in rows : RowInv(a)
    BY DEF SeedInv
  <2>2. PricesRepeat
    BY <2>1 DEF SeedInv, PricesRepeat, RowInv, LineOf
  <2>3. \A a \in rows : \A i \in 1 .. a.product : \E b \in rows : b.product = i /\ b.day = a.day
    BY <2>1 DEF RowInv, LineOf
  <2>4. ASSUME NEW r \in Runs, job[r].state = "done"
        PROVE  {a.product : a \in {b \in rows : b.day = job[r].day}} = 1 .. Products
    <3>1. \A i \in 1 .. Products : LineOf(i, job[r].day) \in rows
      BY <2>4 DEF SeedInv, JobInv
    <3>2. \A i \in 1 .. Products : \E a \in rows : a.day = job[r].day /\ a.product = i
      BY <3>1 DEF LineOf
    <3>3. \A a \in rows : a.product \in 1 .. Products
      BY <2>1 DEF RowInv
    <3> QED
      BY <3>2, <3>3
  <2> QED
    BY <2>2, <2>3, <2>4 DEF SeedIsRepeatable, RowsAreAPrefix
<1> QED
  BY <1>1, SeedInvariant, PTL

-----------------------------------------------------------------------------
(* TTLCache.                                                               *)

(* A sequence names every member of a set, each once.                      *)
OnceEach(s, S) ==
    /\ s \in Seq(S)
    /\ \A k \in S : \E n \in 1 .. Len(s) : s[n] = k
    /\ \A m, n \in 1 .. Len(s) : s[m] = s[n] => m = n

LEMMA PositionIs ==
  ASSUME NEW S, NEW s, OnceEach(s, S)
  PROVE  /\ \A k \in S : Position(s, k) \in 1 .. Len(s) /\ s[Position(s, k)] = k
         /\ \A n \in 1 .. Len(s) : s[n] \in S /\ Position(s, s[n]) = n
         /\ \A a, b \in S : Position(s, a) = Position(s, b) => a = b
         /\ Len(s) \in Nat /\ DOMAIN s = 1 .. Len(s)
<1>1. Len(s) \in Nat /\ DOMAIN s = 1 .. Len(s) /\ s \in [1 .. Len(s) -> S]
  BY DEF OnceEach
<1>2. \A k \in S : Position(s, k) \in 1 .. Len(s) /\ s[Position(s, k)] = k
  BY <1>1 DEF OnceEach, Position
<1>3. \A n \in 1 .. Len(s) : s[n] \in S
  BY <1>1
<1>4. ASSUME NEW n \in 1 .. Len(s) PROVE Position(s, s[n]) = n
  <2>1. PICK k \in S : k = s[n]
    BY <1>3
  <2>2. PICK m \in 1 .. Len(s) : m = Position(s, k) /\ s[m] = k
    BY <1>2
  <2>3. m = n
    BY <2>1, <2>2 DEF OnceEach
  <2> QED
    BY <2>1, <2>2, <2>3
<1> QED
  BY <1>1, <1>2, <1>3, <1>4

LEMMA PositionUnique ==
  ASSUME NEW S, NEW s, OnceEach(s, S), NEW n \in 1 .. Len(s), NEW k, s[n] = k
  PROVE  Position(s, k) = n
  BY PositionIs

(* The removal of one of them: those behind it move up.                    *)
LEMMA WithoutOne ==
  ASSUME NEW S, NEW s, OnceEach(s, S), NEW k \in S
  PROVE  /\ OnceEach(Without(s, k), S \ {k})
         /\ Len(Without(s, k)) = Len(s) - 1
         /\ \A a \in S \ {k} : Position(Without(s, k), a) =
               IF Position(s, a) < Position(s, k) THEN Position(s, a) ELSE Position(s, a) - 1
<1> DEFINE l == Len(s)
           p == Position(s, k)
           t == Without(s, k)
<1>1. l \in Nat /\ DOMAIN s = 1 .. l /\ p \in 1 .. l /\ s[p] = k
  BY PositionIs
<1>2. t = [n \in 1 .. l - 1 |-> IF n < p THEN s[n] ELSE s[n + 1]]
  BY <1>1 DEF Without
<1>3. \A n \in 1 .. l : s[n] \in S /\ Position(s, s[n]) = n
  BY PositionIs
<1> HIDE DEF l, p, t
<1>4. \A n \in 1 .. l - 1 : /\ t[n] = IF n < p THEN s[n] ELSE s[n + 1]
                            /\ t[n] \in S \ {k}
  <2> SUFFICES ASSUME NEW n \in 1 .. l - 1
               PROVE  /\ t[n] = IF n < p THEN s[n] ELSE s[n + 1]
                      /\ t[n] \in S \ {k}
    OBVIOUS
  <2>1. t[n] = IF n < p THEN s[n] ELSE s[n + 1]
    BY <1>2
  <2>2. n \in 1 .. l /\ n + 1 \in 1 .. l
    BY <1>1
  <2>3. s[n] \in S /\ s[n + 1] \in S /\ Position(s, s[n]) = n /\ Position(s, s[n + 1]) = n + 1
    BY <1>3, <2>2
  <2>4. (n < p => s[n] # k) /\ (~(n < p) => s[n + 1] # k)
    BY <2>2, <2>3, <1>1 DEF p
  <2> QED
    BY <2>1, <2>3, <2>4
<1>5. t \in Seq(S \ {k}) /\ Len(t) = l - 1
  <2>1. t \in [1 .. l - 1 -> S \ {k}] /\ l - 1 \in Nat
    BY <1>1, <1>2, <1>4
  <2> QED
    BY <2>1
<1>6. ASSUME NEW a \in S \ {k}
      PROVE  \E n \in 1 .. l - 1 :
                t[n] = a /\ n = IF Position(s, a) < p THEN Position(s, a) ELSE Position(s, a) - 1
  <2>1. PICK i \in 1 .. l : i = Position(s, a) /\ s[i] = a
    BY PositionIs DEF l
  <2>2. i # p
    BY <1>1, <2>1
  <2>3. CASE i < p
    BY <1>1, <1>4, <2>1, <2>3
  <2>4. CASE i > p
    <3>1. i - 1 \in 1 .. l - 1 /\ ~(i - 1 < p) /\ (i - 1) + 1 = i
      BY <1>1, <2>4
    <3>2. t[i - 1] = a
      BY <3>1, <2>1, <1>4
    <3> QED
      BY <3>1, <3>2, <2>1, <2>4, <1>1
  <2> QED
    BY <1>1, <2>1, <2>2, <2>3, <2>4
<1>7. \A m, n \in 1 .. Len(t) : t[m] = t[n] => m = n
  <2> SUFFICES ASSUME NEW m \in 1 .. l - 1, NEW n \in 1 .. l - 1, t[m] = t[n] PROVE m = n
    BY <1>5
  <2>1. /\ Position(s, t[m]) = IF m < p THEN m ELSE m + 1
        /\ Position(s, t[n]) = IF n < p THEN n ELSE n + 1
    BY <1>1, <1>3, <1>4
  <2> QED
    BY <2>1, <1>1
<1>8. OnceEach(t, S \ {k})
  BY <1>5, <1>6, <1>7 DEF OnceEach
<1>9. ASSUME NEW a \in S \ {k}
      PROVE  Position(t, a) = IF Position(s, a) < p THEN Position(s, a) ELSE Position(s, a) - 1
  <2>1. PICK n \in 1 .. l - 1 :
           t[n] = a /\ n = IF Position(s, a) < p THEN Position(s, a) ELSE Position(s, a) - 1
    BY <1>6
  <2>2. Position(t, a) = n
    BY <2>1, <1>5, <1>8, PositionUnique
  <2> QED
    BY <2>1, <2>2
<1> QED
  BY <1>5, <1>8, <1>9 DEF l, p, t

LEMMA WithoutNone ==
  ASSUME NEW S, NEW s, OnceEach(s, S), NEW k, k \notin S
  PROVE  Without(s, k) = s
  BY PositionIs DEF Without

(* A new one at the end leaves the others where they are.                  *)
LEMMA AppendOne ==
  ASSUME NEW S, NEW s, OnceEach(s, S), NEW k, k \notin S
  PROVE  /\ OnceEach(Append(s, k), S \cup {k}) /\ Len(Append(s, k)) = Len(s) + 1
         /\ Append(s, k)[Len(s) + 1] = k /\ \A n \in 1 .. Len(s) : Append(s, k)[n] = s[n]
<1> DEFINE t == Append(s, k)
           l == Len(s)
<1>1. s \in Seq(S) /\ s \in Seq(S \cup {k}) /\ l \in Nat
  BY DEF OnceEach
<1>2. t \in Seq(S \cup {k}) /\ Len(t) = l + 1 /\ t[l + 1] = k /\ \A n \in 1 .. l : t[n] = s[n]
  BY <1>1, AppendProperties
<1>3. \A n \in 1 .. l : s[n] \in S /\ s[n] # k
  BY PositionIs
<1> HIDE DEF t, l
<1>4. \A m, n \in 1 .. l + 1 : t[m] = t[n] => m = n
  <2> SUFFICES ASSUME NEW m \in 1 .. l + 1, NEW n \in 1 .. l + 1, t[m] = t[n] PROVE m = n
    OBVIOUS
  <2>1. (m \in 1 .. l \/ m = l + 1) /\ (n \in 1 .. l \/ n = l + 1)
    BY <1>1
  <2>2. CASE m \in 1 .. l /\ n \in 1 .. l
    <3>1. s[m] = s[n]
      BY <2>2, <1>2
    <3> QED
      BY <2>2, <3>1 DEF OnceEach, l
  <2>3. CASE m \in 1 .. l /\ n = l + 1
    BY <2>3, <1>2, <1>3
  <2>4. CASE n \in 1 .. l /\ m = l + 1
    BY <2>4, <1>2, <1>3
  <2> QED
    BY <2>1, <2>2, <2>3, <2>4
<1>5. ASSUME NEW a \in S \cup {k} PROVE \E n \in 1 .. l + 1 : t[n] = a
  <2>1. CASE a \in S
    <3>1. PICK n \in 1 .. l : s[n] = a
      BY <2>1 DEF OnceEach, l
    <3> QED
      BY <3>1, <1>1, <1>2
  <2>2. CASE a = k
    BY <2>2, <1>1, <1>2
  <2> QED
    BY <2>1, <2>2
<1>6. OnceEach(t, S \cup {k})
  BY <1>2, <1>4, <1>5 DEF OnceEach
<1> QED
  BY <1>2, <1>6 DEF t, l

LEMMA AppendLast ==
  ASSUME NEW S, NEW s, OnceEach(s, S), NEW k, k \notin S
  PROVE  Position(Append(s, k), k) = Len(s) + 1
<1>1. PICK t : t = Append(s, k)
  OBVIOUS
<1>2. OnceEach(t, S \cup {k}) /\ Len(t) = Len(s) + 1 /\ t[Len(s) + 1] = k
  BY <1>1, AppendOne
<1>3. Len(s) \in Nat /\ Len(s) + 1 \in 1 .. Len(t)
  BY <1>2 DEF OnceEach
<1>4. \A n \in 1 .. Len(t) : Position(t, t[n]) = n
  BY <1>2, PositionIs
<1> QED
  BY <1>1, <1>2, <1>3, <1>4

LEMMA AppendKeeps ==
  ASSUME NEW S, NEW s, OnceEach(s, S), NEW k, k \notin S, NEW a \in S
  PROVE  Position(Append(s, k), a) = Position(s, a)
<1>1. PICK t : t = Append(s, k)
  OBVIOUS
<1>2. /\ OnceEach(t, S \cup {k}) /\ Len(t) = Len(s) + 1
      /\ \A n \in 1 .. Len(s) : t[n] = s[n]
  BY <1>1, AppendOne
<1>3. Len(s) \in Nat
  BY DEF OnceEach
<1>4. \A n \in 1 .. Len(t) : Position(t, t[n]) = n
  BY <1>2, PositionIs
<1>5. Position(s, a) \in 1 .. Len(s) /\ s[Position(s, a)] = a
  BY PositionIs
<1>6. Position(s, a) \in 1 .. Len(t) /\ t[Position(s, a)] = a
  BY <1>2, <1>3, <1>5
<1> QED
  BY <1>1, <1>4, <1>6

(* A key that is used goes to the end; the order of the others stays.      *)
LEMMA MovedToEnd ==
  ASSUME NEW S, NEW s, OnceEach(s, S), NEW k, NEW t, t = MoveToEnd(s, k)
  PROVE  /\ OnceEach(t, S \cup {k})
         /\ Len(t) = IF k \in S THEN Len(s) ELSE Len(s) + 1
         /\ Position(t, k) = Len(t)
         /\ \A a \in S \ {k} : Position(t, a) =
               IF k \in S /\ Position(s, k) < Position(s, a) THEN Position(s, a) - 1
               ELSE Position(s, a)
<1>1. CASE k \in S
  <2>1. PICK u : u = Without(s, k)
    OBVIOUS
  <2>2. /\ OnceEach(u, S \ {k}) /\ Len(u) = Len(s) - 1
        /\ \A a \in S \ {k} : Position(u, a) =
              IF Position(s, a) < Position(s, k) THEN Position(s, a) ELSE Position(s, a) - 1
    BY <1>1, <2>1, WithoutOne
  <2>3. PICK v : v = S \ {k}
    OBVIOUS
  <2>8. t = Append(u, k) /\ k \notin v /\ v \cup {k} = S \cup {k} /\ OnceEach(u, v)
    BY <2>1, <2>2, <2>3 DEF MoveToEnd
  <2>9. /\ OnceEach(t, v \cup {k}) /\ Len(t) = Len(u) + 1 /\ Position(t, k) = Len(u) + 1
        /\ \A a \in v : Position(t, a) = Position(u, a)
    <3>1. OnceEach(t, v \cup {k}) /\ Len(t) = Len(u) + 1
      BY <2>8, AppendOne
    <3>2. Position(t, k) = Len(u) + 1
      BY <2>8, AppendLast
    <3>3. ASSUME NEW a \in v PROVE Position(t, a) = Position(u, a)
      BY <2>8, AppendKeeps
    <3> QED
      BY <3>1, <3>2, <3>3
  <2>4. /\ OnceEach(t, S \cup {k}) /\ Len(t) = Len(u) + 1 /\ Position(t, k) = Len(u) + 1
        /\ \A a \in S \ {k} : Position(t, a) = Position(u, a)
    BY <2>3, <2>8, <2>9
  <2>5. \A a \in S : Position(s, a) \in Nat
    BY PositionIs
  <2>6. \A a \in S \ {k} : Position(s, a) # Position(s, k)
    BY <1>1, PositionIs
  <2>7. Len(s) \in Nat
    BY DEF OnceEach
  <2> QED
    BY <1>1, <2>2, <2>4, <2>5, <2>6, <2>7
<1>2. CASE k \notin S
  <2>1. t = Append(s, k) /\ S \ {k} = S
    BY <1>2, WithoutNone DEF MoveToEnd
  <2>2. /\ OnceEach(t, S \cup {k}) /\ Len(t) = Len(s) + 1 /\ Position(t, k) = Len(s) + 1
        /\ \A a \in S : Position(t, a) = Position(s, a)
    <3>1. OnceEach(t, S \cup {k}) /\ Len(t) = Len(s) + 1
      BY <1>2, <2>1, AppendOne
    <3>2. Position(t, k) = Len(s) + 1
      BY <1>2, <2>1, AppendLast
    <3>3. ASSUME NEW a \in S PROVE Position(t, a) = Position(s, a)
      BY <1>2, <2>1, AppendKeeps
    <3> QED
      BY <3>1, <3>2, <3>3
  <2> QED
    BY <1>2, <2>1, <2>2
<1> QED
  BY <1>1, <1>2

(* The first of them goes: all others move up.                             *)
LEMMA FirstGone ==
  ASSUME NEW S, NEW s, OnceEach(s, S), Len(s) > 0
  PROVE  /\ Head(s) \in S /\ Position(s, Head(s)) = 1
         /\ OnceEach(Tail(s), S \ {Head(s)}) /\ Len(Tail(s)) = Len(s) - 1
         /\ \A a \in S \ {Head(s)} : Position(Tail(s), a) = Position(s, a) - 1
<1> DEFINE l == Len(s)
           t == Tail(s)
           h == Head(s)
<1>1. s \in Seq(S) /\ l \in Nat /\ l > 0
  BY DEF OnceEach
<1>2. /\ t \in Seq(S) /\ Len(t) = l - 1 /\ h = s[1] /\ 1 \in 1 .. l
      /\ \A n \in 1 .. l - 1 : t[n] = s[n + 1]
  BY <1>1, HeadTailProperties
<1>3. h \in S /\ Position(s, h) = 1
  BY <1>2, PositionIs
<1> HIDE DEF l, t, h
<1>4. \A n \in 1 .. l - 1 : n + 1 \in 1 .. l /\ s[n + 1] \in S \ {h}
  <2> SUFFICES ASSUME NEW n \in 1 .. l - 1 PROVE n + 1 \in 1 .. l /\ s[n + 1] \in S \ {h}
    OBVIOUS
  <2>1. n + 1 \in 1 .. l /\ n + 1 # 1
    BY <1>1
  <2> QED
    BY <2>1, <1>3, PositionIs DEF l
<1>5. t \in Seq(S \ {h})
  <2>1. t = [n \in 1 .. l - 1 |-> s[n + 1]]
    <3>1. DOMAIN t = 1 .. l - 1 /\ t \in [1 .. l - 1 -> S]
      BY <1>2
    <3> QED
      BY <3>1, <1>2
  <2>2. t \in [1 .. l - 1 -> S \ {h}] /\ l - 1 \in Nat
    BY <2>1, <1>1, <1>4
  <2> QED
    BY <2>2
<1>6. \A m, n \in 1 .. l - 1 : t[m] = t[n] => m = n
  <2> SUFFICES ASSUME NEW m \in 1 .. l - 1, NEW n \in 1 .. l - 1, t[m] = t[n] PROVE m = n
    OBVIOUS
  <2>1. s[m + 1] = s[n + 1] /\ m + 1 \in 1 .. l /\ n + 1 \in 1 .. l
    BY <1>2, <1>4
  <2>2. m + 1 = n + 1
    BY <2>1 DEF OnceEach, l
  <2> QED
    BY <2>2, <1>1
<1>7. ASSUME NEW a \in S \ {h}
      PROVE  /\ Position(s, a) - 1 \in 1 .. l - 1 /\ t[Position(s, a) - 1] = a
  <2>1. PICK i \in 1 .. l : i = Position(s, a) /\ s[i] = a
    BY PositionIs DEF l
  <2>2. i # 1
    BY <2>1, <1>2
  <2>3. i - 1 \in 1 .. l - 1 /\ (i - 1) + 1 = i
    BY <2>2, <1>1
  <2> QED
    BY <2>1, <2>3, <1>2
<1>8. OnceEach(t, S \ {h})
  BY <1>2, <1>5, <1>6, <1>7 DEF OnceEach
<1>9. \A a \in S \ {h} : Position(t, a) = Position(s, a) - 1
  BY <1>2, <1>7, <1>8, PositionUnique
<1> QED
  BY <1>2, <1>3, <1>8, <1>9 DEF l, t, h

(* t is s with k moved to its end, or added there: the others keep their   *)
(* order and do not come nearer to the end.                                *)
Moved(t, s, k, S) ==
    /\ OnceEach(t, S \cup {k})
    /\ Len(t) = IF k \in S THEN Len(s) ELSE Len(s) + 1
    /\ \A a \in S \ {k} :
          /\ Position(t, a) < Position(t, k)
          /\ Len(t) - Position(t, a) >= Len(s) - Position(s, a)
    /\ \A a, b \in S \ {k} :
          Position(t, a) < Position(t, b) <=> Position(s, a) < Position(s, b)

(* t is s without k.                                                       *)
Removed(t, s, k, S) ==
    /\ OnceEach(t, S \ {k})
    /\ Len(t) = IF k \in S THEN Len(s) - 1 ELSE Len(s)
    /\ \A a, b \in S \ {k} :
          Position(t, a) < Position(t, b) <=> Position(s, a) < Position(s, b)

LEMMA MoveToEndMoves ==
  ASSUME NEW S, NEW s, OnceEach(s, S), NEW k
  PROVE  Moved(MoveToEnd(s, k), s, k, S)
<1>1. PICK t : t = MoveToEnd(s, k)
  OBVIOUS
<1>2. /\ OnceEach(t, S \cup {k})
      /\ Len(t) = IF k \in S THEN Len(s) ELSE Len(s) + 1
      /\ Position(t, k) = Len(t)
      /\ \A a \in S \ {k} : Position(t, a) =
               IF k \in S /\ Position(s, k) < Position(s, a) THEN Position(s, a) - 1
               ELSE Position(s, a)
  BY <1>1, MovedToEnd
<1>3. Len(s) \in Nat /\ Len(t) \in Nat
  BY <1>2 DEF OnceEach
<1>4. /\ \A a \in S : Position(s, a) \in 1 .. Len(s)
      /\ \A a, b \in S : Position(s, a) = Position(s, b) => a = b
  BY PositionIs
<1>5. \A a \in S \ {k} : Position(t, a) \in 1 .. Len(t) /\ Position(t, a) # Position(t, k)
  BY <1>2, PositionIs
<1>6. ASSUME NEW a \in S \ {k}
      PROVE  /\ Position(t, a) < Position(t, k)
             /\ Len(t) - Position(t, a) >= Len(s) - Position(s, a)
  <2>1. PICK x \in 1 .. Len(t) : x = Position(t, a)
    BY <1>5
  <2>2. PICK y \in 1 .. Len(s) : y = Position(s, a)
    BY <1>4
  <2>3. x # Len(t)
    BY <1>2, <1>5, <2>1
  <2>4. x = y \/ (k \in S /\ x = y - 1)
    BY <1>2, <2>1, <2>2
  <2> QED
    BY <1>2, <1>3, <2>1, <2>2, <2>3, <2>4
<1>7. ASSUME NEW a \in S \ {k}, NEW b \in S \ {k}
      PROVE  Position(t, a) < Position(t, b) <=> Position(s, a) < Position(s, b)
  <2>1. PICK x \in 1 .. Len(s) : x = Position(s, a)
    BY <1>4
  <2>2. PICK y \in 1 .. Len(s) : y = Position(s, b)
    BY <1>4
  <2>3. CASE k \in S
    <3>1. PICK z \in 1 .. Len(s) : z = Position(s, k) /\ z # x /\ z # y
      BY <2>3, <1>4, <2>1, <2>2
    <3>2. /\ Position(t, a) = IF z < x THEN x - 1 ELSE x
          /\ Position(t, b) = IF z < y THEN y - 1 ELSE y
      BY <2>3, <1>2, <2>1, <2>2, <3>1
    <3> QED
      BY <1>3, <2>1, <2>2, <3>1, <3>2
  <2>4. CASE k \notin S
    BY <2>4, <1>2
  <2> QED
    BY <2>3, <2>4
<1> QED
  BY <1>1, <1>2, <1>6, <1>7 DEF Moved

LEMMA WithoutRemoves ==
  ASSUME NEW S, NEW s, OnceEach(s, S), NEW k
  PROVE  Removed(Without(s, k), s, k, S)
<1>1. PICK t : t = Without(s, k)
  OBVIOUS
<1>2. CASE k \notin S
  <2>1. t = s /\ S \ {k} = S
    BY <1>1, <1>2, WithoutNone
  <2> QED
    BY <1>1, <1>2, <2>1 DEF Removed
<1>3. CASE k \in S
  <2>1. /\ OnceEach(t, S \ {k}) /\ Len(t) = Len(s) - 1
        /\ \A a \in S \ {k} : Position(t, a) =
              IF Position(s, a) < Position(s, k) THEN Position(s, a) ELSE Position(s, a) - 1
    BY <1>1, <1>3, WithoutOne
  <2>2. /\ \A a \in S : Position(s, a) \in 1 .. Len(s)
        /\ \A a, b \in S : Position(s, a) = Position(s, b) => a = b
        /\ Len(s) \in Nat
    BY PositionIs
  <2>3. ASSUME NEW a \in S \ {k}, NEW b \in S \ {k}
        PROVE  Position(t, a) < Position(t, b) <=> Position(s, a) < Position(s, b)
    <3>1. PICK x \in 1 .. Len(s) : x = Position(s, a)
      BY <2>2
    <3>2. PICK y \in 1 .. Len(s) : y = Position(s, b)
      BY <2>2
    <3>3. PICK z \in 1 .. Len(s) : z = Position(s, k) /\ z # x /\ z # y
      BY <1>3, <2>2, <3>1, <3>2
    <3>4. /\ Position(t, a) = IF x < z THEN x ELSE x - 1
          /\ Position(t, b) = IF y < z THEN y ELSE y - 1
      BY <2>1, <3>1, <3>2, <3>3
    <3> QED
      BY <2>2, <3>1, <3>2, <3>3, <3>4
  <2> QED
    BY <1>1, <1>3, <2>1, <2>3 DEF Removed
<1> QED
  BY <1>2, <1>3

LEMMA TailRemoves ==
  ASSUME NEW S, NEW s, OnceEach(s, S), Len(s) > 0
  PROVE  /\ Head(s) \in S /\ Removed(Tail(s), s, Head(s), S)
         /\ \A a \in S \ {Head(s)} : Position(s, Head(s)) < Position(s, a)
<1>1. PICK t : t = Tail(s)
  OBVIOUS
<1>2. PICK h : h = Head(s)
  OBVIOUS
<1>3. /\ h \in S /\ Position(s, h) = 1
      /\ OnceEach(t, S \ {h}) /\ Len(t) = Len(s) - 1
      /\ \A a \in S \ {h} : Position(t, a) = Position(s, a) - 1
  BY <1>1, <1>2, FirstGone
<1>4. /\ \A a \in S : Position(s, a) \in 1 .. Len(s)
      /\ \A a, b \in S : Position(s, a) = Position(s, b) => a = b
      /\ Len(s) \in Nat
  BY PositionIs
<1>5. ASSUME NEW a \in S \ {h} PROVE Position(s, h) < Position(s, a)
  <2>1. PICK x \in 1 .. Len(s) : x = Position(s, a) /\ x # 1
    BY <1>3, <1>4
  <2> QED
    BY <1>3, <1>4, <2>1
<1>6. ASSUME NEW a \in S \ {h}, NEW b \in S \ {h}
      PROVE  Position(t, a) < Position(t, b) <=> Position(s, a) < Position(s, b)
  <2>1. PICK x \in 1 .. Len(s) : x = Position(s, a) /\ Position(t, a) = x - 1
    BY <1>3, <1>4
  <2>2. PICK y \in 1 .. Len(s) : y = Position(s, b) /\ Position(t, b) = y - 1
    BY <1>3, <1>4
  <2> QED
    BY <1>4, <2>1, <2>2
<1> QED
  BY <1>1, <1>2, <1>3, <1>5, <1>6 DEF Removed

(* So many names are in one sequence, all behind some place of another.    *)
LEMMA BehindAreMany ==
  ASSUME NEW S, NEW s, OnceEach(s, S), NEW T, NEW t, OnceEach(t, T), T \subseteq S,
         NEW h \in S, \A a \in T : Position(s, h) < Position(s, a)
  PROVE  Len(s) - Position(s, h) >= Len(t)
<1>1. /\ \A a \in S : Position(s, a) \in 1 .. Len(s)
      /\ \A a, b \in S : Position(s, a) = Position(s, b) => a = b
      /\ Len(s) \in Nat
  BY PositionIs
<1>2. /\ \A n \in 1 .. Len(t) : t[n] \in T
      /\ Len(t) \in Nat
      /\ \A m, n \in 1 .. Len(t) : t[m] = t[n] => m = n
  <2>1. \A m, n \in 1 .. Len(t) : t[m] = t[n] => m = n
    BY DEF OnceEach
  <2> QED
    BY <2>1, PositionIs
<1>3. PICK p \in 1 .. Len(s) : p = Position(s, h)
  BY <1>1
<1>4. PICK l \in Nat : l = Len(s)
  BY <1>1
<1>5. PICK f : f = [n \in 1 .. Len(t) |-> Position(s, t[n])]
  OBVIOUS
<1>6. ASSUME NEW n \in 1 .. Len(t) PROVE f[n] \in p + 1 .. l
  <2>1. PICK a \in T : a = t[n]
    BY <1>2
  <2>2. PICK x \in 1 .. Len(s) : x = Position(s, a) /\ p < x
    BY <2>1, <1>1, <1>3
  <2>3. f[n] = x
    BY <1>5, <2>1, <2>2
  <2> QED
    BY <2>2, <2>3, <1>3, <1>4
<1>7. ASSUME NEW m \in 1 .. Len(t), NEW n \in 1 .. Len(t), f[m] = f[n] PROVE m = n
  <2>1. Position(s, t[m]) = Position(s, t[n]) /\ t[m] \in S /\ t[n] \in S
    BY <1>2, <1>5, <1>7
  <2> QED
    BY <2>1, <1>1, <1>2
<1>8. f \in Injection(1 .. Len(t), p + 1 .. l)
  BY <1>5, <1>6, <1>7 DEF Injection, IsInjective
<1>9. /\ IsFiniteSet(p + 1 .. l)
      /\ Cardinality(p + 1 .. l) = IF p + 1 > l THEN 0 ELSE l - (p + 1) + 1
      /\ Cardinality(1 .. Len(t)) = IF 1 > Len(t) THEN 0 ELSE Len(t) - 1 + 1
  <2>1. p + 1 \in Int /\ l \in Int /\ Len(t) \in Int /\ 1 \in Int
    BY <1>2, <1>3, <1>4
  <2> QED
    BY <2>1, FS_Interval
<1>10. Cardinality(1 .. Len(t)) <= Cardinality(p + 1 .. l)
  BY <1>8, <1>9, FS_Injection
<1>11. Len(t) <= l - p
  BY <1>2, <1>3, <1>4, <1>9, <1>10
<1> QED
  BY <1>3, <1>4, <1>11

WasSet == {k \in CacheKeys : last[k] # Absent}

(* The dictionary's order and the ideal cache's agree, the entries say the *)
(* same, and what is gone though it is alive was used before all that is   *)
(* there.                                                                  *)
OrderInv ==
    /\ OnceEach(order, Held) /\ OnceEach(recency, WasSet) /\ Len(order) <= MaxSize
    /\ \A k \in Held : entry[k] = last[k]
    /\ ~Enabled => Held = {}
    /\ \A a, b \in Held :
          Position(order, a) < Position(order, b) => Position(recency, a) < Position(recency, b)

DictTypes ==
    /\ now \in 0 .. MaxTime
    /\ entry \in [CacheKeys -> Entry \cup {Absent}]
    /\ last \in [CacheKeys -> Entry \cup {Absent}]
    /\ reply \in [key: CacheKeys \cup {Absent}, value: Values \cup {Absent}]

DictInv == DictTypes /\ OrderInv /\ EvictsLeastRecent

LEMMA OnceNothing == OnceEach(<< >>, {}) /\ Len(<< >>) = 0
  BY DEF OnceEach

LEMMA InitDictInv == CInit => DictInv
<1> SUFFICES ASSUME CInit PROVE DictInv
  OBVIOUS
<1>1. /\ now = 0 /\ order = << >> /\ recency = << >> /\ reply = NoReply
      /\ \A k \in CacheKeys : entry[k] = Absent /\ last[k] = Absent
      /\ entry \in [CacheKeys -> Entry \cup {Absent}]
      /\ last \in [CacheKeys -> Entry \cup {Absent}]
  BY DEF CInit
<1>2. Held = {} /\ WasSet = {}
  BY <1>1 DEF Held, WasSet
<1>3. OrderInv
  BY <1>1, <1>2, OnceNothing, CacheSize DEF OrderInv
<1>4. EvictsLeastRecent
  BY <1>1 DEF EvictsLeastRecent, Alive
<1>5. DictTypes
  BY <1>1, CacheSize DEF DictTypes, NoReply
<1> QED
  BY <1>3, <1>4, <1>5 DEF DictInv

(* A key that is used, of those that are held, or that are to be.          *)
LEMMA UseKeepsOrder ==
  ASSUME OrderInv, NEW k \in CacheKeys, NEW o, NEW r,
         Moved(o, order, k, Held), Moved(r, recency, k, WasSet),
         NEW a \in Held \cup {k}, NEW b \in Held \cup {k},
         Position(o, a) < Position(o, b)
  PROVE  Position(r, a) < Position(r, b)
<1>1. Held \subseteq WasSet
  BY DEF OrderInv, Held, WasSet
<1>2. OnceEach(o, Held \cup {k})
  BY DEF Moved
<1>3. PICK x \in Nat : x = Position(o, a)
  BY <1>2, PositionIs
<1>4. PICK y \in Nat : y = Position(o, b)
  BY <1>2, PositionIs
<1>5. x < y
  BY <1>3, <1>4
<1>6. CASE a # k /\ b # k
  <2>1. Position(order, a) < Position(order, b)
    BY <1>6 DEF Moved
  <2>2. Position(recency, a) < Position(recency, b)
    BY <2>1, <1>6 DEF OrderInv
  <2> QED
    BY <2>2, <1>1, <1>6 DEF Moved
<1>7. CASE a # k /\ b = k
  BY <1>1, <1>7 DEF Moved
<1>8. CASE a = k /\ b # k
  <2>1. Position(o, b) < Position(o, k)
    BY <1>8 DEF Moved
  <2>2. y < x
    BY <1>3, <1>4, <1>8, <2>1
  <2> QED
    BY <1>3, <1>4, <1>5, <2>2
<1>9. a # b
  BY <1>3, <1>4, <1>5
<1> QED
  BY <1>6, <1>7, <1>8, <1>9

(* What was forgotten before stays behind all that is there, and the ideal *)
(* cache has moved on from it as far or farther.                           *)
LEMMA ForgottenStays ==
  ASSUME OrderInv, NEW k \in CacheKeys, NEW r, Moved(r, recency, k, WasSet),
         NEW g \in WasSet, g # k,
         \A j \in Held : Position(recency, g) < Position(recency, j),
         Len(recency) - Position(recency, g) >= MaxSize
  PROVE  /\ \A j \in Held \cup {k} : Position(r, g) < Position(r, j)
         /\ Len(r) - Position(r, g) >= MaxSize
<1>1. Held \subseteq WasSet
  BY DEF OrderInv, Held, WasSet
<1>2. OnceEach(r, WasSet \cup {k}) /\ OnceEach(recency, WasSet)
  BY DEF Moved, OrderInv
<1>3. PICK x \in Nat : x = Position(r, g)
  BY <1>2, PositionIs
<1>4. PICK y \in Nat : y = Position(recency, g)
  BY <1>2, PositionIs
<1>5. Len(r) \in Nat /\ Len(recency) \in Nat
  BY <1>2, PositionIs
<1>6. Len(r) - x >= Len(recency) - y
  BY <1>3, <1>4 DEF Moved
<1>7. Len(r) - x >= MaxSize
  BY <1>4, <1>5, <1>6, CacheSize
<1>8. ASSUME NEW j \in Held \cup {k} PROVE Position(r, g) < Position(r, j)
  <2>1. CASE j = k
    BY <2>1 DEF Moved
  <2>2. CASE j # k
    BY <1>1, <2>2 DEF Moved
  <2> QED
    BY <2>1, <2>2
<1> QED
  BY <1>3, <1>7, <1>8

LEMMA GetHitStep == ASSUME DictInv, NEW k \in CacheKeys, GetHit(k) PROVE DictInv'
<1>1. /\ Alive(entry[k]) /\ order' = MoveToEnd(order, k) /\ recency' = MoveToEnd(recency, k)
      /\ UNCHANGED <<now, entry, last>> /\ reply' = [key |-> k, value |-> entry[k].value]
  BY DEF GetHit
<1>2. k \in Held /\ k \in WasSet /\ Held' = Held /\ WasSet' = WasSet
  BY <1>1 DEF Alive, Held, WasSet, DictInv, OrderInv
<1>3. OrderInv
  BY DEF DictInv
<1>4. Moved(order', order, k, Held) /\ Moved(recency', recency, k, WasSet)
  BY <1>1, <1>3, MoveToEndMoves DEF OrderInv
<1>5. Held \cup {k} = Held /\ WasSet \cup {k} = WasSet
  BY <1>2
<1>6. OrderInv'
  <2>1. OnceEach(order', Held') /\ OnceEach(recency', WasSet') /\ Len(order') <= MaxSize
    BY <1>2, <1>3, <1>4, <1>5 DEF Moved, OrderInv
  <2>2. \A a, b \in Held :
           Position(order', a) < Position(order', b) => Position(recency', a) < Position(recency', b)
    BY <1>3, <1>4, UseKeepsOrder
  <2> QED
    BY <1>1, <1>2, <1>3, <2>1, <2>2 DEF OrderInv
<1>7. EvictsLeastRecent'
  <2> SUFFICES ASSUME NEW g \in CacheKeys, Alive(last[g]), entry[g] = Absent
               PROVE  /\ \A j \in Held : Position(recency', g) < Position(recency', j)
                      /\ Len(recency') - Position(recency', g) >= MaxSize
    BY <1>1, <1>2 DEF EvictsLeastRecent, Alive
  <2>1. /\ \A j \in Held : Position(recency, g) < Position(recency, j)
        /\ Len(recency) - Position(recency, g) >= MaxSize
    BY DEF DictInv, EvictsLeastRecent
  <2>2. g \in WasSet /\ g # k
    BY <1>2 DEF WasSet, Alive, Held
  <2> QED
    BY <1>3, <1>4, <2>1, <2>2, ForgottenStays
<1>8. DictTypes'
  <2>1. entry[k].value \in Values
    BY <1>1 DEF DictInv, DictTypes, Alive, Entry
  <2> QED
    BY <1>1, <2>1 DEF DictInv, DictTypes
<1>9. DictTypes' /\ OrderInv' /\ EvictsLeastRecent'
  BY <1>6, <1>7, <1>8
<1> QED
  BY <1>9 DEF DictInv

LEMMA GetMissStep == ASSUME DictInv, NEW k \in CacheKeys, GetMiss(k) PROVE DictInv'
<1>1. /\ ~(Enabled /\ Alive(entry[k])) /\ order' = Without(order, k)
      /\ entry' = [entry EXCEPT ![k] = Absent]
      /\ UNCHANGED <<now, last, recency>> /\ reply' = [key |-> k, value |-> Absent]
  BY DEF GetMiss
<1>2. OrderInv /\ DictTypes /\ EvictsLeastRecent
  BY DEF DictInv
<1>3. Held' = Held \ {k} /\ WasSet' = WasSet
  BY <1>1, <1>2 DEF Held, WasSet, DictTypes
<1>4. Removed(order', order, k, Held)
  BY <1>1, <1>2, WithoutRemoves DEF OrderInv
<1>5. OrderInv'
  <2>1. OnceEach(order', Held') /\ OnceEach(recency', WasSet')
    BY <1>1, <1>2, <1>3, <1>4 DEF Removed, OrderInv
  <2>2. Len(order') <= MaxSize
    <3>1. Len(order) \in Nat /\ Len(order') \in Nat
      BY <1>2, <2>1, PositionIs DEF OrderInv
    <3>2. Len(order') = Len(order) - 1 \/ Len(order') = Len(order)
      BY <1>4 DEF Removed
    <3> QED
      BY <1>2, <3>1, <3>2, CacheSize DEF OrderInv
  <2>3. \A a, b \in Held' :
           Position(order', a) < Position(order', b) => Position(recency', a) < Position(recency', b)
    BY <1>1, <1>2, <1>3, <1>4 DEF Removed, OrderInv
  <2>4. \A j \in Held' : entry'[j] = last'[j]
    BY <1>1, <1>2, <1>3 DEF OrderInv, DictTypes, Held
  <2>5. ~Enabled => Held' = {}
    BY <1>2, <1>3 DEF OrderInv
  <2> QED
    BY <2>1, <2>2, <2>3, <2>4, <2>5 DEF OrderInv, Enabled
<1>6. EvictsLeastRecent'
  <2> SUFFICES ASSUME NEW g \in CacheKeys, Alive(last[g]), entry'[g] = Absent
               PROVE  /\ \A j \in Held' : Position(recency, g) < Position(recency, j)
                      /\ Len(recency) - Position(recency, g) >= MaxSize
    BY <1>1 DEF EvictsLeastRecent, Alive
  <2>1. entry[g] = Absent
    <3>1. CASE g # k
      BY <1>1, <1>2, <3>1 DEF DictTypes
    <3>2. CASE g = k /\ g \in Held
      <4>1. Enabled /\ entry[g] = last[g]
        BY <1>2, <3>2 DEF OrderInv
      <4> QED
        BY <1>1, <3>2, <4>1
    <3> QED
      BY <3>1, <3>2 DEF Held
  <2> QED
    BY <1>2, <1>3, <2>1 DEF EvictsLeastRecent
<1>7. DictTypes'
  BY <1>1, <1>2 DEF DictTypes
<1> QED
  BY <1>5, <1>6, <1>7 DEF DictInv

LEMMA SetStep == ASSUME DictInv, NEW k \in CacheKeys, NEW v \in Values, Set(k, v) PROVE DictInv'
<1>1. OrderInv /\ DictTypes /\ EvictsLeastRecent /\ MaxSize \in Nat /\ TTL \in Nat
  BY CacheSize DEF DictInv
<1>2. CASE ~Enabled
  <2>1. UNCHANGED <<now, order, entry, last, recency>> /\ reply' = NoReply
    BY <1>2 DEF Set
  <2>2. Held' = Held /\ WasSet' = WasSet
    BY <2>1 DEF Held, WasSet
  <2>3. OrderInv'
    BY <1>1, <2>1, <2>2 DEF OrderInv, Enabled
  <2>4. EvictsLeastRecent'
    BY <1>1, <2>1, <2>2 DEF EvictsLeastRecent, Alive
  <2>5. DictTypes'
    BY <1>1, <2>1 DEF DictTypes, NoReply
  <2> QED
    BY <2>3, <2>4, <2>5 DEF DictInv
<1>3. CASE Enabled
  <2>1. PICK e : e = [value |-> v, expires_at |-> now + TTL]
    OBVIOUS
  <2>2. PICK moved : moved = MoveToEnd(order, k)
    OBVIOUS
  <2>3. /\ order' = IF Overfull(moved) THEN Tail(moved) ELSE moved
        /\ entry' = [j \in CacheKeys |-> IF Overfull(moved) /\ j = Head(moved) THEN Absent
                                         ELSE IF j = k THEN e ELSE entry[j]]
        /\ last' = [last EXCEPT ![k] = e] /\ recency' = MoveToEnd(recency, k)
        /\ reply' = NoReply /\ now' = now
    BY <1>3, <2>1, <2>2 DEF Set
  <2>4. Moved(moved, order, k, Held) /\ Moved(recency', recency, k, WasSet)
    BY <1>1, <2>2, <2>3, MoveToEndMoves DEF OrderInv
  <2>5. e \in Entry /\ e # Absent /\ now \in Nat
    <3>1. now \in Nat /\ e \in Entry
      BY <1>1, <2>1, CacheSize DEF DictTypes, Entry
    <3>2. e # Absent
      BY <3>1, CacheNone DEF Entry
    <3> QED
      BY <3>1, <3>2
  <2>6. DictTypes' /\ WasSet' = WasSet \cup {k} /\ last'[k] = e /\ \A j \in CacheKeys : j # k => last'[j] = last[j]
    <3>1. last' \in [CacheKeys -> Entry \cup {Absent}]
      BY <1>1, <2>3, <2>5 DEF DictTypes
    <3>2. entry' \in [CacheKeys -> Entry \cup {Absent}]
      BY <1>1, <2>3, <2>5 DEF DictTypes
    <3>3. last'[k] = e /\ \A j \in CacheKeys : j # k => last'[j] = last[j]
      BY <1>1, <2>3 DEF DictTypes
    <3>4. WasSet' = WasSet \cup {k}
      BY <2>5, <3>3 DEF WasSet
    <3>5. DictTypes'
      BY <1>1, <2>3, <3>1, <3>2 DEF DictTypes, NoReply
    <3> QED
      BY <3>3, <3>4, <3>5
  <2>7. /\ OnceEach(recency', WasSet') /\ OnceEach(moved, Held \cup {k})
        /\ Held \subseteq WasSet
    BY <1>1, <2>4, <2>6 DEF Moved, Held, WasSet, OrderInv
  <2>8. \A a, b \in Held \cup {k} :
           Position(moved, a) < Position(moved, b) => Position(recency', a) < Position(recency', b)
    BY <1>1, <2>4, UseKeepsOrder
  <2>9. ASSUME NEW g \in CacheKeys, g # k, Alive(last[g]), entry[g] = Absent
        PROVE  /\ \A j \in Held \cup {k} : Position(recency', g) < Position(recency', j)
               /\ Len(recency') - Position(recency', g) >= MaxSize
    <3>1. /\ \A j \in Held : Position(recency, g) < Position(recency, j)
          /\ Len(recency) - Position(recency, g) >= MaxSize
      BY <1>1, <2>9 DEF EvictsLeastRecent
    <3>2. g \in WasSet
      BY <2>9 DEF WasSet, Alive
    <3> QED
      BY <1>1, <2>4, <2>9, <3>1, <3>2, ForgottenStays
  <2>10. CASE ~Overfull(moved)
    <3>1. entry' = [j \in CacheKeys |-> IF j = k THEN e ELSE entry[j]] /\ order' = moved
      BY <2>3, <2>10
    <3>2. Held' = Held \cup {k}
      BY <2>5, <3>1 DEF Held
    <3>3. Len(order') \in Nat /\ Len(order') <= MaxSize
      BY <1>1, <2>7, <2>10, <3>1, PositionIs DEF Overfull
    <3>4. \A j \in Held' : entry'[j] = last'[j]
      BY <1>1, <2>6, <3>1, <3>2 DEF OrderInv, Held
    <3>5. OrderInv'
      BY <1>3, <2>7, <2>8, <3>1, <3>2, <3>3, <3>4 DEF OrderInv, Enabled
    <3>6. EvictsLeastRecent'
      <4> SUFFICES ASSUME NEW g \in CacheKeys, Alive(last[g])', entry'[g] = Absent
                   PROVE  /\ \A j \in Held' : Position(recency', g) < Position(recency', j)
                          /\ Len(recency') - Position(recency', g) >= MaxSize
        BY DEF EvictsLeastRecent
      <4>1. g # k /\ entry[g] = Absent
        BY <2>5, <3>1
      <4>2. Alive(last[g])
        BY <2>3, <2>6, <4>1 DEF Alive
      <4> QED
        BY <2>9, <3>2, <4>1, <4>2
    <3> QED
      BY <2>6, <3>5, <3>6 DEF DictInv
  <2>11. CASE Overfull(moved)
    <3>1. PICK h : h = Head(moved)
      OBVIOUS
    <3>2. order' = Tail(moved)
          /\ entry' = [j \in CacheKeys |-> IF j = h THEN Absent ELSE IF j = k THEN e ELSE entry[j]]
      BY <2>3, <2>11, <3>1
    <3>3. /\ Len(order) \in Nat /\ Len(moved) \in Nat /\ Len(moved) > MaxSize /\ MaxSize > 0
          /\ Len(order) <= MaxSize
      BY <1>1, <1>3, <2>7, <2>11, PositionIs DEF OrderInv, Overfull, Enabled
    <3>4. k \notin Held /\ Len(moved) = Len(order) + 1 /\ Len(order) = MaxSize
      BY <1>1, <2>4, <3>3 DEF Moved
    <3>5. /\ h \in Held \cup {k} /\ Removed(order', moved, h, Held \cup {k})
          /\ \A a \in (Held \cup {k}) \ {h} : Position(moved, h) < Position(moved, a)
      <4>1. PICK all : all = Held \cup {k}
        OBVIOUS
      <4>2. OnceEach(moved, all) /\ Len(moved) > 0
        BY <1>1, <2>7, <3>3, <4>1
      <4>3. /\ h \in all /\ Removed(order', moved, h, all)
            /\ \A a \in all \ {h} : Position(moved, h) < Position(moved, a)
        BY <3>1, <3>2, <4>2, TailRemoves
      <4> QED
        BY <4>1, <4>3
    <3>6. h # k
      <4> SUFFICES ASSUME h = k PROVE FALSE
        OBVIOUS
      <4>1. PICK a \in Held : a # k
        <5>1. 1 \in 1 .. Len(order)
          BY <3>3, <3>4
        <5>2. order[1] \in Held
          BY <1>1, <5>1, PositionIs DEF OrderInv
        <5> QED
          BY <3>4, <5>2
      <4>2. PICK x \in Nat : x = Position(moved, k)
        BY <2>7, PositionIs
      <4>3. PICK y \in Nat : y = Position(moved, a)
        BY <2>7, <4>1, PositionIs
      <4>4. Position(moved, k) < Position(moved, a)
        BY <3>5, <4>1
      <4>5. Position(moved, a) < Position(moved, k)
        BY <2>4, <4>1 DEF Moved
      <4> QED
        BY <4>2, <4>3, <4>4, <4>5
    <3>7. Held' = (Held \cup {k}) \ {h} /\ h \in Held
      BY <2>5, <3>2, <3>5, <3>6 DEF Held
    <3>8. OnceEach(order', Held') /\ Len(order') = MaxSize
      BY <3>3, <3>4, <3>5, <3>7 DEF Removed
    <3>9. \A a, b \in Held' :
             Position(order', a) < Position(order', b) => Position(recency', a) < Position(recency', b)
      BY <2>8, <3>5, <3>7 DEF Removed
    <3>10. \A j \in Held' : entry'[j] = last'[j]
      BY <1>1, <2>6, <3>2, <3>7 DEF OrderInv, Held
    <3>11. OrderInv'
      BY <1>1, <1>3, <2>7, <3>8, <3>9, <3>10 DEF OrderInv, Enabled
    <3>12. /\ \A j \in Held' : Position(recency', h) < Position(recency', j)
           /\ Len(recency') - Position(recency', h) >= MaxSize
      <4>1. \A j \in Held' : Position(recency', h) < Position(recency', j)
        BY <2>8, <3>5, <3>7
      <4>2. Held' \subseteq WasSet' /\ h \in WasSet'
        BY <2>6, <2>7, <3>7
      <4>3. Len(recency') - Position(recency', h) >= Len(order')
        BY <2>7, <3>8, <4>1, <4>2, BehindAreMany
      <4> QED
        BY <3>8, <4>1, <4>3
    <3>13. EvictsLeastRecent'
      <4> SUFFICES ASSUME NEW g \in CacheKeys, Alive(last[g])', entry'[g] = Absent
                   PROVE  /\ \A j \in Held' : Position(recency', g) < Position(recency', j)
                          /\ Len(recency') - Position(recency', g) >= MaxSize
        BY DEF EvictsLeastRecent
      <4>1. CASE g = h
        BY <3>12, <4>1
      <4>2. CASE g # h
        <5>1. g # k /\ entry[g] = Absent
          BY <2>5, <3>2, <4>2
        <5>2. Alive(last[g])
          BY <2>3, <2>6, <5>1 DEF Alive
        <5> QED
          BY <2>9, <3>7, <5>1, <5>2
      <4> QED
        BY <4>1, <4>2
    <3> QED
      BY <2>6, <3>11, <3>13 DEF DictInv
  <2> QED
    BY <2>10, <2>11
<1> QED
  BY <1>2, <1>3

LEMMA NextDictInv == DictInv /\ [CNext]_cvars => DictInv'
<1>1. ASSUME DictInv, Clear PROVE DictInv'
  <2>1. /\ now' = now /\ order' = << >> /\ recency' = << >> /\ reply' = NoReply
        /\ \A k \in CacheKeys : entry'[k] = Absent /\ last'[k] = Absent
        /\ entry' \in [CacheKeys -> Entry \cup {Absent}]
        /\ last' \in [CacheKeys -> Entry \cup {Absent}]
    BY <1>1 DEF Clear
  <2>2. Held' = {} /\ WasSet' = {}
    BY <2>1 DEF Held, WasSet
  <2>3. OrderInv'
    BY <2>1, <2>2, OnceNothing, CacheSize DEF OrderInv
  <2>4. EvictsLeastRecent'
    BY <2>1 DEF EvictsLeastRecent, Alive
  <2>5. DictTypes'
    BY <1>1, <2>1 DEF DictInv, DictTypes, NoReply
  <2> QED
    BY <2>3, <2>4, <2>5 DEF DictInv
<1>2. ASSUME DictInv, UNCHANGED <<order, entry, last, recency>>, now' \in 0 .. MaxTime, now <= now',
             reply' \in {reply, NoReply}
      PROVE  DictInv'
  <2>1. Held' = Held /\ WasSet' = WasSet
    BY <1>2 DEF Held, WasSet
  <2>2. OrderInv'
    BY <1>2, <2>1 DEF DictInv, OrderInv, Enabled
  <2>3. DictTypes'
    BY <1>2 DEF DictInv, DictTypes, NoReply
  <2>4. EvictsLeastRecent'
    <3> SUFFICES ASSUME NEW g \in CacheKeys, Alive(last[g])', entry[g] = Absent
                 PROVE  /\ \A j \in Held : Position(recency, g) < Position(recency, j)
                        /\ Len(recency) - Position(recency, g) >= MaxSize
      BY <1>2, <2>1 DEF EvictsLeastRecent
    <3>1. PICK l \in Entry \cup {Absent} : l = last[g]
      BY <1>2 DEF DictInv, DictTypes
    <3>2. l # Absent /\ l.expires_at > now' /\ l \in Entry
      BY <1>2, <3>1 DEF Alive
    <3>3. l.expires_at \in Nat /\ now \in Nat /\ now' \in Nat
      BY <1>2, <3>2, CacheSize DEF DictInv, DictTypes, Entry
    <3>4. Alive(last[g])
      BY <1>2, <3>1, <3>2, <3>3 DEF Alive
    <3> QED
      BY <1>2, <3>4 DEF DictInv, EvictsLeastRecent
  <2> QED
    BY <2>2, <2>3, <2>4 DEF DictInv
<1>3. ASSUME DictInv, Tick PROVE DictInv'
  <2>1. now \in Nat /\ now' = now + 1 /\ now' \in 0 .. MaxTime
    BY <1>3, CacheSize DEF Tick, DictInv, DictTypes
  <2> QED
    BY <1>2, <1>3, <2>1 DEF Tick
<1>4. ASSUME DictInv, UNCHANGED cvars PROVE DictInv'
  <2>1. now \in Nat /\ now' = now /\ now \in 0 .. MaxTime
    BY <1>4, CacheSize DEF cvars, DictInv, DictTypes
  <2> QED
    BY <1>2, <1>4, <2>1 DEF cvars
<1> QED
  BY <1>1, <1>3, <1>4, GetHitStep, GetMissStep, SetStep DEF CNext

LEMMA DictInvariant == CSpec => []DictInv
  BY InitDictInv, NextDictInv, PTL DEF CSpec

LEMMA OnceEachCounts ==
  ASSUME NEW S, NEW s, OnceEach(s, S)
  PROVE  Cardinality(S) = Len(s) /\ {s[n] : n \in DOMAIN s} = S
<1>1. /\ Len(s) \in Nat /\ DOMAIN s = 1 .. Len(s) /\ s \in [1 .. Len(s) -> S]
      /\ \A n \in 1 .. Len(s) : s[n] \in S
  <2>1. s \in [1 .. Len(s) -> S]
    BY DEF OnceEach
  <2> QED
    BY <2>1, PositionIs
<1>2. s \in Bijection(1 .. Len(s), S)
  <2>1. s \in Injection(1 .. Len(s), S)
    BY <1>1 DEF OnceEach, Injection, IsInjective
  <2>2. s \in Surjection(1 .. Len(s), S)
    BY <1>1 DEF OnceEach, Surjection
  <2> QED
    BY <2>1, <2>2 DEF Bijection
<1>3. ExistsBijection(1 .. Len(s), S)
  BY <1>2 DEF ExistsBijection
<1>4. /\ IsFiniteSet(1 .. Len(s))
      /\ Cardinality(1 .. Len(s)) = IF 1 > Len(s) THEN 0 ELSE Len(s) - 1 + 1
  <2>1. 1 \in Int /\ Len(s) \in Int
    BY <1>1
  <2> QED
    BY <2>1, FS_Interval
<1>5. Cardinality(S) = Cardinality(1 .. Len(s))
  BY <1>3, <1>4, FS_Bijection
<1>6. {s[n] : n \in DOMAIN s} = S
  BY <1>1 DEF OnceEach
<1> QED
  BY <1>1, <1>4, <1>5, <1>6

LEMMA CacheTypesFollow == DictInv => CacheTypeOK
  BY OnceEachCounts DEF DictInv, DictTypes, OrderInv, CacheTypeOK

(* For any keys, values, size and life: the dictionary and its order name  *)
(* the same keys once each and no more than MaxSize (core/ttl_cache.py).   *)
THEOREM CacheTypesCorrect == CSpec => []CacheTypeOK
  BY CacheTypesFollow, DictInvariant, PTL

(* For any keys, values, size and life: what the bound drops is what was   *)
(* used least recently (set and get of TTLCache, core/ttl_cache.py).       *)
THEOREM LeastRecentGoes == CSpec => []EvictsLeastRecent
<1>1. DictInv => EvictsLeastRecent
  BY DEF DictInv
<1> QED
  BY <1>1, DictInvariant, PTL

LEMMA InitPromise == CInit => Promise!RInit
  BY DEF CInit, NoReply, Promise!RInit, Promise!Nothing

(* A hit answers what is held and forgets nothing, a miss forgets one      *)
(* entry, a set forgets the one its bound drops, or, when the cache is     *)
(* disabled, the one it was to take.                                       *)
LEMMA NextPromise == ASSUME DictInv, [CNext]_cvars PROVE [Promise!RNext]_<<now, entry, reply>>
<1>0. entry \in [CacheKeys -> Entry \cup {Absent}] /\ OrderInv
  BY DEF DictInv, DictTypes
<1>1. entry = [j \in CacheKeys |-> IF j \in CacheKeys THEN entry[j] ELSE Absent]
  BY <1>0
<1>2. ASSUME NEW k \in CacheKeys, GetHit(k) PROVE Promise!RGet(k)
  <2>1. /\ entry[k] # Absent /\ entry[k].expires_at > now /\ now' = now /\ entry' = entry
        /\ reply' = [key |-> k, value |-> entry[k].value]
    BY <1>2 DEF GetHit, Alive
  <2>2. now < entry[k].expires_at
    <3>1. PICK e \in Entry : e = entry[k]
      BY <1>0, <2>1
    <3>2. e.expires_at \in Nat /\ now \in Nat
      BY CacheSize DEF Entry, DictInv, DictTypes
    <3> QED
      BY <2>1, <3>1, <3>2
  <2>3. Promise!Forgetful(entry)
    BY <1>1, <2>1 DEF Promise!Forgetful
  <2> QED
    BY <2>1, <2>2, <2>3 DEF Promise!RGet
<1>3. ASSUME NEW k \in CacheKeys, GetMiss(k) PROVE Promise!RGet(k)
  <2>1. /\ reply' = [key |-> k, value |-> Absent] /\ now' = now
        /\ entry' = [entry EXCEPT ![k] = Absent]
    BY <1>3 DEF GetMiss
  <2>2. entry' = [j \in CacheKeys |-> IF j \in CacheKeys \ {k} THEN entry[j] ELSE Absent]
    BY <1>0, <2>1
  <2>3. Promise!Forgetful(entry)
    BY <2>2 DEF Promise!Forgetful
  <2> QED
    BY <2>1, <2>3 DEF Promise!RGet
<1>4. ASSUME NEW k \in CacheKeys, NEW v \in Values, Set(k, v) PROVE Promise!RSet(k, v)
  <2>1. PICK e : e = [value |-> v, expires_at |-> now + TTL]
    OBVIOUS
  <2>2. PICK taken : taken = [entry EXCEPT ![k] = e]
    OBVIOUS
  <2>3. \E kept \in SUBSET CacheKeys :
           entry' = [j \in CacheKeys |-> IF j \in kept THEN taken[j] ELSE Absent]
    <3>1. CASE Enabled
      <4>1. PICK gone \in SUBSET CacheKeys :
               entry' = [j \in CacheKeys |-> IF j \in gone THEN Absent
                                             ELSE IF j = k THEN e ELSE entry[j]]
        <5>1. PICK moved : moved = MoveToEnd(order, k)
          OBVIOUS
        <5>2. PICK gone : gone = {j \in CacheKeys : Overfull(moved) /\ j = Head(moved)}
          OBVIOUS
        <5>3. entry' = [j \in CacheKeys |-> IF Overfull(moved) /\ j = Head(moved) THEN Absent
                                            ELSE IF j = k THEN e ELSE entry[j]]
          BY <1>4, <2>1, <3>1, <5>1 DEF Set
        <5> QED
          BY <5>2, <5>3
      <4>2. entry' = [j \in CacheKeys |-> IF j \in CacheKeys \ gone THEN taken[j] ELSE Absent]
        BY <1>0, <2>2, <4>1
      <4> QED
        BY <4>2
    <3>2. CASE ~Enabled
      <4>1. entry' = entry /\ Held = {}
        BY <1>0, <1>4, <3>2 DEF Set, OrderInv
      <4>2. PICK none \in SUBSET CacheKeys : none = {}
        OBVIOUS
      <4>3. entry' = [j \in CacheKeys |-> IF j \in none THEN taken[j] ELSE Absent]
        BY <1>0, <4>1, <4>2 DEF Held
      <4> QED
        BY <4>3
    <3> QED
      BY <3>1, <3>2
  <2>4. Promise!Forgetful([entry EXCEPT ![k] = [value |-> v, expires_at |-> now + TTL]])
    BY <2>1, <2>2, <2>3 DEF Promise!Forgetful
  <2> QED
    BY <1>4, <2>4 DEF Set, Promise!RSet, NoReply, Promise!Nothing
<1>5. ASSUME Clear PROVE Promise!RClear
  BY <1>5 DEF Clear, Promise!RClear, NoReply, Promise!Nothing
<1>6. ASSUME Tick PROVE Promise!RTick
  <2>1. Promise!Forgetful(entry)
    BY <1>1, <1>6 DEF Tick, Promise!Forgetful
  <2> QED
    BY <1>6, <2>1 DEF Tick, Promise!RTick, NoReply, Promise!Nothing
<1>7. ASSUME UNCHANGED cvars PROVE UNCHANGED <<now, entry, reply>>
  BY <1>7 DEF cvars
<1> QED
  BY <1>2, <1>3, <1>4, <1>5, <1>6, <1>7 DEF CNext, Promise!RNext

(* For any keys, values, size and life: to its callers TTLCache is a cache *)
(* that answers the latest set of a key while it is good, or nothing.      *)
THEOREM CacheKeepsPromise == CSpec => ImplementsCache
  BY InitPromise, NextPromise, DictInvariant, PTL
     DEF CSpec, ImplementsCache, Promise!RSpec, Promise!rvars

-----------------------------------------------------------------------------
(* Positions.                                                              *)

(* Every set of natural numbers that is not empty has a least member: of   *)
(* the initial segments that end in it, one has no smaller one inside.     *)
LEMMA LeastNatural ==
    ASSUME NEW T \in SUBSET Nat, T # {}
    PROVE  \E x \in T : \A y \in T : x <= y
<1>1. PICK b \in Nat : b \in T
  OBVIOUS
<1> DEFINE B == 0 .. b
           R == StrictSubsetOrdering(B)
           F == FiniteSubsetsOf(B)
           D == {X \in F : \E x \in T : X = 0 .. x}
<1>2. IsFiniteSet(B)
  BY <1>1, FS_Interval
<1>3. IsWellFoundedOn(R, F)
  BY <1>2, FS_StrictSubsetOrderingWellFounded
<1>4. D \subseteq F /\ B \in D
  BY <1>1, <1>2 DEF FiniteSubsetsOf
<1>5. PICK X \in D : \A Y \in D : ~(<<Y, X>> \in R)
  <2> HIDE DEF R, F, D
  <2> QED
    BY <1>3, <1>4, WFMin
<1>6. PICK x \in T : X = 0 .. x
  OBVIOUS
<1>7. x <= b
  BY <1>1, <1>5, <1>6 DEF FiniteSubsetsOf
<1>8. ASSUME NEW y \in T, y < x PROVE FALSE
  <2>1. 0 .. y \in F /\ 0 .. y \subseteq 0 .. x /\ x \notin 0 .. y
    <3>1. 0 .. y \subseteq B /\ y \in Nat /\ x \in Nat
      BY <1>1, <1>7, <1>8
    <3>2. IsFiniteSet(0 .. y)
      BY <3>1, FS_Interval
    <3> QED
      BY <3>1, <3>2, <1>8 DEF FiniteSubsetsOf
  <2>2. x \in 0 .. x
    OBVIOUS
  <2>3. 0 .. y \in D
    BY <1>8, <2>1
  <2>4. X \in F /\ 0 .. y # X
    BY <1>5, <1>6, <2>1, <2>2
  <2>5. <<0 .. y, X>> \in R
    BY <1>6, <2>1, <2>4 DEF StrictSubsetOrdering, FiniteSubsetsOf
  <2> HIDE DEF R, D, F
  <2> QED
    BY <1>5, <2>3, <2>5
<1> QED
  BY <1>8

(* Positions of some sequence; those of them up to i.                      *)
Places(S)  == \E N \in Nat : S \subseteq 1 .. N
UpTo(S, i) == {j \in S : j <= i}

LEMMA PlacesAre ==
    ASSUME NEW S, Places(S)
    PROVE  S \subseteq Nat \ {0} /\ IsFiniteSet(S) /\ Cardinality(S) \in Nat
<1>1. PICK N \in Nat : S \subseteq 1 .. N
  BY DEF Places
<1>2. IsFiniteSet(1 .. N)
  <2>1. 1 \in Int /\ N \in Int
    OBVIOUS
  <2> QED
    BY <2>1, FS_Interval
<1>3. IsFiniteSet(S)
  BY <1>1, <1>2, FS_Subset
<1> QED
  BY <1>1, <1>3, FS_CardinalityType

LEMMA UpToGrows ==
    ASSUME NEW S, Places(S), NEW i \in Nat
    PROVE  /\ IsFiniteSet(UpTo(S, i)) /\ Cardinality(UpTo(S, i)) \in Nat
           /\ Cardinality(UpTo(S, i)) <= Cardinality(S)
           /\ Cardinality(UpTo(S, i + 1)) =
                 IF i + 1 \in S THEN Cardinality(UpTo(S, i)) + 1 ELSE Cardinality(UpTo(S, i))
           /\ \A k \in Nat : i <= k => Cardinality(UpTo(S, i)) <= Cardinality(UpTo(S, k))
<1>1. IsFiniteSet(S) /\ \A j \in S : j \in Nat
  BY PlacesAre
<1>2. \A k \in Nat : UpTo(S, k) \subseteq S /\ IsFiniteSet(UpTo(S, k)) /\ Cardinality(UpTo(S, k)) <= Cardinality(S)
  <2> SUFFICES ASSUME NEW k \in Nat
               PROVE  UpTo(S, k) \subseteq S /\ IsFiniteSet(UpTo(S, k)) /\ Cardinality(UpTo(S, k)) <= Cardinality(S)
    OBVIOUS
  <2>1. UpTo(S, k) \in SUBSET S
    BY DEF UpTo
  <2> QED
    BY <1>1, <2>1, FS_Subset
<1>3. UpTo(S, i + 1) = IF i + 1 \in S THEN UpTo(S, i) \cup {i + 1} ELSE UpTo(S, i)
  <2>1. \A j \in S : j <= i + 1 <=> j <= i \/ j = i + 1
    BY <1>1
  <2> QED
    BY <2>1 DEF UpTo
<1>4. i + 1 \notin UpTo(S, i)
  BY DEF UpTo
<1>5. \A k \in Nat : i <= k => UpTo(S, i) \in SUBSET UpTo(S, k)
  <2>1. \A k \in Nat : i <= k => \A j \in S : j <= i => j <= k
    BY <1>1
  <2> QED
    BY <2>1 DEF UpTo
<1>6. \A k \in Nat : i <= k => Cardinality(UpTo(S, i)) <= Cardinality(UpTo(S, k))
  BY <1>2, <1>5, FS_Subset
<1>7. Cardinality(UpTo(S, i)) \in Nat
  BY <1>2, FS_CardinalityType
<1> QED
  BY <1>2, <1>3, <1>4, <1>6, <1>7, FS_AddElement

(* InOrder lists the members of S: each once, in their order, the n-th     *)
(* with n members up to it.                                                *)
LEMMA InOrderIs ==
    ASSUME NEW S, Places(S)
    PROVE  /\ InOrder(S) \in Seq(S) /\ Len(InOrder(S)) = Cardinality(S)
           /\ \A n \in 1 .. Len(InOrder(S)) :
                 InOrder(S)[n] \in S /\ Cardinality(UpTo(S, InOrder(S)[n])) = n
           /\ \A m, n \in 1 .. Len(InOrder(S)) : m < n => InOrder(S)[m] < InOrder(S)[n]
           /\ \A i \in S : \E n \in 1 .. Len(InOrder(S)) : InOrder(S)[n] = i
<1> DEFINE c == Cardinality(S)
           Place(n, i) == i \in S /\ Cardinality(UpTo(S, i)) = n
<1>1. IsFiniteSet(S) /\ c \in Nat /\ \A j \in S : j \in Nat \ {0}
  BY PlacesAre
<1>2. PICK N \in Nat : UpTo(S, N) = S
  <2>1. PICK N \in Nat : S \subseteq 1 .. N
    BY DEF Places
  <2>2. \A j \in S : j <= N
    BY <2>1
  <2> QED
    BY <2>2 DEF UpTo
<1>9. UpTo(S, 0) = {} /\ Cardinality(UpTo(S, 0)) = 0
  <2>1. \A j \in S : ~(j <= 0)
    BY <1>1
  <2> QED
    BY <2>1, FS_EmptySet DEF UpTo
<1>3. ASSUME NEW n \in 1 .. c PROVE \E i \in S : Place(n, i)
  <2> DEFINE T == {m \in Nat : n <= Cardinality(UpTo(S, m))}
  <2>1. T \in SUBSET Nat /\ N \in T
    BY <1>2
  <2>2. PICK x \in T : \A y \in T : x <= y
    BY <2>1, LeastNatural
  <2>3. x # 0
    BY <1>9, <2>2
  <2>4. x \in Nat /\ x - 1 \in Nat /\ x - 1 \notin T
    BY <2>2, <2>3
  <2>5. Cardinality(UpTo(S, x - 1)) \in Nat /\ Cardinality(UpTo(S, x - 1)) < n
    BY <2>4, UpToGrows
  <2>6. Cardinality(UpTo(S, x)) =
           IF x \in S THEN Cardinality(UpTo(S, x - 1)) + 1 ELSE Cardinality(UpTo(S, x - 1))
    <3>1. (x - 1) + 1 = x
      BY <2>4
    <3> QED
      BY <2>4, <3>1, UpToGrows
  <2>7. n <= Cardinality(UpTo(S, x))
    OBVIOUS
  <2> QED
    BY <2>5, <2>6, <2>7
<1>4. /\ InOrder(S) = [n \in 1 .. c |-> CHOOSE i \in S : Place(n, i)]
  BY DEF InOrder, UpTo
<1>5. \A n \in 1 .. c : InOrder(S)[n] \in S /\ Place(n, InOrder(S)[n])
  <2> HIDE DEF c, Place
  <2> QED
    BY <1>3, <1>4
<1>6. InOrder(S) \in Seq(S) /\ Len(InOrder(S)) = c
  <2>1. InOrder(S) \in [1 .. c -> S]
    <3> HIDE DEF Place, c
    <3> QED
      BY <1>3, <1>4
  <2> HIDE DEF c
  <2> QED
    BY <1>1, <2>1
<1>7. \A m, n \in 1 .. c : m < n => InOrder(S)[m] < InOrder(S)[n]
  <2> SUFFICES ASSUME NEW m \in 1 .. c, NEW n \in 1 .. c, m < n, ~(InOrder(S)[m] < InOrder(S)[n])
               PROVE  FALSE
    OBVIOUS
  <2>1. InOrder(S)[n] \in Nat /\ InOrder(S)[m] \in Nat /\ InOrder(S)[n] <= InOrder(S)[m]
    <3>1. PICK i \in S : i = InOrder(S)[m]
      BY <1>5
    <3>2. PICK j \in S : j = InOrder(S)[n]
      BY <1>5
    <3>3. i \in Nat /\ j \in Nat
      BY <1>1
    <3> QED
      BY <3>1, <3>2, <3>3
  <2>2. Cardinality(UpTo(S, InOrder(S)[n])) <= Cardinality(UpTo(S, InOrder(S)[m]))
    BY <2>1, UpToGrows
  <2> QED
    BY <1>5, <2>2
<1>8. ASSUME NEW i \in S PROVE \E n \in 1 .. c : InOrder(S)[n] = i
  <2>1. i \in Nat /\ i - 1 \in Nat /\ (i - 1) + 1 = i
    BY <1>1
  <2>2. PICK n \in Nat : n = Cardinality(UpTo(S, i))
    BY <2>1, UpToGrows
  <2>3. Cardinality(UpTo(S, i - 1)) \in Nat /\ n = Cardinality(UpTo(S, i - 1)) + 1
    BY <2>1, <2>2, UpToGrows
  <2>4. n \in 1 .. c
    BY <1>1, <2>1, <2>2, <2>3, UpToGrows
  <2>5. PICK k \in S : k = InOrder(S)[n]
    BY <1>5, <2>4
  <2>6. Cardinality(UpTo(S, k)) = n /\ k \in Nat \ {0}
    BY <1>1, <1>5, <2>4, <2>5
  <2>7. CASE k < i
    <3>1. Cardinality(UpTo(S, k)) <= Cardinality(UpTo(S, i - 1))
      BY <2>1, <2>6, <2>7, UpToGrows
    <3> QED
      BY <2>3, <2>6, <3>1
  <2>8. CASE i < k
    <3>1. k - 1 \in Nat /\ (k - 1) + 1 = k /\ i <= k - 1
      BY <2>1, <2>6, <2>8
    <3>2. Cardinality(UpTo(S, i)) <= Cardinality(UpTo(S, k - 1))
      BY <2>1, <3>1, UpToGrows
    <3>3. Cardinality(UpTo(S, k - 1)) \in Nat
          /\ Cardinality(UpTo(S, k)) = Cardinality(UpTo(S, k - 1)) + 1
      BY <3>1, UpToGrows
    <3> QED
      BY <2>2, <2>6, <3>2, <3>3
  <2> QED
    BY <2>1, <2>4, <2>5, <2>6, <2>7, <2>8
<1> QED
  <2> HIDE DEF c
  <2> QED
    BY <1>5, <1>6, <1>7, <1>8 DEF c

LEMMA QuotientIs ==
    ASSUME NEW c \in Nat \ {0}, NEW k \in Nat, NEW r \in 0 .. c - 1
    PROVE  (c * k + r) \div c = k
  OBVIOUS

-----------------------------------------------------------------------------
(* FeedReader.                                                             *)

(* The data rows of a file; a row kept of it; the inductive invariant: the *)
(* rows read are kept, whole chunks as long as one can follow, and where a *)
(* feed failed the chunk that comes next holds the cell that did it.       *)
RowsAt == {i \in DOMAIN file : file[i] # BlankLine}

KeptLine == [row: DOMAIN file, source_line: Nat, price: (0 .. MaxPrice) \cup {Blank}]

KeptOf(s, n) ==
    /\ s.row = DataRows[n] /\ s.source_line = n + 1
    /\ file[s.row].cell # Text /\ s.price \in Rounded(file[s.row].cell)

WholeChunks == \E k \in Nat : read = Chunk * k

FeedInv ==
    /\ \E m \in Nat : file \in [1 .. m -> Line]
    /\ first \in BOOLEAN /\ read \in Nat /\ offset = read /\ read <= Len(DataRows)
    /\ stored \in Seq(KeptLine) /\ Len(stored) = read
    /\ \A n \in 1 .. read : KeptOf(stored[n], n)
    /\ (first => read = 0) /\ (~first => columns)
    /\ read = Len(DataRows) \/ WholeChunks
    /\ status \in {"received", "processed", "failed"} /\ count \in Nat
    /\ status = "processed" => ~first /\ read = Len(DataRows) /\ count = read
    /\ status = "failed" =>
          \/ ~columns
          \/ WholeChunks /\ \E n \in read + 1 .. read + Chunk :
                               n <= Len(DataRows) /\ Refusable(DataRows[n])

LEMMA RowsArePlaces ==
    ASSUME \E m \in Nat : file \in [1 .. m -> Line]
    PROVE  /\ Places(RowsAt) /\ DataRows = InOrder(RowsAt)
           /\ DataRows \in Seq(RowsAt) /\ Len(DataRows) \in Nat
           /\ \A n \in 1 .. Len(DataRows) :
                 /\ DataRows[n] \in DOMAIN file /\ file[DataRows[n]].cell \in Cells
                 /\ file[DataRows[n]] # BlankLine
<1>1. PICK m \in Nat : file \in [1 .. m -> Line]
  OBVIOUS
<1>2. Places(RowsAt)
  BY <1>1 DEF Places, RowsAt
<1>3. DataRows = InOrder(RowsAt)
  BY DEF DataRows, RowsAt
<1>4. DataRows \in Seq(RowsAt) /\ \A n \in 1 .. Len(DataRows) : DataRows[n] \in RowsAt
  BY <1>2, <1>3, InOrderIs
<1>5. ASSUME NEW i \in RowsAt
      PROVE  i \in DOMAIN file /\ file[i] # BlankLine /\ file[i].cell \in Cells
  <2>1. i \in DOMAIN file /\ file[i] # BlankLine /\ file[i] \in Line
    BY <1>1, <1>5 DEF RowsAt
  <2> QED
    BY <2>1 DEF Line
<1> QED
  BY <1>2, <1>3, <1>4, <1>5

(* A chunk is what follows the rows read, and ends after Chunk rows unless *)
(* the file does.                                                          *)
LEMMA BatchIs ==
    ASSUME FeedInv
    PROVE  /\ Batch \in Seq(RowsAt)
           /\ read + Len(Batch) = IF read + Chunk < Len(DataRows) THEN read + Chunk ELSE Len(DataRows)
           /\ DOMAIN Batch = 1 .. Len(Batch) /\ Len(Batch) \in 0 .. Chunk
           /\ \A n \in 1 .. Len(Batch) : read + n \in 1 .. Len(DataRows) /\ Batch[n] = DataRows[read + n]
<1> DEFINE L == Len(DataRows)
           e == IF read + Chunk < L THEN read + Chunk ELSE L
<1>1. /\ L \in Nat /\ read \in Nat /\ read <= L /\ Chunk \in Nat \ {0}
      /\ \A n \in 1 .. L : DataRows[n] \in RowsAt
  BY RowsArePlaces, FeedConstants DEF FeedInv
<1>2. Batch = SubSeq(DataRows, read + 1, e)
  BY DEF Batch
<1>3. /\ e \in Int /\ read + 1 \in Int /\ read <= e /\ e <= L /\ e <= read + Chunk
      /\ \A i \in read + 1 .. e : DataRows[i] \in RowsAt
  BY <1>1
<1>4. /\ Batch \in Seq(RowsAt) /\ Len(Batch) = e - read
      /\ \A n \in 1 .. e - read : Batch[n] = DataRows[read + n]
  <2> HIDE DEF e, L
  <2>1. /\ SubSeq(DataRows, read + 1, e) \in Seq(RowsAt)
        /\ Len(SubSeq(DataRows, read + 1, e)) = IF read + 1 <= e THEN e - (read + 1) + 1 ELSE 0
        /\ \A i \in 1 .. e - (read + 1) + 1 :
              SubSeq(DataRows, read + 1, e)[i] = DataRows[(read + 1) + i - 1]
    BY <1>3, SubSeqProperties
  <2>2. \A i \in 1 .. e - read : i \in 1 .. e - (read + 1) + 1 /\ (read + 1) + i - 1 = read + i
    BY <1>1, <1>3
  <2>3. \A i \in 1 .. e - read : Batch[i] = DataRows[read + i]
    BY <1>2, <2>1, <2>2
  <2>4. Len(Batch) = e - read
    BY <1>1, <1>2, <1>3, <2>1
  <2> QED
    BY <1>2, <2>1, <2>3, <2>4
<1>5. DOMAIN Batch = 1 .. Len(Batch) /\ Len(Batch) \in Nat
  BY <1>4
<1>6. read + Len(Batch) = e /\ Len(Batch) <= Chunk
  BY <1>1, <1>3, <1>4
<1>7. \A n \in 1 .. Len(Batch) : read + n \in 1 .. L
  BY <1>1, <1>3, <1>4
<1> QED
  BY <1>1, <1>4, <1>5, <1>6, <1>7

LEMMA InitFeedInv == FInit => FeedInv
<1> SUFFICES ASSUME FInit PROVE FeedInv
  OBVIOUS
<1>1. \E m \in Nat : file \in [1 .. m -> Line]
  BY FeedConstants DEF FInit
<1>2. Len(DataRows) \in Nat
  BY <1>1, RowsArePlaces
<1>3. /\ first = TRUE /\ read = 0 /\ offset = 0 /\ stored = << >> /\ status = "received" /\ count = 0
  BY DEF FInit
<1>4. WholeChunks
  BY <1>3, FeedConstants DEF WholeChunks
<1>5. stored \in Seq(KeptLine) /\ Len(stored) = 0
  BY <1>3
<1> QED
  BY <1>1, <1>2, <1>3, <1>4, <1>5 DEF FeedInv

(* A step that leaves the file and the rows alone.                         *)
LEMMA FileStands ==
    ASSUME UNCHANGED <<file, columns, read, first, offset, stored>>, FeedInv
    PROVE  /\ DataRows' = DataRows /\ KeptLine' = KeptLine /\ WholeChunks' = WholeChunks
           /\ \A n : Refusable(n)' = Refusable(n)
           /\ (\E m \in Nat : file' \in [1 .. m -> Line])
           /\ \A n \in 1 .. read' : KeptOf(stored[n], n)'
  BY DEF FeedInv, DataRows, KeptLine, WholeChunks, KeptOf, Refusable, BlankLine

LEMMA FailStep ==
    ASSUME FeedInv, Fail, status = "received",
           \/ ~columns
           \/ \E n \in 1 .. Len(Batch) : Refusable(Batch[n])
    PROVE  FeedInv'
<1>1. UNCHANGED <<file, columns, read, first, offset, stored, count>> /\ status' = "failed"
  BY DEF Fail
<1>2. \/ ~columns
      \/ WholeChunks /\ \E n \in read + 1 .. read + Chunk : n <= Len(DataRows) /\ Refusable(DataRows[n])
  <2>1. CASE ~columns
    BY <2>1
  <2>2. CASE \E n \in 1 .. Len(Batch) : Refusable(Batch[n])
    <3>1. PICK n \in 1 .. Len(Batch) : Refusable(Batch[n])
      BY <2>2
    <3>2. /\ Refusable(DataRows[read + n]) /\ read + n \in 1 .. Len(DataRows)
          /\ n \in Nat /\ n <= Chunk /\ read \in Nat /\ Chunk \in Nat /\ Len(DataRows) \in Nat /\ n # 0
      BY <3>1, BatchIs, FeedConstants, RowsArePlaces DEF FeedInv
    <3>3. read # Len(DataRows) /\ read + n \in read + 1 .. read + Chunk /\ read + n <= Len(DataRows)
      BY <3>2
    <3> QED
      BY <3>2, <3>3 DEF FeedInv
  <2> QED
    BY <2>1, <2>2
<1> QED
  BY <1>1, <1>2, FileStands DEF FeedInv

LEMMA FinishStep == ASSUME FeedInv, Finish PROVE FeedInv'
<1>1. /\ UNCHANGED <<file, columns, read, first, offset, stored>>
      /\ status' = "processed" /\ count' = read /\ ~first /\ read = Len(DataRows)
  BY DEF Finish, FeedInv
<1> QED
  BY <1>1, FileStands DEF FeedInv

LEMMA AcceptStep ==
    ASSUME FeedInv, columns, status = "received",
           NEW ps, DOMAIN ps = 1 .. Len(Batch),
           \A n \in 1 .. Len(Batch) :
              /\ file[Batch[n]].cell # Text /\ ps[n] \in Rounded(file[Batch[n]].cell)
              /\ ps[n] \in Storable,
           Accept(ps)
    PROVE  FeedInv'
<1> DEFINE new == Numbered(ps)
           b   == Len(Batch)
<1>1. /\ UNCHANGED <<file, columns, status, count>> /\ first' = FALSE
      /\ stored' = stored \o new /\ read' = read + b /\ offset' = offset + b
  BY DEF Accept
<1>2. DataRows' = DataRows /\ KeptLine' = KeptLine /\ RowsAt' = RowsAt
  BY <1>1 DEF DataRows, KeptLine, RowsAt
<1>3. /\ read \in Nat /\ b \in Nat /\ offset = read /\ Len(DataRows) \in Nat /\ Chunk \in Nat \ {0}
      /\ read' = IF read + Chunk < Len(DataRows) THEN read + Chunk ELSE Len(DataRows)
  <2>1. /\ b \in Nat
        /\ read + b = IF read + Chunk < Len(DataRows) THEN read + Chunk ELSE Len(DataRows)
    BY BatchIs
  <2>2. Len(DataRows) \in Nat
    BY RowsArePlaces DEF FeedInv
  <2>3. read \in Nat /\ offset = read
    BY DEF FeedInv
  <2> HIDE DEF b
  <2> QED
    BY <1>1, <2>1, <2>2, <2>3, FeedConstants
<1>4. \A n \in 1 .. b : Batch[n] \in RowsAt /\ RowsAt \subseteq DOMAIN file /\ Batch[n] = DataRows[read + n]
  BY BatchIs DEF RowsAt
<1>5. new = [n \in 1 .. b |-> [row |-> Batch[n], source_line |-> read + n + 1, price |-> ps[n]]]
  BY <1>3, BatchIs DEF Numbered
<1>6. \A n \in 1 .. b : new[n] \in KeptLine
  BY <1>3, <1>4, <1>5 DEF KeptLine, Storable
<1>7. new \in Seq(KeptLine) /\ Len(new) = b
  <2>1. new \in [1 .. b -> KeptLine]
    <3> HIDE DEF b
    <3> QED
      BY <1>5, <1>6
  <2> HIDE DEF new, b
  <2> QED
    BY <1>3, <2>1
<1>8. stored \in Seq(KeptLine) /\ Len(stored) = read
  BY DEF FeedInv
<1>9. /\ stored' \in Seq(KeptLine) /\ Len(stored') = read + b
      /\ \A i \in 1 .. read + b : stored'[i] = IF i <= read THEN stored[i] ELSE new[i - read]
  <2> HIDE DEF new, b
  <2> QED
    BY <1>1, <1>7, <1>8, ConcatProperties
<1>10. ASSUME NEW n \in 1 .. read' PROVE KeptOf(stored[n], n)'
  <2>1. CASE n <= read
    <3>1. stored'[n] = stored[n] /\ n \in 1 .. read
      <4>1. n \in 1 .. read + b
        BY <1>1
      <4> HIDE DEF new, b
      <4> QED
        BY <1>3, <1>9, <2>1, <4>1
    <3>2. KeptOf(stored[n], n)
      BY <3>1 DEF FeedInv
    <3> QED
      BY <1>1, <1>2, <3>1, <3>2 DEF KeptOf, Rounded
  <2>2. CASE ~(n <= read)
    <3>1. PICK i \in 1 .. b : n = read + i /\ i = n - read
      BY <1>1, <1>3, <2>2
    <3>2. stored'[n] = new[i]
      BY <1>1, <1>3, <1>9, <2>2, <3>1
    <3>3. stored'[n].row = Batch[i] /\ stored'[n].source_line = n + 1 /\ stored'[n].price = ps[i]
      BY <1>5, <3>1, <3>2
    <3>4. Batch[i] = DataRows[n]
      BY <1>4, <3>1
    <3> QED
      BY <1>1, <1>2, <3>1, <3>3, <3>4 DEF KeptOf, Rounded
  <2> QED
    BY <2>1, <2>2
<1>11. read' = Len(DataRows) \/ WholeChunks'
  <2>1. CASE read + Chunk < Len(DataRows)
    <3>1. WholeChunks
      BY <1>3, <2>1 DEF FeedInv
    <3>2. PICK k \in Nat : read = Chunk * k
      BY <3>1 DEF WholeChunks
    <3>3. read' = Chunk * (k + 1) /\ k + 1 \in Nat
      BY <1>3, <2>1, <3>2
    <3> QED
      BY <3>3 DEF WholeChunks
  <2>2. CASE ~(read + Chunk < Len(DataRows))
    BY <1>3, <2>2
  <2> QED
    BY <2>1, <2>2
<1>12. read' \in Nat /\ read' <= Len(DataRows)
  BY <1>3
<1> HIDE DEF new, b
<1> QED
  BY <1>1, <1>2, <1>3, <1>9, <1>10, <1>11, <1>12 DEF FeedInv

LEMMA NextFeedInv == FeedInv /\ [FNext]_fvars => FeedInv'
<1> SUFFICES ASSUME FeedInv, [FNext]_fvars PROVE FeedInv'
  OBVIOUS
<1> DEFINE cells == [n \in DOMAIN Batch |-> file[Batch[n]].cell]
           Ways  == UNION {Rounded(cells[n]) : n \in DOMAIN cells}
<1>1. CASE ReadChunk
  <2>1. status = "received" /\ DOMAIN Batch = 1 .. Len(Batch)
    BY <1>1, BatchIs DEF ReadChunk
  <2>2. CASE ~Parses
    <3>1. Fail
      BY <1>1, <2>2 DEF ReadChunk
    <3>2. ~columns \/ \E n \in 1 .. Len(Batch) : Refusable(Batch[n])
      BY <2>1, <2>2 DEF Parses, Refusable
    <3> QED
      BY <2>1, <3>1, <3>2, FailStep
  <2>3. CASE Parses
    <3>1. PICK ps \in [DOMAIN Batch -> Ways] :
             /\ \A n \in DOMAIN Batch : ps[n] \in Rounded(cells[n])
             /\ IF \A n \in DOMAIN Batch : ps[n] \in Storable THEN Accept(ps) ELSE Fail
      BY <1>1, <2>3 DEF ReadChunk
    <3>2. \A n \in 1 .. Len(Batch) : ps[n] \in Rounded(file[Batch[n]].cell)
      BY <2>1, <3>1
    <3>3. DOMAIN ps = 1 .. Len(Batch) /\ columns
      BY <2>1, <2>3 DEF Parses
    <3>4. \A n \in 1 .. Len(Batch) : file[Batch[n]].cell # Text
      BY <2>1, <2>3 DEF Parses
    <3> HIDE DEF cells, Ways
    <3>5. CASE \A n \in 1 .. Len(Batch) : ps[n] \in Storable
      <4>1. Accept(ps)
        BY <2>1, <3>1, <3>5
      <4> QED
        BY <2>1, <3>2, <3>3, <3>4, <3>5, <4>1, AcceptStep
    <3>6. CASE ~\A n \in 1 .. Len(Batch) : ps[n] \in Storable
      <4>1. Fail
        BY <2>1, <3>1, <3>6
      <4>2. \E n \in 1 .. Len(Batch) : Refusable(Batch[n])
        BY <3>2, <3>6 DEF Refusable
      <4> QED
        BY <2>1, <4>1, <4>2, FailStep
    <3> QED
      BY <3>5, <3>6
  <2> QED
    BY <2>2, <2>3
<1>2. CASE Finish
  BY <1>2, FinishStep
<1>3. CASE UNCHANGED fvars
  <2>1. UNCHANGED <<file, columns, read, first, offset, stored, status, count>>
    BY <1>3 DEF fvars
  <2> QED
    BY <2>1, FileStands DEF FeedInv
<1> QED
  BY <1>1, <1>2, <1>3 DEF FNext

LEMMA FeedInvariant == FSpec => []FeedInv
  BY InitFeedInv, NextFeedInv, PTL DEF FSpec

LEMMA FeedTypesFollow == FeedInv => FeedTypeOK
<1> SUFFICES ASSUME FeedInv PROVE FeedTypeOK
  OBVIOUS
<1>1. Len(DataRows) \in Nat
  BY RowsArePlaces DEF FeedInv
<1> QED
  BY <1>1 DEF FeedInv, FeedTypeOK, KeptLine


(* The data rows before the n-th are n - 1, and the lines before it too if *)
(* they all hold one.                                                      *)
LEMMA RowsBefore ==
    ASSUME FeedInv, NEW n \in 1 .. Len(DataRows)
    PROVE  /\ DataRows[n] \in Nat \ {0}
           /\ Cardinality({j \in 1 .. DataRows[n] - 1 : file[j] # BlankLine}) = n - 1
<1>1. PICK m \in Nat : file \in [1 .. m -> Line]
  BY DEF FeedInv
<1>2. Places(RowsAt) /\ DataRows = InOrder(RowsAt) /\ Len(DataRows) \in Nat
  BY RowsArePlaces DEF FeedInv
<1>3. PICK i \in RowsAt : i = DataRows[n]
  BY <1>2, InOrderIs
<1>4. i \in 1 .. m
  BY <1>1 DEF RowsAt
<1>5. Cardinality(UpTo(RowsAt, i)) = n
  BY <1>2, <1>3, InOrderIs
<1>6. i - 1 \in Nat /\ (i - 1) + 1 = i
  BY <1>4
<1>7. n = Cardinality(UpTo(RowsAt, i - 1)) + 1 /\ Cardinality(UpTo(RowsAt, i - 1)) \in Nat
  BY <1>2, <1>5, <1>6, UpToGrows
<1>8. UpTo(RowsAt, i - 1) = {j \in 1 .. i - 1 : file[j] # BlankLine}
  <2>1. DOMAIN file = 1 .. m
    BY <1>1
  <2>2. \A j : j \in 1 .. i - 1 <=> j \in 1 .. m /\ j <= i - 1
    BY <1>1, <1>4
  <2> QED
    BY <2>1, <2>2 DEF UpTo, RowsAt
<1>9. Cardinality({j \in 1 .. i - 1 : file[j] # BlankLine}) = n - 1
  <2>1. Cardinality(UpTo(RowsAt, i - 1)) = n - 1
    BY <1>7
  <2> QED
    BY <1>8, <2>1, Zenon
<1> QED
  BY <1>3, <1>4, <1>9

LEMMA LinesFollow == FeedInv => LinesLeadBack
<1> SUFFICES ASSUME FeedInv, NEW n \in DOMAIN stored
             PROVE  /\ stored[n].row = DataRows[n]
                    /\ stored[n].source_line =
                          2 + Cardinality({j \in 1 .. stored[n].row - 1 : file[j] # BlankLine})
                    /\ (\A j \in 1 .. stored[n].row - 1 : file[j] # BlankLine /\ file[j].lines = 1) =>
                          stored[n].source_line = FileLine(stored[n].row)
  BY DEF LinesLeadBack
<1>1. n \in 1 .. read /\ n \in 1 .. Len(DataRows) /\ n \in Nat
  BY RowsArePlaces DEF FeedInv
<1>2. PICK i \in Nat \ {0} : i = DataRows[n]
  BY <1>1, RowsBefore
<1>3. stored[n].row = i /\ stored[n].source_line = n + 1
  BY <1>1, <1>2 DEF FeedInv, KeptOf
<1>4. Cardinality({j \in 1 .. i - 1 : file[j] # BlankLine}) = n - 1
  BY <1>1, <1>2, RowsBefore
<1>5. ASSUME \A j \in 1 .. i - 1 : file[j] # BlankLine /\ file[j].lines = 1 PROVE n + 1 = FileLine(i)
  <2>1. {j \in 1 .. i - 1 : file[j].lines = 2} = {} /\ {j \in 1 .. i - 1 : file[j] # BlankLine} = 1 .. i - 1
    BY <1>5
  <2>2. Cardinality(1 .. i - 1) = i - 1
    <3>1. 1 \in Int /\ i - 1 \in Int
      OBVIOUS
    <3> QED
      BY <3>1, FS_Interval
  <2>3. n - 1 = i - 1
    BY <1>4, <2>1, <2>2
  <2>4. FileLine(i) = 1 + i + 0
    BY <2>1, FS_EmptySet DEF FileLine
  <2> QED
    BY <1>1, <2>3, <2>4
<1> QED
  BY <1>1, <1>2, <1>3, <1>4, <1>5

LEMMA RoundedIs ==
    ASSUME NEW cell \in Cells, cell # Text, NEW p \in Rounded(cell)
    PROVE  /\ p = Blank <=> cell = Blank
           /\ p # Blank => p \in Int /\ cell \in Int /\ 10 * p - cell \in -5 .. 5
<1>1. CASE cell = Blank
  BY <1>1 DEF Rounded
<1>2. CASE cell # Blank
  <2>1. cell \in Int
    BY <1>2, FeedConstants
  <2>2. (cell - 5) \div 10 \in Int /\ (cell + 5) \div 10 + 1 \in Int
    BY <2>1
  <2>3. p \in Int /\ 10 * p - 5 <= cell /\ cell <= 10 * p + 5
    BY <1>2, <2>2 DEF Rounded
  <2>4. p # Blank
    BY <2>3, FeedConstants
  <2> QED
    BY <1>2, <2>1, <2>3, <2>4
<1> QED
  BY <1>1, <1>2

LEMMA PricesFollow == FeedInv => PricesAreFaithful
<1> SUFFICES ASSUME FeedInv, NEW n \in DOMAIN stored
             PROVE  /\ stored[n].price = Blank <=> file[stored[n].row].cell = Blank
                    /\ stored[n].price # Blank =>
                          /\ stored[n].price >= 0
                          /\ 10 * stored[n].price - file[stored[n].row].cell \in -5 .. 5
  BY DEF PricesAreFaithful
<1>1. n \in 1 .. read /\ n \in 1 .. Len(DataRows) /\ stored[n] \in KeptLine
  BY RowsArePlaces DEF FeedInv
<1>2. KeptOf(stored[n], n)
  BY <1>1 DEF FeedInv
<1>3. PICK cell \in Cells : cell = file[stored[n].row].cell
  BY <1>1, <1>2, RowsArePlaces DEF FeedInv, KeptOf
<1>4. PICK p \in Rounded(cell) : p = stored[n].price
  BY <1>2, <1>3 DEF KeptOf
<1>5. p \in (0 .. MaxPrice) \cup {Blank} /\ cell # Text
  BY <1>1, <1>2, <1>3, <1>4 DEF KeptLine, KeptOf
<1>6. p # Blank => p >= 0
  BY <1>5, FeedConstants
<1> QED
  BY <1>3, <1>4, <1>5, <1>6, RoundedIs

(* Every kept row leads back to its line of the file and its price, at the *)
(* edges of chunks too, for files of any length and any chunk size         *)
(* (_read_and_prepare_chunk and row_offset in api/upload.py).              *)
THEOREM RowsAreFaithful == FSpec => []RowsLeadBack
<1>1. FeedInv => RowsLeadBack
  BY LinesFollow, PricesFollow DEF RowsLeadBack
<1> QED
  BY <1>1, FeedInvariant, PTL

(* A cell that cannot be taken costs its own chunk and what follows, and   *)
(* nothing before; a processed feed holds and counts every data row of its *)
(* file (the loop over the chunks in api/upload.py).                       *)
THEOREM OnlyItsChunkIsLost == FSpec => []ChunkIsTheUnit
<1>1. FeedInv => ChunkIsTheUnit
  <2> SUFFICES ASSUME FeedInv PROVE ChunkIsTheUnit
    OBVIOUS
  <2>1. /\ Len(DataRows) \in Nat /\ read \in Nat /\ Len(stored) = read /\ read <= Len(DataRows)
        /\ DOMAIN DataRows = 1 .. Len(DataRows)
    BY RowsArePlaces DEF FeedInv
  <2>2. \A m \in 1 .. read : Acceptable(DataRows[m])
    <3> SUFFICES ASSUME NEW m \in 1 .. read PROVE Acceptable(DataRows[m])
      OBVIOUS
    <3>1. KeptOf(stored[m], m) /\ stored[m] \in KeptLine
      <4>1. KeptOf(stored[m], m) /\ stored \in Seq(KeptLine) /\ m \in 1 .. Len(stored)
        BY <2>1 DEF FeedInv
      <4> QED
        BY <4>1
    <3>2. PICK p \in Rounded(file[DataRows[m]].cell) : p \in (0 .. MaxPrice) \cup {Blank}
      BY <3>1 DEF KeptOf, KeptLine
    <3>3. file[DataRows[m]].cell # Text
      BY <3>1 DEF KeptOf
    <3> QED
      BY <3>2, <3>3 DEF Acceptable, Storable
  <2>3. ASSUME status = "processed"
        PROVE  /\ columns /\ \A n \in DOMAIN DataRows : Acceptable(DataRows[n])
               /\ Len(stored) = Len(DataRows) /\ count = Len(DataRows)
    BY <2>1, <2>2, <2>3 DEF FeedInv
  <2>4. ASSUME status = "failed", columns
        PROVE  \E n \in DOMAIN DataRows :
                  /\ Refusable(DataRows[n])
                  /\ Len(stored) = Chunk * ((n - 1) \div Chunk)
                  /\ \A m \in 1 .. Len(stored) : Acceptable(DataRows[m])
    <3>1. PICK n \in read + 1 .. read + Chunk : n <= Len(DataRows) /\ Refusable(DataRows[n])
      BY <2>4 DEF FeedInv
    <3>2. PICK k \in Nat : read = Chunk * k
      BY <2>4 DEF FeedInv, WholeChunks
    <3>3. Chunk \in Nat \ {0} /\ n \in DOMAIN DataRows /\ n \in Nat
      BY <2>1, <3>1, FeedConstants
    <3>4. PICK r \in 0 .. Chunk - 1 : n - 1 = Chunk * k + r
      <4>1. n - 1 - read \in 0 .. Chunk - 1
        BY <2>1, <3>1, <3>3
      <4>2. n - 1 = read + (n - 1 - read)
        BY <2>1, <3>3
      <4> QED
        BY <3>2, <4>1, <4>2
    <3>5. (n - 1) \div Chunk = k
      BY <3>3, <3>4, QuotientIs
    <3>6. Len(stored) = Chunk * ((n - 1) \div Chunk)
      BY <2>1, <3>2, <3>5
    <3> QED
      BY <2>1, <2>2, <3>1, <3>3, <3>6
  <2>5. ~columns => stored = << >>
    <3>1. ~columns => read = 0 /\ stored \in Seq(KeptLine)
      BY DEF FeedInv
    <3> QED
      BY <2>1, <3>1
  <2> QED
    BY <2>3, <2>4, <2>5 DEF ChunkIsTheUnit
<1> QED
  BY <1>1, FeedInvariant, PTL

-----------------------------------------------------------------------------
(* SearchRequest.                                                          *)

LEMMA RecordsAre ==
    /\ PageSize \in Nat \ {0}
    /\ \A i \in DOMAIN Records : Records[i].store \in Stores /\ Records[i].day \in Nat
    /\ \A r \in RequestsMade : r.stores \in Seq(Stores \cup {Empty})
<1>1. \A i \in DOMAIN Records : Records[i].store \in Stores /\ Records[i].day \in Nat
  <2>1. PICK R : R = [store: Stores, day: Nat]
    OBVIOUS
  <2>2. Records \in Seq(R)
    BY <2>1, RequestConstants
  <2>3. \A i \in DOMAIN Records : Records[i] \in R
    BY <2>2
  <2> QED
    BY <2>1, <2>3
<1>2. ASSUME NEW r \in RequestsMade PROVE r.stores \in Seq(Stores \cup {Empty})
  <2>1. r \in [stores: Seq(Stores \cup {Empty}), from: Days \cup {NoDay}, to: Days \cup {NoDay}]
    BY RequestConstants
  <2> QED
    BY <2>1
<1> QED
  BY <1>1, <1>2, RequestConstants

(* How often a store occurs says whether it does: requests of one key ask  *)
(* the index for the same records.                                         *)
LEMMA KeyTellsFilter ==
    ASSUME NEW r \in RequestsMade, NEW q \in RequestsMade, CacheKey(r) = CacheKey(q)
    PROVE  IndexFilter(r) = IndexFilter(q)
<1> DEFINE At(p, s) == {i \in DOMAIN p.stores : p.stores[i] = s}
<1>1. r.stores \in Seq(Stores \cup {Empty}) /\ q.stores \in Seq(Stores \cup {Empty})
  BY RecordsAre
<1>2. \A s \in Stores : Cardinality(At(r, s)) = Cardinality(At(q, s))
  <2> DEFINE Count(p) == [s \in Stores |-> Cardinality(At(p, s))]
  <2>1. Count(r) = Count(q)
    BY DEF CacheKey
  <2>2. \A s \in Stores : Count(r)[s] = Count(q)[s]
    <3> HIDE DEF Count
    <3> QED
      BY <2>1
  <2> QED
    BY <2>2
<1>3. r.from = q.from /\ r.to = q.to
  BY DEF CacheKey
<1>4. ASSUME NEW p \in RequestsMade, NEW s
      PROVE  IsFiniteSet(At(p, s)) /\ (s \in ToSet(p.stores) <=> At(p, s) # {})
  <2>1. p.stores \in Seq(Stores \cup {Empty})
    BY RecordsAre
  <2>2. DOMAIN p.stores = 1 .. Len(p.stores) /\ Len(p.stores) \in Nat
    BY <2>1
  <2>3. IsFiniteSet(1 .. Len(p.stores))
    <3>1. 1 \in Int /\ Len(p.stores) \in Int
      BY <2>2
    <3> QED
      BY <3>1, FS_Interval
  <2>4. IsFiniteSet(At(p, s))
    BY <2>2, <2>3, FS_Subset
  <2> QED
    BY <2>4 DEF ToSet
<1>5. \A s \in Stores : s \in ToSet(r.stores) <=> s \in ToSet(q.stores)
  <2> HIDE DEF At
  <2> QED
    BY <1>2, <1>4, FS_EmptySet
<1>6. ASSUME NEW p \in RequestsMade PROVE Named(p.stores) = ToSet(p.stores) \cap Stores
  <2>1. p.stores \in Seq(Stores \cup {Empty})
    BY RecordsAre
  <2>2. ToSet(p.stores) \subseteq Stores \cup {Empty}
    BY <2>1 DEF ToSet
  <2> QED
    BY <2>2, RequestConstants DEF Named
<1>7. Named(r.stores) = {} <=> Named(q.stores) = {}
  BY <1>5, <1>6
<1>8. \A i \in DOMAIN Records : InDays(r, Records[i].day) <=> InDays(q, Records[i].day)
  BY <1>3 DEF InDays
<1> QED
  BY <1>5, <1>7, <1>8, RecordsAre DEF IndexFilter

LEMMA FiltersArePlaces ==
    ASSUME NEW r
    PROVE  Places(IndexFilter(r)) /\ Places(DatabaseFilter(r))
<1>1. Len(Records) \in Nat /\ DOMAIN Records = 1 .. Len(Records)
  BY RequestConstants
<1> QED
  BY <1>1 DEF Places, IndexFilter, DatabaseFilter

(* A sequence that lists every record of a set once.                       *)
Lists(s, S) ==
    /\ s \in Seq(S)
    /\ \A i, j \in 1 .. Len(s) : s[i] = s[j] => i = j
    /\ \A x \in S : \E i \in 1 .. Len(s) : s[i] = x
    /\ Len(s) = Cardinality(S)

LEMMA InOrderLists == ASSUME NEW S, Places(S) PROVE Lists(InOrder(S), S)
<1>1. ASSUME NEW i \in 1 .. Len(InOrder(S)), NEW j \in 1 .. Len(InOrder(S)),
             InOrder(S)[i] = InOrder(S)[j]
      PROVE  i = j
  <2>1. PICK x \in S : x = InOrder(S)[i]
    BY InOrderIs
  <2>2. x \in Nat /\ i \in Nat /\ j \in Nat
    BY PlacesAre
  <2>3. ~(i < j) /\ ~(j < i)
    BY <1>1, <2>1, <2>2, InOrderIs
  <2> QED
    BY <2>2, <2>3
<1> QED
  BY <1>1, InOrderIs DEF Lists

LEMMA SetToSeqsLists == ASSUME NEW S, Places(S), NEW s \in SetToSeqs(S) PROVE Lists(s, S)
<1> DEFINE c == Cardinality(S)
<1>1. IsFiniteSet(S) /\ c \in Nat
  BY PlacesAre
<1>2. s \in [1 .. c -> S] /\ \A i, j \in 1 .. c : i # j => s[i] # s[j]
  BY DEF SetToSeqs
<1>3. s \in Injection(1 .. c, S)
  <2> HIDE DEF c
  <2> QED
    BY <1>2 DEF Injection, IsInjective
<1>4. IsFiniteSet(1 .. c) /\ Cardinality(1 .. c) = c
  <2>1. 1 \in Int /\ c \in Int
    BY <1>1
  <2> HIDE DEF c
  <2> QED
    BY <1>1, <2>1, FS_Interval
<1>5. s \in Surjection(1 .. c, S)
  BY <1>1, <1>3, <1>4, FS_Injection
<1>6. s \in Seq(S) /\ Len(s) = c
  <2> HIDE DEF c
  <2> QED
    BY <1>1, <1>2
<1>7. \A x \in S : \E i \in 1 .. c : s[i] = x
  <2> HIDE DEF c
  <2> QED
    BY <1>5 DEF Surjection
<1> QED
  BY <1>2, <1>6, <1>7 DEF Lists

(* Records of different days have one order, the newest first: where two   *)
(* such orders part for the first time, each would have the newer record.  *)
LEMMA NewestIsUnique ==
    ASSUME NEW S, S \subseteq DOMAIN Records, NEW s, NEW t, Lists(s, S), Lists(t, S),
           Newest(s), Newest(t),
           \A i, j \in S : Records[i].day = Records[j].day => i = j
    PROVE  s = t
<1> DEFINE c == Len(s)
           D(x) == Records[x].day
<1>1. /\ s \in Seq(S) /\ t \in Seq(S) /\ Len(t) = c /\ c \in Nat
  BY DEF Lists
<1>2. \A i \in 1 .. c : s[i] \in S /\ t[i] \in S /\ D(s[i]) \in Nat /\ D(t[i]) \in Nat
  BY <1>1, RecordsAre
<1>3. ASSUME NEW i \in 1 .. c, NEW j \in 1 .. c, i < j
      PROVE  D(s[i]) > D(s[j]) /\ D(t[i]) > D(t[j])
  <2>1. D(s[i]) >= D(s[j]) /\ D(t[i]) >= D(t[j])
    <3>1. i \in DOMAIN s /\ j \in DOMAIN s /\ i \in DOMAIN t /\ j \in DOMAIN t
      BY <1>1
    <3> QED
      BY <1>3, <3>1 DEF Newest
  <2>2. s[i] # s[j] /\ t[i] # t[j]
    <3>1. \A a, b \in 1 .. c : s[a] = s[b] => a = b
      BY DEF Lists
    <3>2. \A a, b \in 1 .. c : t[a] = t[b] => a = b
      BY <1>1 DEF Lists
    <3>3. i # j
      BY <1>1, <1>3
    <3> QED
      BY <3>1, <3>2, <3>3
  <2>3. D(s[i]) # D(s[j]) /\ D(t[i]) # D(t[j])
    BY <1>2, <2>2
  <2> HIDE DEF D
  <2> QED
    BY <1>2, <2>1, <2>3
<1>4. ASSUME NEW x \in 1 .. c, s[x] # t[x] PROVE FALSE
  <2> DEFINE T == {n \in 1 .. c : s[n] # t[n]}
  <2>1. T \in SUBSET Nat /\ T # {}
    BY <1>4
  <2>2. PICK n \in T : \A m \in T : n <= m
    BY <2>1, LeastNatural
  <2>3. n \in 1 .. c /\ n \in Nat /\ s[n] # t[n] /\ \A m \in 1 .. c : m < n => s[m] = t[m]
    BY <2>2
  <2>4. PICK k \in 1 .. c : t[k] = s[n]
    BY <1>1, <1>2, <2>3 DEF Lists
  <2>5. PICK l \in 1 .. c : s[l] = t[n]
    BY <1>1, <1>2, <2>3 DEF Lists
  <2>6. ~(k < n) /\ ~(l < n)
    <3>1. k < n => s[k] = s[n] /\ k # n
      BY <2>3, <2>4
    <3>2. l < n => t[l] = t[n] /\ l # n
      BY <2>3, <2>5
    <3> QED
      BY <1>1, <2>3, <2>4, <2>5, <3>1, <3>2 DEF Lists
  <2>7. n < k /\ n < l
    BY <1>1, <2>3, <2>4, <2>5, <2>6
  <2>8. D(t[n]) > D(s[n]) /\ D(s[n]) > D(t[n])
    <3> HIDE DEF D
    <3> QED
      BY <1>3, <2>3, <2>4, <2>5, <2>7
  <2> HIDE DEF D
  <2> QED
    BY <1>2, <2>3, <2>8
<1>5. \A x \in 1 .. c : s[x] = t[x]
  BY <1>4
<1> QED
  <2>1. DOMAIN s = 1 .. c /\ DOMAIN t = 1 .. c
    BY <1>1
  <2> HIDE DEF c
  <2> QED
    BY <1>1, <1>5, <2>1


-----------------------------------------------------------------------------
(* The pages of one sequence: the k-th record of the n-th page is the      *)
(* record (n - 1) * PageSize + k of it.                                    *)
LEMMA PageIs ==
    ASSUME NEW S, NEW s \in Seq(S), NEW n \in Nat \ {0}
    PROVE  /\ PageOf(s, n) \in Seq(S) /\ Len(PageOf(s, n)) \in 0 .. PageSize
           /\ \A k \in 1 .. PageSize :
                 k \in 1 .. Len(PageOf(s, n)) <=> (n - 1) * PageSize + k <= Len(s)
           /\ \A k \in 1 .. Len(PageOf(s, n)) :
                 /\ (n - 1) * PageSize + k \in 1 .. Len(s)
                 /\ PageOf(s, n)[k] = s[(n - 1) * PageSize + k]
<1>1. PICK b \in Nat : b = (n - 1) * PageSize
  <2>1. (n - 1) * PageSize \in Nat
    BY RecordsAre
  <2> QED
    BY <2>1
<1>2. n * PageSize = b + PageSize /\ PageSize \in Nat \ {0} /\ Len(s) \in Nat
  BY <1>1, RecordsAre
<1> DEFINE e == IF b + PageSize < Len(s) THEN b + PageSize ELSE Len(s)
<1>3. PageOf(s, n) = SubSeq(s, b + 1, e)
  BY <1>1, <1>2 DEF PageOf
<1>4. /\ e \in Nat /\ b + 1 \in Int /\ \A i \in b + 1 .. e : s[i] \in S
      /\ e <= Len(s) /\ e <= b + PageSize
  BY <1>2
<1>5. /\ PageOf(s, n) \in Seq(S)
      /\ Len(PageOf(s, n)) = IF b + 1 <= e THEN e - b ELSE 0
      /\ \A k \in 1 .. e - b : PageOf(s, n)[k] = s[b + k]
  <2> HIDE DEF e
  <2>1. /\ SubSeq(s, b + 1, e) \in Seq(S)
        /\ Len(SubSeq(s, b + 1, e)) = IF b + 1 <= e THEN e - (b + 1) + 1 ELSE 0
        /\ \A k \in 1 .. e - (b + 1) + 1 : SubSeq(s, b + 1, e)[k] = s[(b + 1) + k - 1]
    BY <1>4, SubSeqProperties
  <2>2. e - (b + 1) + 1 = e - b /\ \A k \in 1 .. e - b : (b + 1) + k - 1 = b + k
    BY <1>4
  <2> QED
    BY <1>3, <2>1, <2>2
<1>6. \A k \in 1 .. PageSize : k \in 1 .. Len(PageOf(s, n)) <=> b + k <= Len(s)
  BY <1>2, <1>5
<1>7. \A k \in 1 .. Len(PageOf(s, n)) : b + k \in 1 .. Len(s) /\ k \in 1 .. e - b
  BY <1>2, <1>5
<1>8. Len(PageOf(s, n)) \in 0 .. PageSize
  BY <1>2, <1>5
<1> HIDE DEF e
<1> QED
  BY <1>1, <1>5, <1>6, <1>7, <1>8

LEMMA Division ==
    ASSUME NEW x \in Nat, NEW c \in Nat \ {0}
    PROVE  \E q \in Nat, r \in 0 .. c - 1 : x = c * q + r
<1>1. PICK q \in Nat : q = x \div c
  OBVIOUS
<1>2. c * q <= x /\ x < c * q + c
  BY <1>1
<1>3. x - c * q \in 0 .. c - 1 /\ x = c * q + (x - c * q)
  BY <1>2
<1> QED
  BY <1>3

(* Every position of a sequence is on one page.                            *)
LEMMA PositionOnPage ==
    ASSUME NEW i \in Nat \ {0}
    PROVE  \E n \in Nat \ {0}, k \in 1 .. PageSize : i = (n - 1) * PageSize + k
<1>1. PICK x \in Nat : x = i - 1
  OBVIOUS
<1>2. PageSize \in Nat \ {0}
  BY RecordsAre
<1>3. PICK q \in Nat, r \in 0 .. PageSize - 1 : x = PageSize * q + r
  BY <1>2, Division
<1>4. i = ((q + 1) - 1) * PageSize + (r + 1) /\ q + 1 \in Nat \ {0} /\ r + 1 \in 1 .. PageSize
  BY <1>1, <1>2, <1>3
<1> QED
  BY <1>4

LEMMA OnePagePerPosition ==
    ASSUME NEW m \in Nat \ {0}, NEW n \in Nat \ {0},
           NEW k \in 1 .. PageSize, NEW l \in 1 .. PageSize,
           (m - 1) * PageSize + k = (n - 1) * PageSize + l
    PROVE  m = n /\ k = l
<1>1. PageSize \in Nat \ {0} /\ m - 1 \in Nat /\ n - 1 \in Nat
      /\ k - 1 \in 0 .. PageSize - 1 /\ l - 1 \in 0 .. PageSize - 1
  BY RecordsAre
<1>2. (PageSize * (m - 1) + (k - 1)) \div PageSize = m - 1
  BY <1>1, QuotientIs
<1>3. (PageSize * (n - 1) + (l - 1)) \div PageSize = n - 1
  BY <1>1, QuotientIs
<1>4. PageSize * (m - 1) + (k - 1) = PageSize * (n - 1) + (l - 1)
  BY <1>1
<1>5. m = n
  BY <1>1, <1>2, <1>3, <1>4
<1> QED
  BY <1>1, <1>5

(* So pages of one list, turned to its end, show every record once.        *)
LEMMA PagesOfOneList ==
    ASSUME NEW S, NEW s, Lists(s, S), NEW c \in Nat \ {0}, NEW p,
           \A n \in 1 .. c : p[n] = PageOf(s, n),
           Len(s) <= c * PageSize
    PROVE  /\ UNION {ToSet(p[n]) : n \in 1 .. c} = S
           /\ \A m, n \in 1 .. c : \A k \in DOMAIN p[m], l \in DOMAIN p[n] :
                 p[m][k] = p[n][l] => m = n /\ k = l
<1>1. s \in Seq(S) /\ Len(s) \in Nat /\ PageSize \in Nat \ {0}
  BY RecordsAre DEF Lists
<1>2. ASSUME NEW n \in 1 .. c
      PROVE  /\ p[n] = PageOf(s, n) /\ n \in Nat \ {0}
             /\ p[n] \in Seq(S) /\ DOMAIN p[n] = 1 .. Len(p[n]) /\ Len(p[n]) \in 0 .. PageSize
             /\ \A k \in 1 .. PageSize : k \in DOMAIN p[n] <=> (n - 1) * PageSize + k <= Len(s)
             /\ \A k \in DOMAIN p[n] :
                   /\ k \in 1 .. PageSize /\ (n - 1) * PageSize + k \in 1 .. Len(s)
                   /\ p[n][k] = s[(n - 1) * PageSize + k]
  <2>1. p[n] = PageOf(s, n) /\ n \in Nat \ {0}
    OBVIOUS
  <2>2. /\ p[n] \in Seq(S) /\ Len(p[n]) \in 0 .. PageSize
        /\ \A k \in 1 .. PageSize : k \in 1 .. Len(p[n]) <=> (n - 1) * PageSize + k <= Len(s)
        /\ \A k \in 1 .. Len(p[n]) :
              /\ (n - 1) * PageSize + k \in 1 .. Len(s)
              /\ p[n][k] = s[(n - 1) * PageSize + k]
    BY <1>1, <2>1, PageIs
  <2>3. DOMAIN p[n] = 1 .. Len(p[n])
    BY <2>2
  <2>4. \A k \in 1 .. Len(p[n]) : k \in 1 .. PageSize
    BY <1>1, <2>2
  <2> QED
    BY <2>1, <2>2, <2>3, <2>4
<1>3. ASSUME NEW x \in UNION {ToSet(p[n]) : n \in 1 .. c} PROVE x \in S
  <2>1. PICK n \in 1 .. c : x \in ToSet(p[n])
    OBVIOUS
  <2>2. PICK k \in DOMAIN p[n] : x = p[n][k]
    BY <2>1 DEF ToSet
  <2> QED
    BY <1>2, <2>2
<1>4. ASSUME NEW x \in S PROVE x \in UNION {ToSet(p[n]) : n \in 1 .. c}
  <2>1. PICK i \in 1 .. Len(s) : s[i] = x
    BY DEF Lists
  <2>2. PICK n \in Nat \ {0}, k \in 1 .. PageSize : i = (n - 1) * PageSize + k
    <3>1. i \in Nat \ {0}
      BY <1>1, <2>1
    <3> QED
      BY <3>1, PositionOnPage
  <2>3. n <= c
    <3>1. (n - 1) * PageSize < c * PageSize
      BY <1>1, <2>1, <2>2
    <3>2. n - 1 < c
      BY <1>1, <3>1
    <3> QED
      BY <3>2
  <2>4. n \in 1 .. c /\ k \in DOMAIN p[n] /\ p[n][k] = x
    <3>1. n \in 1 .. c
      BY <2>3
    <3>2. (n - 1) * PageSize + k <= Len(s)
      BY <1>1, <2>1, <2>2
    <3> QED
      BY <1>2, <2>1, <2>2, <3>1, <3>2
  <2> QED
    BY <2>4 DEF ToSet
<1>5. ASSUME NEW m \in 1 .. c, NEW n \in 1 .. c, NEW k \in DOMAIN p[m], NEW l \in DOMAIN p[n],
             p[m][k] = p[n][l]
      PROVE  m = n /\ k = l
  <2>1. PICK i \in 1 .. Len(s) : i = (m - 1) * PageSize + k /\ p[m][k] = s[i]
    <3>1. (m - 1) * PageSize + k \in 1 .. Len(s) /\ p[m][k] = s[(m - 1) * PageSize + k]
      BY <1>2
    <3> QED
      BY <3>1
  <2>2. PICK j \in 1 .. Len(s) : j = (n - 1) * PageSize + l /\ p[n][l] = s[j]
    <3>1. (n - 1) * PageSize + l \in 1 .. Len(s) /\ p[n][l] = s[(n - 1) * PageSize + l]
      BY <1>2
    <3> QED
      BY <3>1
  <2>3. i = j
    BY <1>5, <2>1, <2>2 DEF Lists
  <2>4. m \in Nat \ {0} /\ n \in Nat \ {0} /\ k \in 1 .. PageSize /\ l \in 1 .. PageSize
    BY <1>2
  <2> QED
    BY <2>1, <2>2, <2>3, <2>4, OnePagePerPosition
<1> QED
  BY <1>3, <1>4, <1>5


-----------------------------------------------------------------------------
(* Who answered a page answered it from one list of what the request asks  *)
(* for; the inductive invariant: every page was.                           *)
Found(by) == IF by = "index" THEN IndexFilter(request) ELSE DatabaseFilter(request)

AnsweredFrom(s, page, n) == page.ids = PageOf(s, n) /\ page.total = Len(s)

TakenFrom(page, n) ==
    \/ /\ page.by = "index"
       /\ AnsweredFrom(InOrder(IndexFilter(request)), page, n)
    \/ /\ page.by = "database"
       /\ \E s \in SetToSeqs(DatabaseFilter(request)) : Newest(s) /\ AnsweredFrom(s, page, n)

RequestInv ==
    /\ request \in RequestsMade
    /\ \E S : pages \in Seq(S)
    /\ \A n \in 1 .. Len(pages) : TakenFrom(pages[n], n)

LEMMA InitRequestInv == RequestInit => RequestInv
<1> SUFFICES ASSUME RequestInit PROVE RequestInv
  OBVIOUS
<1>1. pages = << >> /\ pages \in Seq({}) /\ Len(pages) = 0
  BY DEF RequestInit
<1> QED
  BY <1>1 DEF RequestInv, RequestInit

LEMMA AnswerStep ==
    ASSUME RequestInv, NEW by \in {"index", "database"}, NEW ids, Answer(by, ids),
           \A page : page.by = by /\ AnsweredFrom(ids, page, Len(pages) + 1)
                         => TakenFrom(page, Len(pages) + 1)
    PROVE  RequestInv'
<1> DEFINE new == [by |-> by, ids |-> PageOf(ids, Len(pages) + 1), total |-> Len(ids)]
<1>1. request' = request /\ pages' = Append(pages, new)
  BY DEF Answer
<1>2. PICK S : pages \in Seq(S)
  BY DEF RequestInv
<1>3. new.by = by /\ AnsweredFrom(ids, new, Len(pages) + 1)
  BY DEF AnsweredFrom
<1>4. TakenFrom(new, Len(pages) + 1)
  <2> HIDE DEF new
  <2> QED
    BY <1>3
<1> HIDE DEF new
<1>5. pages \in Seq(S \cup {new})
  BY <1>2, SeqMonotonic
<1>6. /\ pages' \in Seq(S \cup {new}) /\ Len(pages') = Len(pages) + 1 /\ Len(pages) \in Nat
      /\ \A n \in 1 .. Len(pages) : pages'[n] = pages[n]
      /\ pages'[Len(pages) + 1] = new
  BY <1>1, <1>5, AppendProperties
<1>7. \A page, n : TakenFrom(page, n)' <=> TakenFrom(page, n)
  BY <1>1 DEF TakenFrom, AnsweredFrom, IndexFilter, DatabaseFilter, InDays, PageOf, Newest
<1>8. ASSUME NEW n \in 1 .. Len(pages') PROVE TakenFrom(pages'[n], n)
  <2>1. CASE n = Len(pages) + 1
    BY <1>4, <1>6, <2>1
  <2>2. CASE n # Len(pages) + 1
    <3>1. n \in 1 .. Len(pages)
      BY <1>6, <2>2
    <3> QED
      BY <1>6, <3>1 DEF RequestInv
  <2> QED
    BY <2>1, <2>2
<1> QED
  BY <1>1, <1>6, <1>7, <1>8 DEF RequestInv

LEMMA NextRequestInv == RequestInv /\ [RequestNext]_qvars => RequestInv'
<1> SUFFICES ASSUME RequestInv, [RequestNext]_qvars PROVE RequestInv'
  OBVIOUS
<1>1. CASE AskIndex
  <2>1. PICK r \in RequestsMade : /\ CacheKey(r) = CacheKey(request)
                                  /\ Answer("index", InOrder(IndexFilter(r)))
    BY <1>1 DEF AskIndex
  <2>2. IndexFilter(r) = IndexFilter(request)
    BY <2>1, KeyTellsFilter DEF RequestInv
  <2>3. Answer("index", InOrder(IndexFilter(request)))
    BY <2>1, <2>2
  <2>4. \A page : page.by = "index" /\ AnsweredFrom(InOrder(IndexFilter(request)), page, Len(pages) + 1)
                      => TakenFrom(page, Len(pages) + 1)
    BY DEF TakenFrom
  <2> QED
    BY <2>3, <2>4, AnswerStep
<1>2. CASE AskDatabase
  <2>1. PICK s \in SetToSeqs(DatabaseFilter(request)) : Newest(s) /\ Answer("database", s)
    BY <1>2 DEF AskDatabase
  <2>2. \A page : page.by = "database" /\ AnsweredFrom(s, page, Len(pages) + 1)
                      => TakenFrom(page, Len(pages) + 1)
    BY <2>1 DEF TakenFrom
  <2> QED
    BY <2>1, <2>2, AnswerStep
<1>3. CASE UNCHANGED qvars
  <2>1. request' = request /\ pages' = pages
    BY <1>3 DEF qvars
  <2> QED
    BY <2>1 DEF RequestInv, TakenFrom, AnsweredFrom, IndexFilter, DatabaseFilter, InDays, PageOf, Newest
<1> QED
  BY <1>1, <1>2, <1>3 DEF RequestNext

LEMMA RequestInvariant == RequestSpec => []RequestInv
  BY InitRequestInv, NextRequestInv, PTL DEF RequestSpec

(* Who answers is the index or the database, from a list of all it finds.  *)
LEMMA AnsweredLists ==
    ASSUME NEW page, NEW n, TakenFrom(page, n)
    PROVE  /\ page.by \in {"index", "database"}
           /\ \E s : Lists(s, Found(page.by)) /\ AnsweredFrom(s, page, n)
           /\ page.by = "database" =>
                 \E s : Lists(s, DatabaseFilter(request)) /\ Newest(s) /\ AnsweredFrom(s, page, n)
<1>1. CASE page.by = "index" /\ AnsweredFrom(InOrder(IndexFilter(request)), page, n)
  <2>1. Lists(InOrder(IndexFilter(request)), IndexFilter(request))
    BY FiltersArePlaces, InOrderLists
  <2> QED
    BY <1>1, <2>1 DEF Found
<1>2. CASE /\ page.by = "database"
           /\ \E s \in SetToSeqs(DatabaseFilter(request)) : Newest(s) /\ AnsweredFrom(s, page, n)
  <2>1. PICK s \in SetToSeqs(DatabaseFilter(request)) : Newest(s) /\ AnsweredFrom(s, page, n)
    BY <1>2
  <2>2. Lists(s, DatabaseFilter(request))
    BY FiltersArePlaces, SetToSeqsLists
  <2> QED
    BY <1>2, <2>1, <2>2 DEF Found
<1> QED
  BY <1>1, <1>2 DEF TakenFrom

LEMMA ReadersFollow == RequestInv => ReadersAgree
<1> SUFFICES ASSUME RequestInv, NEW n \in DOMAIN pages
             PROVE  /\ \A i \in ToSet(pages[n].ids) :
                          /\ InDays(request, Records[i].day)
                          /\ Named(request.stores) # {} => Records[i].store \in ToSet(request.stores)
                    /\ request.stores = << >> \/ Named(request.stores) # {} =>
                          pages[n].total = pages[1].total
  BY DEF ReadersAgree
<1>1. n \in 1 .. Len(pages) /\ 1 \in 1 .. Len(pages) /\ n \in Nat \ {0}
  <2>1. PICK S : pages \in Seq(S)
    BY DEF RequestInv
  <2> QED
    BY <2>1
<1>2. ToSet(<< >>) = {} /\ Named(<< >>) = {}
  BY DEF ToSet, Named
<1>3. ASSUME NEW m \in 1 .. Len(pages)
      PROVE  /\ pages[m].by \in {"index", "database"}
             /\ \E s : Lists(s, Found(pages[m].by)) /\ AnsweredFrom(s, pages[m], m)
  BY AnsweredLists DEF RequestInv
<1>4. ASSUME NEW i \in ToSet(pages[n].ids)
      PROVE  /\ InDays(request, Records[i].day)
             /\ Named(request.stores) # {} => Records[i].store \in ToSet(request.stores)
  <2>1. PICK s : Lists(s, Found(pages[n].by)) /\ AnsweredFrom(s, pages[n], n)
    BY <1>1, <1>3
  <2>2. PageOf(s, n) \in Seq(Found(pages[n].by))
    BY <1>1, <2>1, PageIs DEF Lists
  <2>3. i \in Found(pages[n].by)
    <3>1. i \in ToSet(PageOf(s, n))
      BY <2>1 DEF AnsweredFrom
    <3>2. PICK k \in DOMAIN PageOf(s, n) : i = PageOf(s, n)[k]
      BY <3>1 DEF ToSet
    <3> QED
      BY <2>2, <3>2
  <2> QED
    BY <1>2, <2>3 DEF Found, IndexFilter, DatabaseFilter
<1>5. ASSUME request.stores = << >> \/ Named(request.stores) # {}
      PROVE  pages[n].total = pages[1].total
  <2>1. IndexFilter(request) = DatabaseFilter(request)
    BY <1>2, <1>5 DEF IndexFilter, DatabaseFilter
  <2>2. \A m \in 1 .. Len(pages) : pages[m].total = Cardinality(IndexFilter(request))
    BY <1>3, <2>1 DEF Found, AnsweredFrom, Lists
  <2> QED
    BY <1>1, <2>2
<1> QED
  BY <1>4, <1>5

LEMMA PartitionFollows == RequestInv => PagesPartition
<1> SUFFICES ASSUME RequestInv, NEW by \in {"index", "database"},
                    pages # << >>, ~More,
                    \A n \in DOMAIN pages : pages[n].by = by,
                    by = "index" \/ \A i, j \in Found(by) : Records[i].day = Records[j].day => i = j
             PROVE  /\ UNION {ToSet(pages[n].ids) : n \in DOMAIN pages} = Found(by)
                    /\ \A m, n \in DOMAIN pages :
                          \A k \in DOMAIN pages[m].ids, l \in DOMAIN pages[n].ids :
                             pages[m].ids[k] = pages[n].ids[l] => m = n /\ k = l
  BY DEF PagesPartition, Found
<1> DEFINE c == Len(pages)
<1>1. c \in Nat \ {0} /\ DOMAIN pages = 1 .. c /\ c \in 1 .. c
  <2>1. PICK S : pages \in Seq(S)
    BY DEF RequestInv
  <2>2. pages # << >>
    OBVIOUS
  <2> QED
    BY <2>1, <2>2
<1>2. PICK s : Lists(s, Found(by)) /\ \A n \in 1 .. c : AnsweredFrom(s, pages[n], n)
  <2>1. CASE by = "index"
    <3>1. \A n \in 1 .. c : AnsweredFrom(InOrder(IndexFilter(request)), pages[n], n)
      BY <1>1, <2>1 DEF RequestInv, TakenFrom
    <3>2. Lists(InOrder(IndexFilter(request)), Found(by))
      BY <2>1, FiltersArePlaces, InOrderLists DEF Found
    <3> QED
      BY <3>1, <3>2
  <2>2. CASE by = "database"
    <3>1. Found(by) = DatabaseFilter(request) /\ Found(by) \subseteq DOMAIN Records
      BY <2>2 DEF Found, DatabaseFilter
    <3>2. \A n \in 1 .. c : \E t : Lists(t, Found(by)) /\ Newest(t) /\ AnsweredFrom(t, pages[n], n)
      BY <1>1, <2>2, <3>1, AnsweredLists DEF RequestInv
    <3>3. PICK s : Lists(s, Found(by)) /\ Newest(s)
      BY <1>1, <3>2
    <3>4. \A i, j \in Found(by) : Records[i].day = Records[j].day => i = j
      BY <2>2
    <3>5. ASSUME NEW t, Lists(t, Found(by)), Newest(t) PROVE t = s
      BY <3>1, <3>3, <3>4, <3>5, NewestIsUnique
    <3> QED
      BY <3>2, <3>3, <3>5
  <2> QED
    BY <2>1, <2>2
<1>3. \A n \in 1 .. c : pages[n].ids = PageOf(s, n) /\ pages[n].total = Len(s)
  BY <1>2 DEF AnsweredFrom
<1>4. Len(s) <= c * PageSize
  <2>1. ~(c * PageSize < Len(s))
    BY <1>1, <1>3 DEF More
  <2>2. Len(s) \in Nat /\ c * PageSize \in Nat
    BY <1>1, <1>2, RecordsAre DEF Lists
  <2> HIDE DEF c
  <2> QED
    BY <2>1, <2>2
<1> DEFINE p == [n \in 1 .. c |-> pages[n].ids]
<1>5. \A n \in 1 .. c : p[n] = PageOf(s, n) /\ p[n] = pages[n].ids
  BY <1>3
<1>6. /\ UNION {ToSet(p[n]) : n \in 1 .. c} = Found(by)
      /\ \A m, n \in 1 .. c : \A k \in DOMAIN p[m], l \in DOMAIN p[n] :
            p[m][k] = p[n][l] => m = n /\ k = l
  <2> HIDE DEF p, c
  <2> QED
    BY <1>1, <1>2, <1>4, <1>5, PagesOfOneList
<1>7. {ToSet(p[n]) : n \in 1 .. c} = {ToSet(pages[n].ids) : n \in 1 .. c}
  <2> HIDE DEF p, c
  <2> QED
    BY <1>5
<1> HIDE DEF p, c
<1> QED
  BY <1>1, <1>5, <1>6, <1>7

(* Who answers which page of a request -- the cache, the index or the      *)
(* database -- shows in no record that was not asked for; in the number    *)
(* found only when the list of stores has empty strings and nothing else.  *)
(* The pages of one reader, turned to the end, show every record once: of  *)
(* the database if no two records it finds are of one day                  *)
(* (make_pricing_cache_key, _build_filter_by, db_fallback_search).         *)
THEOREM ReadersShowTheSame == RequestSpec => []PagesAgree
<1>1. RequestInv => PagesAgree
  BY ReadersFollow, PartitionFollows DEF PagesAgree
<1> QED
  BY <1>1, RequestInvariant, PTL

-----------------------------------------------------------------------------
(* MCParts: the parts together.                                            *)

(* What WorkersInv leaves open of the types of WorkerCaches.               *)
SeenInv ==
    /\ writing \subseteq Workers
    /\ seen \in [worker: Workers \cup {Never}, scope: CacheScopes \cup {Never},
                 version: 0 .. Version, hit: BOOLEAN]

LEMMA InitSeenInv == WInit => SeenInv
<1> SUFFICES ASSUME WInit PROVE SeenInv
  OBVIOUS
<1>1. writing = {} /\ seen = Unseen /\ since = <<0>>
  BY DEF WInit
<1> QED
  BY <1>1 DEF SeenInv, Unseen, Version

LEMMA NextSeenInv == WorkersInv /\ SeenInv /\ [WNext]_wvars => SeenInv'
<1> SUFFICES ASSUME WorkersInv, SeenInv, [WNext]_wvars PROVE SeenInv'
  OBVIOUS
<1> DEFINE SeenType(n) == [worker: Workers \cup {Never}, scope: CacheScopes \cup {Never},
                           version: 0 .. n, hit: BOOLEAN]
<1>1. \A n \in Nat : Unseen \in SeenType(n)
  BY DEF Unseen
<1>2. Version \in Nat /\ since \in Seq(Nat) /\ writing \subseteq Workers
  BY DEF WorkersInv, Version, SeenInv
<1>3. CASE Pass
  <2>1. writing' = writing /\ seen' = Unseen /\ since' = since
    BY <1>3 DEF Pass
  <2> QED
    BY <1>1, <1>2, <2>1 DEF SeenInv, Version
<1>4. ASSUME NEW w \in Workers, Commit(w) \/ ClearCaches(w) \/ WriteFails(w) PROVE SeenInv'
  <2>1. seen' = Unseen /\ writing' \subseteq Workers
    BY <1>2, <1>4 DEF Commit, ClearCaches, WriteFails
  <2>2. since' = since \/ since' = Append(since, time)
    BY <1>4 DEF Commit, ClearCaches, WriteFails
  <2>3. Version' \in Nat
    BY <1>2, <2>2 DEF Version, WorkersInv
  <2>4. seen' \in SeenType(Version')
    <3> HIDE DEF SeenType
    <3> QED
      BY <1>1, <2>1, <2>3
  <2> QED
    BY <2>1, <2>4 DEF SeenInv
<1>5. ASSUME NEW w \in Workers, NEW s \in CacheScopes, Hit(w, s) \/ Read(w, s) \/ Store(w, s)
      PROVE  SeenInv'
  <2>1. writing' = writing /\ since' = since /\ Version' = Version
    BY <1>5 DEF Hit, Read, Store, Version
  <2>2. CASE Read(w, s)
    <3>1. seen' = Unseen
      BY <2>2 DEF Read
    <3> QED
      BY <1>1, <1>2, <2>1, <3>1 DEF SeenInv
  <2>3. CASE Hit(w, s)
    <3>1. cached[w][s].version \in 1 .. Version
      BY <2>3 DEF Hit, Fresh, WorkersInv, EntryInv
    <3>2. seen' = [worker |-> w, scope |-> s, version |-> cached[w][s].version, hit |-> TRUE]
      BY <2>3 DEF Hit
    <3> QED
      BY <1>2, <2>1, <3>1, <3>2 DEF SeenInv
  <2>4. CASE Store(w, s)
    <3>1. flight[w][s].version \in 1 .. Version
      BY <2>4 DEF Store, WorkersInv, FlightInv
    <3>2. seen' = [worker |-> w, scope |-> s, version |-> flight[w][s].version, hit |-> FALSE]
      BY <2>4 DEF Store
    <3> QED
      BY <1>2, <2>1, <3>1, <3>2 DEF SeenInv
  <2> QED
    BY <1>5, <2>2, <2>3, <2>4
<1>6. CASE UNCHANGED wvars
  BY <1>6 DEF wvars, SeenInv, Version
<1> QED
  BY <1>3, <1>4, <1>5, <1>6 DEF WNext

LEMMA WorkersTypesFollow == WorkersInv /\ SeenInv => WorkersTypeOK
<1> SUFFICES ASSUME WorkersInv, SeenInv PROVE WorkersTypeOK
  OBVIOUS
<1>1. ASSUME NEW w \in Workers, NEW s \in CacheScopes
      PROVE  /\ cached[w][s] \in [version: 1 .. Version, expires_at: Nat] \cup {Never}
             /\ flight[w][s] \in [version: 1 .. Version, at: 0 .. time] \cup {Never}
  <2>1. EntryInv(w, s) /\ FlightInv(w, s) /\ time \in Nat
    BY DEF WorkersInv
  <2>2. cached[w][s] # Never => cached[w][s] \in [version: 1 .. Version, expires_at: Nat]
    BY <2>1 DEF EntryInv
  <2>3. flight[w][s] # Never => flight[w][s] \in [version: 1 .. Version, at: 0 .. time]
    <3>1. flight[w][s] # Never =>
             /\ flight[w][s] \in [version: 1 .. Version, at: Nat] /\ flight[w][s].at <= time
      BY <2>1 DEF FlightInv
    <3> QED
      BY <2>1, <3>1
  <2> QED
    BY <2>2, <2>3
<1> QED
  BY <1>1 DEF WorkersTypeOK, WorkersInv, SeenInv

(* The bound on saves counts those on their way.                           *)
Pending == {p \in puts : p.answer = Closed}

SavesInv == IsFiniteSet(Pending) /\ rev + Cardinality(Pending) <= MaxSaves

LEMMA InitSavesInv == EInit => SavesInv
<1> SUFFICES ASSUME EInit PROVE SavesInv
  OBVIOUS
<1>1. rev = 0 /\ Pending = {}
  BY DEF EInit, Pending
<1>2. IsFiniteSet(Pending) /\ Cardinality(Pending) = 0
  BY <1>1, FS_EmptySet
<1> QED
  BY <1>1, <1>2, DialogConstants DEF SavesInv

LEMMA FewerPending ==
    ASSUME SavesInv, Pending' \subseteq Pending, rev' = rev, rev \in Nat
    PROVE  SavesInv'
<1>1. IsFiniteSet(Pending) /\ rev + Cardinality(Pending) <= MaxSaves
  BY DEF SavesInv
<1>2. IsFiniteSet(Pending') /\ Cardinality(Pending') <= Cardinality(Pending)
  BY <1>1, FS_Subset
<1>3. Cardinality(Pending') \in Nat /\ Cardinality(Pending) \in Nat
  BY <1>1, <1>2, FS_CardinalityType
<1> QED
  BY <1>1, <1>2, <1>3, DialogConstants DEF SavesInv

LEMMA SaveCounts ==
    ASSUME DialogInv, SavesInv, NEW u \in People, NEW texts \in [Fields -> Texts], Save(u, texts)
    PROVE  SavesInv'
<1>1. PICK new \in PutN : puts' = puts \cup {new}
  BY SaveIsFaithful
<1>2. rev' = rev /\ rev + Cardinality(Pending) < MaxSaves
  BY DEF Save, Pending
<1>3. IsFiniteSet(Pending) /\ Cardinality(Pending) \in Nat /\ rev \in Nat
  BY FS_CardinalityType DEF SavesInv, DialogInv
<1>4. Pending' \subseteq Pending \cup {new}
  BY <1>1 DEF Pending
<1>5. /\ IsFiniteSet(Pending \cup {new})
      /\ Cardinality(Pending \cup {new}) <= Cardinality(Pending) + 1
  <2>1. /\ IsFiniteSet(Pending \cup {new})
        /\ Cardinality(Pending \cup {new}) =
              IF new \in Pending THEN Cardinality(Pending) ELSE Cardinality(Pending) + 1
    BY <1>3, FS_AddElement
  <2>2. PICK c \in Nat : c = Cardinality(Pending)
    BY <1>3
  <2> QED
    BY <2>1, <2>2
<1>6. IsFiniteSet(Pending') /\ Cardinality(Pending') <= Cardinality(Pending \cup {new})
  BY <1>4, <1>5, FS_Subset
<1>7. Cardinality(Pending') \in Nat /\ Cardinality(Pending \cup {new}) \in Nat
  BY <1>5, <1>6, FS_CardinalityType
<1> QED
  BY <1>2, <1>3, <1>5, <1>6, <1>7, DialogConstants DEF SavesInv

LEMMA ServeCounts ==
    ASSUME DialogInv, SavesInv, NEW p \in puts, Serve(p)
    PROVE  SavesInv'
<1>1. PICK new \in PutN : puts' = (puts \ {p}) \cup {new} /\ new.answer # Closed
  BY ServeIsFaithful
<1>2. p.answer = Closed /\ rev' = rev + 1 /\ rev \in Nat
  BY DEF Serve, DialogInv
<1>3. Pending' = Pending \ {p} /\ p \in Pending
  BY <1>1, <1>2 DEF Pending
<1>4. IsFiniteSet(Pending) /\ Cardinality(Pending) \in Nat /\ rev + Cardinality(Pending) <= MaxSaves
  BY FS_CardinalityType DEF SavesInv
<1>5. IsFiniteSet(Pending') /\ Cardinality(Pending') = Cardinality(Pending) - 1
  BY <1>3, <1>4, FS_RemoveElement
<1> QED
  BY <1>2, <1>4, <1>5, DialogConstants DEF SavesInv

LEMMA NextSavesInv == DialogInv /\ SavesInv /\ [ENext]_evars => SavesInv'
<1> SUFFICES ASSUME DialogInv, SavesInv, [ENext]_evars PROVE SavesInv'
  OBVIOUS
<1>1. rev \in Nat
  BY DEF DialogInv
<1>2. ASSUME NEW u \in People, Load(u) \/ OpenDialog(u) \/ Dismiss(u) PROVE SavesInv'
  BY <1>1, <1>2, FewerPending DEF Load, OpenDialog, Dismiss, Pending
<1>3. ASSUME NEW p \in puts, Answered(p) \/ Lost(p) PROVE SavesInv'
  BY <1>1, <1>3, FewerPending DEF Answered, Lost, Pending
<1>4. CASE UNCHANGED evars
  BY <1>4 DEF evars, SavesInv, Pending
<1> QED
  BY <1>2, <1>3, <1>4, SaveCounts, ServeCounts DEF ENext

LEMMA DialogTypesFollow == DialogInv /\ SavesInv => DialogTypeOK
<1> SUFFICES ASSUME DialogInv, SavesInv PROVE DialogTypeOK
  OBVIOUS
<1>1. rev \in 0 .. MaxSaves
  <2>1. Cardinality(Pending) \in Nat /\ rev \in Nat /\ rev + Cardinality(Pending) <= MaxSaves
    BY FS_CardinalityType DEF SavesInv, DialogInv
  <2> QED
    BY <2>1, DialogConstants
<1>2. ASSUME NEW n \in Nat, n <= rev PROVE n \in 0 .. MaxSaves
  BY <1>1, <1>2, DialogConstants
<1>3. ASSUME NEW copy \in CopyN, UpToDate(copy) PROVE copy \in Copy /\ copy.rev <= rev
  <2>1. copy.rev <= rev /\ copy.rev \in Nat /\ copy.row \in DialogRow
        /\ copy = [row |-> copy.row, rev |-> copy.rev]
    BY <1>3 DEF UpToDate, CopyN
  <2> QED
    BY <1>2, <2>1 DEF Copy
<1>4. ASSUME NEW d \in OpenedN, Current(d) PROVE d \in Opened
  <2>1. d.rev <= rev /\ d.rev \in Nat
    BY <1>4 DEF Current, OpenedN
  <2>2. d.rev \in 0 .. MaxSaves
    BY <1>2, <2>1
  <2> QED
    BY <2>2 DEF Opened, OpenedN
<1>5. \A u \in People :
         /\ shown[u] \in Copy /\ shown[u].rev <= rev /\ dialog[u] \in Opened \cup {Closed}
  BY <1>3, <1>4 DEF DialogInv
<1>6. ASSUME NEW p \in puts PROVE p \in Put /\ (p.answer # Closed => p.answer.rev <= rev)
  <2>1. p \in PutN /\ p.base <= rev /\ (p.answer # Closed => UpToDate(p.answer))
    BY DEF DialogInv, Faithful
  <2>2. p.answer \in Copy \cup {Closed} /\ (p.answer # Closed => p.answer.rev <= rev)
    BY <1>3, <2>1 DEF PutN
  <2>3. p.base \in 0 .. MaxSaves
    BY <1>2, <2>1 DEF PutN
  <2> QED
    BY <2>1, <2>2, <2>3 DEF Put, PutN
<1>7. shown \in [People -> Copy] /\ dialog \in [People -> Opened \cup {Closed}]
  BY <1>5 DEF DialogInv
<1> QED
  BY <1>1, <1>5, <1>6, <1>7 DEF DialogTypeOK, DialogInv

(* Whichever part runs, the others stand still, and all keep their         *)
(* invariants.                                                             *)
PartsInv ==
    /\ DictInv /\ FeedInv /\ AccessInv /\ SeedInv
    /\ WorkersInv /\ SeenInv /\ DialogInv /\ SavesInv

LEMMA InitPartsInv == Init => PartsInv
<1> SUFFICES ASSUME Init PROVE PartsInv
  OBVIOUS
<1>1. CInit /\ FInit /\ AccessInit /\ WInit /\ EInit /\ DInit
  BY DEF Init
<1> QED
  BY <1>1, InitDictInv, InitFeedInv, InitAccessInv, InitSeedInv, InitWorkersInv, InitSeenInv,
     InitDialogInv, InitSavesInv DEF PartsInv

LEMMA NextPartsInv == PartsInv /\ [Next]_vars => PartsInv'
<1> SUFFICES ASSUME PartsInv, [Next]_vars PROVE PartsInv'
  OBVIOUS
<1>1. /\ [CNext]_cvars /\ [FNext]_fvars /\ [AccessNext]_avars
      /\ [WNext]_wvars /\ [ENext]_evars /\ [DNext]_dvars
  BY DEF Next, vars
<1> QED
  BY <1>1, NextDictInv, NextFeedInv, NextAccessInv, NextSeedInv, NextWorkersInv, NextSeenInv,
     NextDialogInv, NextSavesInv DEF PartsInv

(* The types of all the parts, for any constants: among them that no list  *)
(* or answer of the client knows a record newer than the one there is, and *)
(* that no more of a file is stored than was read of it.                   *)
THEOREM PartsTypesCorrect == Spec => []PartsTypeOK
<1>1. PartsInv => PartsTypeOK
  BY CacheTypesFollow, FeedTypesFollow, SeedTypesFollow, WorkersTypesFollow, DialogTypesFollow
     DEF PartsInv, AccessInv, PartsTypeOK
<1> QED
  BY <1>1, InitPartsInv, NextPartsInv, PTL DEF Spec

(* To each part, a behaviour of MCParts is one of its own, so that what is *)
(* proved of the parts holds where the run checks it.                      *)
THEOREM EachPartRunsAsItself ==
    Spec => /\ CSpec /\ FSpec /\ AccessSpec /\ RequestSpec
            /\ WSpec /\ ESpec /\ DSpec
<1>1. Init => /\ CInit /\ FInit /\ AccessInit /\ RequestInit
              /\ WInit /\ EInit /\ DInit
  BY DEF Init
<1>2. [Next]_vars => /\ [CNext]_cvars /\ [FNext]_fvars /\ [AccessNext]_avars /\ [RequestNext]_qvars
                     /\ [WNext]_wvars /\ [ENext]_evars /\ [DNext]_dvars
  BY DEF Next, vars
<1> QED
  BY <1>1, <1>2, PTL DEF Spec, CSpec, FSpec, AccessSpec, RequestSpec, WSpec, ESpec, DSpec
=============================================================================
