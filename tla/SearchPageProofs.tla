--------------------------- MODULE SearchPageProofs ---------------------------
(***************************************************************************)
(* Proofs about the search page of the client (module SearchPage): for any *)
(* number of requests in flight, and whatever order their answers come in, *)
(* what is displayed is what was last asked for.                           *)
(*                                                                         *)
(* The inductive invariant PageInv has a part for each concern.  A user's  *)
(* step reaches the requests in one of few ways (Asking, SendEdit, or not  *)
(* at all; Refreshing, or not at all), so that the parts are proved from   *)
(* those and not action by action.                                         *)
(***************************************************************************)
EXTENDS SearchPage, SequenceTheorems, TLAPS

-----------------------------------------------------------------------------
(* The inductive invariant                                                 *)

Asked == [form: Form, page: Nat \ {0}, perPage: PerPages]

Histories ==
    [asked: Asked \cup {None}, failed: BOOLEAN, masked: BOOLEAN,
     facetsAsked: Form \cup {None}, facetsLost: BOOLEAN, metaFailed: BOOLEAN,
     acked: Nat, alone: BOOLEAN, crossed: BOOLEAN]

PageTypes == PageTypeOK /\ hist \in Histories

(* Ids are handed out once, and the latest is the greatest.                *)
IdsOf(sent, last) ==
    /\ \A r \in sent : r.id <= last
    /\ \A r, s \in sent : r.id = s.id => r = s

(* The latest search in flight is the one history remembers.               *)
SearchInv ==
    /\ IdsOf(searches, lastId.search)
    /\ \A r \in searches : r.id = lastId.search =>
          hist.asked = [form |-> r.form, page |-> r.page, perPage |-> r.perPage]
    /\ loading => ~hist.failed
    /\ ListIsLatest

(* The latest refresh, while it is in flight, is for the filters history   *)
(* remembers and for the text in the box.                                  *)
FacetsInv ==
    /\ \A m \in metas : m.id = lastId.meta /\ m.facets => m.form = hist.facetsAsked
    /\ ~hist.facetsLost /\ (\A m \in metas : ~(m.id = lastId.meta /\ m.facets)) =>
          facetsOf = hist.facetsAsked

SuggestInv ==
    ~hist.metaFailed /\ open /\ ~debounce =>
        /\ \A m \in metas : m.id = lastId.meta => m.form.text = form.text
        /\ ~InFlight(metas, lastId.meta) => suggestOf = form.text

MetaInv == IdsOf(metas, lastId.meta) /\ FacetsInv /\ SuggestInv

(* An update in flight alone is answered with a newer version than any     *)
(* before it; a search with no update beside it lists the newest.          *)
EditInv ==
    /\ hist.acked <= version
    /\ \A r \in searches : r.since <= version
    /\ \A e \in edits : e.served => e.ver \in Nat /\ e.ver <= version
    /\ ~hist.crossed =>
          /\ \A e, f \in edits : e = f
          /\ \A e \in edits : e.served => e.ver >= hist.acked
    /\ hist.alone =>
          /\ edits = {}
          /\ \A r \in searches : r.id = lastId.search => r.since >= hist.acked
    /\ OwnEditStays

PageInv == PageTypes /\ SearchInv /\ RecentFollowsView /\ MetaInv /\ EditInv

-----------------------------------------------------------------------------
(* The recent searches                                                     *)

Unique(s) == \A i, j \in DOMAIN s : s[i] = s[j] => i = j

(* t, then what was there without the place that held t.                   *)
PutFirst(s, t, place, len) ==
    [n \in 1 .. len |-> IF n = 1 THEN t ELSE IF n <= place THEN s[n - 1] ELSE s[n]]

(* place is where t stands in s, or comes after its end.                   *)
PlaceOf(s, t, place, len) ==
    /\ place \in Nat /\ len \in Nat /\ 1 <= len
    /\ \A n \in 1 .. Len(s) : s[n] = t => n = place
    /\ \/ place <= Len(s) /\ len <= Len(s)
       \/ place = Len(s) + 1 /\ len <= Len(s) + 1

HeadedBy(q, t, len, S) == q \in Seq(S) /\ Len(q) = len /\ Unique(q) /\ q[1] = t

LEMMA FirstAndOnce ==
    ASSUME NEW S, NEW s \in Seq(S), Unique(s), NEW t \in S, NEW place, NEW len,
           PlaceOf(s, t, place, len)
    PROVE  HeadedBy(PutFirst(s, t, place, len), t, len, S)
<1> DEFINE kept == PutFirst(s, t, place, len)
           at(n) == IF n <= place THEN n - 1 ELSE n
<1> PICK L \in Nat : L = Len(s)
  BY LenProperties
<1>0. /\ place \in Nat /\ len \in Nat /\ 1 <= len
      /\ \A n \in 1 .. L : s[n] = t => n = place
      /\ (place <= L /\ len <= L) \/ (place = L + 1 /\ len <= L + 1)
  BY DEF PlaceOf
<1>1. DOMAIN s = 1 .. L /\ \A n \in 1 .. L : s[n] \in S
  BY LenProperties, ElementOfSeq
<1>2. \A n \in 1 .. len : n # 1 => at(n) \in 1 .. L /\ kept[n] = s[at(n)] /\ at(n) # place
  BY <1>0 DEF PutFirst
<1>3. kept[1] = t
  BY <1>0 DEF PutFirst
<1>4. \A n \in 1 .. len : kept[n] \in S
  BY <1>0, <1>1, <1>2, <1>3
<1>5. kept \in Seq(S) /\ Len(kept) = len /\ DOMAIN kept = 1 .. len
  <2>1. kept \in [1 .. len -> S]
    BY <1>4 DEF PutFirst
  <2> QED
    BY <2>1, <1>0, SeqDef
<1>6. ASSUME NEW i \in 1 .. len, NEW j \in 1 .. len, i < j, kept[i] = kept[j]
      PROVE  FALSE
  <2>0. i \in Int /\ j \in Int /\ 1 <= i /\ j # 1
    BY <1>0, <1>6
  <2>1. at(j) \in 1 .. L /\ kept[j] = s[at(j)] /\ at(j) # place
    BY <1>2, <2>0, Zenon
  <2>2. CASE i = 1
    BY <1>0, <1>3, <1>6, <2>1, <2>2
  <2>3. CASE i # 1
    <3>1. at(i) \in 1 .. L /\ kept[i] = s[at(i)] /\ at(i) # at(j)
      BY <1>0, <1>2, <1>6, <2>3
    <3> QED
      BY <1>1, <1>6, <2>1, <3>1 DEF Unique
  <2> QED
    BY <2>2, <2>3
<1>7. Unique(kept)
  <2> SUFFICES ASSUME NEW i \in 1 .. len, NEW j \in 1 .. len, kept[i] = kept[j]
               PROVE  i = j
    BY <1>5 DEF Unique
  <2>1. ~(i < j) /\ ~(j < i)
    BY <1>6
  <2> QED
    BY <2>1, <1>0
<1> QED
  BY <1>3, <1>5, <1>7 DEF HeadedBy

(* A text remembered comes first; the list stays short and names it once.  *)
LEMMA Remembered ==
    ASSUME PageTypeOK, Unique(recent), NEW t \in Texts \ {Blank}
    PROVE  /\ Remember(t) \in Seq(Texts \ {Blank})
           /\ Len(Remember(t)) <= MaxRecent
           /\ Unique(Remember(t))
           /\ Remember(t) # << >> /\ Head(Remember(t)) = t
<1> DEFINE places == {n \in DOMAIN recent : recent[n] = t}
<1>1. /\ MaxRecent \in Nat /\ 1 <= MaxRecent
      /\ recent \in Seq(Texts \ {Blank}) /\ Len(recent) \in Nat
      /\ DOMAIN recent = 1 .. Len(recent)
  BY PageConstants, LenProperties DEF PageTypeOK
<1> PICK place \in Nat : place = IF places = {} THEN Len(recent) + 1
                                 ELSE CHOOSE n \in places : TRUE
  BY <1>1
<1> PICK all \in Nat : all = IF places = {} THEN Len(recent) + 1 ELSE Len(recent)
  BY <1>1
<1> PICK len \in Nat : len = IF all > MaxRecent THEN MaxRecent ELSE all
  BY <1>1
<1>2. Remember(t) = PutFirst(recent, t, place, len)
  BY DEF Remember, PutFirst
<1>3. \A n \in 1 .. Len(recent) : recent[n] = t => n = place
  <2> SUFFICES ASSUME NEW n \in 1 .. Len(recent), recent[n] = t
               PROVE  n = place
    OBVIOUS
  <2>1. n \in places
    BY <1>1
  <2>2. place \in places
    BY <2>1
  <2> QED
    BY <2>1, <2>2, <1>1 DEF Unique
<1>4. /\ 1 <= len /\ len <= MaxRecent
      /\ \/ place <= Len(recent) /\ len <= Len(recent)
         \/ place = Len(recent) + 1 /\ len <= Len(recent) + 1
  <2>1. CASE places = {}
    BY <2>1, <1>1
  <2>2. CASE places # {}
    <3>1. place \in places
      BY <2>2
    <3>2. place \in 1 .. Len(recent)
      BY <3>1, <1>1
    <3>3. all = Len(recent) /\ len = IF all > MaxRecent THEN MaxRecent ELSE all
      BY <2>2
    <3> HIDE DEF places
    <3> QED
      BY <3>2, <3>3, <1>1
  <2> QED
    BY <2>1, <2>2
<1>5. /\ Remember(t) \in Seq(Texts \ {Blank}) /\ Len(Remember(t)) = len
      /\ Unique(Remember(t)) /\ Remember(t)[1] = t
  <2> PICK S : S = Texts \ {Blank}
    OBVIOUS
  <2>1. recent \in Seq(S) /\ t \in S
    BY <1>1
  <2>2. PlaceOf(recent, t, place, len)
    BY <1>3, <1>4 DEF PlaceOf
  <2>3. HeadedBy(PutFirst(recent, t, place, len), t, len, S)
    BY <2>1, <2>2, FirstAndOnce
  <2> QED
    BY <2>3, <1>2 DEF HeadedBy
<1>6. Remember(t) # << >> /\ Head(Remember(t)) = t
  BY <1>4, <1>5, HeadTailProperties, EmptySeq
<1> QED
  BY <1>4, <1>5, <1>6

-----------------------------------------------------------------------------
(* What a step does to the requests                                        *)

(* The types of all but the page's own variables.                          *)
NetTypes ==
    /\ loading \in BOOLEAN
    /\ lastId \in [search: Nat, meta: Nat]
    /\ searches \subseteq Sent
    /\ metas \subseteq [id: Nat, form: Form, facets: BOOLEAN]
    /\ edits \subseteq [id: Nat, ver: Nat \cup {None}, served: BOOLEAN]
    /\ error \in {None, "search", "update"}
    /\ view \in [form: Form \cup {None}, page: Nat \ {0}, perPage: PerPages, total: Nat,
                 ver: Nat \cup {None}]
    /\ facetsOf \in Form \cup {None} /\ suggestOf \in Texts \cup {None}
    /\ recent \in Seq(Texts \ {Blank}) /\ Len(recent) <= MaxRecent
    /\ version \in Nat
    /\ hist \in Histories

PageVarTypes == open \in BOOLEAN /\ debounce \in BOOLEAN /\ form \in Form

LEMMA TypesSplit == PageTypes <=> PageVarTypes /\ NetTypes
  BY DEF PageTypes, PageTypeOK, PageVarTypes, NetTypes

(* A search is sent: it becomes the latest, alone or not.                  *)
AskFor(f, p, n) ==
    /\ searches' = searches \cup {[id |-> lastId.search + 1, form |-> f, page |-> p, perPage |-> n,
                                   since |-> version]}
    /\ lastId'.search = lastId.search + 1
    /\ loading' = TRUE /\ error' = None
    /\ UNCHANGED <<edits, view, recent, version>>
    /\ hist'.asked = [form |-> f, page |-> p, perPage |-> n]
    /\ hist'.failed = FALSE /\ hist'.masked = FALSE
    /\ hist'.alone = (edits = {})
    /\ hist'.acked = hist.acked /\ hist'.crossed = hist.crossed

Asking == \E f \in Form, p \in Nat \ {0}, n \in PerPages : AskFor(f, p, n)

(* The searches and the updates are left alone.                            *)
Standing ==
    /\ UNCHANGED <<searches, edits, loading, error, view, recent, version>>
    /\ lastId'.search = lastId.search
    /\ hist'.asked = hist.asked /\ hist'.failed = hist.failed /\ hist'.masked = hist.masked
    /\ hist'.acked = hist.acked /\ hist'.alone = hist.alone /\ hist'.crossed = hist.crossed

(* A refresh is sent: it becomes the latest.                               *)
RefreshFor(f, b) ==
    /\ metas' = metas \cup {[id |-> lastId.meta + 1, form |-> f, facets |-> b]}
    /\ lastId'.meta = lastId.meta + 1
    /\ UNCHANGED <<facetsOf, suggestOf>>
    /\ hist'.metaFailed = FALSE
    /\ hist'.facetsAsked = IF b THEN f ELSE hist.facetsAsked
    /\ hist'.facetsLost = IF b THEN FALSE
                          ELSE hist.facetsLost \/ \E m \in metas : m.id = lastId.meta /\ m.facets

Refreshing == \E f \in Form, b \in BOOLEAN : RefreshFor(f, b) /\ form'.text = f.text

(* The refreshes are left alone.                                           *)
MetaUnchanged ==
    /\ UNCHANGED <<metas, facetsOf, suggestOf>>
    /\ lastId'.meta = lastId.meta
    /\ hist'.facetsAsked = hist.facetsAsked /\ hist'.facetsLost = hist.facetsLost
    /\ hist'.metaFailed = hist.metaFailed

(* The text in the box is left alone, or its timer is started.             *)
TextStands == open' /\ ~debounce' => open /\ ~debounce /\ form'.text = form.text

MetaStanding == MetaUnchanged /\ TextStands

(* g is what h becomes when a search is sent.                              *)
RemembersSearch(g, h, f, p, n) ==
    /\ g \in Histories
    /\ g.asked = [form |-> f, page |-> p, perPage |-> n]
    /\ g.failed = FALSE /\ g.masked = FALSE /\ g.alone = (edits = {})
    /\ g.acked = h.acked /\ g.crossed = h.crossed
    /\ g.facetsAsked = h.facetsAsked /\ g.facetsLost = h.facetsLost
    /\ g.metaFailed = h.metaFailed

LEMMA SearchedHist ==
    ASSUME NEW h \in Histories, NEW f \in Form, NEW p \in Nat \ {0}, NEW n \in PerPages
    PROVE  RemembersSearch(Searched(h, f, p, n), h, f, p, n)
<1> PICK b \in BOOLEAN : b = (edits = {})
  OBVIOUS
<1> PICK as : as = [form |-> f, page |-> p, perPage |-> n]
  OBVIOUS
<1>1. as \in Asked
  BY DEF Asked
<1>2. Searched(h, f, p, n) = [h EXCEPT !.asked = as, !.failed = FALSE, !.masked = FALSE, !.alone = b]
  BY DEF Searched
<1> QED
  BY <1>1, <1>2 DEF Histories, RemembersSearch

LEMMA RefreshedHist ==
    ASSUME NEW h \in Histories, NEW f \in Form, NEW facets \in BOOLEAN
    PROVE  LET g == Refreshed(h, f, facets) IN
           /\ g \in Histories
           /\ g.metaFailed = FALSE
           /\ g.facetsAsked = IF facets THEN f ELSE h.facetsAsked
           /\ g.facetsLost = IF facets THEN FALSE
                             ELSE h.facetsLost \/ \E m \in metas : m.id = lastId.meta /\ m.facets
           /\ g.asked = h.asked /\ g.failed = h.failed /\ g.masked = h.masked
           /\ g.alone = h.alone /\ g.acked = h.acked /\ g.crossed = h.crossed
<1> PICK b \in BOOLEAN : b = IF facets THEN FALSE
                             ELSE h.facetsLost \/ \E m \in metas : m.id = lastId.meta /\ m.facets
  BY DEF Histories
<1> PICK a \in Form \cup {None} : a = IF facets THEN f ELSE h.facetsAsked
  BY DEF Histories
<1>1. Refreshed(h, f, facets) = [h EXCEPT !.metaFailed = FALSE, !.facetsAsked = a, !.facetsLost = b]
  BY DEF Refreshed, Histories
<1> QED
  BY <1>1 DEF Histories

LEMMA SearchTypes ==
    ASSUME NetTypes, NEW f \in Form, NEW p \in Nat \ {0}, NEW n \in PerPages, Search(f, p, n)
    PROVE  /\ searches' \subseteq Sent
           /\ loading' \in BOOLEAN /\ error' \in {None, "search", "update"}
           /\ UNCHANGED <<edits, view, recent, version>>
<1>1. lastId.search \in Nat /\ version \in Nat
  BY DEF NetTypes
<1>2. [id |-> lastId.search + 1, form |-> f, page |-> p, perPage |-> n,
       since |-> version] \in Sent
  BY <1>1 DEF Sent
<1>3. searches \subseteq Sent
  BY DEF NetTypes
<1> QED
  BY <1>2, <1>3 DEF Search

LEMMA RunSearchAsks ==
    ASSUME NetTypes, NEW f \in Form, NEW p \in Nat \ {0}, NEW n \in PerPages,
           RunSearch(f, p, n)
    PROVE  Asking /\ MetaUnchanged /\ NetTypes'
<1>1. hist \in Histories /\ lastId \in [search: Nat, meta: Nat]
  BY DEF NetTypes
<1>2. /\ hist' = Searched(hist, f, p, n) /\ lastId' = [lastId EXCEPT !.search = @ + 1]
      /\ UNCHANGED <<metas, facetsOf, suggestOf>> /\ Search(f, p, n)
  BY DEF RunSearch
<1>3. /\ lastId' \in [search: Nat, meta: Nat]
      /\ lastId'.search = lastId.search + 1 /\ lastId'.meta = lastId.meta
  BY <1>1, <1>2
<1> DEFINE g == Searched(hist, f, p, n)
<1>4. RemembersSearch(g, hist, f, p, n)
  BY <1>1, SearchedHist
<1> HIDE DEF g
<1>5. hist' = g
  BY <1>2 DEF g
<1>6. AskFor(f, p, n)
  BY <1>2, <1>3, <1>4, <1>5 DEF AskFor, Search, RemembersSearch
<1>7. Asking
  BY <1>6 DEF Asking
<1>8. MetaUnchanged
  BY <1>2, <1>3, <1>4, <1>5 DEF MetaUnchanged, RemembersSearch
<1>9. NetTypes'
  BY <1>2, <1>3, <1>4, <1>5, SearchTypes DEF NetTypes, RemembersSearch
<1> QED
  BY <1>7, <1>8, <1>9

LEMMA RefreshTypes ==
    ASSUME NetTypes, NEW f \in Form, NEW b \in BOOLEAN, Refresh(f, b)
    PROVE  metas' \subseteq [id: Nat, form: Form, facets: BOOLEAN]
<1>1. lastId.meta \in Nat /\ metas \subseteq [id: Nat, form: Form, facets: BOOLEAN]
  BY DEF NetTypes
<1>2. [id |-> lastId.meta + 1, form |-> f, facets |-> b] \in [id: Nat, form: Form, facets: BOOLEAN]
  BY <1>1
<1> QED
  BY <1>1, <1>2 DEF Refresh

LEMMA RefreshAndSearchAsks ==
    ASSUME NetTypes, NEW f \in Form, RefreshAndSearch(f)
    PROVE  Asking /\ RefreshFor(f, TRUE) /\ NetTypes'
<1>1. hist \in Histories /\ lastId \in [search: Nat, meta: Nat] /\ view.perPage \in PerPages
  BY DEF NetTypes
<1> PICK n \in PerPages : n = view.perPage
  BY <1>1
<1> DEFINE r == Refreshed(hist, f, TRUE)
           g == Searched(r, f, 1, n)
<1>2. /\ hist' = g /\ lastId' = [search |-> lastId.search + 1, meta |-> lastId.meta + 1]
      /\ Refresh(f, TRUE) /\ Search(f, 1, n)
  BY DEF RefreshAndSearch
<1>3. /\ lastId' \in [search: Nat, meta: Nat]
      /\ lastId'.search = lastId.search + 1 /\ lastId'.meta = lastId.meta + 1
  BY <1>1, <1>2
<1>4. /\ r \in Histories
      /\ r.metaFailed = FALSE /\ r.facetsAsked = f /\ r.facetsLost = FALSE
      /\ r.acked = hist.acked /\ r.crossed = hist.crossed
  BY <1>1, RefreshedHist
<1> HIDE DEF r
<1>5. RemembersSearch(g, r, f, 1, n)
  <2>1. 1 \in Nat \ {0}
    OBVIOUS
  <2> QED
    BY <1>4, <2>1, SearchedHist
<1> HIDE DEF g
<1>6. AskFor(f, 1, n)
  BY <1>2, <1>3, <1>4, <1>5 DEF AskFor, Search, RemembersSearch
<1>7. Asking
  <2>1. 1 \in Nat \ {0}
    OBVIOUS
  <2> QED
    BY <1>6, <2>1 DEF Asking
<1>8. RefreshFor(f, TRUE)
  BY <1>2, <1>3, <1>4, <1>5 DEF RefreshFor, Refresh, RemembersSearch
<1>9. NetTypes'
  <2>1. 1 \in Nat \ {0}
    OBVIOUS
  <2>2. UNCHANGED <<facetsOf, suggestOf>>
    BY <1>2 DEF Refresh
  <2>3. /\ searches' \subseteq Sent
        /\ loading' \in BOOLEAN /\ error' \in {None, "search", "update"}
        /\ UNCHANGED <<edits, view, recent, version>>
    BY <1>2, <2>1, SearchTypes
  <2>4. metas' \subseteq [id: Nat, form: Form, facets: BOOLEAN]
    BY <1>2, RefreshTypes
  <2> QED
    BY <1>2, <1>3, <1>4, <1>5, <2>2, <2>3, <2>4 DEF NetTypes, RemembersSearch
<1> QED
  BY <1>7, <1>8, <1>9

-----------------------------------------------------------------------------
(* What the user's steps are                                               *)

(* What a user's step comes to.                                            *)
UserEffect ==
    PageTypes' /\ (Asking \/ SendEdit \/ Standing) /\ (Refreshing \/ MetaStanding)

(* A step that sends both requests, for the form as it then stands.        *)
LEMMA RefreshAndSearchEffect ==
    ASSUME NetTypes, RefreshAndSearch(form'), PageVarTypes'
    PROVE  UserEffect
<1> PICK f \in Form : f = form'
  BY DEF PageVarTypes
<1>1. RefreshAndSearch(f)
  OBVIOUS
<1>2. Asking /\ RefreshFor(f, TRUE) /\ NetTypes'
  BY <1>1, RefreshAndSearchAsks
<1>3. Refreshing
  BY <1>2 DEF Refreshing
<1>4. PageTypes'
  BY <1>2, TypesSplit, PTL
<1> QED
  BY <1>2, <1>3, <1>4 DEF UserEffect

(* A step that sends a search and leaves the form as it is.                *)
LEMMA RunSearchEffect ==
    ASSUME PageTypes, NEW f \in Form, NEW p \in Nat \ {0}, NEW n \in PerPages,
           RunSearch(f, p, n), UNCHANGED page
    PROVE  UserEffect
<1>1. NetTypes /\ PageVarTypes
  BY TypesSplit
<1>2. Asking /\ MetaUnchanged /\ NetTypes'
  BY <1>1, RunSearchAsks
<1>3. PageVarTypes' /\ TextStands
  BY <1>1 DEF PageVarTypes, TextStands, page
<1>4. PageTypes'
  BY <1>2, <1>3, TypesSplit, PTL
<1> QED
  BY <1>2, <1>3, <1>4 DEF UserEffect, MetaStanding

(* A step that touches the form only.                                      *)
LEMMA QuietEffect ==
    ASSUME NetTypes, PageVarTypes', TextStands,
           UNCHANGED <<lastId, net, loading, error, view, facetsOf, suggestOf, recent, version, hist>>
    PROVE  UserEffect
<1>1. NetTypes'
  BY DEF NetTypes, net
<1>2. PageTypes'
  BY <1>1, TypesSplit, PTL
<1>3. Standing /\ MetaStanding
  BY DEF Standing, MetaStanding, MetaUnchanged, net
<1> QED
  BY <1>2, <1>3 DEF UserEffect

LEMMA BlankFormTyped == BlankForm \in Form
  BY PageConstants DEF BlankForm, Form

LEMMA SendEditTypes == ASSUME PageTypes, SendEdit PROVE UserEffect
<1>1. NetTypes /\ PageVarTypes
  BY TypesSplit
<1>2. PICK i \in 0 .. MaxEdits - 1 :
         edits' = edits \cup {[id |-> i, ver |-> None, served |-> FALSE]}
  BY DEF SendEdit
<1>3. [id |-> i, ver |-> None, served |-> FALSE]
         \in [id: Nat, ver: Nat \cup {None}, served: BOOLEAN]
  <2>1. i \in Nat
    BY <1>2
  <2> QED
    BY <2>1
<1>4. edits' \subseteq [id: Nat, ver: Nat \cup {None}, served: BOOLEAN]
  BY <1>1, <1>2, <1>3 DEF NetTypes
<1>5. /\ hist' \in Histories
      /\ hist'.facetsAsked = hist.facetsAsked /\ hist'.facetsLost = hist.facetsLost
      /\ hist'.metaFailed = hist.metaFailed
  <2> PICK m \in BOOLEAN : m = (hist.masked \/ hist.failed)
    OBVIOUS
  <2> PICK c \in BOOLEAN : c = (hist.crossed \/ edits # {})
    OBVIOUS
  <2>1. hist' = [hist EXCEPT !.masked = m, !.alone = FALSE, !.crossed = c]
    BY <1>1 DEF SendEdit, NetTypes, Histories
  <2> QED
    BY <1>1, <2>1 DEF NetTypes, Histories
<1>6. /\ UNCHANGED <<page, lastId, searches, metas, loading, view, facetsOf, suggestOf, recent,
                     version>>
      /\ error' = None
  BY DEF SendEdit
<1>7. NetTypes'
  BY <1>1, <1>4, <1>5, <1>6 DEF NetTypes
<1>8. PageVarTypes' /\ TextStands
  BY <1>1, <1>6 DEF PageVarTypes, TextStands, page
<1>9. PageTypes'
  BY <1>7, <1>8, TypesSplit, PTL
<1>10. MetaUnchanged
  BY <1>5, <1>6 DEF MetaUnchanged
<1> QED
  BY <1>8, <1>9, <1>10 DEF UserEffect, MetaStanding

LEMMA UserSteps == PageTypes /\ UserStep => UserEffect
<1> SUFFICES ASSUME PageTypes, UserStep
             PROVE  UserEffect
  OBVIOUS
<1>1. NetTypes /\ PageVarTypes /\ BlankForm \in Form
  BY TypesSplit, BlankFormTyped
<1>2. /\ open \in BOOLEAN /\ debounce \in BOOLEAN /\ form \in Form
      /\ view.page \in Nat \ {0} /\ view.perPage \in PerPages
      /\ 1 \in Nat \ {0}
  BY <1>1 DEF NetTypes, PageVarTypes
<1>3. CASE OpenPage
  <2>1. PageVarTypes' /\ RefreshAndSearch(form')
    BY <1>1, <1>2, <1>3 DEF OpenPage, PageVarTypes
  <2> QED
    BY <1>1, <2>1, RefreshAndSearchEffect
<1>4. CASE ClosePage
  <2>1. PageVarTypes' /\ TextStands
    BY <1>2, <1>4 DEF ClosePage, PageVarTypes, TextStands
  <2> QED
    BY <1>1, <1>4, <2>1, QuietEffect DEF ClosePage
<1>5. CASE DebounceFires
  <2> PICK f \in Form : f = form
    BY <1>2
  <2>1. /\ debounce' = FALSE /\ Refresh(f, FALSE)
        /\ lastId' = [lastId EXCEPT !.meta = @ + 1] /\ hist' = Refreshed(hist, f, FALSE)
        /\ UNCHANGED <<open, form, searches, edits, loading, error, view, recent, version>>
    BY <1>5 DEF DebounceFires
  <2>2. hist \in Histories /\ lastId \in [search: Nat, meta: Nat]
    BY <1>1 DEF NetTypes
  <2>3. /\ lastId' \in [search: Nat, meta: Nat]
        /\ lastId'.search = lastId.search /\ lastId'.meta = lastId.meta + 1
    BY <2>1, <2>2
  <2> DEFINE r == Refreshed(hist, f, FALSE)
  <2>4. /\ r \in Histories /\ r.metaFailed = FALSE /\ r.facetsAsked = hist.facetsAsked
        /\ r.asked = hist.asked /\ r.failed = hist.failed /\ r.masked = hist.masked
        /\ r.alone = hist.alone /\ r.acked = hist.acked /\ r.crossed = hist.crossed
    BY <2>2, RefreshedHist
  <2>5. r.facetsLost = (hist.facetsLost \/ \E m \in metas : m.id = lastId.meta /\ m.facets)
    <3>1. r.facetsLost = IF FALSE THEN FALSE
                         ELSE hist.facetsLost \/ \E m \in metas : m.id = lastId.meta /\ m.facets
      BY <2>2, RefreshedHist
    <3> QED
      BY <3>1
  <2> HIDE DEF r
  <2>6. hist' = r
    BY <2>1 DEF r
  <2>7. metas' \subseteq [id: Nat, form: Form, facets: BOOLEAN]
    BY <1>1, <2>1, RefreshTypes
  <2>8. UNCHANGED <<facetsOf, suggestOf>>
    BY <2>1 DEF Refresh
  <2>9. NetTypes'
    BY <1>1, <2>1, <2>3, <2>4, <2>6, <2>7, <2>8 DEF NetTypes
  <2>10. PageTypes'
    <3>1. PageVarTypes'
      BY <1>2, <2>1 DEF PageVarTypes
    <3> QED
      BY <2>9, <3>1, TypesSplit, PTL
  <2>11. Standing
    BY <2>1, <2>3, <2>4, <2>6 DEF Standing
  <2>12. RefreshFor(f, FALSE)
    BY <2>1, <2>3, <2>4, <2>5, <2>6, <2>8 DEF RefreshFor, Refresh
  <2>13. Refreshing
    BY <2>1, <2>12 DEF Refreshing
  <2> QED
    BY <2>10, <2>11, <2>13 DEF UserEffect
<1>6. CASE ClearAllFilters
  <2>1. PageVarTypes' /\ RefreshAndSearch(form')
    BY <1>1, <1>2, <1>6 DEF ClearAllFilters, PageVarTypes
  <2> QED
    BY <1>1, <2>1, RefreshAndSearchEffect
<1>7. CASE Apply
  BY <1>2, <1>7, RunSearchEffect DEF Apply
<1>8. CASE NextPage
  <2>1. view.page + 1 \in Nat \ {0}
    BY <1>2
  <2> QED
    BY <1>2, <1>8, <2>1, RunSearchEffect DEF NextPage
<1>9. CASE PrevPage
  <2>1. view.page - 1 \in Nat \ {0}
    BY <1>2, <1>9 DEF PrevPage
  <2> QED
    BY <1>2, <1>9, <2>1, RunSearchEffect DEF PrevPage
<1>10. CASE UploadDone
  BY <1>1, <1>2, <1>10, RunSearchEffect DEF UploadDone
<1>11. CASE SendEdit
  BY <1>11, SendEditTypes
<1>12. ASSUME NEW t \in Texts, Type(t)
       PROVE  UserEffect
  <2>1. PageVarTypes' /\ TextStands
    BY <1>2, <1>12 DEF Type, PageVarTypes, TextStands, Form
  <2> QED
    BY <1>1, <1>12, <2>1, QuietEffect DEF Type
<1>13. ASSUME NEW t \in Texts, Submit(t)
       PROVE  UserEffect
  <2>1. PageVarTypes'
    BY <1>2, <1>13 DEF Submit, PageVarTypes, Form
  <2> QED
    BY <1>1, <1>13, <2>1, RefreshAndSearchEffect DEF Submit
<1>14. ASSUME NEW f \in Facets, Toggle(f)
       PROVE  UserEffect
  <2> PICK p \in SUBSET Facets : p = IF f \in form.picked THEN form.picked \ {f} ELSE form.picked \cup {f}
    BY <1>2 DEF Form
  <2>1. form' = [form EXCEPT !.picked = p]
    BY <1>14 DEF Toggle
  <2>2. PageVarTypes'
    BY <1>2, <1>14, <2>1 DEF Toggle, PageVarTypes, Form
  <2> QED
    BY <1>1, <1>14, <2>2, RefreshAndSearchEffect DEF Toggle
<1>15. ASSUME NEW d \in Ranges, PickDates(d)
       PROVE  UserEffect
  <2>1. PageVarTypes' /\ TextStands
    BY <1>2, <1>15 DEF PickDates, PageVarTypes, TextStands, Form
  <2> QED
    BY <1>1, <1>15, <2>1, QuietEffect DEF PickDates, net
<1>16. ASSUME NEW n \in PerPages, SetPerPage(n)
       PROVE  UserEffect
  BY <1>2, <1>16, RunSearchEffect DEF SetPerPage
<1> QED
  BY <1>3, <1>4, <1>5, <1>6, <1>7, <1>8, <1>9, <1>10, <1>11, <1>12, <1>13, <1>14, <1>15, <1>16
     DEF UserStep

-----------------------------------------------------------------------------
(* What the answers are                                                    *)

LEMMA ListedTyped ==
    ASSUME NetTypes, NEW r \in searches, NEW v \in Listed(r)
    PROVE  v \in Nat \cup {None}
<1>1. r.since \in Nat /\ version \in Nat
  BY DEF NetTypes, Sent
<1> QED
  BY <1>1 DEF Listed

LEMMA SearchAnsweredTypes ==
    ASSUME PageTypes, RecentFollowsView, NEW r \in searches, SearchAnswered(r)
    PROVE  PageTypes' /\ MetaStanding
<1>1. NetTypes /\ PageVarTypes
  BY TypesSplit
<1>2. /\ UNCHANGED <<page, lastId, metas, edits, error, facetsOf, suggestOf, version>>
      /\ searches' = searches \ {r}
  BY DEF SearchAnswered
<1>3. hist \in Histories /\ r \in Sent
  BY <1>1 DEF NetTypes
<1>4. /\ hist' \in Histories
      /\ hist'.facetsAsked = hist.facetsAsked /\ hist'.facetsLost = hist.facetsLost
      /\ hist'.metaFailed = hist.metaFailed
  <2>1. CASE IsLatest(r)
    <3> PICK c \in BOOLEAN : c = ~hist.alone
      OBVIOUS
    <3>1. hist' = [hist EXCEPT !.crossed = c]
      BY <2>1, <1>3 DEF SearchAnswered, Histories
    <3> QED
      BY <3>1, <1>3 DEF Histories
  <2>2. CASE ~IsLatest(r)
    BY <2>2, <1>3 DEF SearchAnswered
  <2> QED
    BY <2>1, <2>2
<1>5. /\ view' \in [form: Form \cup {None}, page: Nat \ {0}, perPage: PerPages, total: Nat,
                    ver: Nat \cup {None}]
      /\ loading' \in BOOLEAN
      /\ recent' \in Seq(Texts \ {Blank}) /\ Len(recent') <= MaxRecent
  <2>1. CASE IsLatest(r)
    <3>1. PICK v \in Listed(r) :
             view' = [form |-> r.form, page |-> r.page, perPage |-> r.perPage,
                      total |-> Found[r.form], ver |-> v]
      BY <2>1 DEF SearchAnswered
    <3>2. v \in Nat \cup {None}
      BY <1>1, ListedTyped
    <3>3. Found[r.form] \in Nat /\ r.form.text \in Texts
      BY <1>3, PageConstants DEF Sent, Form
    <3>4. recent' \in Seq(Texts \ {Blank}) /\ Len(recent') <= MaxRecent
      <4>1. CASE r.form.text = Blank
        BY <4>1, <2>1, <1>1 DEF SearchAnswered, NetTypes
      <4>2. CASE r.form.text # Blank
        <5>1. r.form.text \in Texts \ {Blank} /\ Unique(recent) /\ PageTypeOK
          BY <4>2, <3>3 DEF RecentFollowsView, Unique, PageTypes
        <5>2. recent' = Remember(r.form.text)
          BY <4>2, <2>1 DEF SearchAnswered
        <5> QED
          BY <5>1, <5>2, Remembered
      <4> QED
        BY <4>1, <4>2
    <3>5. loading' = FALSE
      BY <2>1 DEF SearchAnswered
    <3> QED
      BY <3>1, <3>2, <3>3, <3>4, <3>5, <1>3 DEF Sent
  <2>2. CASE ~IsLatest(r)
    BY <2>2, <1>1 DEF SearchAnswered, NetTypes
  <2> QED
    BY <2>1, <2>2
<1>6. NetTypes'
  BY <1>1, <1>2, <1>4, <1>5 DEF NetTypes
<1>7. PageVarTypes' /\ TextStands
  BY <1>1, <1>2 DEF PageVarTypes, TextStands, page
<1>8. PageTypes'
  BY <1>6, <1>7, TypesSplit, PTL
<1>9. MetaUnchanged
  BY <1>2, <1>4 DEF MetaUnchanged
<1> QED
  BY <1>7, <1>8, <1>9 DEF MetaStanding

LEMMA SearchFailedTypes ==
    ASSUME PageTypes, NEW r \in searches, SearchFailed(r)
    PROVE  PageTypes' /\ MetaStanding
<1>1. NetTypes /\ PageVarTypes
  BY TypesSplit
<1>2. /\ UNCHANGED <<page, lastId, metas, edits, view, facetsOf, suggestOf, recent, version>>
      /\ searches' = searches \ {r}
  BY DEF SearchFailed
<1>3. /\ hist' \in Histories
      /\ hist'.facetsAsked = hist.facetsAsked /\ hist'.facetsLost = hist.facetsLost
      /\ hist'.metaFailed = hist.metaFailed
      /\ error' \in {None, "search", "update"} /\ loading' \in BOOLEAN
  BY <1>1 DEF SearchFailed, NetTypes, Histories
<1>4. NetTypes'
  BY <1>1, <1>2, <1>3 DEF NetTypes
<1>5. PageVarTypes' /\ TextStands
  BY <1>1, <1>2 DEF PageVarTypes, TextStands, page
<1>6. PageTypes'
  BY <1>4, <1>5, TypesSplit, PTL
<1>7. MetaUnchanged
  BY <1>2, <1>3 DEF MetaUnchanged
<1> QED
  BY <1>5, <1>6, <1>7 DEF MetaStanding

LEMMA MetaEndsTypes ==
    ASSUME PageTypes, NEW m \in metas, MetaAnswered(m) \/ MetaFailed(m)
    PROVE  PageTypes' /\ Standing
<1>1. NetTypes /\ PageVarTypes
  BY TypesSplit
<1>2. /\ UNCHANGED <<page, lastId, searches, edits, loading, error, view, recent, version>>
      /\ metas' = metas \ {m}
  BY DEF MetaAnswered, MetaFailed
<1>3. m.form \in Form /\ m.form.text \in Texts /\ hist \in Histories
  BY <1>1 DEF NetTypes, Form
<1>4. facetsOf' \in Form \cup {None} /\ suggestOf' \in Texts \cup {None}
  BY <1>1, <1>3 DEF MetaAnswered, MetaFailed, NetTypes
<1>5. /\ hist' \in Histories
      /\ hist'.asked = hist.asked /\ hist'.failed = hist.failed /\ hist'.masked = hist.masked
      /\ hist'.acked = hist.acked /\ hist'.alone = hist.alone /\ hist'.crossed = hist.crossed
  <2>1. CASE MetaAnswered(m)
    BY <2>1, <1>3 DEF MetaAnswered
  <2>2. CASE MetaFailed(m)
    <3> PICK b \in BOOLEAN : b = (hist.metaFailed \/ m.id = lastId.meta)
      OBVIOUS
    <3> PICK c \in BOOLEAN : c = (hist.facetsLost \/ (m.id = lastId.meta /\ m.facets))
      OBVIOUS
    <3>1. hist' = [hist EXCEPT !.metaFailed = b, !.facetsLost = c]
      BY <2>2, <1>3 DEF MetaFailed, Histories
    <3> QED
      BY <3>1, <1>3 DEF Histories
  <2> QED
    BY <2>1, <2>2
<1>6. NetTypes'
  BY <1>1, <1>2, <1>4, <1>5 DEF NetTypes
<1>7. PageVarTypes'
  BY <1>1, <1>2 DEF PageVarTypes, page
<1>8. PageTypes'
  BY <1>6, <1>7, TypesSplit, PTL
<1> QED
  BY <1>2, <1>5, <1>8 DEF Standing

EditStep(e) == ServeEdit(e) \/ EditAnswered(e) \/ EditFailed(e)

LEMMA EditTypes ==
    ASSUME PageTypes, EditInv, NEW e \in edits, EditStep(e)
    PROVE  PageTypes' /\ MetaStanding
<1>1. NetTypes /\ PageVarTypes
  BY TypesSplit
<1>2. UNCHANGED <<page, lastId, searches, metas, loading, facetsOf, suggestOf, recent>>
  BY DEF EditStep, ServeEdit, EditAnswered, EditFailed
<1>3. /\ hist \in Histories /\ version \in Nat
      /\ e \in [id: Nat, ver: Nat \cup {None}, served: BOOLEAN]
      /\ e.served => e.ver \in Nat
  BY <1>1 DEF NetTypes, EditInv
<1>4. /\ edits' \subseteq [id: Nat, ver: Nat \cup {None}, served: BOOLEAN]
      /\ version' \in Nat
  <2>1. CASE ServeEdit(e)
    <3> PICK w \in Nat : w = version + 1
      BY <1>3
    <3> DEFINE served == [e EXCEPT !.served = TRUE, !.ver = w]
    <3>1. served \in [id: Nat, ver: Nat \cup {None}, served: BOOLEAN]
      BY <1>3
    <3>2. edits' = (edits \ {e}) \cup {served} /\ version' = w
      BY <2>1 DEF ServeEdit
    <3> HIDE DEF served
    <3> QED
      BY <3>1, <3>2, <1>1 DEF NetTypes
  <2>2. CASE ~ServeEdit(e)
    BY <2>2, <1>1 DEF EditStep, EditAnswered, EditFailed, NetTypes
  <2> QED
    BY <2>1, <2>2
<1>5. /\ hist' \in Histories
      /\ hist'.facetsAsked = hist.facetsAsked /\ hist'.facetsLost = hist.facetsLost
      /\ hist'.metaFailed = hist.metaFailed
  <2>1. CASE EditAnswered(e)
    <3> PICK a \in Nat : a = IF hist.acked < e.ver THEN e.ver ELSE hist.acked
      BY <2>1, <1>3 DEF EditAnswered, Histories
    <3>1. hist' = [hist EXCEPT !.acked = a]
      BY <2>1, <1>3 DEF EditAnswered, Histories
    <3> QED
      BY <3>1, <1>3 DEF Histories
  <2>2. CASE ~EditAnswered(e)
    BY <2>2, <1>3 DEF EditStep, ServeEdit, EditFailed
  <2> QED
    BY <2>1, <2>2
<1>6. /\ view' \in [form: Form \cup {None}, page: Nat \ {0}, perPage: PerPages, total: Nat,
                    ver: Nat \cup {None}]
      /\ error' \in {None, "search", "update"}
  BY <1>1, <1>3 DEF EditStep, ServeEdit, EditAnswered, EditFailed, NetTypes
<1>7. NetTypes'
  BY <1>1, <1>2, <1>4, <1>5, <1>6 DEF NetTypes
<1>8. PageVarTypes' /\ TextStands
  BY <1>1, <1>2 DEF PageVarTypes, TextStands, page
<1>9. PageTypes'
  BY <1>7, <1>8, TypesSplit, PTL
<1>10. MetaUnchanged
  BY <1>2, <1>5 DEF MetaUnchanged
<1> QED
  BY <1>8, <1>9, <1>10 DEF MetaStanding

(* The ways a step can touch the searches and the updates, and the ways it *)
(* can touch the refreshes.                                                *)
OnSearches ==
    \/ Asking \/ SendEdit \/ Standing
    \/ \E r \in searches : SearchAnswered(r) \/ SearchFailed(r)
    \/ \E e \in edits : EditStep(e)

OnMetas ==
    \/ Refreshing \/ MetaStanding
    \/ (\E m \in metas : MetaAnswered(m) \/ MetaFailed(m)) /\ UNCHANGED page

LEMMA EveryStep ==
    ASSUME PageInv, [PageNext]_pagevars
    PROVE  PageTypes' /\ OnSearches /\ OnMetas
<1>1. PageTypes /\ RecentFollowsView /\ EditInv
  BY DEF PageInv
<1>2. CASE UserStep
  BY <1>1, <1>2, UserSteps DEF UserEffect, OnSearches, OnMetas
<1>3. CASE SearchEnds
  <2>1. PICK r \in searches : SearchAnswered(r) \/ SearchFailed(r)
    BY <1>3 DEF SearchEnds
  <2>2. PageTypes' /\ MetaStanding
    BY <1>1, <2>1, SearchAnsweredTypes, SearchFailedTypes
  <2> QED
    BY <2>1, <2>2 DEF OnSearches, OnMetas
<1>4. ASSUME NEW m \in metas, MetaAnswered(m) \/ MetaFailed(m)
      PROVE  PageTypes' /\ OnSearches /\ OnMetas
  <2>1. PageTypes' /\ Standing
    BY <1>1, <1>4, MetaEndsTypes
  <2>2. UNCHANGED page
    BY <1>4 DEF MetaAnswered, MetaFailed
  <2> QED
    BY <1>4, <2>1, <2>2 DEF OnSearches, OnMetas
<1>5. ASSUME NEW e \in edits, EditStep(e)
      PROVE  PageTypes' /\ OnSearches /\ OnMetas
  <2>1. PageTypes' /\ MetaStanding
    BY <1>1, <1>5, EditTypes
  <2> QED
    BY <1>5, <2>1 DEF OnSearches, OnMetas
<1>6. CASE UNCHANGED pagevars
  <2>1. NetTypes /\ PageVarTypes
    BY <1>1, TypesSplit
  <2>2. /\ UNCHANGED <<lastId, net, loading, error, view, facetsOf, suggestOf, recent, version, hist>>
        /\ UNCHANGED <<open, form, debounce>>
    BY <1>6 DEF pagevars, page
  <2>3. PageVarTypes' /\ TextStands
    BY <2>1, <2>2 DEF PageVarTypes, TextStands
  <2> QED
    BY <2>1, <2>2, <2>3, QuietEffect DEF UserEffect, OnSearches, OnMetas
<1> QED
  BY <1>2, <1>3, <1>4, <1>5, <1>6 DEF PageNext, EditStep

-----------------------------------------------------------------------------
(* Every step keeps every part                                             *)

LEMMA KeepsSearches ==
    ASSUME PageInv, OnSearches, PageTypes'
    PROVE  SearchInv'
<1>1. /\ SearchInv /\ NetTypes /\ NetTypes'
      /\ \A r \in searches : r \in Sent
      /\ lastId.search \in Nat
  <2>1. NetTypes'
    BY TypesSplit, PTL
  <2>2. SearchInv /\ NetTypes
    BY TypesSplit DEF PageInv
  <2> QED
    BY <2>1, <2>2 DEF NetTypes
<1>2. CASE Asking
  <2>1. PICK f \in Form, p \in Nat \ {0}, n \in PerPages : AskFor(f, p, n)
    BY <1>2 DEF Asking
  <2> DEFINE new == [id |-> lastId.search + 1, form |-> f, page |-> p, perPage |-> n,
                     since |-> version]
  <2>2. searches' = searches \cup {new} /\ lastId'.search = lastId.search + 1
    BY <2>1 DEF AskFor
  <2>3. \A r \in searches : r.id \in Nat /\ r.id <= lastId.search
    BY <1>1 DEF SearchInv, IdsOf, Sent
  <2>4. IdsOf(searches, lastId.search)'
    BY <1>1, <2>2, <2>3 DEF SearchInv, IdsOf
  <2>5. \A r \in searches' : r.id = lastId'.search => r = new
    BY <1>1, <2>2, <2>3
  <2>6. hist'.asked = [form |-> new.form, page |-> new.page, perPage |-> new.perPage]
    BY <2>1 DEF AskFor
  <2>7. InFlight(searches, lastId.search)'
    <3>1. new \in searches' /\ new.id = lastId'.search
      BY <2>2
    <3> HIDE DEF new
    <3> QED
      BY <3>1 DEF InFlight
  <2>8. loading' = TRUE /\ hist'.failed = FALSE
    BY <2>1 DEF AskFor
  <2> HIDE DEF new
  <2> QED
    BY <2>4, <2>5, <2>6, <2>7, <2>8 DEF SearchInv, ListIsLatest
<1>3. CASE SendEdit
  <2>1. /\ UNCHANGED <<lastId, searches, loading, view>>
        /\ hist'.asked = hist.asked /\ hist'.failed = hist.failed
        /\ hist'.masked = (hist.masked \/ hist.failed)
    BY <1>1, <1>3 DEF SendEdit, NetTypes, Histories
  <2> QED
    BY <1>1, <2>1 DEF SearchInv, ListIsLatest, InFlight, IdsOf
<1>4. CASE Standing
  BY <1>1, <1>4 DEF Standing, SearchInv, ListIsLatest, InFlight, IdsOf
<1>5. ASSUME NEW r \in searches, SearchAnswered(r)
      PROVE  SearchInv'
  <2>1. searches' = searches \ {r} /\ UNCHANGED <<lastId, error>>
    BY <1>5 DEF SearchAnswered
  <2>2. CASE IsLatest(r)
    <3>1. \A s \in searches' : s.id # lastId'.search
      BY <1>1, <2>1, <2>2 DEF IsLatest, SearchInv, IdsOf
    <3>2. /\ loading' = FALSE
          /\ hist'.asked = hist.asked /\ hist'.failed = hist.failed
          /\ view'.form = r.form /\ view'.page = r.page /\ view'.perPage = r.perPage
      BY <1>1, <1>5, <2>2 DEF SearchAnswered, NetTypes, Histories
    <3>3. hist.asked = [form |-> r.form, page |-> r.page, perPage |-> r.perPage] /\ ~hist.failed
      BY <1>1, <2>2 DEF SearchInv, ListIsLatest, InFlight, IsLatest
    <3>4. IdsOf(searches, lastId.search)'
      BY <1>1, <2>1 DEF SearchInv, IdsOf
    <3>5. ~InFlight(searches, lastId.search)'
      BY <3>1 DEF InFlight
    <3> QED
      BY <3>1, <3>2, <3>3, <3>4, <3>5 DEF SearchInv, ListIsLatest
  <2>3. CASE ~IsLatest(r)
    <3>1. UNCHANGED <<view, loading, hist>>
      BY <1>5, <2>3 DEF SearchAnswered
    <3>2. InFlight(searches, lastId.search)' <=> InFlight(searches, lastId.search)
      BY <2>1, <2>3 DEF InFlight, IsLatest
    <3> QED
      BY <1>1, <2>1, <3>1, <3>2 DEF SearchInv, ListIsLatest, IdsOf
  <2> QED
    BY <2>2, <2>3
<1>6. ASSUME NEW r \in searches, SearchFailed(r)
      PROVE  SearchInv'
  <2>1. searches' = searches \ {r} /\ UNCHANGED <<lastId, view>>
    BY <1>6 DEF SearchFailed
  <2>2. CASE IsLatest(r)
    <3>1. \A s \in searches' : s.id # lastId'.search
      BY <1>1, <2>1, <2>2 DEF IsLatest, SearchInv, IdsOf
    <3>2. /\ loading' = FALSE /\ error' = "search"
          /\ hist'.asked = hist.asked /\ hist'.failed = TRUE
      BY <1>1, <1>6, <2>2 DEF SearchFailed, NetTypes, Histories
    <3>3. error' # None
      BY <3>2, PageConstants
    <3>4. IdsOf(searches, lastId.search)'
      BY <1>1, <2>1 DEF SearchInv, IdsOf
    <3>5. ~InFlight(searches, lastId.search)'
      BY <3>1 DEF InFlight
    <3> QED
      BY <3>1, <3>2, <3>3, <3>4, <3>5 DEF SearchInv, ListIsLatest
  <2>3. CASE ~IsLatest(r)
    <3>1. UNCHANGED <<error, loading, hist>>
      BY <1>6, <2>3 DEF SearchFailed
    <3>2. InFlight(searches, lastId.search)' <=> InFlight(searches, lastId.search)
      BY <2>1, <2>3 DEF InFlight, IsLatest
    <3> QED
      BY <1>1, <2>1, <3>1, <3>2 DEF SearchInv, ListIsLatest, IdsOf
  <2> QED
    BY <2>2, <2>3
<1>7. ASSUME NEW e \in edits, EditStep(e)
      PROVE  SearchInv'
  <2>1. /\ UNCHANGED <<lastId, searches, loading>>
        /\ hist'.asked = hist.asked /\ hist'.failed = hist.failed /\ hist'.masked = hist.masked
        /\ view'.form = view.form /\ view'.page = view.page /\ view'.perPage = view.perPage
        /\ error' = error \/ error' = "update"
    BY <1>1, <1>7 DEF EditStep, ServeEdit, EditAnswered, EditFailed, NetTypes, Histories
  <2>2. error' = error \/ error' # None
    BY <2>1, PageConstants
  <2>3. InFlight(searches, lastId.search)' <=> InFlight(searches, lastId.search)
    BY <2>1 DEF InFlight
  <2> QED
    BY <1>1, <2>1, <2>2, <2>3 DEF SearchInv, ListIsLatest, IdsOf
<1> QED
  BY <1>2, <1>3, <1>4, <1>5, <1>6, <1>7 DEF OnSearches

LEMMA KeepsRecent ==
    ASSUME PageInv, OnSearches
    PROVE  RecentFollowsView'
<1>1. RecentFollowsView /\ NetTypes /\ PageTypeOK
  BY TypesSplit DEF PageInv, PageTypes
<1>2. CASE UNCHANGED recent /\ view'.form = view.form
  BY <1>1, <1>2 DEF RecentFollowsView
<1>3. CASE Asking \/ SendEdit \/ Standing
  BY <1>2, <1>3 DEF Asking, AskFor, SendEdit, Standing
<1>4. ASSUME NEW r \in searches, SearchAnswered(r)
      PROVE  RecentFollowsView'
  <2>1. CASE IsLatest(r) /\ r.form.text # Blank
    <3>1. r.form.text \in Texts \ {Blank} /\ Unique(recent)
      BY <1>1, <2>1 DEF NetTypes, Sent, Form, RecentFollowsView, Unique
    <3>2. /\ Unique(Remember(r.form.text))
          /\ Remember(r.form.text) # << >> /\ Head(Remember(r.form.text)) = r.form.text
      BY <1>1, <3>1, Remembered
    <3>3. recent' = Remember(r.form.text) /\ view'.form = r.form
      BY <1>4, <2>1 DEF SearchAnswered
    <3> QED
      BY <3>2, <3>3 DEF RecentFollowsView, Unique
  <2>2. CASE IsLatest(r) /\ r.form.text = Blank
    <3>1. recent' = recent /\ view'.form = r.form
      BY <1>4, <2>2 DEF SearchAnswered
    <3> QED
      BY <1>1, <2>2, <3>1 DEF RecentFollowsView
  <2>3. CASE ~IsLatest(r)
    BY <1>2, <1>4, <2>3 DEF SearchAnswered
  <2> QED
    BY <2>1, <2>2, <2>3
<1>5. ASSUME NEW r \in searches, SearchFailed(r)
      PROVE  RecentFollowsView'
  BY <1>2, <1>5 DEF SearchFailed
<1>6. ASSUME NEW e \in edits, EditStep(e)
      PROVE  RecentFollowsView'
  <2>1. recent' = recent /\ view'.form = view.form
    BY <1>1, <1>6 DEF EditStep, ServeEdit, EditAnswered, EditFailed, NetTypes
  <2> QED
    BY <1>2, <2>1
<1> QED
  BY <1>3, <1>4, <1>5, <1>6 DEF OnSearches

LEMMA KeepsMetas ==
    ASSUME PageInv, OnMetas
    PROVE  MetaInv'
<1>1. /\ NetTypes /\ lastId.meta \in Nat
      /\ \A m \in metas : m.id \in Nat /\ m.id <= lastId.meta
      /\ \A m, o \in metas : m.id = o.id => m = o
      /\ FacetsInv /\ SuggestInv
  BY TypesSplit DEF PageInv, MetaInv, IdsOf, NetTypes
<1>2. CASE Refreshing
  <2>1. PICK f \in Form, b \in BOOLEAN : RefreshFor(f, b) /\ form'.text = f.text
    BY <1>2 DEF Refreshing
  <2> DEFINE new == [id |-> lastId.meta + 1, form |-> f, facets |-> b]
  <2>2. /\ metas' = metas \cup {new} /\ lastId'.meta = lastId.meta + 1
        /\ UNCHANGED <<facetsOf, suggestOf>>
        /\ hist'.facetsAsked = IF b THEN f ELSE hist.facetsAsked
        /\ hist'.facetsLost = IF b THEN FALSE
                              ELSE hist.facetsLost \/ \E m \in metas : m.id = lastId.meta /\ m.facets
    BY <2>1 DEF RefreshFor
  <2>3. IdsOf(metas, lastId.meta)'
    BY <1>1, <2>2 DEF IdsOf
  <2>4. new \in metas' /\ \A m \in metas' : m.id = lastId'.meta <=> m = new
    BY <1>1, <2>2
  <2>5. FacetsInv'
    <3>1. CASE b
      <4>1. new \in metas' /\ new.id = lastId'.meta /\ new.facets /\ new.form = hist'.facetsAsked
        BY <2>2, <2>4, <3>1
      <4> HIDE DEF new
      <4> QED
        BY <2>4, <4>1 DEF FacetsInv
    <3>2. CASE ~b
      <4>1. hist'.facetsAsked = hist.facetsAsked
        BY <2>2, <3>2
      <4>2. \A m \in metas' : ~(m.id = lastId'.meta /\ m.facets)
        BY <2>4, <3>2
      <4>3. ~hist'.facetsLost => ~hist.facetsLost /\ \A m \in metas : ~(m.id = lastId.meta /\ m.facets)
        BY <2>2, <3>2
      <4> QED
        BY <1>1, <2>2, <4>1, <4>2, <4>3 DEF FacetsInv
    <3> QED
      BY <3>1, <3>2
  <2>6. SuggestInv'
    <3>1. InFlight(metas, lastId.meta)'
      BY <2>4 DEF InFlight
    <3>2. \A m \in metas' : m.id = lastId'.meta => m.form.text = form'.text
      BY <2>1, <2>4
    <3> QED
      BY <3>1, <3>2 DEF SuggestInv
  <2> QED
    BY <2>3, <2>5, <2>6 DEF MetaInv
<1>3. CASE MetaStanding
  <2>1. /\ UNCHANGED <<metas, facetsOf, suggestOf>> /\ lastId'.meta = lastId.meta
        /\ hist'.facetsAsked = hist.facetsAsked /\ hist'.facetsLost = hist.facetsLost
        /\ hist'.metaFailed = hist.metaFailed
        /\ open' /\ ~debounce' => open /\ ~debounce /\ form'.text = form.text
    BY <1>3 DEF MetaStanding, MetaUnchanged, TextStands
  <2>2. IdsOf(metas, lastId.meta)'
    BY <1>1, <2>1 DEF IdsOf
  <2>3. FacetsInv'
    BY <1>1, <2>1 DEF FacetsInv
  <2>4. SuggestInv'
    BY <1>1, <2>1 DEF SuggestInv, InFlight
  <2> QED
    BY <2>2, <2>3, <2>4 DEF MetaInv
<1>4. ASSUME NEW m \in metas, MetaAnswered(m) \/ MetaFailed(m), UNCHANGED page
      PROVE  MetaInv'
  <2>1. /\ metas' = metas \ {m} /\ UNCHANGED lastId /\ UNCHANGED <<open, form, debounce>>
        /\ hist'.facetsAsked = hist.facetsAsked
    BY <1>1, <1>4 DEF MetaAnswered, MetaFailed, page, NetTypes, Histories
  <2>2. IdsOf(metas, lastId.meta)'
    BY <1>1, <2>1 DEF IdsOf
  <2>3. CASE m.id # lastId.meta
    <3>1. UNCHANGED <<facetsOf, suggestOf>>
      BY <1>4, <2>3 DEF MetaAnswered, MetaFailed
    <3>2. hist'.facetsLost = hist.facetsLost /\ hist'.metaFailed = hist.metaFailed
      <4>1. CASE MetaAnswered(m)
        BY <4>1 DEF MetaAnswered
      <4>2. CASE MetaFailed(m)
        BY <4>2, <2>3, <1>1 DEF MetaFailed, NetTypes, Histories
      <4> QED
        BY <1>4, <4>1, <4>2
    <3>3. InFlight(metas, lastId.meta)' <=> InFlight(metas, lastId.meta)
      BY <2>1, <2>3 DEF InFlight
    <3>4. FacetsInv'
      BY <1>1, <2>1, <2>3, <3>1, <3>2 DEF FacetsInv
    <3>5. SuggestInv'
      BY <1>1, <2>1, <3>1, <3>2, <3>3 DEF SuggestInv
    <3> QED
      BY <2>2, <3>4, <3>5 DEF MetaInv
  <2>4. CASE m.id = lastId.meta /\ MetaAnswered(m)
    <3>1. \A o \in metas' : o.id # lastId'.meta
      BY <1>1, <2>1, <2>4
    <3>2. /\ suggestOf' = m.form.text /\ hist' = hist
          /\ facetsOf' = IF m.facets THEN m.form ELSE facetsOf
      BY <2>4 DEF MetaAnswered
    <3>3. FacetsInv'
      <4>1. CASE m.facets
        BY <1>1, <2>4, <3>1, <3>2, <4>1 DEF FacetsInv
      <4>2. CASE ~m.facets
        <5>1. \A o \in metas : ~(o.id = lastId.meta /\ o.facets)
          BY <1>1, <2>4, <4>2
        <5> QED
          BY <1>1, <3>1, <3>2, <4>2, <5>1 DEF FacetsInv
      <4> QED
        BY <4>1, <4>2
    <3>4. SuggestInv'
      BY <1>1, <2>1, <2>4, <3>1, <3>2 DEF SuggestInv
    <3> QED
      BY <2>2, <3>3, <3>4 DEF MetaInv
  <2>5. CASE m.id = lastId.meta /\ MetaFailed(m)
    <3>1. \A o \in metas' : o.id # lastId'.meta
      BY <1>1, <2>1, <2>5
    <3>2. /\ UNCHANGED <<facetsOf, suggestOf>> /\ hist'.metaFailed
          /\ hist'.facetsLost <=> hist.facetsLost \/ m.facets
      <4> PICK c \in BOOLEAN : c = (hist.facetsLost \/ m.facets)
        OBVIOUS
      <4> PICK b \in BOOLEAN : b = (hist.metaFailed \/ m.id = lastId.meta)
        OBVIOUS
      <4>1. hist' = [hist EXCEPT !.metaFailed = b, !.facetsLost = c]
        BY <1>1, <2>5 DEF MetaFailed, NetTypes, Histories
      <4> QED
        BY <1>1, <2>5, <4>1 DEF MetaFailed, NetTypes, Histories
    <3>3. FacetsInv'
      <4>1. CASE m.facets
        BY <3>1, <3>2, <4>1 DEF FacetsInv
      <4>2. CASE ~m.facets
        <5>1. \A o \in metas : ~(o.id = lastId.meta /\ o.facets)
          BY <1>1, <2>5, <4>2
        <5> QED
          BY <1>1, <2>1, <3>1, <3>2, <4>2, <5>1 DEF FacetsInv
      <4> QED
        BY <4>1, <4>2
    <3>4. SuggestInv'
      BY <3>2 DEF SuggestInv
    <3> QED
      BY <2>2, <3>3, <3>4 DEF MetaInv
  <2> QED
    BY <1>4, <2>3, <2>4, <2>5
<1> QED
  BY <1>2, <1>3, <1>4 DEF OnMetas

LEMMA KeepsEdits ==
    ASSUME PageInv, OnSearches
    PROVE  EditInv'
<1>1. /\ NetTypes /\ hist \in Histories
      /\ version \in Nat /\ hist.acked \in Nat
      /\ \A r \in searches : r \in Sent /\ r.since \in Nat /\ r.id \in Nat
      /\ \A r \in searches : r.id <= lastId.search
      /\ lastId.search \in Nat
      /\ view.ver \in Nat \cup {None}
  BY TypesSplit DEF PageInv, SearchInv, IdsOf, NetTypes, Sent, Histories
<1>2. /\ hist.acked <= version
      /\ \A r \in searches : r.since <= version
      /\ \A e \in edits : e.served => e.ver \in Nat /\ e.ver <= version
      /\ ~hist.crossed =>
            /\ \A e, f \in edits : e = f
            /\ \A e \in edits : e.served => e.ver >= hist.acked
      /\ hist.alone =>
            /\ edits = {}
            /\ \A r \in searches : r.id = lastId.search => r.since >= hist.acked
      /\ view.ver # None /\ ~hist.crossed => view.ver >= hist.acked
  BY DEF PageInv, EditInv, OwnEditStays
<1>3. CASE Asking
  <2>1. PICK f \in Form, p \in Nat \ {0}, n \in PerPages : AskFor(f, p, n)
    BY <1>3 DEF Asking
  <2> DEFINE new == [id |-> lastId.search + 1, form |-> f, page |-> p, perPage |-> n,
                     since |-> version]
  <2>2. /\ searches' = searches \cup {new} /\ lastId'.search = lastId.search + 1
        /\ UNCHANGED <<edits, view, version>>
        /\ hist'.alone = (edits = {})
        /\ hist'.acked = hist.acked /\ hist'.crossed = hist.crossed
    BY <2>1 DEF AskFor
  <2>3. \A r \in searches' : r.id = lastId'.search => r = new
    BY <1>1, <2>2
  <2>4. new.since = version
    OBVIOUS
  <2> HIDE DEF new
  <2>5. \A r \in searches' : r.since <= version
    BY <1>1, <1>2, <2>2, <2>4
  <2>6. \A r \in searches' : r.id = lastId'.search => r.since >= hist'.acked
    BY <1>1, <1>2, <2>2, <2>3, <2>4
  <2> QED
    BY <1>2, <2>2, <2>5, <2>6 DEF EditInv, OwnEditStays
<1>4. CASE SendEdit
  <2>0. PICK i \in 0 .. MaxEdits - 1 :
           edits' = edits \cup {[id |-> i, ver |-> None, served |-> FALSE]}
    BY <1>4 DEF SendEdit
  <2> PICK new : new = [id |-> i, ver |-> None, served |-> FALSE]
    OBVIOUS
  <2>1. edits' = edits \cup {new} /\ new.served = FALSE
    BY <2>0
  <2>2. /\ UNCHANGED <<lastId, searches, view, version>>
        /\ hist'.acked = hist.acked /\ hist'.alone = FALSE
        /\ ~hist'.crossed => ~hist.crossed /\ edits = {}
    <3> PICK m \in BOOLEAN : m = (hist.masked \/ hist.failed)
      OBVIOUS
    <3> PICK c \in BOOLEAN : c = (hist.crossed \/ edits # {})
      OBVIOUS
    <3>1. hist' = [hist EXCEPT !.masked = m, !.alone = FALSE, !.crossed = c]
      BY <1>1, <1>4 DEF SendEdit, Histories
    <3>2. hist'.acked = hist.acked /\ hist'.alone = FALSE /\ hist'.crossed = c
      BY <1>1, <3>1 DEF Histories
    <3>3. ~c => ~hist.crossed /\ edits = {}
      OBVIOUS
    <3> QED
      BY <1>4, <3>2, <3>3 DEF SendEdit
  <2>3. ~hist'.crossed => \A e, f \in edits' : e = f
    BY <2>1, <2>2
  <2> QED
    BY <1>2, <2>1, <2>2, <2>3 DEF EditInv, OwnEditStays
<1>5. CASE Standing
  BY <1>2, <1>5 DEF Standing, EditInv, OwnEditStays
<1>6. ASSUME NEW r \in searches, SearchAnswered(r)
      PROVE  EditInv'
  <2>1. searches' = searches \ {r} /\ UNCHANGED <<lastId, edits, version>>
    BY <1>6 DEF SearchAnswered
  <2>2. CASE IsLatest(r)
    <3>1. PICK v \in Listed(r) : view'.ver = v
      BY <1>6, <2>2 DEF SearchAnswered
    <3>2. v # None => v \in Nat /\ v >= r.since
      BY <1>1 DEF Listed
    <3>3. hist'.acked = hist.acked /\ hist'.alone = hist.alone /\ hist'.crossed = ~hist.alone
      <4> PICK c \in BOOLEAN : c = ~hist.alone
        OBVIOUS
      <4>1. hist' = [hist EXCEPT !.crossed = c]
        BY <1>6, <2>2 DEF SearchAnswered
      <4> QED
        BY <1>1, <4>1 DEF Histories
    <3>4. ~hist'.crossed => edits = {} /\ r.since >= hist.acked
      BY <1>2, <2>2, <3>3 DEF IsLatest
    <3>5. OwnEditStays'
      BY <1>1, <3>1, <3>2, <3>3, <3>4 DEF OwnEditStays
    <3> QED
      BY <1>2, <2>1, <3>3, <3>4, <3>5 DEF EditInv
  <2>3. CASE ~IsLatest(r)
    <3>1. UNCHANGED <<view, hist>>
      BY <1>6, <2>3 DEF SearchAnswered
    <3> QED
      BY <1>2, <2>1, <3>1 DEF EditInv, OwnEditStays
  <2> QED
    BY <2>2, <2>3
<1>7. ASSUME NEW r \in searches, SearchFailed(r)
      PROVE  EditInv'
  <2>1. /\ searches' = searches \ {r} /\ UNCHANGED <<lastId, edits, view, version>>
        /\ hist'.acked = hist.acked /\ hist'.alone = hist.alone /\ hist'.crossed = hist.crossed
    BY <1>1, <1>7 DEF SearchFailed, Histories
  <2> QED
    BY <1>2, <2>1 DEF EditInv, OwnEditStays
<1>8. ASSUME NEW e \in edits, ServeEdit(e)
      PROVE  EditInv'
  <2> DEFINE served == [e EXCEPT !.served = TRUE, !.ver = version + 1]
  <2>1. /\ edits' = (edits \ {e}) \cup {served} /\ version' = version + 1
        /\ UNCHANGED <<lastId, searches, view, hist>>
    BY <1>8 DEF ServeEdit
  <2>2. served.ver = version + 1
    BY <1>1 DEF NetTypes
  <2> HIDE DEF served
  <2>3. ~hist.crossed => \A f \in edits' : f = served
    BY <1>2, <2>1
  <2>4. \A f \in edits' : f.served => f.ver \in Nat /\ f.ver <= version'
    BY <1>1, <1>2, <2>1, <2>2
  <2>5. \A r \in searches' : r.since <= version'
    BY <1>1, <1>2, <2>1
  <2>6. hist'.acked <= version' /\ served.ver >= hist'.acked
    BY <1>1, <1>2, <2>1, <2>2
  <2>7. ~hist'.alone
    BY <1>2, <2>1
  <2> QED
    BY <1>2, <2>1, <2>3, <2>4, <2>5, <2>6, <2>7 DEF EditInv, OwnEditStays
<1>9. ASSUME NEW e \in edits, EditAnswered(e)
      PROVE  EditInv'
  <2>1. edits' = edits \ {e} /\ UNCHANGED <<lastId, searches, version>> /\ e.served
    BY <1>9 DEF EditAnswered
  <2> PICK w \in Nat : w = e.ver
    BY <1>2, <2>1
  <2> PICK a \in Nat : a = IF hist.acked < w THEN w ELSE hist.acked
    BY <1>1
  <2>2. hist'.acked = a /\ hist'.alone = hist.alone /\ hist'.crossed = hist.crossed
    BY <1>1, <1>9 DEF EditAnswered, Histories
  <2>3. a <= version /\ (~hist.crossed => a = w)
    BY <1>1, <1>2, <2>1
  <2>4. ~hist.alone
    BY <1>2
  <2>5. ~hist.crossed => edits' = {}
    BY <1>2, <2>1
  <2>6. view'.ver # None => view'.ver = w
    BY <1>1, <1>9 DEF EditAnswered, NetTypes
  <2>7. OwnEditStays'
    BY <2>2, <2>3, <2>6 DEF OwnEditStays
  <2> QED
    BY <1>2, <2>1, <2>2, <2>3, <2>4, <2>5, <2>7 DEF EditInv
<1>10. ASSUME NEW e \in edits, EditFailed(e)
      PROVE  EditInv'
  <2>1. edits' = edits \ {e} /\ UNCHANGED <<lastId, searches, view, version, hist>>
    BY <1>10 DEF EditFailed
  <2> QED
    BY <1>2, <2>1 DEF EditInv, OwnEditStays
<1> QED
  BY <1>3, <1>4, <1>5, <1>6, <1>7, <1>8, <1>9, <1>10 DEF OnSearches, EditStep

-----------------------------------------------------------------------------
(* The theorems                                                            *)

LEMMA PageInvInit == PageInit => PageInv
<1> SUFFICES ASSUME PageInit PROVE PageInv
  OBVIOUS
<1>1. /\ open = FALSE /\ debounce = FALSE /\ loading = FALSE /\ form = BlankForm
      /\ lastId = [search |-> 0, meta |-> 0]
      /\ searches = {} /\ metas = {} /\ edits = {} /\ error = None
      /\ view = NoView /\ facetsOf = None /\ suggestOf = None
      /\ recent = << >> /\ version = 0 /\ hist = HistInit
  BY DEF PageInit
<1>2. PageVarTypes
  BY <1>1, BlankFormTyped DEF PageVarTypes
<1>3. NetTypes
  <2>1. recent \in Seq(Texts \ {Blank}) /\ Len(recent) <= MaxRecent
    BY <1>1, PageConstants
  <2>2. hist \in Histories
    BY <1>1 DEF HistInit, Histories
  <2>3. view \in [form: Form \cup {None}, page: Nat \ {0}, perPage: PerPages, total: Nat,
                  ver: Nat \cup {None}]
    BY <1>1, PageConstants DEF NoView
  <2> QED
    BY <1>1, <2>1, <2>2, <2>3 DEF NetTypes
<1>4. PageTypes
  BY <1>2, <1>3, TypesSplit
<1>5. SearchInv
  BY <1>1 DEF SearchInv, IdsOf, ListIsLatest, InFlight, HistInit
<1>6. RecentFollowsView
  BY <1>1 DEF RecentFollowsView, NoView
<1>7. MetaInv
  BY <1>1 DEF MetaInv, IdsOf, FacetsInv, SuggestInv, HistInit
<1>8. EditInv
  BY <1>1 DEF EditInv, OwnEditStays, HistInit, NoView
<1> QED
  BY <1>4, <1>5, <1>6, <1>7, <1>8 DEF PageInv

LEMMA PageInvKept == PageInv /\ [PageNext]_pagevars => PageInv'
<1> SUFFICES ASSUME PageInv, [PageNext]_pagevars PROVE PageInv'
  OBVIOUS
<1>1. PageTypes' /\ OnSearches /\ OnMetas
  BY EveryStep
<1>2. SearchInv'
  BY <1>1, KeepsSearches
<1>3. RecentFollowsView' /\ EditInv'
  BY <1>1, KeepsRecent, KeepsEdits
<1>4. MetaInv'
  BY <1>1, KeepsMetas
<1> QED
  BY <1>1, <1>2, <1>3, <1>4 DEF PageInv

LEMMA PageInvHolds == PageSpec => []PageInv
  BY PageInvInit, PageInvKept, PTL DEF PageSpec

(* The page's state is well-typed: in particular no search is ever sent    *)
(* for a page below the first, and the list of recent searches stays short.*)
THEOREM PageTypesCorrect == PageSpec => []PageTypeOK
<1>1. PageInv => PageTypeOK
  BY DEF PageInv, PageTypes
<1> QED
  BY <1>1, PageInvHolds, PTL

(* However many searches overlap and in whatever order they end, the list, *)
(* the page number, the spinner, the banner and the recent searches are    *)
(* those of the latest (PricingState.search, _searchRequestId).            *)
THEOREM TheLatestSearchIsShown == PageSpec => []LatestSearchWins
<1>1. PageInv => LatestSearchWins
  BY DEF PageInv, SearchInv, LatestSearchWins
<1> QED
  BY <1>1, PageInvHolds, PTL

(* The filters on offer are those of the latest refresh that was to bring  *)
(* them, unless it failed or was superseded in flight by one for           *)
(* suggestions, and the suggestions those of the latest refresh of all     *)
(* (PricingState.refreshMeta, _metaRequestId).                             *)
THEOREM TheLatestMetaIsShown == PageSpec => []MetaFollowsForm
<1>1. PageInv => MetaFollowsForm
  BY DEF PageInv, MetaInv, FacetsInv, SuggestInv, MetaFollowsForm
<1> QED
  BY <1>1, PageInvHolds, PTL

(* A confirmed update does not go off the screen again, provided it shared *)
(* its flight neither with the search displayed nor with another update    *)
(* (PricingState.updateRecord beside PricingState.search).                 *)
THEOREM ConfirmedEditsAreShown == PageSpec => []OwnEditStays
<1>1. PageInv => OwnEditStays
  BY DEF PageInv, EditInv
<1> QED
  BY <1>1, PageInvHolds, PTL
=============================================================================
