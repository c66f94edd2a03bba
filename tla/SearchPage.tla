----------------------------- MODULE SearchPage -----------------------------
(***************************************************************************)
(* The Flutter client's search page: PricingState (state/                  *)
(* pricing_state.dart), which owns the requests and what is displayed, and *)
(* the page (ui/search_page.dart), which owns the form.  PricingState      *)
(* outlives the page: a change of tab or a logout disposes the page, and   *)
(* the next one starts from an empty form, while answers still arrive.     *)
(*                                                                         *)
(* Code runs to its next await; answers arrive in any order or never.  A   *)
(* search and a meta refresh carry a request id and are dropped when a     *)
(* later one of their kind was sent; an update of a record carries none.   *)
(*                                                                         *)
(* The server is external: the one record the page edits has a version,    *)
(* listed on the first page of any non-empty result, and a search answers  *)
(* with a version it had between being sent and being answered.            *)
(*                                                                         *)
(* Not covered: sorting and layout, several records, the roles (see        *)
(* state/auth_state.dart), and texts that differ only in case or spaces.   *)
(***************************************************************************)
EXTENDS Naturals, Sequences, FiniteSets

CONSTANTS
    Texts,        \* what may be typed; Blank is the empty text
    Blank,
    Facets,       \* store ids and SKUs offered as filters
    Ranges,       \* date ranges; AnyDate is no restriction
    AnyDate,
    Found,        \* form -> number of records the server finds for it
    PerPages,     \* the page sizes on offer
    FirstPerPage, \* the one to start with (25)
    MaxRecent,    \* recent searches kept (8)
    MaxSearches,  \* bound on searches sent, for model checking only
    MaxMetas,     \* bound on meta refreshes sent, likewise
    MaxEdits,     \* bound on edits sent, likewise
    None

Form == [text: Texts, picked: SUBSET Facets, dates: Ranges]

ASSUME PageConstants ==
    /\ Blank \in Texts /\ AnyDate \in Ranges
    /\ Found \in [Form -> Nat]
    /\ PerPages \subseteq Nat \ {0} /\ FirstPerPage \in PerPages
    /\ MaxRecent \in Nat \ {0}
    /\ {MaxSearches, MaxMetas, MaxEdits} \subseteq Nat
    /\ None \notin Form \cup Nat \cup Texts \cup {"search", "update"}

VARIABLES
    open,       \* the page exists
    form,       \* text, selected facets and dates as they stand in the page
    debounce,   \* the 320 ms timer of the search box is running
    lastId,     \* _searchRequestId and _metaRequestId
    searches,   \* searches in flight
    metas,      \* meta refreshes in flight
    edits,      \* updates in flight
    loading,    \* _loading
    error,      \* _error
    view,       \* _items, _page, _perPage, _total, and whose answer they are
    facetsOf,   \* the form whose facets are on offer
    suggestOf,  \* the text whose suggestions are on offer
    recent,     \* _recentSearches
    version,    \* the server's version of the record
    hist        \* history: see HistInit

net  == <<searches, metas, edits>>
page == <<open, form, debounce>>
pagevars == <<page, lastId, net, loading, error, view, facetsOf, suggestOf, recent, version, hist>>

BlankForm == [text |-> Blank, picked |-> {}, dates |-> AnyDate]

(* Nothing displayed yet.                                                  *)
NoView == [form |-> None, page |-> 1, perPage |-> FirstPerPage, total |-> 0,
           ver |-> None]

(* asked: the latest search; failed: it failed; masked: an update has since *)
(* cleared its error; facetsAsked, facetsLost: the latest refresh that was  *)
(* to bring facets, and whether it failed or was superseded in flight by    *)
(* one that was not; metaFailed: the latest refresh failed; acked: newest   *)
(* version an update was answered with; alone: no update has been in flight *)
(* with the latest search; crossed: one had been with the search displayed, *)
(* or two updates have been in flight together since.                       *)
HistInit == [asked |-> None, failed |-> FALSE, masked |-> FALSE,
             facetsAsked |-> None, facetsLost |-> FALSE, metaFailed |-> FALSE,
             acked |-> 0, alone |-> TRUE, crossed |-> FALSE]

PageInit ==
    /\ open = FALSE
    /\ form = BlankForm
    /\ debounce = FALSE
    /\ lastId = [search |-> 0, meta |-> 0]
    /\ searches = {} /\ metas = {} /\ edits = {}
    /\ loading = FALSE
    /\ error = None
    /\ view = NoView
    /\ facetsOf = None /\ suggestOf = None
    /\ recent = << >>
    /\ version = 0
    /\ hist = HistInit

-----------------------------------------------------------------------------
(* Sending                                                                 *)

(* The request with this id has not ended.                                 *)
InFlight(sent, id) == \E r \in sent : r.id = id

(* The effect of PricingState.search on everything but its history: a new  *)
(* id, which silences every earlier search, and the spinner.               *)
Search(f, p, n) ==
    /\ lastId.search < MaxSearches
    /\ searches' = searches \cup {[id |-> lastId.search + 1, form |-> f, page |-> p, perPage |-> n,
                                   since |-> version]}
    /\ loading' = TRUE
    /\ error' = None
    /\ UNCHANGED <<edits, view, recent, version>>

Searched(h, f, p, n) ==
    [h EXCEPT !.asked = [form |-> f, page |-> p, perPage |-> n], !.failed = FALSE,
              !.masked = FALSE, !.alone = edits = {}]

(* PricingState.refreshMeta; with facets = FALSE only suggestions will be  *)
(* taken from the answer.                                                  *)
Refresh(f, facets) ==
    /\ lastId.meta < MaxMetas
    /\ metas' = metas \cup {[id |-> lastId.meta + 1, form |-> f, facets |-> facets]}
    /\ UNCHANGED <<facetsOf, suggestOf>>

Refreshed(h, f, facets) ==
    [h EXCEPT !.metaFailed = FALSE,
              !.facetsAsked = IF facets THEN f ELSE @,
              !.facetsLost  = IF facets THEN FALSE
                              ELSE @ \/ \E m \in metas : m.id = lastId.meta /\ m.facets]

(* _runSearch alone.                                                       *)
RunSearch(f, p, n) ==
    /\ Search(f, p, n)
    /\ lastId' = [lastId EXCEPT !.search = @ + 1]
    /\ hist' = Searched(hist, f, p, n)
    /\ UNCHANGED <<metas, facetsOf, suggestOf>>

(* _refreshMeta and _runSearch(page: 1), one after the other.              *)
RefreshAndSearch(f) ==
    /\ Refresh(f, TRUE)
    /\ Search(f, 1, view.perPage)
    /\ lastId' = [search |-> lastId.search + 1, meta |-> lastId.meta + 1]
    /\ hist' = Searched(Refreshed(hist, f, TRUE), f, 1, view.perPage)

-----------------------------------------------------------------------------
(* The page                                                                *)

(* initState of a new page, and what dispose leaves behind.                *)
OpenPage ==
    /\ ~open
    /\ open' = TRUE /\ form' = BlankForm
    /\ RefreshAndSearch(BlankForm)
    /\ UNCHANGED debounce

ClosePage ==
    /\ open
    /\ open' = FALSE /\ debounce' = FALSE
    /\ UNCHANGED <<form, lastId, net, loading, error, view, facetsOf, suggestOf, recent,
                   version, hist>>

(* Typing restarts the timer; the field is disabled while loading.         *)
Type(t) ==
    /\ open /\ ~loading
    /\ form' = [form EXCEPT !.text = t] /\ debounce' = TRUE
    /\ UNCHANGED <<open, lastId, net, loading, error, view, facetsOf, suggestOf, recent,
                   version, hist>>

DebounceFires ==
    /\ debounce
    /\ debounce' = FALSE
    /\ Refresh(form, FALSE)
    /\ lastId' = [lastId EXCEPT !.meta = @ + 1]
    /\ hist' = Refreshed(hist, form, FALSE)
    /\ UNCHANGED <<open, form, searches, edits, loading, error, view, recent, version>>

(* Enter, or a suggestion chosen from the list.                            *)
Submit(t) ==
    /\ open
    /\ form' = [form EXCEPT !.text = t]
    /\ RefreshAndSearch(form')
    /\ UNCHANGED <<open, debounce>>

Toggle(f) ==
    /\ open /\ ~loading /\ facetsOf # None
    /\ form' = [form EXCEPT !.picked = IF f \in @ THEN @ \ {f} ELSE @ \cup {f}]
    /\ RefreshAndSearch(form')
    /\ UNCHANGED <<open, debounce>>

(* Dates wait for "Apply & Search".                                        *)
PickDates(d) ==
    /\ open /\ ~loading
    /\ form' = [form EXCEPT !.dates = d]
    /\ UNCHANGED <<open, debounce, lastId, net, loading, error, view, facetsOf, suggestOf,
                   recent, version, hist>>

ClearAllFilters ==
    /\ open /\ ~loading
    /\ form' = BlankForm
    /\ RefreshAndSearch(BlankForm)
    /\ UNCHANGED <<open, debounce>>

Shows(v) == v.total > (v.page - 1) * v.perPage

(* "Apply & Search", disabled while loading, or the button of an empty     *)
(* list, which is not.                                                     *)
Apply ==
    /\ open
    /\ ~loading \/ ~Shows(view)
    /\ RunSearch(form, 1, view.perPage)
    /\ UNCHANGED page

Pages(total, n) == (total + n - 1) \div n

CanGoNext(v) == v.total > 0 /\ v.page < Pages(v.total, v.perPage)

(* The pager searches with the form as it stands now, which need not be    *)
(* the one whose result it turns the page of.                              *)
NextPage ==
    /\ open /\ ~loading /\ CanGoNext(view)
    /\ RunSearch(form, view.page + 1, view.perPage)
    /\ UNCHANGED page

(* Mutant of PrevPage: the button of the first page is not disabled.       *)
PrevPageUnguarded ==
    /\ open /\ ~loading
    /\ RunSearch(form, view.page - 1, view.perPage)
    /\ UNCHANGED page

PrevPage ==
    /\ open /\ ~loading /\ view.page > 1
    /\ RunSearch(form, view.page - 1, view.perPage)
    /\ UNCHANGED page

SetPerPage(n) ==
    /\ open /\ ~loading
    /\ RunSearch(form, 1, n)
    /\ UNCHANGED page

(* The upload page refreshes the results when its upload is done.          *)
UploadDone ==
    /\ ~open
    /\ RunSearch(BlankForm, 1, view.perPage)
    /\ UNCHANGED page

-----------------------------------------------------------------------------
(* The server, and its answers                                             *)

(* What the record may look like in the answer to r, served at some moment *)
(* since it was sent: its version of that moment, if it is listed.         *)
Listed(r) == IF r.page = 1 /\ Found[r.form] > 0 THEN r.since .. version ELSE {None}

(* _rememberRecentSearch: most recent first, each once, MaxRecent at most. *)
Remember(t) ==
    LET places == {n \in DOMAIN recent : recent[n] = t}
        place  == IF places = {} THEN Len(recent) + 1 ELSE CHOOSE n \in places : TRUE
        len    == IF places = {} THEN Len(recent) + 1 ELSE Len(recent)
    IN  [n \in 1 .. (IF len > MaxRecent THEN MaxRecent ELSE len) |->
            IF n = 1 THEN t ELSE IF n <= place THEN recent[n - 1] ELSE recent[n]]

(* Mutant of IsLatest: an answer to any search is taken.                   *)
AnyIsLatest(r) == TRUE

IsLatest(r) == r.id = lastId.search

(* An answer to anything but the latest search is dropped.                 *)
SearchAnswered(r) ==
    /\ searches' = searches \ {r}
    /\ IF IsLatest(r)
       THEN /\ \E v \in Listed(r) :
                  view' = [form |-> r.form, page |-> r.page, perPage |-> r.perPage,
                           total |-> Found[r.form], ver |-> v]
            /\ recent' = IF r.form.text = Blank THEN recent ELSE Remember(r.form.text)
            /\ loading' = FALSE
            /\ hist' = [hist EXCEPT !.crossed = ~hist.alone]
       ELSE UNCHANGED <<view, recent, loading, hist>>
    /\ UNCHANGED <<page, lastId, metas, edits, error, facetsOf, suggestOf, version>>

(* Mutant of SearchFailed: the spinner is left on.                         *)
SearchFailedSpinning(r) ==
    /\ searches' = searches \ {r}
    /\ IF IsLatest(r)
       THEN error' = "search" /\ hist' = [hist EXCEPT !.failed = TRUE]
       ELSE UNCHANGED <<error, hist>>
    /\ UNCHANGED <<page, lastId, metas, edits, loading, view, facetsOf, suggestOf, recent, version>>

SearchFailed(r) ==
    /\ searches' = searches \ {r}
    /\ IF IsLatest(r)
       THEN /\ error' = "search"
            /\ loading' = FALSE
            /\ hist' = [hist EXCEPT !.failed = TRUE]
       ELSE UNCHANGED <<error, loading, hist>>
    /\ UNCHANGED <<page, lastId, metas, edits, view, facetsOf, suggestOf, recent, version>>

(* Mutant of MetaAnswered: answers are taken in the order they arrive.     *)
MetaAnsweredAnyOrder(m) ==
    /\ metas' = metas \ {m}
    /\ suggestOf' = m.form.text
    /\ facetsOf' = IF m.facets THEN m.form ELSE facetsOf
    /\ UNCHANGED <<page, lastId, searches, edits, loading, error, view, recent, version, hist>>

MetaAnswered(m) ==
    /\ metas' = metas \ {m}
    /\ IF m.id = lastId.meta
       THEN /\ suggestOf' = m.form.text
            /\ facetsOf' = IF m.facets THEN m.form ELSE facetsOf
       ELSE UNCHANGED <<suggestOf, facetsOf>>
    /\ UNCHANGED <<page, lastId, searches, edits, loading, error, view, recent, version, hist>>

(* A failed refresh keeps what was there.                                  *)
MetaFailed(m) ==
    /\ metas' = metas \ {m}
    /\ hist' = [hist EXCEPT !.metaFailed = @ \/ m.id = lastId.meta,
                            !.facetsLost = @ \/ (m.id = lastId.meta /\ m.facets)]
    /\ UNCHANGED <<page, lastId, searches, edits, loading, error, view, facetsOf, suggestOf,
                   recent, version>>

-----------------------------------------------------------------------------
(* Editing the record (updateRecord), possible whenever it is listed.      *)

SendEdit ==
    /\ open /\ view.ver # None
    /\ Cardinality(edits) + version < MaxEdits
    /\ \E i \in 0 .. MaxEdits - 1 :
          /\ ~InFlight(edits, i)
          /\ edits' = edits \cup {[id |-> i, ver |-> None, served |-> FALSE]}
    /\ error' = None
    /\ hist' = [hist EXCEPT !.masked = @ \/ hist.failed, !.alone = FALSE,
                            !.crossed = @ \/ edits # {}]
    /\ UNCHANGED <<page, lastId, searches, metas, loading, view, facetsOf, suggestOf, recent,
                   version>>

ServeEdit(e) ==
    /\ ~e.served
    /\ version' = version + 1
    /\ edits' = (edits \ {e}) \cup {[e EXCEPT !.served = TRUE, !.ver = version + 1]}
    /\ UNCHANGED <<page, lastId, searches, metas, loading, error, view, facetsOf, suggestOf,
                   recent, hist>>

(* Mutant of EditAnswered: the list keeps the record as it was.            *)
EditAnsweredUnseen(e) ==
    /\ e.served
    /\ edits' = edits \ {e}
    /\ hist' = [hist EXCEPT !.acked = IF @ < e.ver THEN e.ver ELSE @]
    /\ UNCHANGED <<page, lastId, searches, metas, loading, error, view, facetsOf, suggestOf,
                   recent, version>>

(* The answer replaces the record wherever it is displayed by then.        *)
EditAnswered(e) ==
    /\ e.served
    /\ edits' = edits \ {e}
    /\ view' = IF view.ver = None THEN view ELSE [view EXCEPT !.ver = e.ver]
    /\ hist' = [hist EXCEPT !.acked = IF @ < e.ver THEN e.ver ELSE @]
    /\ UNCHANGED <<page, lastId, searches, metas, loading, error, facetsOf, suggestOf, recent,
                   version>>

EditFailed(e) ==
    /\ edits' = edits \ {e}
    /\ error' = "update"
    /\ UNCHANGED <<page, lastId, searches, metas, loading, view, facetsOf, suggestOf, recent,
                   version, hist>>

-----------------------------------------------------------------------------
UserStep ==
    \/ OpenPage \/ ClosePage \/ DebounceFires \/ ClearAllFilters \/ Apply \/ NextPage \/ PrevPage
    \/ UploadDone \/ SendEdit
    \/ \E t \in Texts : Type(t) \/ Submit(t)
    \/ \E f \in Facets : Toggle(f)
    \/ \E d \in Ranges : PickDates(d)
    \/ \E n \in PerPages : SetPerPage(n)

SearchEnds == \E r \in searches : SearchAnswered(r) \/ SearchFailed(r)

PageNext ==
    \/ UserStep
    \/ SearchEnds
    \/ \E m \in metas : MetaAnswered(m) \/ MetaFailed(m)
    \/ \E e \in edits : ServeEdit(e) \/ EditAnswered(e) \/ EditFailed(e)

(* A request is answered or its connection fails in the end.               *)
PageSpec == PageInit /\ [][PageNext]_pagevars /\ WF_pagevars(SearchEnds)

-----------------------------------------------------------------------------
Sent == [id: Nat, form: Form, page: Nat \ {0}, perPage: PerPages, since: Nat]

(* Type invariant.                                                         *)
PageTypeOK ==
    /\ open \in BOOLEAN /\ debounce \in BOOLEAN /\ loading \in BOOLEAN
    /\ form \in Form
    /\ lastId \in [search: Nat, meta: Nat]
    /\ searches \subseteq Sent
    /\ metas \subseteq [id: Nat, form: Form, facets: BOOLEAN]
    /\ edits \subseteq [id: Nat, ver: Nat \cup {None}, served: BOOLEAN]
    /\ error \in {None, "search", "update"}
    /\ view \in [form: Form \cup {None}, page: Nat \ {0}, perPage: PerPages, total: Nat,
                 ver: Nat \cup {None}]
    /\ facetsOf \in Form \cup {None} /\ suggestOf \in Texts \cup {None}
    /\ recent \in Seq(Texts \ {Blank}) /\ Len(recent) <= MaxRecent
    /\ version \in Nat

(* The spinner turns exactly while the latest search is in flight; when it *)
(* stops, the list, the page number and the page size are that search's    *)
(* answer, or it failed and the banner says so until an update is sent.    *)
ListIsLatest ==
    /\ loading <=> InFlight(searches, lastId.search)
    /\ ~loading /\ hist.asked # None =>
          IF hist.failed THEN error # None \/ hist.masked
          ELSE [form |-> view.form, page |-> view.page, perPage |-> view.perPage] = hist.asked

(* The filters on offer belong to the latest refresh that was to bring     *)
(* them, unless it failed or the timer of the search box superseded it;    *)
(* the suggestions belong to the latest refresh of all.                    *)
MetaFollowsForm ==
    /\ ~hist.facetsLost /\ (\A m \in metas : ~(m.id = lastId.meta /\ m.facets)) =>
          facetsOf = hist.facetsAsked
    /\ ~hist.metaFailed /\ ~InFlight(metas, lastId.meta) /\ open /\ ~debounce =>
          suggestOf = form.text

(* "Keep most-recent-first, unique": a result for a text is on screen only *)
(* with that text at the head of the recent searches, which name none      *)
(* twice.                                                                  *)
RecentFollowsView ==
    /\ \A i, j \in DOMAIN recent : recent[i] = recent[j] => i = j
    /\ view.form # None /\ view.form.text # Blank => recent # << >> /\ Head(recent) = view.form.text

(* Searches that were superseded or failed leave no trace, in the list or  *)
(* among the recent searches.                                              *)
LatestSearchWins == ListIsLatest /\ RecentFollowsView

(* An update the server has confirmed is on screen, unless one was in      *)
(* flight together with the search displayed or with another update.       *)
OwnEditStays ==
    view.ver # None /\ ~hist.crossed => view.ver >= hist.acked

(* The page never keeps loading for ever.                                  *)
LoadingEnds == loading ~> ~loading
=============================================================================
