----------------------------- MODULE EditDialog -----------------------------
(***************************************************************************)
(* Several users edit one record with the dialog of the search page        *)
(* (_editRecord in search_page.dart): it opens with the texts of the row   *)
(* as the list shows it, and Save sends every field, whether the user      *)
(* touched it or not.  PUT /pricing/{id} writes them all.                  *)
(*                                                                         *)
(* A price passes through two conversions: the column rounds what it is    *)
(* sent (Kept), and the dialog shows two decimals of what the list holds   *)
(* (Fixed).  They need not agree on an amount with more decimals: the one  *)
(* rounds the decimal number, the other the binary fraction nearest to it. *)
(* A search lists what the row holds, but the answer to an edit carries    *)
(* the amount that was sent.                                               *)
(*                                                                         *)
(* `rev` numbers the states of the record; `typed` and `overlap` are       *)
(* history: what was last typed into each field and saved, and whether any *)
(* save was served to a record that had changed since the user's list was  *)
(* loaded, or began with an amount the column does not hold.               *)
(*                                                                         *)
(* Not covered: the search page around the dialog (SearchPage), audit and  *)
(* index (PricingWrites), answers out of a cache (PricingSearch), texts    *)
(* that differ only in spaces.                                             *)
(***************************************************************************)
EXTENDS Naturals, FiniteSets

CONSTANTS
    People,
    Fields,    \* store, SKU, name, price, date
    Texts,     \* what a field may hold or be sent
    NoText,    \* nothing was typed
    Savable,   \* field -> the texts Save takes: not empty, a price above zero
    Kept,      \* field -> text -> what the column keeps of it
    Fixed,     \* field -> text -> what the dialog shows of it
    MaxSaves,  \* bound, for model checking only
    Closed     \* no dialog; nothing on its way

ASSUME DialogConstants ==
    /\ NoText \notin Texts /\ MaxSaves \in Nat
    /\ Savable \in [Fields -> SUBSET Texts]
    /\ Kept \in [Fields -> [Texts -> Texts]] /\ Fixed \in [Fields -> [Texts -> Texts]]
    /\ \A f \in Fields, t \in Texts :
          Kept[f][Kept[f][t]] = Kept[f][t] /\ Fixed[f][Kept[f][t]] = Kept[f][t]
    /\ Closed \notin [row: [Fields -> Texts], rev: Nat, exact: BOOLEAN] \cup
                     [row: [Fields -> Texts], rev: Nat]

VARIABLES
    record,   \* the row in the database
    rev,
    shown,    \* user -> the row on screen and its number
    dialog,   \* user -> what the open dialog began with
    puts,     \* edits on their way, and answers on theirs back
    typed,
    overlap

evars == <<record, rev, shown, dialog, puts, typed, overlap>>

DialogRow == [Fields -> Texts]
Copy   == [row: DialogRow, rev: 0 .. MaxSaves]
Opened == [row: DialogRow, rev: 0 .. MaxSaves, exact: BOOLEAN]
Put    == [user: People, texts: DialogRow, typed: [Fields -> Texts \cup {NoText}],
           base: 0 .. MaxSaves, exact: BOOLEAN, answer: Copy \cup {Closed}]

(* What the row holds after an edit that sends these texts.                *)
KeptRow(texts) == [f \in Fields |-> Kept[f][texts[f]]]

EInit ==
    /\ record \in DialogRow /\ KeptRow(record) = record /\ rev = 0
    /\ shown = [u \in People |-> [row |-> record, rev |-> 0]]
    /\ dialog = [u \in People |-> Closed]
    /\ puts = {}
    /\ typed = record
    /\ overlap = FALSE

(* A search brings the row as it is.                                       *)
Load(u) ==
    /\ shown[u].rev < rev
    /\ shown' = [shown EXCEPT ![u] = [row |-> record, rev |-> rev]]
    /\ UNCHANGED <<record, rev, dialog, puts, typed, overlap>>

OpenDialog(u) ==
    /\ dialog[u] = Closed
    /\ dialog' = [dialog EXCEPT ![u] =
          [row |-> [f \in Fields |-> Fixed[f][shown[u].row[f]]], rev |-> shown[u].rev,
           exact |-> KeptRow(shown[u].row) = shown[u].row]]
    /\ UNCHANGED <<record, rev, shown, puts, typed, overlap>>

(* Cancel, or Save with texts that are not accepted.                       *)
Dismiss(u) ==
    /\ dialog[u] # Closed
    /\ dialog' = [dialog EXCEPT ![u] = Closed]
    /\ UNCHANGED <<record, rev, shown, puts, typed, overlap>>

(* No field is empty, and the price is one.                                *)
Accepted(texts) == \A f \in Fields : texts[f] \in Savable[f]

(* Mutant of Sent: one field is sent as the row had it.                     *)
SentWithoutPick(texts, from) ==
    LET g == CHOOSE f \in Fields : TRUE IN [texts EXCEPT ![g] = from.row[g]]

(* The arguments of updateRecord: all fields.                              *)
Sent(texts, from) == texts

(* What of the texts in a dialog was typed there.                          *)
TypedIn(texts, from) == [f \in Fields |-> IF texts[f] = from.row[f] THEN NoText ELSE texts[f]]

(* Save, with these texts in the dialog.                                   *)
Save(u, texts) ==
    /\ dialog[u] # Closed /\ Accepted(texts)
    /\ rev + Cardinality({p \in puts : p.answer = Closed}) < MaxSaves
    /\ dialog' = [dialog EXCEPT ![u] = Closed]
    /\ puts' = puts \cup
          {[user |-> u, texts |-> Sent(texts, dialog[u]), typed |-> TypedIn(texts, dialog[u]),
            base |-> dialog[u].rev, exact |-> dialog[u].exact, answer |-> Closed]}
    /\ UNCHANGED <<record, rev, shown, typed, overlap>>

(* PUT /pricing/{id}: the record takes every field of the edit, as its     *)
(* column keeps it; the answer has them as they were sent.                 *)
Serve(p) ==
    /\ p.answer = Closed
    /\ record' = KeptRow(p.texts) /\ rev' = rev + 1
    /\ puts' = (puts \ {p}) \cup {[p EXCEPT !.answer = [row |-> p.texts, rev |-> rev + 1]]}
    /\ typed' = [f \in Fields |-> IF p.typed[f] = NoText THEN typed[f] ELSE p.typed[f]]
    /\ overlap' = (overlap \/ p.base # rev \/ ~p.exact)
    /\ UNCHANGED <<shown, dialog>>

(* The answer replaces the row on screen, even a newer one.                *)
Answered(p) ==
    /\ p.answer # Closed
    /\ shown' = [shown EXCEPT ![p.user] = p.answer]
    /\ puts' = puts \ {p}
    /\ UNCHANGED <<record, rev, dialog, typed, overlap>>

(* The request never arrives, its answer does not, or it is an error: the  *)
(* list stays as it is, whether or not the record changed.                 *)
Lost(p) ==
    /\ puts' = puts \ {p}
    /\ UNCHANGED <<record, rev, shown, dialog, typed, overlap>>

ENext ==
    \/ \E u \in People :
          \/ Load(u) \/ OpenDialog(u) \/ Dismiss(u)
          \/ \E texts \in [Fields -> Texts] : Save(u, texts)
    \/ \E p \in puts : Serve(p) \/ Answered(p) \/ Lost(p)

ESpec == EInit /\ [][ENext]_evars

-----------------------------------------------------------------------------
(* Type invariant: no list or answer knows a record newer than the one     *)
(* there is, and the row holds what its columns keep.                      *)
DialogTypeOK ==
    /\ record \in DialogRow /\ KeptRow(record) = record /\ rev \in 0 .. MaxSaves
    /\ shown \in [People -> Copy] /\ puts \subseteq Put
    /\ dialog \in [People -> Opened \cup {Closed}]
    /\ \A u \in People : shown[u].rev <= rev
    /\ \A p \in puts : p.answer # Closed => p.answer.rev <= rev

(* Nothing that was typed and saved is lost, but for the rounding of its   *)
(* column, in whichever fields the users work, as long as no save is based *)
(* on a list older than the record, or on the answer to an edit whose      *)
(* price had more decimals than are kept: the fields a user leaves alone   *)
(* are sent as well, and would put back what others -- or the same user,   *)
(* in an edit not yet answered -- had saved, or a price rounded twice.     *)
NothingTypedIsLost == ~overlap => record = KeptRow(typed)
=============================================================================
