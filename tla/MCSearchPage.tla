---------------------------- MODULE MCSearchPage ----------------------------
(* One text besides the empty one, one facet, one date range besides none; *)
(* two records without the text, one with it.                              *)
EXTENDS SearchPage, TLC

CONSTANTS word, store, week

MCFound == [f \in Form |-> IF f.text = word THEN 1 ELSE IF f.dates = week THEN 0 ELSE 2]
=============================================================================
