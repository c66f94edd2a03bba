------------------------------ MODULE MCSettle ------------------------------
(***************************************************************************)
(* What must come to an end does: the requests that write to the catalogue *)
(* (PricingWrites), the requests that compete for slots, threads and       *)
(* connections (TypesenseGate), the logins of a client (Session).  The     *)
(* three share no state here; `part` says which of them runs, and the      *)
(* others stay as they began, with nothing to be fair to.                  *)
(***************************************************************************)
EXTENDS MCPricingWrites, TypesenseGate, Session

CONSTANTS s1, m1, x1, f1

(* A search, a search of facets, an edit and an upload.                    *)
MCKindOf == [r \in Requests |->
    CASE r = s1 -> "search" [] r = m1 -> "meta" [] r = x1 -> "edit" [] r = f1 -> "upload"]

VARIABLE part

settlevars == <<part, vars, gvars, svars>>

SettleInit ==
    /\ part \in {"writes", "gate", "session"}
    /\ Init /\ GInit
    /\ part # "session" => roleOf = [a \in Accounts |-> "editor"]
    /\ SessionInit

SettleNext ==
    \/ part = "writes" /\ Next /\ UNCHANGED <<part, gvars, svars>>
    \/ part = "gate" /\ GNext /\ UNCHANGED <<part, vars, svars>>
    \/ part = "session" /\ SessionNext /\ UNCHANGED <<part, vars, gvars>>

(* The fairness of each; a part that does not run owes nothing.            *)
SettleSpec ==
    /\ SettleInit /\ [][SettleNext]_settlevars
    /\ \A e \in Editors : WF_vars(ed[e].pc # "idle" /\ EditStep(e))
    /\ \A u \in Uploads : WF_vars(up[u].pc # "idle" /\ UploadStep(u))
    /\ GateFairness /\ SessionFairness

-----------------------------------------------------------------------------
(* Type invariant.                                                         *)
SettleTypeOK == GateTypeOK /\ SessionTypeOK

(* Every edit and upload of the catalogue is answered however often the    *)
(* index fails, every request that competes for what is scarce gets it and *)
(* ends, and every login ends in the tabs or in a form ready for another.  *)
EverythingEnds == RequestsSettle /\ RequestsEnd /\ LoginEnds
=============================================================================
