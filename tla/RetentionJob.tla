---------------------------- MODULE RetentionJob ----------------------------
(***************************************************************************)
(* The retention CronJob beside the write paths.  Its one statement,       *)
(*   DELETE .. WHERE date < (CURRENT_DATE - (:days || ' days')::interval)  *)
(* is given :days as an int.  asyncpg asks PostgreSQL for the types of a   *)
(* statement's parameters and refuses a value of another: || makes this    *)
(* one text, so the statement is never executed.  Behind that waits a      *)
(* foreign key: pricing_record_audits.record_id refers to its record       *)
(* without ON DELETE, so one audited record among the expired ones would   *)
(* make the whole DELETE fail.                                             *)
(***************************************************************************)
EXTENDS PricingWrites

CONSTANT ExpiredKeys  \* keys whose date lies beyond pricing_retention_days

VARIABLE lastRun      \* how the job's latest run ended, None before the first

Expired == {i \in Live : rows[i].key \in ExpiredKeys}

DaysBound    == "int"     \* int(settings.pricing_retention_days)
DaysInferred == "text"    \* :days || ' days'

(* The DELETE runs, and takes everything expired or nothing.               *)
Accepted == DaysBound = DaysInferred

RunRetention ==
    /\ \/ /\ Accepted /\ \A a \in audits : a.id \notin Expired
          /\ rows' = [i \in Ids |-> IF i \in Expired THEN None ELSE rows[i]]
          /\ lastRun' = "deleted"
       \/ /\ ~Accepted \/ \E a \in audits : a.id \in Expired
          /\ lastRun' = "failed"
          /\ UNCHANGED rows
    /\ UNCHANGED <<used, audits, docs, feeds, ed, up>>

RNext == (Next /\ UNCHANGED lastRun) \/ RunRetention

rvars == <<vars, lastRun>>

(* The CronJob comes round again, and requests run on.                     *)
RSpec ==
    /\ Init /\ lastRun = None
    /\ [][RNext]_rvars
    /\ Fairness /\ WF_rvars(RunRetention)

-----------------------------------------------------------------------------
(* "Deletes pricing records older than settings.pricing_retention_days"    *)
(* (jobs/retention.py): an expired record does not stay for ever.          *)
ExpiredArePurged == \A i \in Ids : i \in Expired ~> i \notin Expired
=============================================================================
