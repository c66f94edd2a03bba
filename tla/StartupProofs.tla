---------------------------- MODULE StartupProofs ----------------------------
(***************************************************************************)
(* Theorems about Startup, for any workers, settings, legacy rows and      *)
(* failures of the stores: what the migration keeps, what a worker that    *)
(* serves can rely on, and where the roles of the users come from.         *)
(***************************************************************************)
EXTENDS Startup, TLAPS

Seeding == {"seed", "insert", "update"}
Late    == {"index", "patch", "create", "serving"}

WorkerRecord == [pc: {"db", "migrating", "dead"} \cup Seeding \cup Late,
                 attempts: 0 .. MaxAttempts - 1, seed: Nat \ {0}, unseen: BOOLEAN]

(* A user of e-mail e has a role that some worker's settings give it.      *)
Given(e) ==
    \E v \in Workers : \E j \in DOMAIN Seeds[v] :
        Seeds[v][j].email = e /\ users[e] = Seeds[v][j].role

(* What a worker has behind it at each point: the migration, the users it  *)
(* has been through, the collection.                                       *)
Progress(w, x) ==
    /\ x.seed \in 1 .. Len(Seeds[w]) + 1
    /\ x.pc \in {"insert", "update"} => x.seed <= Len(Seeds[w])
    /\ x.pc \in Late => x.seed = Len(Seeds[w]) + 1
    /\ x.pc \in Seeding \cup Late => unique /\ checked
    /\ x.pc = "serving" => collection = "full"
    /\ \A i \in 1 .. Len(Seeds[w]) : i < x.seed => Given(Seeds[w][i].email)

(* What the constraint on the price has found, and keeps.                  *)
NoneBelow == \A i \in below : keyOf[i] = None

StoreTypes ==
    /\ keyOf \in [RowIds -> RowKeys \cup {None}] /\ legacy \in [RowIds -> RowKeys \cup {None}]
    /\ audited \subseteq RowIds /\ below \subseteq RowIds
    /\ unique \in BOOLEAN /\ checked \in BOOLEAN /\ (checked => NoneBelow)
    /\ users \in [Emails -> Roles \cup {None}]
    /\ collection \in {None, "old", "full"} /\ faults \in 0 .. MaxFaults

WorkersInv ==
    /\ wk \in [Workers -> WorkerRecord]
    /\ \A w \in Workers : Progress(w, wk[w])

StartInv == StoreTypes /\ DedupeKeepsNewest /\ WorkersInv

LEMMA SeedsAre ==
  ASSUME NEW w \in Workers
  PROVE  /\ Len(Seeds[w]) \in Nat /\ DOMAIN Seeds[w] = 1 .. Len(Seeds[w])
         /\ \A i \in 1 .. Len(Seeds[w]) : Seeds[w][i].email \in Emails /\ Seeds[w][i].role \in Roles
<1>1. Seeds[w] \in Seq([email: Emails, role: Roles])
  BY StartupConstants
<1>2. PICK s \in Seq([email: Emails, role: Roles]) : s = Seeds[w]
  BY <1>1
<1>3. Len(s) \in Nat /\ DOMAIN s = 1 .. Len(s)
  OBVIOUS
<1>4. \A i \in 1 .. Len(s) : s[i] \in [email: Emails, role: Roles]
  <2>1. PICK R : R = [email: Emails, role: Roles]
    OBVIOUS
  <2>2. s \in Seq(R)
    BY <2>1
  <2>3. \A i \in 1 .. Len(s) : s[i] \in R
    BY <2>2
  <2> QED
    BY <2>1, <2>3
<1>5. \A i \in 1 .. Len(s) : s[i].email \in Emails /\ s[i].role \in Roles
  BY <1>4
<1> QED
  BY <1>2, <1>3, <1>5

LEMMA InitStartInv == StartInit => StartInv
<1> SUFFICES ASSUME StartInit PROVE StartInv
  OBVIOUS
<1>1. MaxAttempts \in Nat \ {0} /\ MaxFaults \in Nat /\ RowIds \subseteq Nat
  BY StartupConstants
<1>2. StoreTypes
  BY <1>1 DEF StartInit, StoreTypes, NoneBelow
<1>3. DedupeKeepsNewest
  BY DEF StartInit, DedupeKeepsNewest
<1>4. Fresh \in WorkerRecord
  BY <1>1 DEF Fresh, WorkerRecord
<1>5. wk \in [Workers -> WorkerRecord] /\ \A w \in Workers : wk[w] = Fresh
  BY <1>4 DEF StartInit
<1>6. \A w \in Workers : Progress(w, Fresh)
  BY SeedsAre DEF Progress, Fresh, Seeding, Late
<1> QED
  BY <1>2, <1>3, <1>5, <1>6 DEF StartInv, WorkersInv

(* Nothing a worker relies on is taken away: the index, the constraint and *)
(* a full collection stay, and a user who was given a role has one that    *)
(* was given.                                                              *)
Kept ==
    /\ (unique => unique') /\ (checked => checked')
    /\ collection = "full" => collection' = "full"
    /\ \A e \in Emails : Given(e) => Given(e)'

(* The step of one worker leaves it in state x and the others where they   *)
(* are.                                                                    *)
LEMMA OneWorker ==
  ASSUME WorkersInv, Kept, NEW w \in Workers, NEW x \in WorkerRecord, wk' = [wk EXCEPT ![w] = x],
         Progress(w, x)'
  PROVE  WorkersInv'
<1>1. wk' \in [Workers -> WorkerRecord] /\ wk'[w] = x /\ \A v \in Workers : v # w => wk'[v] = wk[v]
  BY DEF WorkersInv
<1>2. ASSUME NEW v \in Workers, v # w PROVE Progress(v, wk[v])'
  <2>1. PICK y \in WorkerRecord : y = wk[v] /\ y = wk'[v] /\ Progress(v, y)
    BY <1>1, <1>2 DEF WorkersInv
  <2>2. Progress(v, y)'
    BY <2>1, SeedsAre DEF Progress, Kept
  <2> QED
    BY <2>1, <2>2 DEF Progress
<1>3. Progress(w, wk[w])'
  BY <1>1 DEF Progress
<1> QED
  BY <1>1, <1>2, <1>3 DEF WorkersInv

LEMMA GoesTo ==
  ASSUME WorkersInv, NEW w \in Workers, NEW c \in {"db", "migrating", "dead"} \cup Seeding \cup Late,
         Goto(w, c)
  PROVE  \E x \in WorkerRecord :
            wk' = [wk EXCEPT ![w] = x] /\ x.pc = c /\ x.seed = wk[w].seed
<1>1. PICK y \in WorkerRecord : y = wk[w]
  BY DEF WorkersInv
<1>2. PICK x : x = [y EXCEPT !.pc = c]
  OBVIOUS
<1>3. x \in WorkerRecord /\ x.pc = c /\ x.seed = y.seed
  BY <1>2 DEF WorkerRecord
<1>4. wk' = [wk EXCEPT ![w] = x]
  BY <1>1, <1>2 DEF Goto
<1> QED
  BY <1>1, <1>3, <1>4

LEMMA TriesAgain ==
  ASSUME WorkersInv, NEW w \in Workers, NEW c \in {"db", "index"}, Retry(w, c)
  PROVE  \E x \in WorkerRecord :
            wk' = [wk EXCEPT ![w] = x] /\ x.pc \in {c, "dead"} /\ x.seed = wk[w].seed
<1>1. PICK y \in WorkerRecord : y = wk[w]
  BY DEF WorkersInv
<1>2. PICK x : x = IF y.attempts + 1 = MaxAttempts THEN [y EXCEPT !.pc = "dead"]
                   ELSE [y EXCEPT !.pc = c, !.attempts = y.attempts + 1]
  OBVIOUS
<1>3. wk' = [wk EXCEPT ![w] = x]
  BY <1>1, <1>2 DEF Retry
<1>4. MaxAttempts \in Nat \ {0} /\ y.attempts \in 0 .. MaxAttempts - 1
  BY StartupConstants DEF WorkerRecord
<1>5. CASE y.attempts + 1 = MaxAttempts
  <2>1. x \in WorkerRecord /\ x.pc = "dead" /\ x.seed = y.seed
    BY <1>2, <1>5 DEF WorkerRecord
  <2> QED
    BY <1>1, <1>3, <2>1
<1>6. CASE y.attempts + 1 # MaxAttempts
  <2>1. y.attempts + 1 \in 0 .. MaxAttempts - 1
    BY <1>4, <1>6
  <2>2. x \in WorkerRecord /\ x.pc = c /\ x.seed = y.seed
    BY <1>2, <1>6, <2>1 DEF WorkerRecord, Late
  <2> QED
    BY <1>1, <1>3, <2>2
<1> QED
  BY <1>5, <1>6

LEMMA NextSeedIs ==
  ASSUME WorkersInv, NEW w \in Workers
  PROVE  NextSeed(w) \in WorkerRecord /\ NextSeed(w).pc = "seed" /\ NextSeed(w).seed = wk[w].seed + 1
<1>1. PICK y \in WorkerRecord : y = wk[w]
  BY DEF WorkersInv
<1>2. NextSeed(w) = [y EXCEPT !.pc = "seed", !.seed = y.seed + 1]
  BY <1>1 DEF NextSeed
<1>3. y.seed \in Nat \ {0}
  BY DEF WorkerRecord
<1>4. y.seed + 1 \in Nat \ {0}
  BY <1>3
<1> QED
  BY <1>1, <1>2, <1>4 DEF WorkerRecord, Seeding

-----------------------------------------------------------------------------
(* The stores                                                              *)

LEMMA DedupedIs ==
  ASSUME StoreTypes, DedupeKeepsNewest, Outdated \cap audited = {}, keyOf' = Deduped, unique' = TRUE,
         checked \/ Negative = {}, UNCHANGED <<audited, below, legacy>>
  PROVE  keyOf' \in [RowIds -> RowKeys \cup {None}] /\ DedupeKeepsNewest' /\ NoneBelow'
<1>1. keyOf' \in [RowIds -> RowKeys \cup {None}]
  BY DEF Deduped, StoreTypes
<1>2. \A i \in RowIds : keyOf'[i] = IF i \in Outdated THEN None ELSE keyOf[i]
  BY DEF Deduped
<1>3. \A i \in audited : keyOf'[i] # None
  BY <1>2 DEF DedupeKeepsNewest, StoreTypes
<1>4. ASSUME NEW i \in RowIds
      PROVE  /\ keyOf'[i] \in {legacy[i], None}
             /\ legacy[i] # None /\ (\A j \in RowIds : j > i => legacy[j] # legacy[i]) =>
                   keyOf'[i] = legacy[i]
  <2>1. keyOf'[i] \in {legacy[i], None}
    BY <1>2 DEF DedupeKeepsNewest
  <2>2. ASSUME legacy[i] # None, \A j \in RowIds : j > i => legacy[j] # legacy[i]
        PROVE  i \notin Outdated
    <3> SUFFICES ASSUME NEW j \in RowIds, j > i, keyOf[i] # None, keyOf[j] = keyOf[i] PROVE FALSE
      BY DEF Outdated
    <3>1. keyOf[i] = legacy[i] /\ keyOf[j] = legacy[j]
      BY DEF DedupeKeepsNewest
    <3> QED
      BY <2>2, <3>1
  <2> QED
    BY <1>2, <2>1, <2>2 DEF DedupeKeepsNewest
<1>5. ASSUME NEW i \in RowIds, NEW j \in RowIds, keyOf'[i] = keyOf'[j], keyOf'[i] # None PROVE i = j
  <2>1. i \notin Outdated /\ j \notin Outdated /\ keyOf[i] = keyOf[j] /\ keyOf[i] # None
    BY <1>2, <1>5
  <2>2. ~(j > i) /\ ~(i > j)
    BY <2>1 DEF Outdated
  <2>3. i \in Nat /\ j \in Nat
    BY StartupConstants
  <2> QED
    BY <2>2, <2>3
<1>6. NoneBelow'
  <2>1. ASSUME NEW i \in below PROVE i \in Outdated \/ keyOf[i] = None
    BY DEF StoreTypes, NoneBelow, Negative
  <2>2. \A i \in below : keyOf'[i] = None
    BY <1>2, <2>1 DEF StoreTypes
  <2> QED
    BY <2>2 DEF NoneBelow
<1> QED
  BY <1>1, <1>3, <1>4, <1>5, <1>6 DEF DedupeKeepsNewest

LEMMA FaultIs == ASSUME StoreTypes, Fault \/ UNCHANGED faults PROVE faults' \in 0 .. MaxFaults
<1>1. MaxFaults \in Nat
  BY StartupConstants
<1> QED
  BY <1>1 DEF StoreTypes, Fault

(* A user row changes to what the settings of a worker say.                *)
LEMMA SeedGives ==
  ASSUME StoreTypes, NEW w \in Workers, NEW i \in 1 .. Len(Seeds[w]),
         users' = [users EXCEPT ![Seeds[w][i].email] = Seeds[w][i].role]
  PROVE  /\ users' \in [Emails -> Roles \cup {None}]
         /\ Given(Seeds[w][i].email)'
         /\ \A e \in Emails : Given(e) => Given(e)'
<1>1. i \in DOMAIN Seeds[w] /\ Seeds[w][i].email \in Emails /\ Seeds[w][i].role \in Roles
  BY SeedsAre
<1>2. /\ users' \in [Emails -> Roles \cup {None}]
      /\ users'[Seeds[w][i].email] = Seeds[w][i].role
      /\ \A e \in Emails : e # Seeds[w][i].email => users'[e] = users[e]
  BY <1>1 DEF StoreTypes
<1>3. Given(Seeds[w][i].email)'
  BY <1>1, <1>2 DEF Given
<1>4. \A e \in Emails : e # Seeds[w][i].email => (Given(e) => Given(e)')
  BY <1>2 DEF Given
<1> QED
  BY <1>2, <1>3, <1>4

-----------------------------------------------------------------------------
(* The steps                                                               *)

LEMMA NoRowChange ==
  ASSUME DedupeKeepsNewest, UNCHANGED <<keyOf, audited, legacy, unique>> PROVE DedupeKeepsNewest'
  BY DEF DedupeKeepsNewest

LEMMA MigrationKeeps ==
  ASSUME StartInv, NEW w \in Workers, MigrateBegin(w) \/ MigrateCommit(w) \/ MigrateFail(w)
  PROVE  StartInv'
<1>1. StoreTypes /\ DedupeKeepsNewest /\ WorkersInv /\ Progress(w, wk[w])
  BY DEF StartInv, WorkersInv
<1>2. PICK y \in WorkerRecord : y = wk[w]
  BY <1>1 DEF WorkersInv
<1>3. MaxAttempts \in Nat \ {0} /\ MaxFaults \in Nat
  BY StartupConstants
<1>4. CASE MigrateBegin(w)
  <2>1. PICK x : x = [y EXCEPT !.pc = "migrating", !.unseen = ~(unique /\ checked)]
    OBVIOUS
  <2>2. x \in WorkerRecord /\ x.pc = "migrating" /\ x.seed = y.seed
    BY <1>1, <2>1 DEF WorkerRecord, StoreTypes
  <2>3. /\ wk' = [wk EXCEPT ![w] = x]
        /\ UNCHANGED <<keyOf, audited, unique, checked, users, collection, faults, below, legacy>>
    BY <1>2, <1>4, <2>1 DEF MigrateBegin, stores, fixed
  <2>4. Kept
    BY <2>3 DEF Kept, Given
  <2>5. Progress(w, x)'
    BY <1>1, <1>2, <2>2, <2>4, SeedsAre DEF Progress, Seeding, Late, Kept
  <2>6. WorkersInv'
    BY <1>1, <2>2, <2>3, <2>4, <2>5, OneWorker
  <2>7. StoreTypes' /\ DedupeKeepsNewest'
    BY <1>1, <2>3, NoRowChange DEF StoreTypes, NoneBelow
  <2> QED
    BY <2>6, <2>7 DEF StartInv
<1>5. CASE MigrateCommit(w)
  <2>1. PICK x : x = [y EXCEPT !.pc = "seed", !.attempts = 0]
    OBVIOUS
  <2>0. 0 \in 0 .. MaxAttempts - 1
    BY <1>3
  <2>2. x \in WorkerRecord /\ x.pc = "seed" /\ x.seed = y.seed
    BY <2>0, <2>1 DEF WorkerRecord, Seeding
  <2>3. /\ wk' = [wk EXCEPT ![w] = x] /\ UNCHANGED <<audited, users, collection, faults, below, legacy>>
        /\ unique' = TRUE /\ checked' = TRUE /\ keyOf' = Deduped /\ Outdated \cap audited = {}
        /\ checked \/ Negative = {}
    BY <1>2, <1>5, <2>1 DEF MigrateCommit, fixed
  <2>4. Kept
    BY <2>3 DEF Kept, Given
  <2>5. Progress(w, x)'
    BY <1>1, <1>2, <2>2, <2>3, <2>4, SeedsAre DEF Progress, Seeding, Late, Kept
  <2>6. WorkersInv'
    BY <1>1, <2>2, <2>3, <2>4, <2>5, OneWorker
  <2>7. keyOf' \in [RowIds -> RowKeys \cup {None}] /\ DedupeKeepsNewest' /\ NoneBelow'
    BY <1>1, <2>3, DedupedIs
  <2>8. StoreTypes'
    BY <1>1, <2>3, <2>7 DEF StoreTypes
  <2> QED
    BY <2>6, <2>7, <2>8 DEF StartInv
<1>6. CASE MigrateFail(w)
  <2>1. Retry(w, "db") /\ UNCHANGED <<keyOf, audited, unique, checked, users, collection, below, legacy>>
        /\ (Fault \/ UNCHANGED faults)
    BY <1>6 DEF MigrateFail, stores, fixed
  <2>2. PICK x \in WorkerRecord :
           wk' = [wk EXCEPT ![w] = x] /\ x.pc \in {"db", "dead"} /\ x.seed = wk[w].seed
    BY <1>1, <2>1, TriesAgain
  <2>3. Kept
    BY <2>1 DEF Kept, Given
  <2>4. Progress(w, x)'
    BY <1>1, <2>2, <2>3, SeedsAre DEF Progress, Seeding, Late, Kept
  <2>5. WorkersInv'
    BY <1>1, <2>2, <2>3, <2>4, OneWorker
  <2>6. StoreTypes' /\ DedupeKeepsNewest'
    BY <1>1, <2>1, NoRowChange, FaultIs DEF StoreTypes, NoneBelow
  <2> QED
    BY <2>5, <2>6 DEF StartInv
<1> QED
  BY <1>4, <1>5, <1>6

LEMMA SeedingKeeps ==
  ASSUME StartInv, NEW w \in Workers,
         SeedRead(w) \/ SeedInsert(w) \/ SeedUpdate(w) \/ SeedFail(w) \/ SeedDone(w)
  PROVE  StartInv'
<1>1. StoreTypes /\ DedupeKeepsNewest /\ WorkersInv /\ Progress(w, wk[w])
  BY DEF StartInv, WorkersInv
<1>2. PICK y \in WorkerRecord : y = wk[w] /\ Progress(w, y)
  BY <1>1 DEF WorkersInv
<1>3. Len(Seeds[w]) \in Nat /\ y.seed \in Nat
  BY SeedsAre DEF WorkerRecord
<1>4. PICK z \in WorkerRecord : z = NextSeed(w) /\ z.pc = "seed" /\ z.seed = y.seed + 1
  BY <1>1, <1>2, NextSeedIs
<1>5. /\ y.pc \in Seeding /\ unique /\ checked /\ unique' = unique /\ collection' = collection
      /\ UNCHANGED <<keyOf, audited, checked, below, legacy>> /\ (Fault \/ UNCHANGED faults)
  BY <1>2 DEF SeedRead, SeedInsert, SeedUpdate, SeedFail, SeedDone, stores, fixed, Seeding, Progress
<1>6. DedupeKeepsNewest' /\ faults' \in 0 .. MaxFaults
  BY <1>1, <1>5, NoRowChange, FaultIs
<1>7. ASSUME users' \in [Emails -> Roles \cup {None}], WorkersInv' PROVE StartInv'
  <2>1. StoreTypes'
    BY <1>1, <1>5, <1>6, <1>7 DEF StoreTypes, NoneBelow
  <2> QED
    BY <1>6, <1>7, <2>1 DEF StartInv
(* The worker goes on to the next user, the present one being seeded.      *)
<1>8. ASSUME y.seed \in 1 .. Len(Seeds[w]), Kept, Given(Seeds[w][y.seed].email)',
             wk' = [wk EXCEPT ![w] = z]
      PROVE  WorkersInv'
  <2>1. z.seed \in 1 .. Len(Seeds[w]) + 1
    BY <1>3, <1>4, <1>8
  <2>2. ASSUME NEW i \in 1 .. Len(Seeds[w]), i < z.seed PROVE Given(Seeds[w][i].email)'
    <3>1. CASE i = y.seed
      BY <1>8, <3>1
    <3>2. CASE i < y.seed
      BY <1>2, <1>8, <3>2, SeedsAre DEF Progress, Kept
    <3> QED
      BY <1>3, <1>4, <2>2, <3>1, <3>2
  <2>3. Progress(w, z)'
    BY <1>4, <1>5, <2>1, <2>2 DEF Progress, Late
  <2> QED
    BY <1>1, <1>8, <2>3, OneWorker
(* It stays at this user, in another state.                                *)
<1>9. ASSUME Kept, NEW x \in WorkerRecord, wk' = [wk EXCEPT ![w] = x], x.seed = y.seed,
             x.pc \in Late => y.seed = Len(Seeds[w]) + 1,
             x.pc \in {"insert", "update"} => y.seed <= Len(Seeds[w]), x.pc # "serving"
      PROVE  WorkersInv'
  <2>1. Progress(w, x)'
    BY <1>2, <1>5, <1>9, SeedsAre DEF Progress, Kept
  <2> QED
    BY <1>1, <1>9, <2>1, OneWorker
<1>10. users' = users => Kept
  BY <1>5 DEF Kept, Given
<1>11. CASE SeedRead(w)
  <2>1. y.seed \in 1 .. Len(Seeds[w]) /\ users' = users
    BY <1>2, <1>3, <1>11 DEF SeedRead, stores, Progress
  <2>2. CASE users[Seed(w).email] = Seed(w).role /\ wk' = [wk EXCEPT ![w] = NextSeed(w)]
    <3>1. Given(Seeds[w][y.seed].email)
      BY <1>2, <2>1, <2>2, SeedsAre DEF Given, Seed
    <3>2. Given(Seeds[w][y.seed].email)'
      BY <1>10, <2>1, <3>1, SeedsAre DEF Kept
    <3> QED
      BY <1>1, <1>4, <1>7, <1>8, <1>10, <2>1, <2>2, <3>2 DEF StoreTypes
  <2>3. ASSUME NEW c \in {"insert", "update"}, Goto(w, c) PROVE StartInv'
    <3>1. PICK x \in WorkerRecord : wk' = [wk EXCEPT ![w] = x] /\ x.pc = c /\ x.seed = y.seed
      BY <1>1, <1>2, <2>3, GoesTo DEF Seeding
    <3>2. /\ x.pc \notin Late /\ x.pc # "serving"
          /\ y.seed <= Len(Seeds[w])
      BY <1>3, <2>1, <3>1 DEF Late
    <3>3. WorkersInv'
      BY <1>9, <1>10, <2>1, <3>1, <3>2
    <3> QED
      BY <1>1, <1>7, <2>1, <3>3 DEF StoreTypes
  <2> QED
    BY <1>11, <2>2, <2>3 DEF SeedRead
<1>12. CASE \/ SeedInsert(w) /\ users[Seed(w).email] = None
            \/ SeedUpdate(w)
  <2>1. /\ y.seed \in 1 .. Len(Seeds[w])
        /\ users' = [users EXCEPT ![Seeds[w][y.seed].email] = Seeds[w][y.seed].role]
        /\ wk' = [wk EXCEPT ![w] = z]
    <3>1. y.pc \in {"insert", "update"}
      BY <1>2, <1>12 DEF SeedInsert, SeedUpdate
    <3>2. y.seed \in 1 .. Len(Seeds[w])
      BY <1>2, <1>3, <3>1 DEF Progress
    <3>3. /\ users' = [users EXCEPT ![Seed(w).email] = Seed(w).role]
          /\ wk' = [wk EXCEPT ![w] = NextSeed(w)]
      BY <1>12 DEF SeedInsert, SeedUpdate
    <3> QED
      BY <1>2, <1>4, <3>2, <3>3 DEF Seed
  <2>2. /\ users' \in [Emails -> Roles \cup {None}] /\ Given(Seeds[w][y.seed].email)'
        /\ \A e \in Emails : Given(e) => Given(e)'
    BY <1>1, <2>1, SeedGives
  <2>3. Kept
    BY <1>5, <2>2 DEF Kept
  <2> QED
    BY <1>7, <1>8, <2>1, <2>2, <2>3
<1>13. CASE (SeedInsert(w) /\ users[Seed(w).email] # None) \/ SeedFail(w) \/ SeedDone(w)
  <2>1. PICK c \in {"dead", "index"} : /\ Goto(w, c) /\ users' = users
                                       /\ c = "index" => y.seed = Len(Seeds[w]) + 1
    <3>1. y.seed \in 1 .. Len(Seeds[w]) + 1
      BY <1>2 DEF Progress
    <3>2. CASE SeedDone(w)
      BY <1>2, <1>3, <3>1, <3>2 DEF SeedDone, stores
    <3>3. CASE (SeedInsert(w) /\ users[Seed(w).email] # None) \/ SeedFail(w)
      BY <3>3 DEF SeedInsert, SeedFail, stores
    <3> QED
      BY <1>13, <3>2, <3>3
  <2>2. PICK x \in WorkerRecord : wk' = [wk EXCEPT ![w] = x] /\ x.pc = c /\ x.seed = y.seed
    BY <1>1, <1>2, <2>1, GoesTo DEF Late
  <2>3. WorkersInv'
    BY <1>9, <1>10, <2>1, <2>2 DEF Late
  <2> QED
    BY <1>1, <1>7, <2>1, <2>3 DEF StoreTypes
<1> QED
  BY <1>11, <1>12, <1>13

LEMMA EnsuringKeeps ==
  ASSUME StartInv, NEW w \in Workers,
         EnsureRetrieve(w) \/ EnsurePatch(w) \/ EnsureCreate(w) \/ Restart(w)
  PROVE  StartInv'
<1>1. StoreTypes /\ DedupeKeepsNewest /\ WorkersInv /\ Progress(w, wk[w])
  BY DEF StartInv, WorkersInv
<1>2. PICK y \in WorkerRecord : y = wk[w] /\ Progress(w, y)
  BY <1>1 DEF WorkersInv
<1>3. /\ UNCHANGED <<keyOf, audited, unique, checked, users, below, legacy>> /\ (Fault \/ UNCHANGED faults)
      /\ collection = "full" => collection' = "full"
      /\ collection' \in {None, "old", "full"}
  BY <1>1 DEF EnsureRetrieve, EnsurePatch, EnsureCreate, Restart, stores, fixed, StoreTypes
<1>4. StoreTypes' /\ DedupeKeepsNewest' /\ Kept
  <2>1. Kept
    BY <1>3 DEF Kept, Given
  <2> QED
    BY <1>1, <1>3, <2>1, NoRowChange, FaultIs DEF StoreTypes, NoneBelow
<1>5. PICK x \in WorkerRecord : /\ wk' = [wk EXCEPT ![w] = x] /\ Progress(w, x)'
  <2>1. CASE Restart(w)
    <3>1. Fresh \in WorkerRecord
      BY StartupConstants DEF Fresh, WorkerRecord
    <3>2. Progress(w, Fresh)'
      BY SeedsAre DEF Progress, Fresh, Seeding, Late
    <3> QED
      BY <2>1, <3>1, <3>2 DEF Restart
  <2>2. CASE EnsureRetrieve(w) \/ EnsurePatch(w) \/ EnsureCreate(w)
    <3>1. y.pc \in Late
      BY <1>2, <2>2 DEF EnsureRetrieve, EnsurePatch, EnsureCreate, Late
    <3>2. PICK c \in Late \cup {"dead"} :
             /\ Goto(w, c) \/ (Retry(w, "index") /\ c = "index")
             /\ c = "serving" => collection' = "full"
      BY <1>3, <2>2 DEF EnsureRetrieve, EnsurePatch, EnsureCreate, stores, Late
    <3>3. PICK x \in WorkerRecord : /\ wk' = [wk EXCEPT ![w] = x] /\ x.seed = y.seed
                                    /\ x.pc \in Late \cup {"dead"}
                                    /\ x.pc = "serving" => collection' = "full"
      <4>1. CASE Goto(w, c)
        BY <1>1, <1>2, <3>2, <4>1, GoesTo
      <4>2. CASE Retry(w, "index")
        BY <1>1, <1>2, <4>2, TriesAgain DEF Late
      <4> QED
        BY <3>2, <4>1, <4>2
    <3>4. Progress(w, x)'
      BY <1>2, <1>3, <1>4, <3>1, <3>3, SeedsAre DEF Progress, Kept, Seeding, Late
    <3> QED
      BY <3>3, <3>4
  <2> QED
    BY <2>1, <2>2
<1>6. WorkersInv'
  BY <1>1, <1>4, <1>5, OneWorker
<1> QED
  BY <1>4, <1>6 DEF StartInv

LEMMA NextStartInv == StartInv /\ [StartNext]_startvars => StartInv'
<1>1. ASSUME StartInv, UNCHANGED startvars PROVE StartInv'
  <2>1. UNCHANGED <<keyOf, audited, unique, checked, users, collection, wk, faults, below, legacy>>
    BY <1>1 DEF startvars, stores, fixed
  <2>2. StoreTypes' /\ DedupeKeepsNewest'
    BY <1>1, <2>1, NoRowChange DEF StartInv, StoreTypes, NoneBelow
  <2>3. \A e : Given(e)' <=> Given(e)
    BY <2>1 DEF Given
  <2>4. ASSUME NEW w \in Workers PROVE Progress(w, wk[w])'
    BY <1>1, <2>1, <2>3 DEF StartInv, WorkersInv, Progress
  <2> QED
    BY <1>1, <2>1, <2>2, <2>4 DEF StartInv, WorkersInv
<1> QED
  BY <1>1, MigrationKeeps, SeedingKeeps, EnsuringKeeps DEF StartNext, WorkerStep

LEMMA StartInvariant == StartSpec => []StartInv
  BY InitStartInv, NextStartInv, PTL DEF StartSpec

-----------------------------------------------------------------------------
(* For any workers, settings and stores: the types, and no worker attempts *)
(* a phase more often than _retry allows (main.py).                        *)
THEOREM StartTypesCorrect == StartSpec => []StartTypeOK
<1>1. StartInv => StartTypeOK
  BY DEF StartInv, StoreTypes, WorkersInv, WorkerRecord, Progress, StartTypeOK
<1> QED
  BY <1>1, StartInvariant, PTL

(* For any rows an older version left, any audit entries and any number of *)
(* migrations at once: the newest row of every key stays, nothing that is  *)
(* audited goes, and the unique index finds no duplicate (main.py).        *)
THEOREM NewestRowsStay == StartSpec => []DedupeKeepsNewest
<1>1. StartInv => DedupeKeepsNewest
  BY DEF StartInv
<1> QED
  BY <1>1, StartInvariant, PTL

(* For any workers that start at once, fail and start again: one that      *)
(* serves has its index and the constraint on the price with no row below  *)
(* it, its users and a full collection.                                    *)
THEOREM ServersAreReady == StartSpec => []ServingIsReady
<1>1. StartInv => ServingIsReady
  <2> SUFFICES ASSUME StartInv, NEW w \in Workers, wk[w].pc = "serving"
               PROVE  /\ unique /\ checked /\ NoneBelow /\ collection = "full"
                      /\ \A i \in DOMAIN Seeds[w] : users[Seeds[w][i].email] # None
    BY DEF ServingIsReady, NoneBelow
  <2>1. Progress(w, wk[w])
    BY DEF StartInv, WorkersInv
  <2>2. \A i \in DOMAIN Seeds[w] : Given(Seeds[w][i].email)
    BY <2>1, SeedsAre DEF Progress, Late
  <2>3. \A e : Given(e) => users[e] # None
    BY SeedsAre, StartupConstants DEF Given
  <2> QED
    BY <2>1, <2>2, <2>3 DEF Progress, Late, StartInv, StoreTypes
<1> QED
  BY <1>1, StartInvariant, PTL

(* For any workers with any settings: once all serve, the role of a seeded *)
(* user is one that some worker's settings give it (_seed_user, main.py).  *)
THEOREM RolesAreGiven == StartSpec => []RolesFollowSettings
<1>1. StartInv => RolesFollowSettings
  <2> SUFFICES ASSUME StartInv, NEW w \in Workers, wk[w].pc = "serving", NEW i \in DOMAIN Seeds[w]
               PROVE  Given(Seeds[w][i].email)
    BY DEF RolesFollowSettings, Given
  <2>1. Progress(w, wk[w])
    BY DEF StartInv, WorkersInv
  <2> QED
    BY <2>1, SeedsAre DEF Progress, Late
<1> QED
  BY <1>1, StartInvariant, PTL
=============================================================================
