---------------------------- MODULE SettleProofs ----------------------------
(***************************************************************************)
(* Theorems about TypesenseGate, for any requests, slots, threads and      *)
(* connections: no slot of the semaphore is lost or made up, and who waits *)
(* holds nothing another could be waiting for; about Session, for any      *)
(* accounts, roles and logins in progress: what is sent, shown and granted *)
(* is one session; and about MCSettle, which runs them beside the writes.  *)
(***************************************************************************)
EXTENDS MCSettle, FiniteSetTheorems, SequenceTheorems, TLAPS

(* The inductive invariant.  What each variable is ...                     *)
Needs  == Statements \cup {"call", "parse"}
States == {"idle", "next", "slot", "queued", "running", "pause", "db", "done"}

GateTypes ==
    /\ pc \in [Requests -> States]
    /\ todo \in [Requests -> Seq(Needs)]
    /\ tries \in [Requests -> 0 .. ImportAttempts - 1]
    /\ value \in Nat /\ slots \subseteq Requests /\ conns \subseteq Requests
    /\ waiters \in Seq(Requests) /\ jobs \in Seq(Requests)

(* ... what a request is doing is what it needs next ...                   *)
DoesWhatItNeeds ==
    \A r \in Requests :
        /\ pc[r] \in {"slot", "pause"} => todo[r] # << >> /\ Need(r) = "call"
        /\ pc[r] \in {"queued", "running"} => todo[r] # << >> /\ Need(r) \in {"call", "parse"}
        /\ pc[r] = "db" => todo[r] # << >> /\ Need(r) \in Statements

(* ... the two queues list who waits in them, each once ...                *)
Listed(s)   == {s[n] : n \in DOMAIN s}
Distinct(s) == \A m, n \in DOMAIN s : s[m] = s[n] => m = n

QueuesTell ==
    /\ Distinct(waiters) /\ Distinct(jobs)
    /\ Listed(waiters) = {r \in Requests : pc[r] = "slot"}
    /\ Listed(jobs) = {r \in Requests : pc[r] = "queued"}

(* ... what is held is counted ...                                         *)
HeldIsCounted ==
    /\ IsFiniteSet(slots) /\ IsFiniteSet(Running) /\ IsFiniteSet(conns)
    /\ value + Cardinality(slots) = Slots
    /\ slots = {r \in Requests : pc[r] \in {"queued", "running"} /\ Need(r) = "call"}
    /\ waiters # << >> => value = 0
    /\ Cardinality(Running) <= Threads
    /\ Cardinality(conns) <= Connections

(* ... and between a statement and the next call lies a commit, which      *)
(* gives the connection back: who holds one commits before it calls.       *)
CommitsBefore(s, n) == \E m \in 1 .. n - 1 : s[m] = "commit"
CallsAfterCommit(s) == \A n \in DOMAIN s : s[n] = "call" => CommitsBefore(s, n)
GivesBack(s) ==
    \A n, k \in DOMAIN s : n < k /\ s[n] \in Statements /\ s[k] = "call" =>
        \E m \in n .. k - 1 : s[m] = "commit"

CommitsFirst ==
    \A r \in Requests :
        /\ GivesBack(todo[r])
        /\ r \in conns => CallsAfterCommit(todo[r]) /\ pc[r] # "idle"

QueueInv == GateTypes /\ DoesWhatItNeeds /\ QueuesTell /\ HeldIsCounted
GateInv  == QueueInv /\ CommitsFirst

-----------------------------------------------------------------------------
(* A queue that somebody joins at its end, or leaves at its front.         *)
LEMMA JoinQueue ==
    ASSUME NEW S, NEW s \in Seq(S), NEW e \in S, e \notin Listed(s), Distinct(s)
    PROVE  /\ Append(s, e) \in Seq(S) /\ Append(s, e) # << >>
           /\ Distinct(Append(s, e))
           /\ Listed(Append(s, e)) = Listed(s) \cup {e}
<1> DEFINE a == Append(s, e)
<1>1. /\ a \in Seq(S) /\ Len(s) \in Nat /\ DOMAIN s = 1 .. Len(s)
      /\ DOMAIN a = 1 .. Len(s) + 1
      /\ a[Len(s) + 1] = e /\ \A n \in 1 .. Len(s) : a[n] = s[n]
  OBVIOUS
<1>2. \A n \in 1 .. Len(s) : s[n] # e
  BY <1>1 DEF Listed
<1> HIDE DEF a
<1>3. Distinct(a)
  <2> SUFFICES ASSUME NEW m \in 1 .. Len(s) + 1, NEW n \in 1 .. Len(s) + 1, a[m] = a[n]
               PROVE  m = n
    BY <1>1 DEF Distinct
  <2>1. CASE m = Len(s) + 1
    BY <1>1, <1>2, <2>1
  <2>2. CASE n = Len(s) + 1
    BY <1>1, <1>2, <2>2
  <2>3. CASE m \in 1 .. Len(s) /\ n \in 1 .. Len(s)
    BY <1>1, <2>3 DEF Distinct
  <2> QED
    BY <1>1, <2>1, <2>2, <2>3
<1>4. Listed(a) = Listed(s) \cup {e}
  <2>1. ASSUME NEW x \in Listed(a) PROVE x \in Listed(s) \cup {e}
    <3>1. PICK n \in 1 .. Len(s) + 1 : x = a[n]
      BY <1>1, <2>1 DEF Listed
    <3>2. n = Len(s) + 1 \/ n \in 1 .. Len(s)
      BY <1>1, <3>1
    <3> QED
      BY <1>1, <3>1, <3>2 DEF Listed
  <2>2. ASSUME NEW x \in Listed(s) PROVE x \in Listed(a)
    <3>1. PICK n \in 1 .. Len(s) : x = s[n]
      BY <1>1, <2>2 DEF Listed
    <3>2. n \in DOMAIN a /\ x = a[n]
      BY <1>1, <3>1
    <3> QED
      BY <3>2 DEF Listed
  <2>3. Len(s) + 1 \in DOMAIN a
    BY <1>1
  <2>4. e \in Listed(a)
    BY <1>1, <2>3 DEF Listed
  <2> QED
    BY <2>1, <2>2, <2>4
<1>5. a # << >>
  BY <1>1, <1>4, DOMAIN << >> = {} DEF Listed
<1> QED
  BY <1>1, <1>3, <1>4, <1>5 DEF a

LEMMA LeaveQueue ==
    ASSUME NEW S, NEW s \in Seq(S), s # << >>, Distinct(s)
    PROVE  /\ Head(s) \in Listed(s) /\ Head(s) \in S
           /\ Tail(s) \in Seq(S) /\ Distinct(Tail(s))
           /\ Listed(Tail(s)) = Listed(s) \ {Head(s)}
<1> DEFINE t == Tail(s)
<1>1. /\ t \in Seq(S) /\ Len(s) \in Nat \ {0} /\ DOMAIN s = 1 .. Len(s)
      /\ DOMAIN t = 1 .. Len(s) - 1
      /\ Head(s) = s[1] /\ \A n \in 1 .. Len(s) - 1 : t[n] = s[n + 1]
  BY HeadTailProperties
<1> HIDE DEF t
<1>2. Head(s) \in Listed(s) /\ Head(s) \in S
  BY <1>1 DEF Listed
<1>3. Distinct(t)
  <2> SUFFICES ASSUME NEW m \in 1 .. Len(s) - 1, NEW n \in 1 .. Len(s) - 1, t[m] = t[n]
               PROVE  m = n
    BY <1>1 DEF Distinct
  <2>1. m + 1 \in DOMAIN s /\ n + 1 \in DOMAIN s /\ s[m + 1] = s[n + 1]
    BY <1>1
  <2>2. m + 1 = n + 1
    BY <2>1 DEF Distinct
  <2> QED
    BY <1>1, <2>2
<1>4. Listed(t) = Listed(s) \ {Head(s)}
  <2>1. ASSUME NEW x \in Listed(t) PROVE x \in Listed(s) /\ x # Head(s)
    <3>1. PICK n \in 1 .. Len(s) - 1 : x = t[n]
      BY <1>1, <2>1 DEF Listed
    <3>2. n + 1 \in DOMAIN s /\ x = s[n + 1] /\ n + 1 # 1 /\ 1 \in DOMAIN s
      BY <1>1, <3>1
    <3>3. s[n + 1] # s[1]
      BY <3>2 DEF Distinct
    <3> QED
      BY <1>1, <3>2, <3>3 DEF Listed
  <2>2. ASSUME NEW x \in Listed(s), x # Head(s) PROVE x \in Listed(t)
    <3>1. PICK n \in 1 .. Len(s) : x = s[n]
      BY <1>1, <2>2 DEF Listed
    <3>2. n - 1 \in DOMAIN t /\ x = t[n - 1]
      BY <1>1, <2>2, <3>1
    <3> QED
      BY <3>2 DEF Listed
  <2> QED
    BY <2>1, <2>2
<1> QED
  BY <1>1, <1>2, <1>3, <1>4 DEF t

-----------------------------------------------------------------------------
(* A request that is neither in a queue nor at a call moves on.            *)
LEMMA Elsewhere ==
    ASSUME QueueInv, NEW r \in Requests, NEW then \in {"next", "db", "done"},
           pc[r] \in {"next", "db", "pause", "idle"}, pc' = [pc EXCEPT ![r] = then],
           todo' \in [Requests -> Seq(Needs)], \A q \in Requests \ {r} : todo'[q] = todo[q],
           then = "db" => todo'[r] # << >> /\ Need(r)' \in Statements,
           UNCHANGED <<tries, value, waiters, slots, jobs>>,
           conns' \subseteq Requests, IsFiniteSet(conns'), Cardinality(conns') <= Connections
    PROVE  QueueInv'
<1> USE DEF QueueInv
<1>1. GateTypes'
  BY DEF GateTypes, States
<1>2. \A q \in Requests \ {r} : pc'[q] = pc[q] /\ Need(q)' = Need(q)
  BY DEF GateTypes, Need
<1>3. pc'[r] = then
  BY DEF GateTypes
<1>4. DoesWhatItNeeds'
  BY <1>2, <1>3 DEF DoesWhatItNeeds
<1>5. /\ \A q \in Requests : (pc'[q] = "slot") <=> (pc[q] = "slot")
      /\ \A q \in Requests : (pc'[q] = "queued") <=> (pc[q] = "queued")
      /\ \A q \in Requests : (pc'[q] = "running") <=> (pc[q] = "running")
  BY <1>2, <1>3
<1>6. QueuesTell'
  BY <1>5 DEF QueuesTell, Listed, Distinct
<1>7. Running' = Running
  BY <1>5 DEF Running
<1>8. {q \in Requests : pc[q] \in {"queued", "running"} /\ Need(q) = "call"}'
        = {q \in Requests : pc[q] \in {"queued", "running"} /\ Need(q) = "call"}
  BY <1>2, <1>3
<1>9. HeldIsCounted'
  BY <1>7, <1>8 DEF HeldIsCounted
<1> QED
  BY <1>1, <1>4, <1>6, <1>9

(* A call ends, and the slot goes to the first waiter or is free.          *)
LEMMA ReleaseKeeps ==
    ASSUME QueueInv, NEW r \in Requests, pc[r] = "running", Need(r) = "call",
           NEW then \in {"next", "pause"}, Release(r, then),
           todo' \in [Requests -> Seq(Needs)], \A q \in Requests \ {r} : todo'[q] = todo[q],
           then = "pause" => todo' = todo,
           tries' \in [Requests -> 0 .. ImportAttempts - 1], UNCHANGED conns
    PROVE  QueueInv'
<1> USE DEF QueueInv
<1>1. r \in slots /\ r \in Running /\ r \notin Listed(jobs) /\ r \notin Listed(waiters)
  BY DEF HeldIsCounted, QueuesTell, Running
<1>2. /\ IsFiniteSet(slots \ {r}) /\ Cardinality(slots \ {r}) = Cardinality(slots) - 1
      /\ Cardinality(slots) \in Nat /\ Cardinality(Running) \in Nat
      /\ IsFiniteSet(Running \ {r}) /\ Cardinality(Running \ {r}) = Cardinality(Running) - 1
  BY <1>1, FS_RemoveElement, FS_CardinalityType DEF HeldIsCounted
<1>3. Slots \in Nat /\ Threads \in Nat
  BY GateConstants
<1>4. \A q \in Requests \ {r} : Need(q)' = Need(q)
  BY DEF Need
<1>5. CASE waiters = << >>
  <2>1. /\ slots' = slots \ {r} /\ value' = value + 1 /\ pc' = [pc EXCEPT ![r] = then]
        /\ UNCHANGED <<waiters, jobs>>
    BY <1>5 DEF Release
  <2>2. pc'[r] = then /\ \A q \in Requests \ {r} : pc'[q] = pc[q]
    BY <2>1 DEF GateTypes
  <2>3. GateTypes'
    BY <2>1 DEF GateTypes, States
  <2>4. DoesWhatItNeeds'
    BY <1>4, <2>2 DEF DoesWhatItNeeds, Need
  <2>5. QueuesTell'
    <3>1. {q \in Requests : pc[q] = "slot"}' = {q \in Requests : pc[q] = "slot"}
      BY <2>2
    <3>2. {q \in Requests : pc[q] = "queued"}' = {q \in Requests : pc[q] = "queued"}
      BY <2>2
    <3> QED
      BY <2>1, <3>1, <3>2 DEF QueuesTell, Listed, Distinct
  <2>6. Running' = Running \ {r}
    BY <2>2 DEF Running
  <2>7. slots' = {q \in Requests : pc[q] \in {"queued", "running"} /\ Need(q) = "call"}'
    BY <1>4, <2>1, <2>2 DEF HeldIsCounted
  <2>8. HeldIsCounted'
    BY <1>2, <1>3, <1>5, <2>1, <2>6, <2>7 DEF HeldIsCounted, GateTypes
  <2> QED
    BY <2>3, <2>4, <2>5, <2>8
<1>6. CASE waiters # << >>
  <2>0. Head(waiters) \in Requests
    BY <1>6, LeaveQueue DEF GateTypes, QueuesTell
  <2> PICK w \in Requests : w = Head(waiters)
    BY <2>0
  <2>1. /\ w \in Requests /\ w \in Listed(waiters)
        /\ Tail(waiters) \in Seq(Requests) /\ Distinct(Tail(waiters))
        /\ Listed(Tail(waiters)) = Listed(waiters) \ {w}
    BY <1>6, LeaveQueue DEF GateTypes, QueuesTell
  <2>2. pc[w] = "slot" /\ w # r /\ w \notin Listed(jobs) /\ w \notin slots
    BY <2>1 DEF QueuesTell, HeldIsCounted
  <2>3. /\ slots' = (slots \ {r}) \cup {w} /\ pc' = [pc EXCEPT ![r] = then, ![w] = "queued"]
        /\ jobs' = Append(jobs, w) /\ waiters' = Tail(waiters) /\ UNCHANGED value
    BY <1>6 DEF Release
  <2>4. /\ Append(jobs, w) \in Seq(Requests) /\ Distinct(Append(jobs, w))
        /\ Listed(Append(jobs, w)) = Listed(jobs) \cup {w}
    BY <2>1, <2>2, JoinQueue DEF GateTypes, QueuesTell
  <2>5. pc'[r] = then /\ pc'[w] = "queued" /\ \A q \in Requests \ {r, w} : pc'[q] = pc[q]
    BY <2>1, <2>2, <2>3 DEF GateTypes
  <2>6. GateTypes'
    BY <2>1, <2>3, <2>4 DEF GateTypes, States
  <2>7. Need(w) = "call" /\ todo'[w] # << >> /\ Need(w)' = "call"
    BY <1>4, <2>1, <2>2 DEF DoesWhatItNeeds
  <2>8. DoesWhatItNeeds'
    <3> SUFFICES ASSUME NEW q \in Requests
                 PROVE  /\ pc'[q] \in {"slot", "pause"} => todo'[q] # << >> /\ Need(q)' = "call"
                        /\ pc'[q] \in {"queued", "running"} =>
                              todo'[q] # << >> /\ Need(q)' \in {"call", "parse"}
                        /\ pc'[q] = "db" => todo'[q] # << >> /\ Need(q)' \in Statements
      BY DEF DoesWhatItNeeds
    <3>1. CASE q = r
      BY <2>5, <3>1 DEF DoesWhatItNeeds, Need
    <3>2. CASE q = w
      BY <2>5, <2>7, <3>2
    <3>3. CASE q \notin {r, w}
      BY <1>4, <2>5, <3>3 DEF DoesWhatItNeeds
    <3> QED
      BY <3>1, <3>2, <3>3
  <2>9. QueuesTell'
    <3>1. {q \in Requests : pc[q] = "slot"}' = {q \in Requests : pc[q] = "slot"} \ {w}
      BY <2>1, <2>2, <2>5
    <3>2. {q \in Requests : pc[q] = "queued"}' = {q \in Requests : pc[q] = "queued"} \cup {w}
      BY <2>1, <2>2, <2>5
    <3>3. Distinct(waiters)' /\ Distinct(jobs)'
      BY <2>1, <2>3, <2>4 DEF Distinct
    <3>4. Listed(waiters)' = Listed(waiters) \ {w} /\ Listed(jobs)' = Listed(jobs) \cup {w}
      BY <2>1, <2>3, <2>4 DEF Listed
    <3> QED
      BY <3>1, <3>2, <3>3, <3>4 DEF QueuesTell
  <2>10. Running' = Running \ {r}
    BY <2>1, <2>2, <2>5 DEF Running
  <2>11. slots' = {q \in Requests : pc[q] \in {"queued", "running"} /\ Need(q) = "call"}'
    BY <1>4, <2>1, <2>2, <2>3, <2>5, <2>7 DEF HeldIsCounted
  <2>12. IsFiniteSet(slots') /\ Cardinality(slots') = Cardinality(slots)
    <3>1. w \notin slots \ {r}
      BY <2>2
    <3>2. /\ IsFiniteSet((slots \ {r}) \cup {w})
          /\ Cardinality((slots \ {r}) \cup {w}) = Cardinality(slots \ {r}) + 1
      BY <1>2, <3>1, FS_AddElement
    <3> QED
      BY <1>2, <2>3, <3>2
  <2>13. HeldIsCounted'
    <3>1. IsFiniteSet(Running') /\ Cardinality(Running') <= Threads
      BY <1>2, <1>3, <2>10 DEF HeldIsCounted
    <3>2. value' + Cardinality(slots') = Slots /\ value' = 0
      BY <1>6, <2>3, <2>12 DEF HeldIsCounted
    <3>3. IsFiniteSet(conns') /\ Cardinality(conns') <= Connections
      BY DEF HeldIsCounted
    <3> QED
      BY <2>11, <2>12, <3>1, <3>2, <3>3 DEF HeldIsCounted
  <2> QED
    BY <2>6, <2>8, <2>9, <2>13
<1> QED
  BY <1>5, <1>6

-----------------------------------------------------------------------------
(* What a request may still need: a plan, the rest of one, what a failure  *)
(* leaves; and in each of them a commit stands before the next call.       *)
LEMMA PlanCommitsFirst ==
    ASSUME NEW r \in Requests
    PROVE  Plan(r) \in Seq(Needs) /\ GivesBack(Plan(r))
<1> USE DEF Needs, Statements
<1>1. KindOf[r] \in Kinds
  BY GateConstants
<1>2. CASE KindOf[r] = "search"
  <2>1. Plan(r) = <<"call", "rows">>
    BY <1>2 DEF Plan
  <2> QED
    BY <2>1 DEF GivesBack
<1>3. CASE KindOf[r] = "meta"
  <2>1. Plan(r) = <<"call", "call">>
    BY <1>3 DEF Plan
  <2> QED
    BY <2>1 DEF GivesBack
<1>4. CASE KindOf[r] = "edit"
  <2>1. Plan(r) = <<"commit", "call">>
    BY <1>4 DEF Plan
  <2> QED
    BY <2>1 DEF GivesBack
<1>5. CASE KindOf[r] = "upload"
  <2> DEFINE s == <<"begin", "parse", "commit", "call", "parse", "commit", "call",
                    "parse", "commit">>
  <2>1. Plan(r) = s
    BY <1>5 DEF Plan
  <2>2. s \in Seq(Needs) /\ DOMAIN s = 1 .. 9
    OBVIOUS
  <2>3. \A n \in 1 .. 9 : (s[n] = "call" <=> n \in {4, 7}) /\ (s[n] = "commit" <=> n \in {3, 6, 9})
                          /\ (s[n] \in Statements <=> n \in {1, 3, 6, 9})
    OBVIOUS
  <2> HIDE DEF s
  <2>4. ASSUME NEW n \in 1 .. 9, NEW k \in 1 .. 9, n < k, s[n] \in Statements, s[k] = "call"
        PROVE  \E m \in n .. k - 1 : s[m] = "commit"
    <3>1. CASE k = 4
      BY <2>3, <2>4, <3>1, 3 \in n .. k - 1
    <3>2. CASE k = 7
      BY <2>3, <2>4, <3>2, 6 \in n .. k - 1
    <3> QED
      BY <2>3, <2>4, <3>1, <3>2
  <2> QED
    BY <2>1, <2>2, <2>4 DEF GivesBack
<1> QED
  BY <1>1, <1>2, <1>3, <1>4, <1>5 DEF Kinds

LEMMA OtherwiseNoCalls ==
    ASSUME NEW r \in Requests
    PROVE  /\ Otherwise(r) \in Seq(Needs)
           /\ GivesBack(Otherwise(r)) /\ CallsAfterCommit(Otherwise(r))
<1>1. Otherwise(r) \in {<<"fallback">>, <<"record">>, << >>}
  BY DEF Otherwise
<1> DEFINE Quiet(s) == s \in Seq(Needs) /\ GivesBack(s) /\ CallsAfterCommit(s)
<1>2. Quiet(<<"fallback">>)
  BY DEF GivesBack, CallsAfterCommit, Needs, Statements
<1>3. Quiet(<<"record">>)
  BY DEF GivesBack, CallsAfterCommit, Needs, Statements
<1>4. Quiet(<< >>)
  BY DEF GivesBack, CallsAfterCommit
<1> HIDE DEF Quiet
<1>5. Quiet(Otherwise(r))
  BY <1>1, <1>2, <1>3, <1>4
<1> QED
  BY <1>5 DEF Quiet

LEMMA EmptyNoCalls == GivesBack(<< >>) /\ CallsAfterCommit(<< >>) /\ << >> \in Seq(Needs)
BY DEF GivesBack, CallsAfterCommit

LEMMA TailGivesBack ==
    ASSUME NEW s \in Seq(Needs), s # << >>, GivesBack(s)
    PROVE  /\ Tail(s) \in Seq(Needs) /\ GivesBack(Tail(s))
           /\ CallsAfterCommit(s) /\ Head(s) # "commit" => CallsAfterCommit(Tail(s))
<1> DEFINE t == Tail(s)
<1>1. /\ t \in Seq(Needs) /\ Len(s) \in Nat \ {0} /\ DOMAIN s = 1 .. Len(s)
      /\ DOMAIN t = 1 .. Len(s) - 1
      /\ Head(s) = s[1] /\ \A n \in 1 .. Len(s) - 1 : t[n] = s[n + 1]
  BY HeadTailProperties
<1> HIDE DEF t
<1>2. GivesBack(t)
  <2> SUFFICES ASSUME NEW n \in 1 .. Len(s) - 1, NEW k \in 1 .. Len(s) - 1,
                      n < k, t[n] \in Statements, t[k] = "call"
               PROVE  \E m \in n .. k - 1 : t[m] = "commit"
    BY <1>1 DEF GivesBack
  <2>1. /\ n + 1 \in DOMAIN s /\ k + 1 \in DOMAIN s /\ n + 1 < k + 1
        /\ s[n + 1] \in Statements /\ s[k + 1] = "call"
    BY <1>1
  <2>2. PICK m \in n + 1 .. (k + 1) - 1 : s[m] = "commit"
    BY <2>1 DEF GivesBack
  <2>3. m - 1 \in n .. k - 1 /\ t[m - 1] = "commit"
    BY <1>1, <2>2
  <2> QED
    BY <2>3
<1>3. ASSUME CallsAfterCommit(s), Head(s) # "commit" PROVE CallsAfterCommit(t)
  <2> SUFFICES ASSUME NEW n \in 1 .. Len(s) - 1, t[n] = "call"
               PROVE  \E m \in 1 .. n - 1 : t[m] = "commit"
    BY <1>1 DEF CallsAfterCommit, CommitsBefore
  <2>1. n + 1 \in DOMAIN s /\ s[n + 1] = "call"
    BY <1>1
  <2>2. PICK m \in 1 .. (n + 1) - 1 : s[m] = "commit"
    BY <1>3, <2>1 DEF CallsAfterCommit, CommitsBefore
  <2>3. m # 1
    BY <1>1, <1>3, <2>2
  <2>4. m - 1 \in 1 .. n - 1 /\ t[m - 1] = "commit"
    BY <1>1, <2>2, <2>3
  <2> QED
    BY <2>4
<1>4. CallsAfterCommit(s) /\ Head(s) # "commit" => CallsAfterCommit(t)
  BY <1>3
<1>5. t = Tail(s)
  BY DEF t
<1> QED
  BY <1>1, <1>2, <1>4, <1>5, Zenon

(* With a statement at the front, every later call has its commit first;   *)
(* with a call at the front it has none.                                   *)
LEMMA FrontTells ==
    ASSUME NEW s \in Seq(Needs), s # << >>
    PROVE  /\ GivesBack(s) /\ Head(s) \in Statements => CallsAfterCommit(s)
           /\ CallsAfterCommit(s) => Head(s) # "call"
<1>1. Len(s) \in Nat \ {0} /\ DOMAIN s = 1 .. Len(s) /\ Head(s) = s[1] /\ 1 \in DOMAIN s
  OBVIOUS
<1>2. ASSUME GivesBack(s), s[1] \in Statements PROVE CallsAfterCommit(s)
  <2> SUFFICES ASSUME NEW n \in DOMAIN s, s[n] = "call"
               PROVE  \E m \in 1 .. n - 1 : s[m] = "commit"
    BY DEF CallsAfterCommit, CommitsBefore
  <2>1. n # 1
    BY <1>2 DEF Statements
  <2>2. 1 < n
    BY <1>1, <2>1
  <2> QED
    BY <1>1, <1>2, <2>2 DEF GivesBack
<1>3. ASSUME CallsAfterCommit(s) PROVE s[1] # "call"
  <2> SUFFICES ASSUME s[1] = "call" PROVE FALSE
    OBVIOUS
  <2>1. CommitsBefore(s, 1)
    BY <1>1, <1>3 DEF CallsAfterCommit
  <2> QED
    BY <2>1 DEF CommitsBefore
<1> QED
  BY <1>1, <1>2, <1>3

-----------------------------------------------------------------------------
(* The steps, one by one, and the first four parts of the invariant.       *)
LEMMA ConnsCounted ==
    ASSUME QueueInv, NEW r \in Requests
    PROVE  /\ Cardinality(conns) \in Nat /\ Connections \in Nat
           /\ conns \ {r} \subseteq Requests /\ IsFiniteSet(conns \ {r})
           /\ Cardinality(conns \ {r}) <= Connections
           /\ conns \cup {r} \subseteq Requests /\ IsFiniteSet(conns \cup {r})
           /\ r \in conns \/ Cardinality(conns) < Connections =>
                 Cardinality(conns \cup {r}) <= Connections
           /\ conns \subseteq Requests /\ IsFiniteSet(conns) /\ Cardinality(conns) <= Connections
<1>1. /\ conns \subseteq Requests /\ IsFiniteSet(conns) /\ Cardinality(conns) <= Connections
      /\ Cardinality(conns) \in Nat /\ Connections \in Nat
  BY FS_CardinalityType, GateConstants DEF QueueInv, GateTypes, HeldIsCounted
<1>2. /\ IsFiniteSet(conns \ {r})
      /\ Cardinality(conns \ {r}) = IF r \in conns THEN Cardinality(conns) - 1
                                                   ELSE Cardinality(conns)
  BY <1>1, FS_RemoveElement
<1>3. /\ IsFiniteSet(conns \cup {r})
      /\ Cardinality(conns \cup {r}) = IF r \in conns THEN Cardinality(conns)
                                                      ELSE Cardinality(conns) + 1
  BY <1>1, FS_AddElement
<1> QED
  BY <1>1, <1>2, <1>3

(* The steps that meet neither the semaphore nor the executor.             *)
LEMMA QuietSteps ==
    ASSUME QueueInv, NEW r \in Requests,
           Arrive(r) \/ Return(r) \/ Wake(r) \/ Connect(r) \/ Execute(r) \/ PoolTimeout(r)
    PROVE  QueueInv'
<1> USE ConnsCounted
<1>1. /\ todo \in [Requests -> Seq(Needs)] /\ pc \in [Requests -> States]
      /\ Otherwise(r) \in Seq(Needs) /\ Plan(r) \in Seq(Needs)
      /\ todo[r] # << >> => Tail(todo[r]) \in Seq(Needs)
  BY OtherwiseNoCalls, PlanCommitsFirst, HeadTailProperties DEF QueueInv, GateTypes
<1>2. ASSUME NEW s \in Seq(Needs)
      PROVE  /\ [todo EXCEPT ![r] = s] \in [Requests -> Seq(Needs)]
             /\ \A q \in Requests \ {r} : [todo EXCEPT ![r] = s][q] = todo[q]
  BY <1>1
<1>3. CASE Arrive(r)
  BY <1>1, <1>2, <1>3, Elsewhere DEF Arrive
<1>4. CASE Return(r)
  BY <1>1, <1>4, Elsewhere DEF Return
<1>5. CASE Wake(r)
  BY <1>1, <1>5, Elsewhere DEF Wake
<1>6. CASE Connect(r)
  <2>1. todo'[r] # << >> /\ Need(r)' \in Statements
    BY <1>6 DEF Connect, Need
  <2> QED
    BY <1>1, <1>6, <2>1, Elsewhere DEF Connect
<1>7. CASE Execute(r)
  <2>1. todo[r] # << >>
    BY <1>7 DEF Execute, QueueInv, DoesWhatItNeeds
  <2>2. \E s \in Seq(Needs) : todo' = [todo EXCEPT ![r] = s]
    BY <1>1, <1>7, <2>1 DEF Execute
  <2>3. conns' \in {conns, conns \ {r}}
    BY <1>7 DEF Execute
  <2>4. todo' \in [Requests -> Seq(Needs)] /\ \A q \in Requests \ {r} : todo'[q] = todo[q]
    BY <1>2, <2>2
  <2>5. /\ pc[r] = "db" /\ pc' = [pc EXCEPT ![r] = "next"]
        /\ UNCHANGED <<tries, value, waiters, slots, jobs>>
    BY <1>7 DEF Execute
  <2> QED
    BY <2>3, <2>4, <2>5, Elsewhere
<1>8. CASE PoolTimeout(r)
  <2>1. /\ pc[r] = "next" /\ todo' = [todo EXCEPT ![r] = Otherwise(r)]
        /\ UNCHANGED <<pc, tries, value, waiters, slots, jobs, conns>>
    BY <1>8 DEF PoolTimeout
  <2>2. pc' = [pc EXCEPT ![r] = "next"]
    BY <1>1, <2>1
  <2> QED
    BY <1>1, <1>2, <2>1, <2>2, Elsewhere
<1> QED
  BY <1>3, <1>4, <1>5, <1>6, <1>7, <1>8

(* The steps that end a call.                                              *)
LEMMA CallSteps ==
    ASSUME QueueInv, NEW r \in Requests, CallSucceeds(r) \/ CallFails(r)
    PROVE  QueueInv'
<1>1. /\ todo \in [Requests -> Seq(Needs)] /\ tries \in [Requests -> 0 .. ImportAttempts - 1]
      /\ Otherwise(r) \in Seq(Needs) /\ << >> \in Seq(Needs)
      /\ ImportAttempts \in Nat \ {0}
  BY OtherwiseNoCalls, EmptyNoCalls, GateConstants DEF QueueInv, GateTypes
<1>2. pc[r] = "running" /\ Need(r) = "call" /\ todo[r] # << >> /\ UNCHANGED conns
  BY DEF CallSucceeds, CallFails, QueueInv, DoesWhatItNeeds
<1>3. Tail(todo[r]) \in Seq(Needs)
  BY <1>1, <1>2, HeadTailProperties
<1>4. CASE CallSucceeds(r)
  <2>1. todo' \in [Requests -> Seq(Needs)] /\ \A q \in Requests \ {r} : todo'[q] = todo[q]
    BY <1>1, <1>3, <1>4 DEF CallSucceeds
  <2>2. tries' \in [Requests -> 0 .. ImportAttempts - 1] /\ Release(r, "next")
    BY <1>1, <1>4 DEF CallSucceeds
  <2> QED
    BY <1>2, <2>1, <2>2, ReleaseKeeps
<1>5. CASE CallFails(r)
  <2>1. CASE KindOf[r] = "upload" /\ tries[r] + 1 < ImportAttempts
    <3>1. Release(r, "pause") /\ tries' = [tries EXCEPT ![r] = @ + 1] /\ UNCHANGED todo
      BY <1>5, <2>1 DEF CallFails
    <3>2. tries' \in [Requests -> 0 .. ImportAttempts - 1]
      BY <1>1, <2>1, <3>1
    <3> QED
      BY <1>1, <1>2, <3>1, <3>2, ReleaseKeeps
  <2>2. CASE ~(KindOf[r] = "upload" /\ tries[r] + 1 < ImportAttempts)
    <3>1. /\ Release(r, "next") /\ todo' = [todo EXCEPT ![r] = Otherwise(r)]
          /\ UNCHANGED tries
      BY <1>5, <2>2 DEF CallFails
    <3>2. todo' \in [Requests -> Seq(Needs)] /\ \A q \in Requests \ {r} : todo'[q] = todo[q]
      BY <1>1, <3>1
    <3> QED
      BY <1>1, <1>2, <3>1, <3>2, ReleaseKeeps
  <2> QED
    BY <2>1, <2>2
<1> QED
  BY <1>4, <1>5

(* A request takes a slot and joins the executor's queue, or waits.        *)
LEMMA AcquireStep ==
    ASSUME QueueInv, NEW r \in Requests, Acquire(r)
    PROVE  QueueInv'
<1> USE DEF QueueInv
<1>1. /\ pc[r] = "next" /\ todo[r] # << >> /\ Need(r) = "call"
      /\ UNCHANGED <<todo, tries, conns>>
  BY DEF Acquire
<1>2. r \notin Listed(waiters) /\ r \notin Listed(jobs) /\ r \notin slots
  BY <1>1 DEF QueuesTell, HeldIsCounted
<1>3. \A q \in Requests : Need(q)' = Need(q) /\ todo'[q] = todo[q]
  BY <1>1 DEF Need
<1>4. IsFiniteSet(conns') /\ Cardinality(conns') <= Connections
  BY <1>1 DEF HeldIsCounted
<1>5. CASE value > 0 /\ waiters = << >>
  <2>1. /\ value' = value - 1 /\ slots' = slots \cup {r} /\ pc' = [pc EXCEPT ![r] = "queued"]
        /\ jobs' = Append(jobs, r) /\ UNCHANGED waiters
    BY <1>5 DEF Acquire
  <2>2. /\ Append(jobs, r) \in Seq(Requests) /\ Distinct(Append(jobs, r))
        /\ Listed(Append(jobs, r)) = Listed(jobs) \cup {r}
    BY <1>2, JoinQueue DEF GateTypes, QueuesTell
  <2>3. pc'[r] = "queued" /\ \A q \in Requests \ {r} : pc'[q] = pc[q]
    BY <2>1 DEF GateTypes
  <2>4. GateTypes'
    BY <1>1, <1>5, <2>1, <2>2 DEF GateTypes, States
  <2>5. DoesWhatItNeeds'
    BY <1>1, <1>3, <2>3 DEF DoesWhatItNeeds
  <2>6. QueuesTell'
    <3>1. {q \in Requests : pc[q] = "slot"}' = {q \in Requests : pc[q] = "slot"}
      BY <1>1, <2>3
    <3>2. {q \in Requests : pc[q] = "queued"}' = {q \in Requests : pc[q] = "queued"} \cup {r}
      BY <2>3
    <3>3. Listed(waiters)' = Listed(waiters) /\ Listed(jobs)' = Listed(jobs) \cup {r}
      BY <2>1, <2>2 DEF Listed
    <3>4. Distinct(waiters)' /\ Distinct(jobs)'
      BY <2>1, <2>2 DEF Distinct, QueuesTell
    <3> QED
      BY <3>1, <3>2, <3>3, <3>4 DEF QueuesTell
  <2>7. Running' = Running
    BY <1>1, <2>3 DEF Running
  <2>8. slots' = {q \in Requests : pc[q] \in {"queued", "running"} /\ Need(q) = "call"}'
    BY <1>1, <1>3, <2>1, <2>3 DEF HeldIsCounted
  <2>9. IsFiniteSet(slots') /\ value' + Cardinality(slots') = Slots
    <3>1. /\ IsFiniteSet(slots \cup {r}) /\ Cardinality(slots \cup {r}) = Cardinality(slots) + 1
          /\ Cardinality(slots) \in Nat
      BY <1>2, FS_AddElement, FS_CardinalityType DEF HeldIsCounted
    <3> QED
      BY <2>1, <3>1, GateConstants DEF GateTypes, HeldIsCounted
  <2>10. HeldIsCounted'
    BY <1>4, <1>5, <2>1, <2>7, <2>8, <2>9 DEF HeldIsCounted
  <2> QED
    BY <2>4, <2>5, <2>6, <2>10
<1>6. CASE ~(value > 0 /\ waiters = << >>)
  <2>1. /\ waiters' = Append(waiters, r) /\ pc' = [pc EXCEPT ![r] = "slot"]
        /\ UNCHANGED <<value, slots, jobs>>
    BY <1>6 DEF Acquire
  <2>2. /\ Append(waiters, r) \in Seq(Requests) /\ Distinct(Append(waiters, r))
        /\ Listed(Append(waiters, r)) = Listed(waiters) \cup {r}
    BY <1>2, JoinQueue DEF GateTypes, QueuesTell
  <2>3. pc'[r] = "slot" /\ \A q \in Requests \ {r} : pc'[q] = pc[q]
    BY <2>1 DEF GateTypes
  <2>4. GateTypes'
    BY <1>1, <2>1, <2>2 DEF GateTypes, States
  <2>5. DoesWhatItNeeds'
    BY <1>1, <1>3, <2>3 DEF DoesWhatItNeeds
  <2>6. QueuesTell'
    <3>1. {q \in Requests : pc[q] = "slot"}' = {q \in Requests : pc[q] = "slot"} \cup {r}
      BY <2>3
    <3>2. {q \in Requests : pc[q] = "queued"}' = {q \in Requests : pc[q] = "queued"}
      BY <1>1, <2>3
    <3>3. Listed(waiters)' = Listed(waiters) \cup {r} /\ Listed(jobs)' = Listed(jobs)
      BY <2>1, <2>2 DEF Listed
    <3>4. Distinct(waiters)' /\ Distinct(jobs)'
      BY <2>1, <2>2 DEF Distinct, QueuesTell
    <3> QED
      BY <3>1, <3>2, <3>3, <3>4 DEF QueuesTell
  <2>7. Running' = Running
    BY <1>1, <2>3 DEF Running
  <2>8. slots' = {q \in Requests : pc[q] \in {"queued", "running"} /\ Need(q) = "call"}'
    BY <1>1, <1>3, <2>1, <2>3 DEF HeldIsCounted
  <2>9. value = 0
    BY <1>6 DEF GateTypes, HeldIsCounted
  <2>10. HeldIsCounted'
    BY <1>4, <2>1, <2>7, <2>8, <2>9 DEF HeldIsCounted
  <2> QED
    BY <2>4, <2>5, <2>6, <2>10
<1> QED
  BY <1>5, <1>6

(* A chunk joins the executor's queue.                                     *)
LEMMA ParseStep ==
    ASSUME QueueInv, NEW r \in Requests, Parse(r)
    PROVE  QueueInv'
<1> USE DEF QueueInv
<1>1. /\ pc[r] = "next" /\ todo[r] # << >> /\ Need(r) = "parse"
      /\ pc' = [pc EXCEPT ![r] = "queued"] /\ jobs' = Append(jobs, r)
      /\ UNCHANGED <<todo, tries, value, waiters, slots, conns>>
  BY DEF Parse
<1>2. r \notin Listed(jobs)
  BY <1>1 DEF QueuesTell
<1>3. \A q \in Requests : Need(q)' = Need(q) /\ todo'[q] = todo[q]
  BY <1>1 DEF Need
<1>4. /\ Append(jobs, r) \in Seq(Requests) /\ Distinct(Append(jobs, r))
      /\ Listed(Append(jobs, r)) = Listed(jobs) \cup {r}
  BY <1>2, JoinQueue DEF GateTypes, QueuesTell
<1>5. pc'[r] = "queued" /\ \A q \in Requests \ {r} : pc'[q] = pc[q]
  BY <1>1 DEF GateTypes
<1>6. GateTypes'
  BY <1>1, <1>4 DEF GateTypes, States
<1>7. DoesWhatItNeeds'
  BY <1>1, <1>3, <1>5 DEF DoesWhatItNeeds
<1>8. QueuesTell'
  <2>1. {q \in Requests : pc[q] = "slot"}' = {q \in Requests : pc[q] = "slot"}
    BY <1>1, <1>5
  <2>2. {q \in Requests : pc[q] = "queued"}' = {q \in Requests : pc[q] = "queued"} \cup {r}
    BY <1>5
  <2>3. Listed(waiters)' = Listed(waiters) /\ Listed(jobs)' = Listed(jobs) \cup {r}
    BY <1>1, <1>4 DEF Listed
  <2>4. Distinct(waiters)' /\ Distinct(jobs)'
    BY <1>1, <1>4 DEF Distinct, QueuesTell
  <2> QED
    BY <2>1, <2>2, <2>3, <2>4 DEF QueuesTell
<1>9. Running' = Running
  BY <1>1, <1>5 DEF Running
<1>10. slots' = {q \in Requests : pc[q] \in {"queued", "running"} /\ Need(q) = "call"}'
  BY <1>1, <1>3, <1>5 DEF HeldIsCounted
<1>11. HeldIsCounted'
  BY <1>1, <1>9, <1>10 DEF HeldIsCounted
<1> QED
  BY <1>6, <1>7, <1>8, <1>11

(* A free thread takes the first job.                                      *)
LEMMA StartStep ==
    ASSUME QueueInv, StartJob
    PROVE  QueueInv'
<1> USE DEF QueueInv
<1>0. jobs # << >> /\ Head(jobs) \in Requests
  BY LeaveQueue DEF StartJob, GateTypes, QueuesTell
<1> PICK h \in Requests : h = Head(jobs)
  BY <1>0
<1>1. /\ h \in Listed(jobs) /\ Tail(jobs) \in Seq(Requests) /\ Distinct(Tail(jobs))
      /\ Listed(Tail(jobs)) = Listed(jobs) \ {h}
  BY <1>0, LeaveQueue DEF GateTypes, QueuesTell
<1>2. pc[h] = "queued"
  BY <1>1 DEF QueuesTell
<1>3. /\ Cardinality(Running) < Threads /\ pc' = [pc EXCEPT ![h] = "running"]
      /\ jobs' = Tail(jobs) /\ UNCHANGED <<todo, tries, value, waiters, slots, conns>>
  BY DEF StartJob
<1>4. pc'[h] = "running" /\ \A q \in Requests \ {h} : pc'[q] = pc[q]
  BY <1>3 DEF GateTypes
<1>5. \A q \in Requests : Need(q)' = Need(q) /\ todo'[q] = todo[q]
  BY <1>3 DEF Need
<1>6. GateTypes'
  BY <1>1, <1>3 DEF GateTypes, States
<1>7. DoesWhatItNeeds'
  BY <1>2, <1>4, <1>5 DEF DoesWhatItNeeds
<1>8. QueuesTell'
  <2>1. {q \in Requests : pc[q] = "slot"}' = {q \in Requests : pc[q] = "slot"}
    BY <1>2, <1>4
  <2>2. {q \in Requests : pc[q] = "queued"}' = {q \in Requests : pc[q] = "queued"} \ {h}
    BY <1>4
  <2>3. Listed(waiters)' = Listed(waiters) /\ Listed(jobs)' = Listed(jobs) \ {h}
    BY <1>1, <1>3 DEF Listed
  <2>4. Distinct(waiters)' /\ Distinct(jobs)'
    BY <1>1, <1>3 DEF Distinct, QueuesTell
  <2> QED
    BY <2>1, <2>2, <2>3, <2>4 DEF QueuesTell
<1>9. Running' = Running \cup {h} /\ h \notin Running
  BY <1>2, <1>4 DEF Running
<1>10. IsFiniteSet(Running') /\ Cardinality(Running') <= Threads
  <2>1. /\ IsFiniteSet(Running \cup {h}) /\ Cardinality(Running \cup {h}) = Cardinality(Running) + 1
        /\ Cardinality(Running) \in Nat
    BY <1>9, FS_AddElement, FS_CardinalityType DEF HeldIsCounted
  <2> QED
    BY <1>3, <1>9, <2>1, GateConstants
<1>11. slots' = {q \in Requests : pc[q] \in {"queued", "running"} /\ Need(q) = "call"}'
  BY <1>2, <1>3, <1>4, <1>5 DEF HeldIsCounted
<1>12. HeldIsCounted'
  BY <1>3, <1>10, <1>11 DEF HeldIsCounted
<1> QED
  BY <1>6, <1>7, <1>8, <1>12

(* A chunk is parsed, and its thread is free.                              *)
LEMMA ParsedStep ==
    ASSUME QueueInv, NEW r \in Requests, Parsed(r)
    PROVE  QueueInv'
<1> USE DEF QueueInv
<1>1. /\ pc[r] = "running" /\ Need(r) = "parse" /\ pc' = [pc EXCEPT ![r] = "next"]
      /\ UNCHANGED <<tries, value, waiters, slots, jobs>>
  BY DEF Parsed
<1>2. todo[r] # << >> /\ todo \in [Requests -> Seq(Needs)] /\ pc \in [Requests -> States]
  BY <1>1 DEF DoesWhatItNeeds, GateTypes
<1>3. Tail(todo[r]) \in Seq(Needs) /\ Otherwise(r) \in Seq(Needs)
  BY <1>2, OtherwiseNoCalls, HeadTailProperties
<1>4. todo' \in [Requests -> Seq(Needs)] /\ \A q \in Requests \ {r} : todo'[q] = todo[q]
  BY <1>2, <1>3 DEF Parsed
<1>5. conns' \subseteq Requests /\ IsFiniteSet(conns') /\ Cardinality(conns') <= Connections
  <2>1. conns' \in {conns, conns \ {r}}
    BY DEF Parsed
  <2> QED
    BY <2>1, ConnsCounted
<1>6. pc'[r] = "next" /\ \A q \in Requests \ {r} : pc'[q] = pc[q] /\ Need(q)' = Need(q)
  BY <1>1, <1>2, <1>4 DEF Need
<1>7. GateTypes'
  BY <1>1, <1>4, <1>5 DEF GateTypes, States
<1>8. DoesWhatItNeeds'
  BY <1>4, <1>6 DEF DoesWhatItNeeds
<1>9. QueuesTell'
  <2>1. {q \in Requests : pc[q] = "slot"}' = {q \in Requests : pc[q] = "slot"}
    BY <1>1, <1>6
  <2>2. {q \in Requests : pc[q] = "queued"}' = {q \in Requests : pc[q] = "queued"}
    BY <1>1, <1>6
  <2> QED
    BY <1>1, <2>1, <2>2 DEF QueuesTell, Listed, Distinct
<1>10. Running' = Running \ {r} /\ r \in Running
  BY <1>1, <1>6 DEF Running
<1>11. IsFiniteSet(Running') /\ Cardinality(Running') <= Threads
  <2>1. /\ IsFiniteSet(Running \ {r}) /\ Cardinality(Running \ {r}) = Cardinality(Running) - 1
        /\ Cardinality(Running) \in Nat
    BY <1>10, FS_RemoveElement, FS_CardinalityType DEF HeldIsCounted
  <2> QED
    BY <1>10, <2>1, GateConstants DEF HeldIsCounted
<1>12. slots' = {q \in Requests : pc[q] \in {"queued", "running"} /\ Need(q) = "call"}'
  BY <1>1, <1>6 DEF HeldIsCounted
<1>13. HeldIsCounted'
  BY <1>1, <1>5, <1>11, <1>12 DEF HeldIsCounted
<1> QED
  BY <1>7, <1>8, <1>9, <1>13

-----------------------------------------------------------------------------
(* The last part of the invariant.                                         *)
LEMMA CommitsFirstStep ==
    ASSUME GateInv, NEW r \in Requests, Arrive(r) \/ Step(r)
    PROVE  CommitsFirst'
<1> USE DEF GateInv
<1>1. /\ todo \in [Requests -> Seq(Needs)] /\ todo[r] \in Seq(Needs)
      /\ pc \in [Requests -> States]
      /\ GivesBack(todo[r]) /\ (r \in conns => CallsAfterCommit(todo[r]) /\ pc[r] # "idle")
  BY DEF QueueInv, GateTypes, CommitsFirst
<1>2. /\ GivesBack(Otherwise(r)) /\ CallsAfterCommit(Otherwise(r)) /\ GivesBack(Plan(r))
      /\ GivesBack(<< >>) /\ CallsAfterCommit(<< >>)
  BY OtherwiseNoCalls, PlanCommitsFirst, EmptyNoCalls
<1>3. SUFFICES /\ \A q \in Requests \ {r} : /\ todo'[q] = todo[q]
                                            /\ pc'[q] = "idle" => pc[q] = "idle"
                                            /\ q \in conns' => q \in conns
               /\ GivesBack(todo'[r])
               /\ r \in conns' => CallsAfterCommit(todo'[r]) /\ pc'[r] # "idle"
  BY DEF CommitsFirst
<1>4. CASE Arrive(r)
  <2>1. /\ todo' = [todo EXCEPT ![r] = Plan(r)] /\ pc' = [pc EXCEPT ![r] = "next"]
        /\ conns' = conns /\ pc[r] = "idle"
    BY <1>4 DEF Arrive
  <2> QED
    BY <1>1, <1>2, <2>1
<1>5. CASE Return(r) \/ Parse(r) \/ Wake(r)
  <2>1. /\ todo' = todo /\ conns' \subseteq conns
        /\ \E x \in {"done", "queued", "next"} : pc' = [pc EXCEPT ![r] = x]
    BY <1>5 DEF Return, Parse, Wake
  <2> QED
    BY <1>1, <2>1
<1>6. CASE Acquire(r)
  <2>1. /\ todo' = todo /\ conns' = conns
        /\ \E x \in {"slot", "queued"} : pc' = [pc EXCEPT ![r] = x]
    BY <1>6 DEF Acquire
  <2> QED
    BY <1>1, <2>1
<1>7. CASE Parsed(r)
  <2>1. /\ todo[r] # << >> /\ Head(todo[r]) = "parse" /\ pc' = [pc EXCEPT ![r] = "next"]
    BY <1>7 DEF Parsed, Need, QueueInv, DoesWhatItNeeds
  <2>2. GivesBack(Tail(todo[r])) /\ (r \in conns => CallsAfterCommit(Tail(todo[r])))
    BY <1>1, <2>1, TailGivesBack
  <2>3. \/ todo' = [todo EXCEPT ![r] = Tail(@)] /\ conns' = conns
        \/ todo' = [todo EXCEPT ![r] = Otherwise(r)] /\ conns' = conns \ {r}
    BY <1>7 DEF Parsed
  <2> QED
    BY <1>1, <1>2, <2>1, <2>2, <2>3
<1>8. CASE CallSucceeds(r) \/ CallFails(r)
  <2>1. pc[r] = "running" /\ todo[r] # << >> /\ Head(todo[r]) = "call" /\ conns' = conns
    BY <1>8 DEF CallSucceeds, CallFails, Need, QueueInv, DoesWhatItNeeds
  <2>2. r \notin conns /\ GivesBack(Tail(todo[r]))
    BY <1>1, <2>1, TailGivesBack, FrontTells
  <2>3. \E s \in {todo[r], Tail(todo[r]), << >>, Otherwise(r)} : todo' = [todo EXCEPT ![r] = s]
    BY <1>1, <1>8 DEF CallSucceeds, CallFails
  <2>4. \E then \in {"next", "pause"} : Release(r, then)
    BY <1>8 DEF CallSucceeds, CallFails
  <2>5. \A q \in Requests \ {r} : pc'[q] = "idle" => pc[q] = "idle"
    BY <1>1, <2>4 DEF Release
  <2> QED
    BY <1>1, <1>2, <2>1, <2>2, <2>3, <2>5
<1>9. CASE Connect(r)
  <2>1. /\ todo' = todo /\ conns' = conns \cup {r} /\ pc' = [pc EXCEPT ![r] = "db"]
        /\ todo[r] # << >> /\ Head(todo[r]) \in Statements
    BY <1>9 DEF Connect, Need
  <2>2. CallsAfterCommit(todo[r])
    BY <1>1, <2>1, FrontTells
  <2> QED
    BY <1>1, <2>1, <2>2
<1>10. CASE Execute(r)
  <2>1. todo[r] # << >> /\ pc' = [pc EXCEPT ![r] = "next"]
    BY <1>10 DEF Execute, QueueInv, DoesWhatItNeeds
  <2>2. /\ GivesBack(Tail(todo[r]))
        /\ r \in conns /\ Head(todo[r]) # "commit" => CallsAfterCommit(Tail(todo[r]))
    BY <1>1, <2>1, TailGivesBack
  <2>3. \/ /\ todo' = [todo EXCEPT ![r] = Tail(@)] /\ conns' \subseteq conns
           /\ Head(todo[r]) = "commit" => r \notin conns'
        \/ todo' = [todo EXCEPT ![r] = Otherwise(r)] /\ conns' \subseteq conns
    BY <1>10 DEF Execute, Need
  <2> QED
    BY <1>1, <1>2, <2>1, <2>2, <2>3
<1>11. CASE PoolTimeout(r)
  <2>1. todo' = [todo EXCEPT ![r] = Otherwise(r)] /\ UNCHANGED <<pc, conns>>
    BY <1>11 DEF PoolTimeout
  <2> QED
    BY <1>1, <1>2, <2>1
<1> QED
  BY <1>4, <1>5, <1>6, <1>7, <1>8, <1>9, <1>10, <1>11 DEF Step

LEMMA InitGateInv == GInit => GateInv
<1> SUFFICES ASSUME GInit PROVE GateInv
  OBVIOUS
<1> USE DEF GInit
<1>1. GateTypes
  BY GateConstants DEF GateTypes, States
<1>2. DoesWhatItNeeds
  BY DEF DoesWhatItNeeds
<1>3. QueuesTell
  BY DEF QueuesTell, Distinct, Listed
<1>4. Running = {}
  BY DEF Running
<1>5. HeldIsCounted
  BY <1>4, FS_EmptySet, GateConstants DEF HeldIsCounted
<1>6. CommitsFirst
  BY EmptyNoCalls DEF CommitsFirst
<1> QED
  BY <1>1, <1>2, <1>3, <1>5, <1>6 DEF GateInv, QueueInv

LEMMA NextGateInv == GateInv /\ [GNext]_gvars => GateInv'
<1> SUFFICES ASSUME GateInv, [GNext]_gvars PROVE GateInv'
  OBVIOUS
<1> USE DEF GateInv
<1>1. CASE StartJob
  <2>1. todo' = todo /\ conns' = conns
    BY <1>1 DEF StartJob
  <2>2. \A q \in Requests : pc'[q] = "idle" => pc[q] = "idle"
    BY <1>1 DEF StartJob, QueueInv, GateTypes
  <2>3. CommitsFirst'
    BY <2>1, <2>2 DEF CommitsFirst
  <2> QED
    BY <1>1, <2>3, StartStep
<1>2. ASSUME NEW r \in Requests, Arrive(r) \/ Step(r) PROVE GateInv'
  <2>1. CommitsFirst'
    BY <1>2, CommitsFirstStep
  <2>2. QueueInv'
    BY <1>2, QuietSteps, CallSteps, AcquireStep, ParseStep, ParsedStep DEF Step
  <2> QED
    BY <2>1, <2>2
<1>3. CASE UNCHANGED gvars
  BY <1>3 DEF gvars, QueueInv, GateTypes, DoesWhatItNeeds, QueuesTell, HeldIsCounted,
              CommitsFirst, Need, Running, Listed, Distinct
<1> QED
  BY <1>1, <1>2, <1>3 DEF GNext

LEMMA GateInvariant == GSpec => []GateInv
  BY InitGateInv, NextGateInv, PTL DEF GSpec

-----------------------------------------------------------------------------
LEMMA GateTypesFollow == GateInv => GateTypeOK
<1> SUFFICES ASSUME GateInv PROVE GateTypeOK
  OBVIOUS
<1>1. value \in 0 .. Slots
  <2>1. Cardinality(slots) \in Nat
    BY FS_CardinalityType DEF GateInv, QueueInv, HeldIsCounted
  <2> QED
    BY <2>1, GateConstants DEF GateInv, QueueInv, HeldIsCounted, GateTypes
<1> QED
  BY <1>1 DEF GateTypeOK, GateInv, QueueInv, GateTypes, DoesWhatItNeeds, HeldIsCounted,
              States, Needs

(* The state of the gate is well typed, and its bounds hold: no more calls *)
(* and parsers run than there are threads, no more connections are out     *)
(* than the pool has, no import makes more attempts than it may            *)
(* (typesense_service.py, core/db.py).                                     *)
THEOREM GateTypesCorrect == GSpec => []GateTypeOK
  BY GateTypesFollow, GateInvariant, PTL

(* For any number of requests, slots and threads, and whatever fails: a    *)
(* slot is free or belongs to exactly one call that is queued or running,  *)
(* and nobody waits for a slot that is free (_get_typesense_semaphore,     *)
(* services/typesense_service.py).                                         *)
THEOREM NoSlotIsLost == GSpec => []SlotsAccounted
<1>1. GateInv => SlotsAccounted
  BY DEF GateInv, QueueInv, HeldIsCounted, QueuesTell, Listed, SlotsAccounted
<1> QED
  BY <1>1, GateInvariant, PTL

(* Who waits for a slot or pauses before its next attempt holds neither a  *)
(* slot nor a connection, and a call never runs while its request holds a  *)
(* connection (services/pricing_service.py commits before it pushes to the *)
(* index); of an upload that waits for a thread to read its file it says   *)
(* nothing.                                                                *)
THEOREM NobodyWaitsHolding == GSpec => []WaitsEmptyHanded
<1>1. GateInv => WaitsEmptyHanded
  <2> SUFFICES ASSUME GateInv, NEW r \in Requests
               PROVE  /\ pc[r] \in {"slot", "pause"} => r \notin slots /\ r \notin conns
                      /\ pc[r] = "next" => r \notin slots
                      /\ r \in slots => r \notin conns
    BY DEF WaitsEmptyHanded
  <2>1. r \in slots => pc[r] \in {"queued", "running"} /\ Need(r) = "call"
    BY DEF GateInv, QueueInv, HeldIsCounted
  <2>2. pc[r] \in {"slot", "pause"} \/ r \in slots => todo[r] # << >> /\ Need(r) = "call"
    BY <2>1 DEF GateInv, QueueInv, DoesWhatItNeeds
  <2>3. todo[r] # << >> /\ Need(r) = "call" => r \notin conns
    BY FrontTells DEF GateInv, QueueInv, GateTypes, CommitsFirst, Need
  <2> QED
    BY <2>1, <2>2, <2>3
<1> QED
  BY <1>1, GateInvariant, PTL

-----------------------------------------------------------------------------
(* Sessions.  The inductive invariant.  What the variables are: a login    *)
(* carries the account it was submitted for ...                            *)
Steps == {"idle", "login", "me", "done"}

LoginTypes ==
    calls \in [Logins -> [pc: Steps, account: Accounts \cup {Null},
                          with: SessionToken \cup {Null}]]

SessionTypes ==
    /\ token \in SessionToken \cup {Null} /\ me \in SessionToken \cup {Null}
    /\ apiToken \in SessionToken \cup {Null}
    /\ loading \in BOOLEAN /\ failed \in BOOLEAN /\ stale \in BOOLEAN /\ again \in BOOLEAN
    /\ LoginTypes
    /\ form \in Accounts \cup {Null}
    /\ view \in [page: {"login", "home"}, canSubmit: BOOLEAN, canUpload: BOOLEAN, canEdit: BOOLEAN]
    /\ roleOf \in [Accounts -> AccountRoles]

CarriesItsOwn ==
    \A l \in Logins :
        /\ calls[l].pc = "me" <=> calls[l].with # Null
        /\ calls[l].pc = "login" => calls[l].account \in Accounts

(* ... a frame offers to log in only where it is the login page, with an   *)
(* account typed in, and one that is due for nobody shows what is ...      *)
FramesTell ==
    /\ view.canSubmit => view.page = "login" /\ form # Null
    /\ ~stale /\ InProgress = {} => view = Drawn

(* ... and when logins are not submitted on top of each other, the one in  *)
(* progress finds no session, and opens the only one there is.             *)
OneAtATime ==
    ~again =>
        /\ \A l, k \in InProgress : l = k
        /\ \A l \in Logins : calls[l].pc = "login" =>
              token = Null /\ view.page = "login"
        /\ \A l \in Logins : calls[l].pc = "me" => token \in {Null, calls[l].with}
        /\ InProgress = {} /\ token # Null => me = token

SessionInv == SessionTypes /\ CarriesItsOwn /\ FramesTell /\ OneAtATime /\ SessionIsSent

LEMMA NullIsNoToken == Null \notin SessionToken /\ Null \notin Accounts
  BY SessionNull DEF SessionToken

LEMMA DrawnTyped ==
    Drawn \in [page: {"login", "home"}, canSubmit: BOOLEAN, canUpload: BOOLEAN, canEdit: BOOLEAN]
  BY DEF Drawn, HasRole

(* What a step does to one login and to none of the others.                *)
Becomes(l, c) == calls' = [calls EXCEPT ![l] = c]

LEMMA OneLoginMoves ==
    ASSUME LoginTypes, NEW l \in Logins,
           NEW c \in [pc: Steps, account: Accounts \cup {Null}, with: SessionToken \cup {Null}],
           Becomes(l, c)
    PROVE  /\ LoginTypes'
           /\ calls'[l] = c
           /\ \A k \in Logins : k # l => calls'[k] = calls[k]
  BY DEF LoginTypes, Becomes

LEMMA IdleTyped ==
    /\ Idle \in [pc: Steps, account: Accounts \cup {Null}, with: SessionToken \cup {Null}]
    /\ Done \in [pc: Steps, account: Accounts \cup {Null}, with: SessionToken \cup {Null}]
    /\ Done.pc = "done" /\ Done.with = Null
<1> PICK i : i = [pc |-> "idle", account |-> Null, with |-> Null]
  OBVIOUS
<1>1. i \in [pc: Steps, account: Accounts \cup {Null}, with: SessionToken \cup {Null}]
  BY DEF Steps
<1>2. Idle = i /\ Done = [i EXCEPT !.pc = "done"]
  BY DEF Idle, Done
<1>3. "done" \in Steps
  BY DEF Steps
<1> QED
  BY <1>1, <1>2, <1>3

LEMMA SessionInvInit == SessionInit => SessionInv
<1> SUFFICES ASSUME SessionInit PROVE SessionInv
  OBVIOUS
<1>1. /\ token = Null /\ me = Null /\ loading = FALSE /\ failed = FALSE /\ apiToken = Null
      /\ form = Null /\ view = Drawn /\ stale = FALSE /\ again = FALSE
      /\ calls = [l \in Logins |-> Idle] /\ roleOf \in [Accounts -> AccountRoles]
  BY DEF SessionInit
<1>2. \A l \in Logins : calls[l] = Idle /\ calls[l].pc = "idle" /\ calls[l].with = Null
  BY <1>1 DEF Idle
<1>3. InProgress = {}
  BY <1>2 DEF InProgress
<1>4. SessionTypes
  BY <1>1, DrawnTyped, IdleTyped DEF SessionTypes, LoginTypes
<1>5. CarriesItsOwn
  BY <1>2 DEF CarriesItsOwn
<1>6. FramesTell
  BY <1>1 DEF FramesTell, Drawn
<1>7. OneAtATime
  BY <1>1, <1>2, <1>3 DEF OneAtATime
<1>8. SessionIsSent
  BY <1>1 DEF SessionIsSent
<1> QED
  BY <1>4, <1>5, <1>6, <1>7, <1>8 DEF SessionInv

LEMMA FrameKeeps == SessionInv /\ Frame => SessionInv'
<1> SUFFICES ASSUME SessionInv, Frame PROVE SessionInv'
  OBVIOUS
<1>1. /\ view' = Drawn /\ stale' = FALSE
      /\ UNCHANGED <<token, me, loading, failed, apiToken, calls, form, roleOf, again>>
  BY DEF Frame, auth
<1>2. SessionTypes'
  BY <1>1, DrawnTyped DEF SessionInv, SessionTypes, LoginTypes
<1>3. CarriesItsOwn' /\ SessionIsSent'
  BY <1>1 DEF SessionInv, CarriesItsOwn, SessionIsSent, InProgress
<1>4. Drawn' = Drawn
  BY <1>1 DEF Drawn, HasRole
<1>5. FramesTell'
  BY <1>1, <1>4 DEF FramesTell, Drawn
<1>6. OneAtATime'
  BY <1>1 DEF SessionInv, OneAtATime, InProgress, Drawn
<1> QED
  BY <1>2, <1>3, <1>5, <1>6 DEF SessionInv

LEMMA TypingKeeps == ASSUME SessionInv, NEW a \in Accounts, Type(a) PROVE SessionInv'
<1>1. /\ form' = a /\ stale' = TRUE
      /\ UNCHANGED <<token, me, loading, failed, apiToken, calls, view, roleOf, again>>
  BY DEF Type, auth
<1>2. SessionTypes'
  BY <1>1 DEF SessionInv, SessionTypes, LoginTypes
<1>3. CarriesItsOwn' /\ SessionIsSent' /\ OneAtATime'
  BY <1>1 DEF SessionInv, CarriesItsOwn, SessionIsSent, OneAtATime, InProgress
<1>4. FramesTell'
  BY <1>1, NullIsNoToken DEF SessionInv, FramesTell
<1> QED
  BY <1>2, <1>3, <1>4 DEF SessionInv

LEMMA RoleChangeKeeps == ASSUME SessionInv, NEW a \in Accounts, ChangeRole(a) PROVE SessionInv'
<1>1. /\ UNCHANGED <<token, me, loading, failed, apiToken, calls, form, view, stale, again>>
      /\ roleOf' \in [Accounts -> AccountRoles]
  BY DEF ChangeRole, auth, SessionInv, SessionTypes
<1>2. SessionTypes'
  BY <1>1 DEF SessionInv, SessionTypes, LoginTypes
<1>3. CarriesItsOwn' /\ SessionIsSent' /\ OneAtATime'
  BY <1>1 DEF SessionInv, CarriesItsOwn, SessionIsSent, OneAtATime, InProgress
<1>4. FramesTell'
  BY <1>1 DEF SessionInv, FramesTell, InProgress, Drawn, HasRole
<1> QED
  BY <1>2, <1>3, <1>4 DEF SessionInv

LEMMA SubmitKeeps == ASSUME SessionInv, NEW l \in Logins, Submit(l) PROVE SessionInv'
<1> PICK c : c = [Idle EXCEPT !.pc = "login", !.account = form]
  OBVIOUS
<1>1. /\ view.canSubmit /\ calls[l].pc = "idle" /\ Becomes(l, c)
      /\ loading' = TRUE /\ failed' = FALSE /\ stale' = TRUE
      /\ again' = (InProgress # {} \/ token # Null)
      /\ UNCHANGED <<token, me, apiToken, form, view, roleOf>>
  BY DEF Submit, Becomes
<1>2. form \in Accounts /\ view.page = "login"
  BY <1>1 DEF SessionInv, SessionTypes, FramesTell
<1>3. /\ c \in [pc: Steps, account: Accounts \cup {Null}, with: SessionToken \cup {Null}]
      /\ c.pc = "login" /\ c.account \in Accounts /\ c.with = Null
  BY <1>2 DEF Idle, Steps
<1>4. /\ LoginTypes' /\ calls'[l] = c
      /\ \A k \in Logins : k # l => calls'[k] = calls[k]
  <2>1. LoginTypes /\ Becomes(l, c)
    BY <1>1 DEF SessionInv, SessionTypes
  <2>2. c \in [pc: Steps, account: Accounts \cup {Null}, with: SessionToken \cup {Null}]
    BY <1>3
  <2> QED
    BY <2>1, <2>2, OneLoginMoves
<1>5. SessionTypes'
  BY <1>1, <1>4 DEF SessionInv, SessionTypes
<1>6. CarriesItsOwn'
  BY <1>3, <1>4 DEF SessionInv, CarriesItsOwn
<1>7. InProgress' = InProgress \cup {l}
  BY <1>1, <1>3, <1>4 DEF InProgress
<1>8. FramesTell'
  BY <1>1, <1>7 DEF SessionInv, FramesTell
<1>9. OneAtATime'
  <2> SUFFICES ASSUME ~again' PROVE OneAtATime'
    BY DEF OneAtATime
  <2>1. InProgress = {} /\ token = Null /\ token' = Null /\ InProgress' = {l}
    BY <1>1, <1>7
  <2>2. \A k \in Logins : calls'[k].pc \in {"login", "me"} => k = l
    BY <2>1 DEF InProgress
  <2> QED
    BY <1>1, <1>2, <1>3, <1>4, <2>1, <2>2 DEF OneAtATime
<1>10. SessionIsSent'
  BY <1>1, <1>7 DEF SessionInv, SessionIsSent
<1> QED
  BY <1>5, <1>6, <1>8, <1>9, <1>10 DEF SessionInv

LEMMA LoginAnsweredKeeps == ASSUME SessionInv, NEW l \in Logins, LoginAnswered(l) PROVE SessionInv'
<1>1. calls[l].pc = "login" /\ calls[l].account \in Accounts
  BY DEF LoginAnswered, SessionInv, CarriesItsOwn
<1> PICK t : t = [user |-> calls[l].account, role |-> roleOf[calls[l].account]]
  OBVIOUS
<1>2. t \in SessionToken /\ t # Null
  BY <1>1, NullIsNoToken DEF SessionToken, SessionInv, SessionTypes
<1> PICK c : c = [calls[l] EXCEPT !.pc = "me", !.with = t]
  OBVIOUS
<1>3. /\ apiToken' = t /\ token' = t /\ Becomes(l, c)
      /\ UNCHANGED <<me, loading, failed, form, view, stale, roleOf, again>>
  <2>1. /\ apiToken' = t /\ token' = t
        /\ calls' = [calls EXCEPT ![l].pc = "me", ![l].with = t]
        /\ UNCHANGED <<me, loading, failed, form, view, stale, roleOf, again>>
    BY DEF LoginAnswered
  <2> QED
    BY <2>1 DEF Becomes, SessionInv, SessionTypes, LoginTypes
<1>4. /\ c \in [pc: Steps, account: Accounts \cup {Null}, with: SessionToken \cup {Null}]
      /\ c.pc = "me" /\ c.with = t
  BY <1>2 DEF SessionInv, SessionTypes, LoginTypes, Steps
<1>5. /\ LoginTypes' /\ calls'[l] = c
      /\ \A k \in Logins : k # l => calls'[k] = calls[k]
  BY <1>3, <1>4, OneLoginMoves DEF SessionInv, SessionTypes
<1>6. SessionTypes'
  BY <1>2, <1>3, <1>5 DEF SessionInv, SessionTypes
<1>7. CarriesItsOwn'
  BY <1>2, <1>4, <1>5 DEF SessionInv, CarriesItsOwn
<1>8. InProgress' = InProgress /\ l \in InProgress
  <2>1. \A k \in Logins : calls'[k].pc \in {"login", "me"} <=> calls[k].pc \in {"login", "me"}
    BY <1>1, <1>4, <1>5
  <2> QED
    BY <1>1, <2>1 DEF InProgress
<1>9. FramesTell'
  BY <1>3, <1>8 DEF SessionInv, FramesTell
<1>10. OneAtATime'
  <2> SUFFICES ASSUME ~again' PROVE OneAtATime'
    BY DEF OneAtATime
  <2>1. \A k \in InProgress : k = l
    BY <1>3, <1>8 DEF SessionInv, OneAtATime
  <2>2. \A k \in Logins : calls'[k].pc \in {"login", "me"} => k = l
    BY <2>1, <1>8 DEF InProgress
  <2> QED
    BY <1>3, <1>4, <1>5, <1>8, <2>1, <2>2 DEF OneAtATime
<1>11. SessionIsSent'
  BY <1>3, <1>8 DEF SessionInv, SessionIsSent
<1> QED
  BY <1>6, <1>7, <1>9, <1>10, <1>11 DEF SessionInv

(* The end of a login, answered or failed.                                 *)
LEMMA LoginEndsKeeps ==
    ASSUME SessionInv, NEW l \in Logins, MeAnswered(l) \/ LoginFailed(l)
    PROVE  SessionInv'
<1>1. /\ Becomes(l, Done) /\ loading' = FALSE /\ stale' = TRUE
      /\ UNCHANGED <<apiToken, form, view, roleOf, again>>
      /\ calls[l].pc \in {"login", "me"}
      /\ \/ calls[l].pc = "me" /\ token' = token /\ me' = calls[l].with /\ failed' = failed
         \/ token' = Null /\ me' = Null /\ failed' = TRUE
  BY DEF MeAnswered, LoginFailed, Becomes
<1>2. Done \in [pc: Steps, account: Accounts \cup {Null}, with: SessionToken \cup {Null}]
      /\ Done.pc = "done" /\ Done.with = Null
  BY IdleTyped
<1>3. /\ LoginTypes' /\ calls'[l] = Done
      /\ \A k \in Logins : k # l => calls'[k] = calls[k]
  BY <1>1, <1>2, OneLoginMoves DEF SessionInv, SessionTypes
<1>4. SessionTypes'
  <2>1. calls[l].with \in SessionToken \cup {Null}
    BY DEF SessionInv, SessionTypes, LoginTypes
  <2> QED
    BY <1>1, <1>3, <2>1 DEF SessionInv, SessionTypes
<1>5. CarriesItsOwn'
  BY <1>2, <1>3 DEF SessionInv, CarriesItsOwn
<1>6. InProgress' = InProgress \ {l} /\ l \in InProgress
  BY <1>1, <1>2, <1>3 DEF InProgress
<1>7. FramesTell'
  BY <1>1 DEF SessionInv, FramesTell
<1>8. OneAtATime'
  <2> SUFFICES ASSUME ~again' PROVE OneAtATime'
    BY DEF OneAtATime
  <2>1. InProgress' = {}
    BY <1>1, <1>6 DEF SessionInv, OneAtATime
  <2>2. \A k \in Logins : calls'[k].pc \notin {"login", "me"}
    BY <2>1 DEF InProgress
  <2>3. token' # Null => me' = token'
    BY <1>1 DEF SessionInv, OneAtATime
  <2> QED
    BY <2>1, <2>2, <2>3 DEF OneAtATime
<1>9. SessionIsSent'
  BY <1>1 DEF SessionInv, SessionIsSent
<1> QED
  BY <1>4, <1>5, <1>7, <1>8, <1>9 DEF SessionInv

LEMMA LogoutKeeps == SessionInv /\ Logout => SessionInv'
<1> SUFFICES ASSUME SessionInv, Logout PROVE SessionInv'
  OBVIOUS
<1>1. /\ view.page = "home" /\ token' = Null /\ me' = Null /\ apiToken' = Null /\ stale' = TRUE
      /\ UNCHANGED <<loading, failed, calls, form, view, roleOf, again>>
  BY DEF Logout
<1>2. SessionTypes' /\ CarriesItsOwn'
  BY <1>1 DEF SessionInv, SessionTypes, LoginTypes, CarriesItsOwn
<1>3. InProgress' = InProgress
  BY <1>1 DEF InProgress
<1>4. FramesTell'
  BY <1>1 DEF SessionInv, FramesTell
<1>5. OneAtATime'
  BY <1>1, <1>3 DEF SessionInv, OneAtATime
<1>6. SessionIsSent'
  BY <1>1, <1>3 DEF SessionInv, SessionIsSent
<1> QED
  BY <1>2, <1>4, <1>5, <1>6 DEF SessionInv

LEMMA SessionInvKept == SessionInv /\ [SessionNext]_svars => SessionInv'
<1> SUFFICES ASSUME SessionInv, [SessionNext]_svars PROVE SessionInv'
  OBVIOUS
<1>1. CASE UNCHANGED svars
  <2>1. UNCHANGED <<token, me, loading, failed, apiToken, calls, form, view, stale, roleOf, again>>
    BY <1>1 DEF svars, auth
  <2> QED
    BY <2>1 DEF SessionInv, SessionTypes, LoginTypes, CarriesItsOwn, FramesTell, OneAtATime,
                SessionIsSent, InProgress, Drawn, HasRole
<1> QED
  BY <1>1, FrameKeeps, LogoutKeeps, TypingKeeps, RoleChangeKeeps, SubmitKeeps, LoginAnsweredKeeps,
     LoginEndsKeeps DEF SessionNext, LoginStep

LEMMA SessionInvariant == SessionSpec => []SessionInv
  BY SessionInvInit, SessionInvKept, PTL DEF SessionSpec

LEMMA SessionTypesFollow == SessionInv => SessionTypeOK
  BY DEF SessionInv, SessionTypes, LoginTypes, CarriesItsOwn, SessionTypeOK, Steps

(* However logins, failures and logouts overlap, requests carry the token  *)
(* of the session AuthState has, and the spinner means an answer is to     *)
(* come.  The tabs offer what the server grants once all is answered and   *)
(* drawn, unless logins were submitted on top of each other: then they may *)
(* show the rights of another login (state/auth_state.dart,                *)
(* api/api_client.dart).                                                   *)
THEOREM TheSessionIsOne == SessionSpec => []SessionIsOne
<1>1. SessionInv => SessionIsOne
  <2> SUFFICES ASSUME SessionInv PROVE SessionIsOne
    OBVIOUS
  <2>1. SessionIsSent
    BY DEF SessionInv
  <2>2. OfferedIsGranted
    <3> SUFFICES ASSUME InProgress = {}, ~stale, ~again
                 PROVE  /\ view.page = "home" <=> token # Null
                        /\ view.page = "home" =>
                              /\ me = apiToken
                              /\ view.canUpload <=> apiToken.role \in {"uploader", "admin"}
                              /\ view.canEdit   <=> apiToken.role \in {"editor", "admin"}
      BY DEF OfferedIsGranted
    <3>1. view = Drawn /\ (token # Null => me = token /\ apiToken = token)
      BY DEF SessionInv, FramesTell, OneAtATime, SessionIsSent
    <3>2. view.page = "home" <=> token # Null
      BY <3>1 DEF Drawn
    <3>3. /\ view.canUpload <=> token # Null /\ HasRole({"uploader", "admin"})
          /\ view.canEdit <=> token # Null /\ HasRole({"editor", "admin"})
      BY <3>1 DEF Drawn
    <3> QED
      BY <3>1, <3>2, <3>3 DEF HasRole
  <2> QED
    BY <2>1, <2>2 DEF SessionIsOne
<1> QED
  BY <1>1, SessionInvariant, PTL

-----------------------------------------------------------------------------
(* Whichever part of MCSettle runs, the others stand still, and both keep  *)
(* their invariants.                                                       *)
LEMMA PartsKeepTheirs == GateInv /\ SessionInv /\ [SettleNext]_settlevars => (GateInv /\ SessionInv)'
<1> SUFFICES ASSUME GateInv, SessionInv, [SettleNext]_settlevars PROVE GateInv' /\ SessionInv'
  OBVIOUS
<1>1. [GNext]_gvars /\ [SessionNext]_svars
  BY DEF SettleNext, settlevars
<1> QED
  BY <1>1, NextGateInv, SessionInvKept

(* What the run of the three checks of its types, for any constants: the   *)
(* bounds of the semaphore, the executor and the pool among them.          *)
THEOREM SettleTypesCorrect == SettleSpec => []SettleTypeOK
<1>1. SettleInit => GateInv /\ SessionInv
  BY InitGateInv, SessionInvInit DEF SettleInit
<1>2. GateInv /\ SessionInv => SettleTypeOK
  BY GateTypesFollow, SessionTypesFollow DEF SettleTypeOK
<1> QED
  BY <1>1, <1>2, PartsKeepTheirs, PTL DEF SettleSpec

(* To each of the three, a behaviour of MCSettle is one of its own, so     *)
(* that what is proved of PricingWrites, TypesenseGate and Session holds   *)
(* where the run checks it.                                                *)
THEOREM EachRunsAsItself == SettleSpec => Spec /\ GSpec /\ SessionSpec
<1>1. SettleInit => Init /\ GInit /\ SessionInit
  BY DEF SettleInit
<1>2. [SettleNext]_settlevars => [Next]_vars /\ [GNext]_gvars /\ [SessionNext]_svars
  BY DEF SettleNext, settlevars
<1> QED
  BY <1>1, <1>2, PTL DEF SettleSpec, Spec, GSpec, SessionSpec
=============================================================================
