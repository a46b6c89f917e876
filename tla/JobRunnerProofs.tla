-------------------------- MODULE JobRunnerProofs --------------------------
(***************************************************************************)
(* Theorems about StateLocks and JobRunner, for any names, askers, TTLs    *)
(* and bounds.                                                             *)
(*                                                                         *)
(* IInv strengthens mutual exclusion:                                      *)
(*   LeaseMatches   a lease that has not run out is the current lock,      *)
(*   TokensDiffer   no two askers were given the same token,               *)
(*   RunsHold       a run of a job has a token of that job's lock, and no  *)
(*                  job state ever waits in a queue.                       *)
(*                                                                         *)
(* Two more are invariants:                                                *)
(*   OwnInv         as long as nobody has died, who is in a queue waits    *)
(*                  for that lock, once, an idle job holds nothing, and so *)
(*                  a fresh lock has an owner (on top of IInv),            *)
(*   Scheduled      the jobs of the last start() of a server carry its     *)
(*                  number, and no job of it has a later one.              *)
(* CountInv, which bounds the starts, comes before all of them.            *)
(***************************************************************************)
EXTENDS JobRunner, FiniteSetTheorems, SequenceTheorems, TLAPS

LeaseMatches ==
    \A a \in Askers :
        HasToken(a) =>
            /\ lease[a].name \in Names
            /\ lease[a].token \in Tokens
            /\ lease[a].left > 0 => lock[lease[a].name] = [token |-> lease[a].token,
                                                          left |-> lease[a].left]

TokensDiffer ==
    \A a, b \in Askers :
        HasToken(a) /\ HasToken(b) /\ lease[a].token = lease[b].token => a = b

RunsHold ==
    /\ \A r \in JobStates : jobState[r] = "running" => HasToken(r) /\ lease[r].name = r[1]
    /\ \A n \in Names : \A i \in DOMAIN queue[n] : queue[n][i].asker \notin JobStates

IInv == JobsTypeOK /\ LeaseMatches /\ TokensDiffer /\ RunsHold

\* The starts made and under way stay in their bound.
CountInv ==
    /\ starting \in [Servers -> Nat]
    /\ starts \in [Servers -> Nat]
    /\ \A s \in Servers : starts[s] + starting[s] <= MaxStarts

\* The steps of the runners.
RunnerStep ==
    \/ \E s \in Servers : BeginStart(s) \/ FinishStart(s) \/ StartFails(s) \/ Stop(s)
    \/ \E r \in JobStates : Skip(r) \/ BeginRun(r) \/ EndRun(r)

-----------------------------------------------------------------------------
(* Tokens and queues.                                                      *)

\* There are more tokens than places for one: NewToken is one that nothing holds.
LEMMA NewTokenIsNew ==
    ASSUME TypeOK
    PROVE  NewToken \in Tokens /\ NewToken \notin TokensInUse
<1> DEFINE f == [x \in Names \cup Askers |-> IF x \in Names THEN lock[x].token ELSE lease[x].token]
<1>1. f \in Surjection(Names \cup Askers, TokensInUse)
  <2>1. f \in [Names \cup Askers -> TokensInUse]
    BY DEF TokensInUse
  <2>2. \A t \in TokensInUse : \E x \in Names \cup Askers : f[x] = t
    BY LocksAssumption DEF TokensInUse
  <2> QED
    BY <2>1, <2>2 DEF Surjection
<1>2. IsFiniteSet(Names \cup Askers)
  BY LocksAssumption, FS_Union
<1>3. IsFiniteSet(TokensInUse) /\ Cardinality(TokensInUse) <= Cardinality(Names \cup Askers)
  BY <1>1, <1>2, FS_Surjection
<1>4. ~ (Tokens \subseteq TokensInUse)
  <2> SUFFICES ASSUME Tokens \subseteq TokensInUse PROVE FALSE
    OBVIOUS
  <2>1. Cardinality(Tokens) <= Cardinality(TokensInUse)
    BY <1>3, FS_Subset
  <2>2. /\ Cardinality(Tokens) \in Nat
        /\ Cardinality(TokensInUse) \in Nat
        /\ Cardinality(Names \cup Askers) \in Nat
    BY <1>2, <1>3, LocksAssumption, FS_CardinalityType
  <2> QED
    BY <1>3, <2>1, <2>2, LocksAssumption
<1> QED
  BY <1>4 DEF NewToken

\* Removing one element of a sequence moves those behind it one place forward.
LEMMA RemoveAtIndex ==
    ASSUME NEW S, NEW s \in Seq(S), NEW i \in DOMAIN s
    PROVE  /\ RemoveAt(s, i) \in Seq(S)
           /\ DOMAIN RemoveAt(s, i) = 1 .. Len(s) - 1
           /\ \A k \in 1 .. Len(s) - 1 :
                 RemoveAt(s, i)[k] = s[IF k < i THEN k ELSE k + 1]
<1> DEFINE p == SubSeq(s, 1, i - 1)
           q == SubSeq(s, i + 1, Len(s))
<1>0. /\ Len(s) \in Nat /\ DOMAIN s = 1 .. Len(s)
      /\ i \in 1 .. Len(s)
  OBVIOUS
<1>1. /\ p \in Seq(S) /\ Len(p) = i - 1
      /\ \A k \in 1 .. i - 1 : p[k] = s[k]
  OBVIOUS
<1>2. /\ q \in Seq(S) /\ Len(q) = Len(s) - i
      /\ \A k \in 1 .. Len(s) - i : q[k] = s[i + k]
  OBVIOUS
<1>3. RemoveAt(s, i) = p \o q
  BY DEF RemoveAt
<1> HIDE DEF p, q
<1>4. /\ p \o q \in Seq(S) /\ Len(p \o q) = Len(s) - 1
      /\ \A k \in 1 .. Len(s) - 1 :
            (p \o q)[k] = IF k <= i - 1 THEN p[k] ELSE q[k - (i - 1)]
  <2>1. /\ p \o q \in Seq(S) /\ Len(p \o q) = Len(p) + Len(q)
        /\ \A k \in 1 .. Len(p) + Len(q) :
              (p \o q)[k] = IF k <= Len(p) THEN p[k] ELSE q[k - Len(p)]
    BY <1>1, <1>2, ConcatProperties
  <2>2. Len(p) = i - 1 /\ Len(p) + Len(q) = Len(s) - 1
    BY <1>0, <1>1, <1>2
  <2>3. p \o q \in Seq(S) /\ Len(p \o q) = Len(s) - 1
    BY <2>1, <2>2
  <2>4. ASSUME NEW k \in 1 .. Len(s) - 1
        PROVE  (p \o q)[k] = IF k <= i - 1 THEN p[k] ELSE q[k - (i - 1)]
    <3>1. k \in 1 .. Len(p) + Len(q)
      BY <2>2
    <3> QED
      BY <2>1, <2>2, <3>1
  <2> QED
    BY <2>3, <2>4
<1>5. ASSUME NEW k \in 1 .. Len(s) - 1
      PROVE  (p \o q)[k] = s[IF k < i THEN k ELSE k + 1]
  <2>1. CASE k < i
    <3>1. (p \o q)[k] = p[k] /\ p[k] = s[k]
      BY <1>0, <1>1, <1>4, <2>1
    <3> QED
      BY <2>1, <3>1
  <2>2. CASE ~(k < i)
    <3>0. /\ ~(k <= i - 1)
          /\ k - (i - 1) \in 1 .. Len(s) - i /\ i + (k - (i - 1)) = k + 1
      BY <1>0, <2>2
    <3>1. (p \o q)[k] = q[k - (i - 1)]
      BY <1>4, <3>0
    <3>2. q[k - (i - 1)] = s[k + 1]
      BY <1>2, <3>0
    <3> QED
      BY <2>2, <3>1, <3>2
  <2> QED
    BY <2>1, <2>2
<1>6. DOMAIN (p \o q) = 1 .. Len(s) - 1
  BY <1>4
<1> QED
  BY <1>3, <1>4, <1>5, <1>6

\* What is left is some of what there was.
LEMMA RemoveAtSubset ==
    ASSUME NEW S, NEW s \in Seq(S), NEW i \in DOMAIN s
    PROVE  /\ RemoveAt(s, i) \in Seq(S)
           /\ \A k \in DOMAIN RemoveAt(s, i) : \E m \in DOMAIN s : RemoveAt(s, i)[k] = s[m]
<1>1. DOMAIN s = 1 .. Len(s) /\ Len(s) \in Nat /\ i \in 1 .. Len(s)
  OBVIOUS
<1>2. \A k \in 1 .. Len(s) - 1 : (IF k < i THEN k ELSE k + 1) \in DOMAIN s
  BY <1>1
<1> DEFINE rest == RemoveAt(s, i)
<1>3. /\ rest \in Seq(S) /\ DOMAIN rest = 1 .. Len(s) - 1
      /\ \A k \in 1 .. Len(s) - 1 : rest[k] = s[IF k < i THEN k ELSE k + 1]
  BY RemoveAtIndex
<1> HIDE DEF rest
<1>4. \A k \in DOMAIN rest : \E m \in DOMAIN s : rest[k] = s[m]
  BY <1>2, <1>3
<1> QED
  BY <1>3, <1>4 DEF rest

\* Changing each element of a queue keeps it a queue.
LEMMA MapType ==
    ASSUME NEW S, NEW T, NEW s \in Seq(S), NEW g, g = [i \in DOMAIN s |-> g[i]],
           \A i \in DOMAIN s : g[i] \in T
    PROVE  g \in Seq(T)
<1>1. DOMAIN s = 1 .. Len(s) /\ Len(s) \in Nat
  OBVIOUS
<1>2. g \in [1 .. Len(s) -> T]
  BY <1>1
<1> QED
  BY <1>1, <1>2, SeqDef
-----------------------------------------------------------------------------
(* The lock operations keep the part of the invariant that is about locks. *)

LockInv == TypeOK /\ LeaseMatches /\ TokensDiffer

\* Lock n goes to asker a with a new token, b gives its own token back.
GrantStep(n, ttl, a, b) ==
    /\ lock' = [lock EXCEPT ![n] = [token |-> NewToken, left |-> ttl]]
    /\ lease' = [c \in Askers |-> lease'[c]]
    /\ \A c \in Askers : lease'[c] = IF c = a THEN Given(n, NewToken, ttl)
                                     ELSE IF c = b THEN NoLease ELSE lease[c]

\* Nobody but b has a token of n that has not run out.
OnlyLeaseOf(n, b) ==
    \A c \in Askers : HasToken(c) /\ lease[c].name = n /\ lease[c].left > 0 => c = b

\* Giving asker a a new lock of name n, when every lease of n that has not run out
\* is taken back in the same step, keeps leases and locks in agreement.  Asker b
\* (a itself if nobody) gives its lease back.
LEMMA GrantKeepsLeases ==
    ASSUME LockInv,
           NEW n \in Names, NEW ttl \in 1 .. MaxTtl,
           NEW a, NEW b, OnlyLeaseOf(n, b), GrantStep(n, ttl, a, b)
    PROVE  /\ LeaseMatches' /\ TokensDiffer'
           /\ lock' \in [Names -> Lock] /\ lease' \in [Askers -> Lease]
<1> USE DEF LockInv
<1>1. NewToken \in Tokens /\ NewToken \notin TokensInUse
  BY NewTokenIsNew
<1> DEFINE t == NewToken
<1> HIDE DEF t
<1>2. /\ t \in Tokens /\ t # None
      /\ \A c \in Askers : lease[c].token # t
      /\ \A m \in Names : lock[m].token # t
  BY <1>1, LocksAssumption DEF t, TokensInUse
<1>3. /\ lock' = [lock EXCEPT ![n] = [token |-> t, left |-> ttl]]
      /\ lease' = [c \in Askers |-> lease'[c]]
      /\ \A c \in Askers : lease'[c] = IF c = a THEN Given(n, t, ttl)
                                       ELSE IF c = b THEN NoLease ELSE lease[c]
  BY DEF t, GrantStep
<1>4. lock' \in [Names -> Lock] /\ lease' \in [Askers -> Lease]
  <2>1. [token |-> t, left |-> ttl] \in Lock /\ Given(n, t, ttl) \in Lease /\ NoLease \in Lease
    BY <1>2, LocksAssumption DEF Lock, Lease, Given, NoLease
  <2> QED
    BY <1>3, <2>1 DEF TypeOK
<1>5. LeaseMatches'
  <2> SUFFICES ASSUME NEW c \in Askers, HasToken(c)'
               PROVE  /\ lease'[c].name \in Names
                      /\ lease'[c].token \in Tokens
                      /\ lease'[c].left > 0 =>
                            lock'[lease'[c].name] = [token |-> lease'[c].token, left |-> lease'[c].left]
    BY DEF LeaseMatches
  <2>1. CASE c = a
    BY <1>2, <1>3, <2>1 DEF Given, TypeOK
  <2>2. CASE c # a /\ c # b
    <3>1. lease'[c] = lease[c] /\ HasToken(c)
      BY <1>3, <2>2 DEF HasToken
    <3>2. lease[c].left > 0 => lease[c].name # n
      BY <2>2, <3>1 DEF OnlyLeaseOf
    <3> QED
      BY <1>3, <3>1, <3>2 DEF LeaseMatches, TypeOK
  <2>3. c # a => c # b
    BY <1>3 DEF HasToken, NoLease
  <2> QED
    BY <2>1, <2>2, <2>3
<1>6. TokensDiffer'
  <2> SUFFICES ASSUME NEW c \in Askers, NEW d \in Askers, HasToken(c)', HasToken(d)', c # d
               PROVE  lease'[c].token # lease'[d].token
    BY DEF TokensDiffer
  <2>1. \A e \in {c, d} : e # a => lease'[e] = lease[e] /\ HasToken(e)
    BY <1>3 DEF HasToken, NoLease
  <2>2. \A e \in {c, d} : e = a => lease'[e].token = t
    BY <1>3 DEF Given
  <2>3. CASE c = a \/ d = a
    BY <1>2, <2>1, <2>2, <2>3
  <2>4. CASE c # a /\ d # a
    BY <2>1, <2>4 DEF TokensDiffer
  <2> QED
    BY <2>3, <2>4
<1> QED
  BY <1>4, <1>5, <1>6

\* Taking back the lease of one asker disturbs nothing, as long as a lock that
\* changes has run out or was that asker's.
LEMMA TakingBackKeepsLeases ==
    ASSUME LockInv,
           NEW b \in Askers, NEW n,
           \A c \in Askers : HasToken(c) /\ lease[c].name = n /\ lease[c].left > 0 => c = b,
           \/ lock' = lock
           \/ lock' = [lock EXCEPT ![n] = NoLock],
           lease' = [lease EXCEPT ![b] = NoLease]
    PROVE  /\ LeaseMatches' /\ TokensDiffer'
           /\ lock' \in [Names -> Lock] /\ lease' \in [Askers -> Lease]
<1> USE DEF LockInv
<1>1. lock' \in [Names -> Lock] /\ lease' \in [Askers -> Lease]
  <2>1. NoLock \in Lock /\ NoLease \in Lease
    BY LocksAssumption DEF Lock, Lease, NoLock, NoLease
  <2> QED
    BY <2>1 DEF TypeOK
<1>2. \A c \in Askers : HasToken(c)' => c # b /\ lease'[c] = lease[c] /\ HasToken(c)
  BY DEF HasToken, NoLease, TypeOK
<1>3. LeaseMatches'
  <2> SUFFICES ASSUME NEW c \in Askers, HasToken(c)'
               PROVE  /\ lease'[c].name \in Names
                      /\ lease'[c].token \in Tokens
                      /\ lease'[c].left > 0 =>
                            lock'[lease'[c].name] = [token |-> lease'[c].token, left |-> lease'[c].left]
    BY DEF LeaseMatches
  <2>1. lease'[c] = lease[c] /\ HasToken(c) /\ c # b
    BY <1>2
  <2>2. lease[c].left > 0 => lease[c].name # n
    BY <2>1
  <2> QED
    BY <2>1, <2>2 DEF LeaseMatches, TypeOK
<1>4. TokensDiffer'
  BY <1>2 DEF TokensDiffer
<1> QED
  BY <1>1, <1>3, <1>4

\* The leases of a lock that is not fresh have run out.
LEMMA ExpiredLockHasNoLease ==
    ASSUME LockInv, NEW n \in Names, ~Fresh(n),
           NEW c \in Askers, HasToken(c), lease[c].name = n, lease[c].left > 0
    PROVE  FALSE
<1>1. lock[n] = [token |-> lease[c].token, left |-> lease[c].left]
  BY DEF LockInv, LeaseMatches
<1>2. lock[n].left = lease[c].left
  BY <1>1
<1> QED
  BY <1>2 DEF Fresh

LEMMA AcquireFreeKeepsLocks ==
    ASSUME LockInv, NEW a \in Askers, NEW n \in Names, NEW ttl \in 1 .. MaxTtl,
           AcquireFree(a, n, ttl)
    PROVE  /\ LeaseMatches' /\ TokensDiffer'
           /\ lock' \in [Names -> Lock] /\ lease' \in [Askers -> Lease]
<1>1. OnlyLeaseOf(n, a)
  BY ExpiredLockHasNoLease DEF AcquireFree, OnlyLeaseOf
<1>2. GrantStep(n, ttl, a, a)
  BY DEF AcquireFree, LockInv, TypeOK, GrantStep
<1> QED
  BY <1>1, <1>2, GrantKeepsLeases

\* The head of a queue is a waiter, and so is the rest.
LEMMA QueueHead ==
    ASSUME TypeOK, NEW n \in Names, queue[n] # <<>>
    PROVE  /\ Head(queue[n]) \in Waiter
           /\ Head(queue[n]) = queue[n][1] /\ 1 \in DOMAIN queue[n]
           /\ Tail(queue[n]) \in Seq(Waiter)
           /\ \A i \in DOMAIN Tail(queue[n]) :
                 \E m \in DOMAIN queue[n] : Tail(queue[n])[i] = queue[n][m]
<1>1. queue[n] \in Seq(Waiter)
  BY DEF TypeOK
<1> QED
  BY <1>1

LEMMA ReleaseKeepsLocks ==
    ASSUME LockInv, NEW b \in Askers, HasToken(b), ReleaseBy(b)
    PROVE  /\ LeaseMatches' /\ TokensDiffer'
           /\ lock' \in [Names -> Lock] /\ lease' \in [Askers -> Lease]
           /\ queue' \in [Names -> Seq(Waiter)]
<1> DEFINE n == lease[b].name
           holds == Fresh(n) /\ lock[n].token = lease[b].token
<1>1. n \in Names
  BY DEF LockInv, LeaseMatches
<1>2. CASE holds
  <2>1. GrantNextWaiter(n, b)
    BY <1>2 DEF ReleaseBy
  <2>2. \A c \in Askers : HasToken(c) /\ lease[c].name = n /\ lease[c].left > 0 => c = b
    <3> SUFFICES ASSUME NEW c \in Askers, HasToken(c), lease[c].name = n, lease[c].left > 0
                 PROVE  c = b
      OBVIOUS
    <3>1. lock[n] = [token |-> lease[c].token, left |-> lease[c].left]
      BY DEF LockInv, LeaseMatches
    <3>2. lock[n].token = lease[c].token
      BY <3>1
    <3> QED
      BY <1>2, <3>2 DEF LockInv, TokensDiffer
  <2>3. CASE queue[n] = <<>>
    <3>1. /\ lock' = [lock EXCEPT ![n] = NoLock]
          /\ lease' = [lease EXCEPT ![b] = NoLease] /\ queue' = queue
      BY <2>1, <2>3 DEF GrantNextWaiter
    <3> HIDE DEF n
    <3> QED
      BY <2>2, <3>1, TakingBackKeepsLeases DEF LockInv, TypeOK
  <2>4. CASE queue[n] # <<>>
    <3> DEFINE waiter == Head(queue[n])
    <3>1. GrantStep(n, waiter.ttl, waiter.asker, b) /\ queue' = [queue EXCEPT ![n] = Tail(@)]
      BY <2>1, <2>4 DEF GrantNextWaiter, GrantStep
    <3>2. waiter \in Waiter /\ Tail(queue[n]) \in Seq(Waiter)
      BY <1>1, <2>4, QueueHead DEF LockInv
    <3>3. waiter.ttl \in 1 .. MaxTtl
      BY <3>2 DEF Waiter
    <3>4. queue' \in [Names -> Seq(Waiter)]
      BY <3>1, <3>2 DEF LockInv, TypeOK
    <3>5. OnlyLeaseOf(n, b)
      BY <2>2 DEF OnlyLeaseOf
    <3> HIDE DEF n, waiter
    <3> QED
      BY <1>1, <3>1, <3>3, <3>4, <3>5, GrantKeepsLeases
  <2> QED
    BY <2>3, <2>4
<1>3. CASE ~holds
  <2>1. /\ lock' = IF Fresh(n) THEN lock ELSE [lock EXCEPT ![n] = NoLock]
        /\ lease' = [lease EXCEPT ![b] = NoLease] /\ queue' = queue
    BY <1>3 DEF ReleaseBy
  <2> HIDE DEF n, holds
  <2>2. CASE Fresh(n)
    <3>1. \A c \in Askers : HasToken(c) /\ lease[c].name = None /\ lease[c].left > 0 => c = b
      BY LocksAssumption DEF LockInv, LeaseMatches
    <3> QED
      BY <2>1, <2>2, <3>1, TakingBackKeepsLeases DEF LockInv, TypeOK
  <2>3. CASE ~Fresh(n)
    <3>1. \A c \in Askers : HasToken(c) /\ lease[c].name = n /\ lease[c].left > 0 => c = b
      BY <1>1, <2>3, ExpiredLockHasNoLease
    <3> QED
      BY <2>1, <2>3, <3>1, TakingBackKeepsLeases DEF LockInv, TypeOK
  <2> QED
    BY <2>2, <2>3
<1> QED
  BY <1>2, <1>3

\* A release leaves the leases of the other job states alone and adds nobody to
\* a queue.
LEMMA ReleaseKeepsRuns ==
    ASSUME IInv, NEW b \in Askers, HasToken(b), ReleaseBy(b)
    PROVE  /\ \A r \in JobStates : r # b => lease'[r] = lease[r]
           /\ \A n \in Names : \A i \in DOMAIN queue'[n] : queue'[n][i].asker \notin JobStates
<1> DEFINE n == lease[b].name
           waiter == Head(queue[n])
<1>1. n \in Names /\ TypeOK /\ LockInv /\ JobStates \subseteq Askers
  BY JobsAssumption DEF IInv, LeaseMatches, LockInv, JobsTypeOK
<1>2. CASE queue' = queue /\ lease' = [lease EXCEPT ![b] = NoLease]
  BY <1>1, <1>2 DEF IInv, RunsHold, TypeOK
<1>3. CASE queue[n] # <<>> /\ GrantNextWaiter(n, b)
  <2>1. /\ queue' = [queue EXCEPT ![n] = Tail(queue[n])]
        /\ \A c \in Askers : c # waiter.asker /\ c # b => lease'[c] = lease[c]
    BY <1>3 DEF GrantNextWaiter
  <2>2. /\ waiter = queue[n][1] /\ 1 \in DOMAIN queue[n]
        /\ \A i \in DOMAIN Tail(queue[n]) :
              \E m \in DOMAIN queue[n] : Tail(queue[n])[i] = queue[n][m]
    BY <1>1, <1>3, QueueHead
  <2> HIDE DEF n, waiter
  <2>3. waiter.asker \notin JobStates
    BY <1>1, <2>2 DEF IInv, RunsHold
  <2>4. ASSUME NEW m \in Names, NEW i \in DOMAIN queue'[m]
        PROVE  queue'[m][i].asker \notin JobStates
    <3>1. CASE m = n
      <4>1. queue'[m] = Tail(queue[n])
        BY <1>1, <2>1, <3>1 DEF TypeOK
      <4> QED
        BY <1>1, <2>2, <4>1 DEF IInv, RunsHold
    <3>2. CASE m # n
      <4>1. queue'[m] = queue[m]
        BY <1>1, <2>1, <3>2 DEF TypeOK
      <4> QED
        BY <4>1 DEF IInv, RunsHold
    <3> QED
      BY <3>1, <3>2
  <2> QED
    BY <1>1, <2>1, <2>3, <2>4
<1> QED
  BY <1>2, <1>3 DEF ReleaseBy, GrantNextWaiter

-----------------------------------------------------------------------------
(* The invariant is inductive.                                             *)

LEMMA CountHolds == Spec => []CountInv
<1>1. Init => CountInv
  BY JobsAssumption DEF Init, CountInv
<1>2. CountInv /\ [Next]_vars => CountInv'
  <2> SUFFICES ASSUME CountInv, [Next]_vars PROVE CountInv'
    OBVIOUS
  <2>1. CASE UNCHANGED <<starting, starts>>
    BY <2>1 DEF CountInv
  <2>2. ASSUME NEW s \in Servers, BeginStart(s) PROVE CountInv'
    BY <2>2, JobsAssumption DEF BeginStart, CountInv
  <2>3. ASSUME NEW s \in Servers, FinishStart(s) PROVE CountInv'
    BY <2>3, JobsAssumption DEF FinishStart, CountInv
  <2>4. ASSUME NEW s \in Servers, StartFails(s) PROVE CountInv'
    BY <2>4, JobsAssumption DEF StartFails, CountInv
  <2>5. ASSUME NEW s \in Servers, Stop(s) PROVE UNCHANGED <<starting, starts>>
    BY <2>5 DEF Stop
  <2>6. ASSUME NEW r \in JobStates, Skip(r) \/ BeginRun(r) \/ EndRun(r)
        PROVE  UNCHANGED <<starting, starts>>
    BY <2>6 DEF Skip, BeginRun, EndRun
  <2> QED
    BY <2>1, <2>2, <2>3, <2>4, <2>5, <2>6 DEF Next, ClientStep, Time, vars, jobVars
<1> QED
  BY <1>1, <1>2, PTL DEF Spec

LEMMA InitIInv == Init => IInv
<1> SUFFICES ASSUME Init PROVE IInv
  OBVIOUS
<1> USE DEF Init, LocksInit
<1>1. TypeOK
  BY LocksAssumption DEF TypeOK, NoLock, NoLease, Lock, Lease
<1>2. JobsTypeOK
  <2>1. 0 \in 0 .. MaxStarts
    BY JobsAssumption
  <2>2. current \in [Names -> 0 .. MaxStarts]
    BY <2>1
  <2>3. jobState \in [JobStates -> {"absent", "armed", "running", "idle"}]
    OBVIOUS
  <2>4. /\ starting \in [Servers -> 0 .. MaxStarts] /\ starts \in [Servers -> 0 .. MaxStarts]
        /\ started \in [Servers -> BOOLEAN]
    BY <2>1
  <2> QED
    BY <1>1, <2>2, <2>3, <2>4 DEF JobsTypeOK
<1>3. \A a \in Askers : ~HasToken(a)
  BY DEF HasToken, NoLease
<1>4. RunsHold
  <2>1. \A r \in JobStates : jobState[r] # "running"
    OBVIOUS
  <2>2. \A n \in Names : DOMAIN queue[n] = {}
    OBVIOUS
  <2> QED
    BY <2>1, <2>2 DEF RunsHold
<1> QED
  BY <1>2, <1>3, <1>4 DEF IInv, LeaseMatches, TokensDiffer

\* A step of an asker that is not the runner.
LEMMA ClientStepKeepsIInv ==
    ASSUME IInv, NEW a \in Clients, ClientStep(a)
    PROVE  IInv'
<1>1. /\ a \in Askers /\ a \notin JobStates /\ JobStates \subseteq Askers
      /\ LockInv /\ TypeOK
      /\ UNCHANGED jobVars
  BY JobsAssumption DEF IInv, LockInv, JobsTypeOK, ClientStep
<1>2. ASSUME \A r \in JobStates : lease'[r] = lease[r],
             \A n \in Names : \A i \in DOMAIN queue'[n] : queue'[n][i].asker \notin JobStates
      PROVE  RunsHold'
  BY <1>1, <1>2 DEF IInv, RunsHold, HasToken, jobVars
<1>3. ASSUME TypeOK', LeaseMatches', TokensDiffer', RunsHold'
      PROVE  IInv'
  BY <1>1, <1>3 DEF IInv, JobsTypeOK, jobVars
<1>4. ASSUME NEW n \in Names, NEW ttl \in 1 .. MaxTtl, AcquireFree(a, n, ttl), UNCHANGED exits
      PROVE  IInv'
  <2>1. /\ LeaseMatches' /\ TokensDiffer'
        /\ lock' \in [Names -> Lock] /\ lease' \in [Askers -> Lease]
    BY <1>1, <1>4, AcquireFreeKeepsLocks
  <2>2. queue' = queue /\ \A r \in JobStates : lease'[r] = lease[r]
    BY <1>1, <1>4 DEF AcquireFree
  <2>3. RunsHold'
    BY <1>2, <2>2 DEF IInv, RunsHold
  <2> QED
    BY <1>1, <1>3, <1>4, <2>1, <2>2, <2>3 DEF TypeOK
<1>5. ASSUME NEW n \in Names, NEW ttl \in 1 .. MaxTtl, NEW wait \in 1 .. MaxWait,
             AcquireWait(a, n, ttl, wait), UNCHANGED exits
      PROVE  IInv'
  <2> DEFINE w == [asker |-> a, left |-> wait, ttl |-> ttl]
  <2>1. /\ queue' = [queue EXCEPT ![n] = Append(queue[n], w)]
        /\ lease' = [lease EXCEPT ![a] = Waiting(n)]
        /\ lock' = lock
    BY <1>5 DEF AcquireWait
  <2>2. w \in Waiter /\ w.asker = a
    BY <1>1, LocksAssumption DEF Waiter
  <2>3. queue[n] \in Seq(Waiter)
    BY <1>1 DEF TypeOK
  <2> HIDE DEF w
  <2>4. /\ Append(queue[n], w) \in Seq(Waiter)
        /\ \A i \in DOMAIN Append(queue[n], w) :
              \/ i \in DOMAIN queue[n] /\ Append(queue[n], w)[i] = queue[n][i]
              \/ Append(queue[n], w)[i] = w
    BY <2>2, <2>3
  <2>5. Waiting(n) \in Lease
    BY LocksAssumption DEF Waiting, Lease
  <2>6. TypeOK'
    BY <1>1, <1>5, <2>1, <2>4, <2>5 DEF TypeOK
  <2>7. \A c \in Askers : HasToken(c)' => lease'[c] = lease[c] /\ HasToken(c)
    BY <1>1, <2>1 DEF HasToken, Waiting, TypeOK
  <2>8. LeaseMatches' /\ TokensDiffer'
    BY <2>1, <2>7 DEF IInv, LeaseMatches, TokensDiffer
  <2>9. ASSUME NEW m \in Names, NEW i \in DOMAIN queue'[m]
        PROVE  queue'[m][i].asker \notin JobStates
    <3>1. CASE m = n
      <4>1. queue'[m] = Append(queue[n], w)
        BY <1>1, <2>1, <3>1 DEF TypeOK
      <4> QED
        BY <1>1, <2>2, <2>4, <4>1 DEF IInv, RunsHold
    <3>2. CASE m # n
      <4>1. queue'[m] = queue[m]
        BY <1>1, <2>1, <3>2 DEF TypeOK
      <4> QED
        BY <4>1 DEF IInv, RunsHold
    <3> QED
      BY <3>1, <3>2
  <2>10. \A r \in JobStates : lease'[r] = lease[r]
    BY <1>1, <2>1
  <2> QED
    BY <1>2, <1>3, <2>6, <2>8, <2>9, <2>10
<1>6. CASE Receive(a)
  <2>1. /\ lease' = [lease EXCEPT ![a].state = "held"]
        /\ lease[a].state = "answered" /\ UNCHANGED <<lock, queue, exits>>
    BY <1>6 DEF Receive
  <2>2. TypeOK'
    BY <1>1, <2>1 DEF TypeOK, Lease
  <2>3. \A c \in Askers : /\ HasToken(c)' => HasToken(c)
                          /\ lease'[c].name = lease[c].name
                          /\ lease'[c].token = lease[c].token
                          /\ lease'[c].left = lease[c].left
    BY <1>1, <2>1 DEF HasToken, TypeOK, Lease
  <2>4. LeaseMatches' /\ TokensDiffer'
    BY <2>1, <2>3 DEF IInv, LeaseMatches, TokensDiffer
  <2>5. RunsHold'
    BY <1>1, <1>2, <2>1 DEF IInv, RunsHold
  <2> QED
    BY <1>3, <2>2, <2>4, <2>5
<1>7. CASE Release(a)
  <2>1. HasToken(a) /\ ReleaseBy(a) /\ UNCHANGED exits
    BY <1>7 DEF Release, HasToken
  <2>2. /\ LeaseMatches' /\ TokensDiffer'
        /\ lock' \in [Names -> Lock] /\ lease' \in [Askers -> Lease]
        /\ queue' \in [Names -> Seq(Waiter)]
    BY <1>1, <2>1, ReleaseKeepsLocks
  <2>3. RunsHold'
    BY <1>1, <1>2, <2>1, ReleaseKeepsRuns
  <2> QED
    BY <1>1, <1>3, <2>1, <2>2, <2>3 DEF TypeOK
<1>8. CASE Exit(a)
  <2>1. /\ lease' = [lease EXCEPT ![a] = NoLease]
        /\ lock' = lock /\ exits' = exits + 1 /\ exits < MaxExits
    BY <1>8 DEF Exit
  <2>2. \A n \in Names : queue'[n] \in Seq(Waiter)
                         /\ \A i \in DOMAIN queue'[n] : /\ i \in DOMAIN queue[n]
                                                        /\ \/ queue'[n][i].asker = None
                                                           \/ queue'[n][i] = queue[n][i]
    <3> SUFFICES ASSUME NEW n \in Names
                 PROVE  /\ queue'[n] \in Seq(Waiter)
                        /\ \A i \in DOMAIN queue'[n] : /\ i \in DOMAIN queue[n]
                                                       /\ \/ queue'[n][i].asker = None
                                                          \/ queue'[n][i] = queue[n][i]
      OBVIOUS
    <3>1. queue[n] \in Seq(Waiter)
      BY <1>1 DEF TypeOK
    <3>2. queue'[n] = [i \in DOMAIN queue[n] |->
                         IF queue[n][i].asker = a THEN [queue[n][i] EXCEPT !.asker = None]
                         ELSE queue[n][i]]
      BY <1>8 DEF Exit
    <3>3. \A i \in DOMAIN queue[n] : queue[n][i] \in Waiter
      BY <3>1
    <3>4. \A i \in DOMAIN queue[n] :
             /\ queue'[n][i] \in Waiter
             /\ \/ queue'[n][i].asker = None
                \/ queue'[n][i] = queue[n][i]
      BY <3>2, <3>3 DEF Waiter
    <3>5. queue'[n] = [i \in DOMAIN queue[n] |-> queue'[n][i]]
      BY <3>2
    <3>6. queue'[n] \in Seq(Waiter)
      BY <3>1, <3>4, <3>5, MapType
    <3> QED
      BY <3>4, <3>5, <3>6
  <2>3. queue' \in [Names -> Seq(Waiter)]
    <3>1. queue' = [n \in Names |-> queue'[n]]
      BY <1>8 DEF Exit
    <3> QED
      BY <2>2, <3>1
  <2>4. TypeOK'
    BY <1>1, <2>1, <2>3, LocksAssumption DEF TypeOK, NoLease, Lease
  <2>5. \A c \in Askers : HasToken(c)' => lease'[c] = lease[c] /\ HasToken(c)
    BY <1>1, <2>1 DEF HasToken, NoLease, TypeOK
  <2>6. LeaseMatches' /\ TokensDiffer'
    BY <2>1, <2>5 DEF IInv, LeaseMatches, TokensDiffer
  <2>7. \A n \in Names : \A i \in DOMAIN queue'[n] : queue'[n][i].asker \notin JobStates
    BY <1>1, <2>2, LocksAssumption DEF IInv, RunsHold
  <2> QED
    BY <1>1, <1>2, <1>3, <2>1, <2>4, <2>6, <2>7
<1> QED
  BY <1>4, <1>5, <1>6, <1>7, <1>8 DEF ClientStep, Acquire

\* Time passes.
LEMMA TimeKeepsIInv ==
    ASSUME IInv, Time
    PROVE  IInv'
<1>1. /\ JobStates \subseteq Askers /\ TypeOK /\ UNCHANGED jobVars
  BY JobsAssumption DEF IInv, JobsTypeOK, Time
<1>2. ASSUME TypeOK', LeaseMatches', TokensDiffer', RunsHold'
      PROVE  IInv'
  BY <1>1, <1>2 DEF IInv, JobsTypeOK, jobVars
<1>3. CASE Tick
  <2>1. /\ \A k \in Nat : Less(k) \in Nat /\ (Less(k) > 0 => k > 0)
        /\ \A m \in Nat : \A k \in 0 .. m : Less(k) \in 0 .. m
    BY DEF Less
  <2>2. \A n \in Names : /\ lock'[n] = [lock[n] EXCEPT !.left = Less(lock[n].left)]
                         /\ lock[n] \in Lock
    BY <1>1, <1>3 DEF Tick, TypeOK
  <2>3. \A c \in Askers : /\ lease'[c] = [lease[c] EXCEPT !.left = Less(lease[c].left)]
                          /\ lease[c] \in Lease
    BY <1>1, <1>3 DEF Tick, TypeOK
  <2>4. \A n \in Names : lock'[n] \in Lock /\ lock'[n].token = lock[n].token
                         /\ lock'[n].left = Less(lock[n].left)
    <3>1. \A n \in Names : lock[n].left \in 0 .. MaxTtl
      BY <2>2 DEF Lock
    <3>2. \A n \in Names : Less(lock[n].left) \in 0 .. MaxTtl
      BY <2>1, <3>1, LocksAssumption
    <3> QED
      BY <2>2, <3>2 DEF Lock
  <2>5. \A c \in Askers : /\ lease'[c] \in Lease /\ lease'[c].token = lease[c].token
                          /\ lease'[c].name = lease[c].name /\ lease'[c].state = lease[c].state
                          /\ lease'[c].left = Less(lease[c].left) /\ lease[c].left \in Nat
    <3>1. \A c \in Askers : lease[c].left \in 0 .. MaxTtl
      BY <2>3 DEF Lease
    <3>2. \A c \in Askers : Less(lease[c].left) \in 0 .. MaxTtl /\ lease[c].left \in Nat
      BY <2>1, <3>1, LocksAssumption
    <3>3. ASSUME NEW c \in Askers
          PROVE  /\ lease'[c] \in Lease /\ lease'[c].token = lease[c].token
                 /\ lease'[c].name = lease[c].name /\ lease'[c].state = lease[c].state
                 /\ lease'[c].left = Less(lease[c].left)
      BY <2>3, <3>2 DEF Lease
    <3> QED
      BY <3>2, <3>3
  <2>6. \A n \in Names : queue'[n] \in Seq(Waiter)
                         /\ \A i \in DOMAIN queue'[n] : /\ i \in DOMAIN queue[n]
                                                        /\ queue'[n][i].asker = queue[n][i].asker
    <3> SUFFICES ASSUME NEW n \in Names
                 PROVE  /\ queue'[n] \in Seq(Waiter)
                        /\ \A i \in DOMAIN queue'[n] : /\ i \in DOMAIN queue[n]
                                                       /\ queue'[n][i].asker = queue[n][i].asker
      OBVIOUS
    <3>1. queue[n] \in Seq(Waiter)
      BY <1>1 DEF TypeOK
    <3>2. queue'[n] = [i \in DOMAIN queue[n] |-> [queue[n][i] EXCEPT !.left = Less(@)]]
      BY <1>3 DEF Tick
    <3>3. \A i \in DOMAIN queue[n] : queue[n][i] \in Waiter
      BY <3>1
    <3>4. \A i \in DOMAIN queue[n] : /\ queue'[n][i] \in Waiter
                                     /\ queue'[n][i].asker = queue[n][i].asker
      BY <2>1, <3>2, <3>3, LocksAssumption DEF Waiter
    <3>5. queue'[n] = [i \in DOMAIN queue[n] |-> queue'[n][i]]
      BY <3>2
    <3>6. queue'[n] \in Seq(Waiter)
      BY <3>1, <3>4, <3>5, MapType
    <3> QED
      BY <3>4, <3>5, <3>6
  <2>7. TypeOK'
    <3>1. /\ lock' = [n \in Names |-> lock'[n]] /\ queue' = [n \in Names |-> queue'[n]]
          /\ lease' = [c \in Askers |-> lease'[c]] /\ exits' = exits
      BY <1>3 DEF Tick
    <3> QED
      BY <1>1, <2>4, <2>5, <2>6, <3>1 DEF TypeOK
  <2>8. LeaseMatches'
    <3> SUFFICES ASSUME NEW c \in Askers, HasToken(c)'
                 PROVE  /\ lease'[c].name \in Names
                        /\ lease'[c].token \in Tokens
                        /\ lease'[c].left > 0 =>
                              lock'[lease'[c].name] = [token |-> lease'[c].token, left |-> lease'[c].left]
      BY DEF LeaseMatches
    <3>1. HasToken(c)
      BY <2>5 DEF HasToken
    <3>2. CASE lease[c].left > 0
      <4>1. lock[lease[c].name] = [token |-> lease[c].token, left |-> lease[c].left]
            /\ lease[c].name \in Names
        BY <3>1, <3>2 DEF IInv, LeaseMatches
      <4>2. lock'[lease[c].name] = [token |-> lease[c].token, left |-> Less(lease[c].left)]
        BY <2>2, <4>1
      <4> QED
        BY <2>5, <3>1, <4>2 DEF IInv, LeaseMatches
    <3>3. CASE ~(lease[c].left > 0)
      BY <2>1, <2>5, <3>1, <3>3 DEF IInv, LeaseMatches
    <3> QED
      BY <3>2, <3>3
  <2>9. TokensDiffer'
    BY <2>5 DEF IInv, TokensDiffer, HasToken
  <2>10. RunsHold'
    <3>1. \A r \in JobStates : jobState'[r] = "running" => HasToken(r)' /\ lease'[r].name = r[1]
      BY <1>1, <2>5 DEF IInv, RunsHold, HasToken, jobVars
    <3>2. \A n \in Names : \A i \in DOMAIN queue'[n] : queue'[n][i].asker \notin JobStates
      BY <2>6 DEF IInv, RunsHold
    <3> QED
      BY <3>1, <3>2 DEF RunsHold
  <2> QED
    BY <1>2, <2>7, <2>8, <2>9, <2>10
<1>4. ASSUME NEW n \in Names, NEW a \in Askers \cup {None}, WaiterTimesOut(n, a)
      PROVE  IInv'
  <2>1. PICK i \in DOMAIN queue[n] :
           /\ queue[n][i].asker = a
           /\ queue' = [queue EXCEPT ![n] = RemoveAt(queue[n], i)]
           /\ lease' = [c \in Askers |-> IF c = a THEN NoLease ELSE lease[c]]
           /\ UNCHANGED <<lock, exits>>
    BY <1>4 DEF WaiterTimesOut
  <2>2. queue[n] \in Seq(Waiter)
    BY <1>1 DEF TypeOK
  <2>3. /\ RemoveAt(queue[n], i) \in Seq(Waiter)
        /\ \A k \in DOMAIN RemoveAt(queue[n], i) :
              \E m \in DOMAIN queue[n] : RemoveAt(queue[n], i)[k] = queue[n][m]
    BY <2>2, RemoveAtSubset
  <2>4. NoLease \in Lease
    BY LocksAssumption DEF NoLease, Lease
  <2>5. TypeOK'
    BY <1>1, <2>1, <2>3, <2>4 DEF TypeOK
  <2>6. \A c \in Askers : HasToken(c)' => lease'[c] = lease[c] /\ HasToken(c)
    BY <2>1 DEF HasToken, NoLease
  <2>7. LeaseMatches' /\ TokensDiffer'
    BY <2>1, <2>6 DEF IInv, LeaseMatches, TokensDiffer
  <2>8. a \notin JobStates
    BY <2>1 DEF IInv, RunsHold
  <2>9. \A r \in JobStates : lease'[r] = lease[r]
    BY <1>1, <2>1, <2>8
  <2>10. ASSUME NEW m \in Names, NEW k \in DOMAIN queue'[m]
         PROVE  queue'[m][k].asker \notin JobStates
    <3>1. CASE m = n
      <4>1. queue'[m] = RemoveAt(queue[n], i)
        BY <1>1, <2>1, <3>1 DEF TypeOK
      <4> QED
        BY <2>3, <4>1 DEF IInv, RunsHold
    <3>2. CASE m # n
      <4>1. queue'[m] = queue[m]
        BY <1>1, <2>1, <3>2 DEF TypeOK
      <4> QED
        BY <4>1 DEF IInv, RunsHold
    <3> QED
      BY <3>1, <3>2
  <2>11. RunsHold'
    BY <1>1, <2>9, <2>10 DEF IInv, RunsHold, HasToken, jobVars
  <2> QED
    BY <1>2, <2>5, <2>7, <2>11
<1> QED
  BY <1>3, <1>4 DEF Time

\* The runners' own steps.
LEMMA RunnerStepKeepsIInv ==
    ASSUME IInv, CountInv', RunnerStep
    PROVE  IInv'
<1>1. /\ JobStates \subseteq Askers /\ TypeOK /\ LockInv
      /\ \A r \in JobStates : Finished(r) \in {"armed", "idle"} /\ r[1] \in Names
  BY JobsAssumption DEF IInv, LockInv, JobsTypeOK, Finished, JobStates
<1>2. ASSUME UNCHANGED lockVars, JobsTypeOK',
             \A r \in JobStates : jobState'[r] = "running" => jobState[r] = "running"
      PROVE  IInv'
  BY <1>2 DEF IInv, LeaseMatches, TokensDiffer, RunsHold, HasToken, lockVars
<1>3. /\ starting' \in [Servers -> 0 .. MaxStarts] /\ starts' \in [Servers -> 0 .. MaxStarts]
  BY JobsAssumption DEF CountInv
<1>4. ASSUME NEW s \in Servers, BeginStart(s) \/ FinishStart(s) \/ StartFails(s) \/ Stop(s)
      PROVE  IInv'
  <2>1. UNCHANGED lockVars
    BY <1>4 DEF BeginStart, FinishStart, StartFails, Stop
  <2>2. started' \in [Servers -> BOOLEAN]
    BY <1>4 DEF BeginStart, FinishStart, StartFails, Stop, IInv, JobsTypeOK
  <2>3. current' \in [Names -> 0 .. MaxStarts]
    <3>1. CASE UNCHANGED current
      BY <3>1 DEF IInv, JobsTypeOK
    <3>2. CASE FinishStart(s)
      <4>1. starts[s] + 1 \in 0 .. MaxStarts
        <5>1. starts'[s] = starts[s] + 1
          BY <3>2 DEF FinishStart, IInv, JobsTypeOK
        <5> QED
          BY <1>3, <5>1
      <4> QED
        BY <3>2, <4>1 DEF FinishStart, IInv, JobsTypeOK
    <3> QED
      BY <1>4, <3>1, <3>2 DEF BeginStart, StartFails, Stop
  <2>4. /\ jobState' \in [JobStates -> {"absent", "armed", "running", "idle"}]
        /\ \A r \in JobStates : jobState'[r] = "running" => jobState[r] = "running"
    BY <1>4 DEF BeginStart, FinishStart, StartFails, Stop, IInv, JobsTypeOK
  <2>5. JobsTypeOK'
    BY <1>1, <1>3, <2>1, <2>2, <2>3, <2>4 DEF JobsTypeOK, TypeOK, lockVars
  <2> QED
    BY <1>2, <2>1, <2>4, <2>5
<1>5. ASSUME NEW r \in JobStates, Skip(r) PROVE IInv'
  <2>1. JobsTypeOK'
    BY <1>1, <1>5 DEF Skip, IInv, JobsTypeOK, TypeOK, lockVars
  <2>2. UNCHANGED lockVars /\ \A s \in JobStates : jobState'[s] = "running" => jobState[s] = "running"
    BY <1>1, <1>5 DEF Skip, IInv, JobsTypeOK
  <2> QED
    BY <1>2, <2>1, <2>2
<1>6. ASSUME NEW r \in JobStates, BeginRun(r) PROVE IInv'
  <2>1. /\ AcquireFree(r, r[1], JobTtl) /\ r \in Askers /\ r[1] \in Names
        /\ jobState' = [jobState EXCEPT ![r] = "running"]
        /\ UNCHANGED <<exits, starting, started, starts, current>>
    BY <1>1, <1>6 DEF BeginRun
  <2>2. /\ LeaseMatches' /\ TokensDiffer'
        /\ lock' \in [Names -> Lock] /\ lease' \in [Askers -> Lease]
    BY <1>1, <2>1, AcquireFreeKeepsLocks, JobsAssumption
  <2>3. queue' = queue /\ lease' = [lease EXCEPT ![r] = Given(r[1], NewToken, JobTtl)]
    BY <2>1 DEF AcquireFree
  <2>4. JobsTypeOK'
    BY <1>1, <2>1, <2>2, <2>3 DEF IInv, JobsTypeOK, TypeOK
  <2>5. lease'[r].state = "answered" /\ lease'[r].name = r[1]
    BY <1>1, <2>1, <2>3 DEF TypeOK, Given
  <2>6. ASSUME NEW s \in JobStates, jobState'[s] = "running"
        PROVE  HasToken(s)' /\ lease'[s].name = s[1]
    <3>1. CASE s = r
      BY <2>5, <3>1 DEF HasToken
    <3>2. CASE s # r
      <4>1. jobState[s] = "running" /\ lease'[s] = lease[s]
        BY <1>1, <2>1, <2>3, <2>6, <3>2 DEF IInv, JobsTypeOK, TypeOK
      <4> QED
        BY <4>1 DEF IInv, RunsHold, HasToken
    <3> QED
      BY <3>1, <3>2
  <2>7. RunsHold'
    BY <2>3, <2>6 DEF IInv, RunsHold
  <2> QED
    BY <2>2, <2>4, <2>7 DEF IInv
<1>7. ASSUME NEW r \in JobStates, EndRun(r) PROVE IInv'
  <2>1. /\ ReleaseBy(r) /\ r \in Askers /\ HasToken(r)
        /\ jobState' = [jobState EXCEPT ![r] = Finished(r)]
        /\ UNCHANGED <<exits, starting, started, starts, current>>
    BY <1>1, <1>7 DEF EndRun, IInv, RunsHold
  <2>2. /\ LeaseMatches' /\ TokensDiffer'
        /\ lock' \in [Names -> Lock] /\ lease' \in [Askers -> Lease]
        /\ queue' \in [Names -> Seq(Waiter)]
    BY <1>1, <2>1, ReleaseKeepsLocks
  <2>3. /\ \A s \in JobStates : s # r => lease'[s] = lease[s]
        /\ \A n \in Names : \A i \in DOMAIN queue'[n] : queue'[n][i].asker \notin JobStates
    BY <2>1, ReleaseKeepsRuns
  <2>4. JobsTypeOK'
    BY <1>1, <2>1, <2>2 DEF IInv, JobsTypeOK, TypeOK
  <2>5. \A s \in JobStates : jobState'[s] = "running" => s # r /\ jobState[s] = "running"
    BY <1>1, <2>1 DEF IInv, JobsTypeOK
  <2>6. RunsHold'
    BY <2>3, <2>5 DEF IInv, RunsHold, HasToken
  <2> QED
    BY <2>2, <2>4, <2>6 DEF IInv
<1> QED
  BY <1>4, <1>5, <1>6, <1>7 DEF RunnerStep

LEMMA NextKeepsIInv == IInv /\ CountInv' /\ [Next]_vars => IInv'
<1> SUFFICES ASSUME IInv, CountInv', [Next]_vars PROVE IInv'
  OBVIOUS
<1>1. CASE UNCHANGED vars
  BY <1>1 DEF vars, lockVars, jobVars, IInv, JobsTypeOK, TypeOK, LeaseMatches, TokensDiffer,
              RunsHold, HasToken
<1>2. CASE RunnerStep
  BY <1>2, RunnerStepKeepsIInv
<1>3. ASSUME NEW a \in Clients, ClientStep(a) PROVE IInv'
  BY <1>3, ClientStepKeepsIInv
<1>4. CASE Time
  BY <1>4, TimeKeepsIInv
<1> QED
  BY <1>1, <1>2, <1>3, <1>4 DEF Next, RunnerStep

LEMMA IInvHolds == Spec => []IInv
BY InitIInv, NextKeepsIInv, CountHolds, PTL DEF Spec

-----------------------------------------------------------------------------
(* Who owns a lock, and who waits for it.                                  *)

\* As long as nobody has died, whoever is in a queue waits, once, for that lock.
WaitersWait ==
    exits = 0 =>
        \A n \in Names : \A i \in DOMAIN queue[n] :
            LET a == queue[n][i].asker
            IN  /\ a \in Askers
                /\ lease[a].state = "waiting" /\ lease[a].name = n
                /\ \A k \in DOMAIN queue[n] : queue[n][k].asker = a => k = i

\* A job state whose run is not under way holds nothing.
IdleHoldsNothing ==
    \A r \in JobStates : jobState[r] # "running" => lease[r] = NoLease

OwnInv == WaitersWait /\ IdleHoldsNothing /\ FreshLockHasOwner

\* A lock that is granted to somebody who had no token has an owner, and the
\* other locks keep theirs.
LEMMA GrantKeepsOwners ==
    ASSUME TypeOK, FreshLockHasOwner, exits = 0,
           NEW n \in Names, NEW ttl \in 1 .. MaxTtl,
           NEW a \in Askers, ~HasToken(a), NEW b \in Askers,
           HasToken(b) => lease[b].name = n,
           GrantStep(n, ttl, a, b)
    PROVE  FreshLockHasOwner'
<1> SUFFICES ASSUME NEW m \in Names, Fresh(m)'
             PROVE  \E c \in Askers : /\ HasToken(c)' /\ lease'[c].name = m
                                      /\ lease'[c].token = lock'[m].token
  BY DEF FreshLockHasOwner
<1>1. CASE m = n
  <2>1. lock'[n].token = NewToken
    BY DEF GrantStep, TypeOK
  <2>2. lease'[a] = Given(n, NewToken, ttl)
    BY DEF GrantStep
  <2>3. HasToken(a)' /\ lease'[a].name = n /\ lease'[a].token = NewToken
    BY <2>2 DEF HasToken, Given
  <2> QED
    BY <1>1, <2>1, <2>3
<1>2. CASE m # n
  <2>1. lock'[m] = lock[m]
    BY <1>2 DEF GrantStep, TypeOK
  <2>2. PICK c \in Askers : HasToken(c) /\ lease[c].name = m /\ lease[c].token = lock[m].token
    BY <2>1 DEF FreshLockHasOwner, Fresh
  <2>3. lease'[c] = lease[c]
    BY <1>2, <2>2 DEF GrantStep
  <2> QED
    BY <2>1, <2>2, <2>3 DEF HasToken
<1> QED
  BY <1>1, <1>2

\* A queue that loses the waiter at one place, whose lease alone may change.
LEMMA OneWaiterLess ==
    ASSUME WaitersWait, exits = 0,
           NEW n \in Names, NEW out \in DOMAIN queue[n],
           NEW f \in [DOMAIN queue'[n] -> DOMAIN queue[n] \ {out}],
           \A k \in DOMAIN queue'[n] : queue'[n][k] = queue[n][f[k]],
           \A k, l \in DOMAIN queue'[n] : f[k] = f[l] => k = l,
           \A m \in Names : m # n => queue'[m] = queue[m],
           \A c \in Askers : lease[c].state = "waiting" /\ c # queue[n][out].asker =>
                                lease'[c] = lease[c]
    PROVE  WaitersWait'
<1> SUFFICES ASSUME NEW m \in Names, NEW i \in DOMAIN queue'[m]
             PROVE  LET a == queue'[m][i].asker
                    IN  /\ a \in Askers
                        /\ lease'[a].state = "waiting" /\ lease'[a].name = m
                        /\ \A k \in DOMAIN queue'[m] : queue'[m][k].asker = a => k = i
  BY DEF WaitersWait
<1>1. lease[queue[n][out].asker].name = n
  BY DEF WaitersWait
<1>2. CASE m = n
  <2> DEFINE a == queue[n][f[i]].asker
  <2>1. f[i] \in DOMAIN queue[n] /\ f[i] # out /\ queue'[m][i].asker = a
    BY <1>2
  <2>2. /\ a \in Askers /\ lease[a].state = "waiting" /\ lease[a].name = n
        /\ \A k \in DOMAIN queue[n] : queue[n][k].asker = a => k = f[i]
    BY <2>1 DEF WaitersWait
  <2>3. a # queue[n][out].asker
    BY <2>1, <2>2
  <2>4. lease'[a] = lease[a]
    BY <2>2, <2>3
  <2>5. \A k \in DOMAIN queue'[m] : queue'[m][k].asker = a => k = i
    BY <1>2, <2>1, <2>2
  <2> QED
    BY <1>2, <2>1, <2>2, <2>4, <2>5
<1>3. CASE m # n
  <2> DEFINE a == queue[m][i].asker
  <2>1. queue'[m] = queue[m]
    BY <1>3
  <2>2. /\ a \in Askers /\ lease[a].state = "waiting" /\ lease[a].name = m
        /\ \A k \in DOMAIN queue[m] : queue[m][k].asker = a => k = i
    BY <2>1 DEF WaitersWait
  <2>3. lease'[a] = lease[a]
    BY <1>1, <1>3, <2>2
  <2> QED
    BY <2>1, <2>2, <2>3
<1> QED
  BY <1>2, <1>3

\* Nothing is taken from a queue, and whoever waits keeps its lease.
LEMMA WaitersUndisturbed ==
    ASSUME WaitersWait, exits' = exits, queue' = queue,
           \A c \in Askers : lease[c].state = "waiting" => lease'[c] = lease[c]
    PROVE  WaitersWait'
BY DEF WaitersWait

\* A free lock is taken by somebody who had nothing.
LEMMA AcquireFreeKeepsOwners ==
    ASSUME TypeOK, LockInv, WaitersWait, FreshLockHasOwner, exits' = exits,
           NEW a \in Askers, lease[a] = NoLease,
           NEW n \in Names, NEW ttl \in 1 .. MaxTtl, AcquireFree(a, n, ttl)
    PROVE  WaitersWait' /\ FreshLockHasOwner'
<1>1. ~HasToken(a) /\ lease[a].state = "none"
  BY DEF HasToken, NoLease
<1>2. queue' = queue /\ \A c \in Askers : c # a => lease'[c] = lease[c]
  BY DEF AcquireFree, TypeOK
<1>3. WaitersWait'
  BY <1>1, <1>2, WaitersUndisturbed
<1>4. GrantStep(n, ttl, a, a)
  BY DEF AcquireFree, TypeOK, GrantStep
<1>5. CASE exits = 0
  BY <1>1, <1>3, <1>4, <1>5, GrantKeepsOwners
<1>6. CASE exits # 0
  BY <1>3, <1>6 DEF FreshLockHasOwner
<1> QED
  BY <1>5, <1>6

\* A lock goes to the head of its queue, or to nobody, or stays whose it was.
LEMMA ReleaseKeepsOwners ==
    ASSUME TypeOK, LockInv, WaitersWait, FreshLockHasOwner, exits' = exits,
           NEW b \in Askers, HasToken(b), ReleaseBy(b)
    PROVE  WaitersWait' /\ FreshLockHasOwner'
<1> DEFINE n == lease[b].name
           owns == Fresh(n) /\ lock[n].token = lease[b].token
<1>1. n \in Names
  BY DEF LockInv, LeaseMatches
<1>2. lease[b].state # "waiting"
  BY DEF HasToken
<1>3. CASE exits # 0
  BY <1>3 DEF WaitersWait, FreshLockHasOwner
<1>4. CASE exits = 0 /\ lease' = [lease EXCEPT ![b] = NoLease] /\ queue' = queue
                     /\ lock' = [lock EXCEPT ![n] = NoLock]
  <2>1. \A c \in Askers : c # b => lease'[c] = lease[c]
    BY <1>4 DEF TypeOK
  <2>2. WaitersWait'
    BY <1>2, <1>4, <2>1, WaitersUndisturbed
  <2>3. ASSUME NEW m \in Names, Fresh(m)'
        PROVE  \E c \in Askers : /\ HasToken(c)' /\ lease'[c].name = m
                                 /\ lease'[c].token = lock'[m].token
    <3>1. m # n /\ lock'[m] = lock[m]
      BY <1>1, <1>4, <2>3 DEF Fresh, NoLock, TypeOK
    <3>2. PICK c \in Askers : HasToken(c) /\ lease[c].name = m /\ lease[c].token = lock[m].token
      BY <1>4, <2>3, <3>1 DEF FreshLockHasOwner, Fresh
    <3> QED
      BY <2>1, <3>1, <3>2 DEF HasToken
  <2> QED
    BY <2>2, <2>3 DEF FreshLockHasOwner
<1>5. CASE exits = 0 /\ lease' = [lease EXCEPT ![b] = NoLease] /\ queue' = queue
                     /\ lock' = lock /\ ~owns /\ Fresh(n)
  <2>1. \A c \in Askers : c # b => lease'[c] = lease[c]
    BY <1>5 DEF TypeOK
  <2>2. WaitersWait'
    BY <1>2, <1>5, <2>1, WaitersUndisturbed
  <2>3. ASSUME NEW m \in Names, Fresh(m)'
        PROVE  \E c \in Askers : /\ HasToken(c)' /\ lease'[c].name = m
                                 /\ lease'[c].token = lock'[m].token
    <3>1. PICK c \in Askers : HasToken(c) /\ lease[c].name = m /\ lease[c].token = lock[m].token
      BY <1>5, <2>3 DEF FreshLockHasOwner, Fresh
    <3>2. c # b
      BY <1>5, <3>1
    <3> QED
      BY <1>5, <2>1, <3>1, <3>2 DEF HasToken
  <2> QED
    BY <2>2, <2>3 DEF FreshLockHasOwner
<1>6. CASE exits = 0 /\ queue[n] # <<>> /\ GrantNextWaiter(n, b)
  <2> DEFINE waiter == Head(queue[n])
             f == [k \in DOMAIN queue'[n] |-> k + 1]
  <2>1. GrantStep(n, waiter.ttl, waiter.asker, b) /\ queue' = [queue EXCEPT ![n] = Tail(@)]
    BY <1>6 DEF GrantNextWaiter, GrantStep
  <2>2. /\ waiter \in Waiter /\ waiter = queue[n][1] /\ 1 \in DOMAIN queue[n]
        /\ queue[n] \in Seq(Waiter)
    BY <1>1, <1>6, QueueHead DEF TypeOK
  <2>3. /\ waiter.ttl \in 1 .. MaxTtl
        /\ waiter.asker \in Askers /\ lease[waiter.asker].state = "waiting"
    BY <1>1, <1>6, <2>2 DEF Waiter, WaitersWait
  <2>4. ~HasToken(waiter.asker)
    BY <2>3 DEF HasToken
  <2>5. /\ queue'[n] = Tail(queue[n])
        /\ \A m \in Names : m # n => queue'[m] = queue[m]
    BY <1>1, <2>1 DEF TypeOK
  <2>6. /\ DOMAIN queue'[n] = 1 .. Len(queue[n]) - 1 /\ DOMAIN queue[n] = 1 .. Len(queue[n])
        /\ Len(queue[n]) \in Nat
        /\ \A k \in DOMAIN queue'[n] : queue'[n][k] = queue[n][k + 1]
    BY <1>6, <2>2, <2>5
  <2>7. /\ f \in [DOMAIN queue'[n] -> DOMAIN queue[n] \ {1}]
        /\ \A k, l \in DOMAIN queue'[n] : f[k] = f[l] => k = l
        /\ \A k \in DOMAIN queue'[n] : queue'[n][k] = queue[n][f[k]]
    BY <2>6
  <2>8. \A c \in Askers : lease[c].state = "waiting" /\ c # queue[n][1].asker =>
                             lease'[c] = lease[c]
    BY <1>2, <2>1, <2>2 DEF GrantStep
  <2> HIDE DEF n, waiter, f
  <2>9. WaitersWait'
    <3>1. PICK m \in Names : m = n
      BY <1>1
    <3>2. PICK g \in [DOMAIN queue'[m] -> DOMAIN queue[m] \ {1}] :
             /\ \A k \in DOMAIN queue'[m] : queue'[m][k] = queue[m][g[k]]
             /\ \A k, l \in DOMAIN queue'[m] : g[k] = g[l] => k = l
      BY <2>7, <3>1
    <3>3. 1 \in DOMAIN queue[m] /\ \A o \in Names : o # m => queue'[o] = queue[o]
      BY <2>2, <2>5, <3>1
    <3>4. \A c \in Askers : lease[c].state = "waiting" /\ c # queue[m][1].asker =>
                             lease'[c] = lease[c]
      BY <2>8, <3>1
    <3> QED
      BY <1>6, <3>2, <3>3, <3>4, OneWaiterLess
  <2>10. FreshLockHasOwner'
    BY <1>1, <1>6, <2>1, <2>3, <2>4, GrantKeepsOwners DEF n
  <2> QED
    BY <2>9, <2>10
<1>7. \/ lease' = [lease EXCEPT ![b] = NoLease] /\ queue' = queue
           /\ \/ lock' = [lock EXCEPT ![n] = NoLock]
              \/ lock' = lock /\ ~owns /\ Fresh(n)
      \/ queue[n] # <<>> /\ GrantNextWaiter(n, b)
  BY DEF ReleaseBy, GrantNextWaiter
<1> QED
  BY <1>3, <1>4, <1>5, <1>6, <1>7

\* Whoever releases has no lease afterwards.
LEMMA ReleaserIsLeft ==
    ASSUME TypeOK, RunsHold, LeaseMatches,
           NEW b \in JobStates \cap Askers, HasToken(b), ReleaseBy(b)
    PROVE  lease'[b] = NoLease
<1> DEFINE n == lease[b].name
           waiter == Head(queue[n])
<1>1. n \in Names
  BY DEF LeaseMatches
<1>2. CASE lease' = [lease EXCEPT ![b] = NoLease]
  BY <1>2 DEF TypeOK
<1>3. CASE queue[n] # <<>> /\ GrantNextWaiter(n, b)
  <2>1. waiter = queue[n][1] /\ 1 \in DOMAIN queue[n]
    BY <1>1, <1>3, QueueHead
  <2>2. waiter.asker # b
    BY <1>1, <2>1 DEF RunsHold
  <2> QED
    BY <1>3, <2>2 DEF GrantNextWaiter
<1> QED
  BY <1>2, <1>3 DEF ReleaseBy, GrantNextWaiter

\* What is in a queue is not a token, so time takes no owner from a lock.
LEMMA TimeKeepsOwners ==
    ASSUME IInv, OwnInv, Time
    PROVE  OwnInv'
<1>1. TypeOK /\ UNCHANGED jobVars /\ JobStates \subseteq Askers
  BY JobsAssumption DEF IInv, JobsTypeOK, Time
<1>2. CASE Tick
  <2>1. \A c \in Askers : /\ lease'[c] = [lease[c] EXCEPT !.left = Less(lease[c].left)]
                          /\ lease[c] \in Lease
    BY <1>1, <1>2 DEF Tick, TypeOK
  <2>2. \A c \in Askers : /\ lease'[c].state = lease[c].state /\ lease'[c].name = lease[c].name
                          /\ lease'[c].token = lease[c].token
                          /\ lease[c] = NoLease => lease'[c] = NoLease
    <3>1. \A c \in Askers : /\ lease'[c].state = lease[c].state /\ lease'[c].name = lease[c].name
                            /\ lease'[c].token = lease[c].token
      BY <2>1 DEF Lease
    <3>2. \A c \in Askers : lease[c].left = 0 => lease'[c] = lease[c]
      <4>1. \A l \in Lease : l.left = 0 => [l EXCEPT !.left = 0] = l
        BY DEF Lease
      <4>2. Less(0) = 0
        BY DEF Less
      <4> QED
        BY <2>1, <4>1, <4>2
    <3>3. NoLease.left = 0
      BY DEF NoLease
    <3> QED
      BY <3>1, <3>2, <3>3
  <2>3. \A n \in Names : /\ lock'[n] = [lock[n] EXCEPT !.left = Less(lock[n].left)]
                         /\ lock[n] \in Lock
    BY <1>1, <1>2 DEF Tick, TypeOK
  <2>4. \A n \in Names : lock'[n].token = lock[n].token /\ (Fresh(n)' => Fresh(n))
    <3>1. \A k \in 0 .. MaxTtl : Less(k) > 0 => k > 0
      BY LocksAssumption DEF Less
    <3> QED
      BY <2>3, <3>1 DEF Lock, Fresh
  <2>5. \A n \in Names : /\ queue'[n] = [i \in DOMAIN queue[n] |->
                                            [queue[n][i] EXCEPT !.left = Less(@)]]
                         /\ queue[n] \in Seq(Waiter)
    BY <1>1, <1>2 DEF Tick, TypeOK
  <2>6. \A n \in Names : /\ DOMAIN queue'[n] = DOMAIN queue[n]
                         /\ \A i \in DOMAIN queue[n] : queue'[n][i].asker = queue[n][i].asker
    <3> SUFFICES ASSUME NEW n \in Names
                 PROVE  /\ DOMAIN queue'[n] = DOMAIN queue[n]
                        /\ \A i \in DOMAIN queue[n] : queue'[n][i].asker = queue[n][i].asker
      OBVIOUS
    <3>1. queue[n] \in Seq(Waiter)
      BY <2>5
    <3>2. \A i \in DOMAIN queue[n] : queue[n][i] \in Waiter
      BY <3>1
    <3>3. queue'[n] = [i \in DOMAIN queue[n] |-> [queue[n][i] EXCEPT !.left = Less(@)]]
      BY <2>5
    <3> QED
      BY <3>2, <3>3 DEF Waiter
  <2>7. exits' = exits
    BY <1>2 DEF Tick
  <2>8. WaitersWait'
    BY <2>2, <2>6, <2>7 DEF OwnInv, WaitersWait
  <2>9. IdleHoldsNothing'
    BY <1>1, <2>2 DEF OwnInv, IdleHoldsNothing, jobVars
  <2>10. FreshLockHasOwner'
    BY <2>2, <2>4, <2>7 DEF OwnInv, FreshLockHasOwner, HasToken
  <2> QED
    BY <2>8, <2>9, <2>10 DEF OwnInv
<1>3. ASSUME NEW n \in Names, NEW a \in Askers \cup {None}, WaiterTimesOut(n, a)
      PROVE  OwnInv'
  <2>1. PICK i \in DOMAIN queue[n] :
           /\ queue[n][i].asker = a
           /\ queue' = [queue EXCEPT ![n] = RemoveAt(queue[n], i)]
           /\ lease' = [c \in Askers |-> IF c = a THEN NoLease ELSE lease[c]]
           /\ UNCHANGED <<lock, exits>>
    BY <1>3 DEF WaiterTimesOut
  <2>2. \A c \in Askers : c # a => lease'[c] = lease[c]
    BY <2>1
  <2>3. IdleHoldsNothing'
    BY <1>1, <2>1 DEF OwnInv, IdleHoldsNothing, jobVars
  <2>4. CASE exits # 0
    BY <2>1, <2>3, <2>4 DEF OwnInv, WaitersWait, FreshLockHasOwner
  <2>5. CASE exits = 0
    <3>1. ~HasToken(a)
      BY <2>1, <2>5 DEF OwnInv, WaitersWait, HasToken
    <3>2. FreshLockHasOwner'
      BY <2>1, <2>2, <3>1 DEF OwnInv, FreshLockHasOwner, HasToken, Fresh
    <3>3. queue[n] \in Seq(Waiter)
      BY <1>1 DEF TypeOK
    <3>4. /\ queue'[n] = RemoveAt(queue[n], i)
          /\ \A m \in Names : m # n => queue'[m] = queue[m]
      BY <1>1, <2>1 DEF TypeOK
    <3>5. /\ DOMAIN queue[n] = 1 .. Len(queue[n]) /\ Len(queue[n]) \in Nat
      BY <3>3
    <3>6. /\ DOMAIN queue'[n] = 1 .. Len(queue[n]) - 1
          /\ \A k \in 1 .. Len(queue[n]) - 1 :
                queue'[n][k] = queue[n][IF k < i THEN k ELSE k + 1]
      <4>1. /\ DOMAIN RemoveAt(queue[n], i) = 1 .. Len(queue[n]) - 1
            /\ \A k \in 1 .. Len(queue[n]) - 1 :
                  RemoveAt(queue[n], i)[k] = queue[n][IF k < i THEN k ELSE k + 1]
        BY <2>1, <3>3, RemoveAtIndex
      <4> QED
        BY <3>4, <4>1
    <3> DEFINE f == [k \in DOMAIN queue'[n] |-> IF k < i THEN k ELSE k + 1]
    <3>7. /\ f \in [DOMAIN queue'[n] -> DOMAIN queue[n] \ {i}]
          /\ \A k, l \in DOMAIN queue'[n] : f[k] = f[l] => k = l
          /\ \A k \in DOMAIN queue'[n] : queue'[n][k] = queue[n][f[k]]
      <4>1. \A k \in 1 .. Len(queue[n]) - 1 :
               (IF k < i THEN k ELSE k + 1) \in 1 .. Len(queue[n]) \ {i}
        BY <3>5
      <4>2. \A k, l \in 1 .. Len(queue[n]) - 1 :
               (IF k < i THEN k ELSE k + 1) = (IF l < i THEN l ELSE l + 1) => k = l
        BY <3>5
      <4> QED
        BY <3>5, <3>6, <4>1, <4>2
    <3> HIDE DEF f
    <3>8. PICK g \in [DOMAIN queue'[n] -> DOMAIN queue[n] \ {i}] :
             /\ \A k \in DOMAIN queue'[n] : queue'[n][k] = queue[n][g[k]]
             /\ \A k, l \in DOMAIN queue'[n] : g[k] = g[l] => k = l
      BY <3>7
    <3>9. WaitersWait'
      BY <2>1, <2>2, <2>5, <3>4, <3>8, OneWaiterLess DEF OwnInv
    <3> QED
      BY <2>3, <3>2, <3>9 DEF OwnInv
  <2> QED
    BY <2>4, <2>5
<1> QED
  BY <1>2, <1>3 DEF Time

\* A client comes to a queue when it has nothing, and leaves a token only to
\* whoever is next.
LEMMA ClientKeepsOwners ==
    ASSUME IInv, OwnInv, NEW a \in Clients, ClientStep(a)
    PROVE  OwnInv'
<1>1. /\ a \in Askers /\ a \notin JobStates /\ JobStates \subseteq Askers
      /\ LockInv /\ TypeOK
      /\ UNCHANGED jobVars
  BY JobsAssumption DEF IInv, LockInv, JobsTypeOK, ClientStep
<1>2. WaitersWait /\ FreshLockHasOwner
  BY DEF OwnInv
<1>3. ASSUME \A r \in JobStates : lease'[r] = lease[r]
      PROVE  IdleHoldsNothing'
  BY <1>1, <1>3 DEF OwnInv, IdleHoldsNothing, jobVars
<1>4. ASSUME NEW n \in Names, NEW ttl \in 1 .. MaxTtl, AcquireFree(a, n, ttl), UNCHANGED exits,
             lease[a] = NoLease
      PROVE  OwnInv'
  <2>1. WaitersWait' /\ FreshLockHasOwner'
    BY <1>1, <1>2, <1>4, AcquireFreeKeepsOwners
  <2>2. \A r \in JobStates : lease'[r] = lease[r]
    BY <1>1, <1>4 DEF AcquireFree
  <2> QED
    BY <1>3, <2>1, <2>2 DEF OwnInv
<1>5. ASSUME NEW n \in Names, NEW ttl \in 1 .. MaxTtl, NEW wait \in 1 .. MaxWait,
             AcquireWait(a, n, ttl, wait), UNCHANGED exits, lease[a] = NoLease
      PROVE  OwnInv'
  <2> DEFINE w == [asker |-> a, left |-> wait, ttl |-> ttl]
  <2>1. /\ queue' = [queue EXCEPT ![n] = Append(queue[n], w)]
        /\ lease' = [lease EXCEPT ![a] = Waiting(n)]
        /\ lock' = lock /\ exits' = exits
    BY <1>5 DEF AcquireWait
  <2>2. w.asker = a /\ w \in Waiter
    BY <1>1, LocksAssumption DEF Waiter
  <2> HIDE DEF w
  <2>3. \A c \in Askers : c # a => lease'[c] = lease[c]
    BY <1>1, <2>1 DEF TypeOK
  <2>4. lease'[a].state = "waiting" /\ lease'[a].name = n
    BY <1>1, <2>1 DEF Waiting, TypeOK
  <2>5. lease[a].state = "none" /\ ~HasToken(a)
    BY <1>5 DEF NoLease, HasToken
  <2>6. FreshLockHasOwner'
    BY <1>2, <2>1, <2>3, <2>5 DEF FreshLockHasOwner, HasToken, Fresh
  <2>7. ASSUME exits = 0, NEW m \in Names, NEW i \in DOMAIN queue'[m]
        PROVE  LET c == queue'[m][i].asker
               IN  /\ c \in Askers
                   /\ lease'[c].state = "waiting" /\ lease'[c].name = m
                   /\ \A k \in DOMAIN queue'[m] : queue'[m][k].asker = c => k = i
    <3>1. \A o \in Names : \A k \in DOMAIN queue[o] : queue[o][k].asker # a
      BY <1>2, <2>5, <2>7 DEF WaitersWait
    <3>2. CASE m # n
      <4>1. queue'[m] = queue[m]
        BY <1>1, <2>1, <3>2 DEF TypeOK
      <4> QED
        BY <1>2, <2>3, <2>7, <3>1, <4>1 DEF WaitersWait
    <3>3. CASE m = n
      <4>1. queue[n] \in Seq(Waiter) /\ queue'[n] = Append(queue[n], w)
        BY <1>1, <2>1 DEF TypeOK
      <4>2. /\ DOMAIN queue[n] = 1 .. Len(queue[n]) /\ Len(queue[n]) \in Nat
            /\ DOMAIN queue'[n] = 1 .. Len(queue[n]) + 1
            /\ \A k \in 1 .. Len(queue[n]) : queue'[n][k] = queue[n][k]
            /\ queue'[n][Len(queue[n]) + 1] = w
        BY <2>2, <4>1
      <4>3. CASE i \in DOMAIN queue[n]
        <5>1. /\ queue'[n][i] = queue[n][i] /\ queue[n][i].asker # a
              /\ queue[n][i].asker \in Askers
              /\ lease[queue[n][i].asker].state = "waiting"
              /\ lease[queue[n][i].asker].name = n
              /\ \A k \in DOMAIN queue[n] : queue[n][k].asker = queue[n][i].asker => k = i
          BY <1>2, <2>7, <3>1, <4>2, <4>3 DEF WaitersWait
        <5>2. \A k \in DOMAIN queue'[n] : queue'[n][k].asker = queue[n][i].asker => k = i
          <6>1. \A k \in DOMAIN queue'[n] : k \in DOMAIN queue[n] \/ k = Len(queue[n]) + 1
            BY <4>2
          <6>2. \A k \in DOMAIN queue[n] : queue'[n][k] = queue[n][k]
            BY <4>2
          <6>3. queue'[n][Len(queue[n]) + 1].asker = a
            BY <2>2, <4>2
          <6> QED
            BY <5>1, <6>1, <6>2, <6>3
        <5> QED
          BY <2>3, <3>3, <5>1, <5>2
      <4>4. CASE i = Len(queue[n]) + 1
        <5>1. \A k \in DOMAIN queue'[n] : queue'[n][k].asker = a => k = i
          BY <3>1, <4>2, <4>4
        <5> QED
          BY <1>1, <2>2, <2>4, <3>3, <4>2, <4>4, <5>1
      <4> QED
        BY <2>7, <3>3, <4>2, <4>3, <4>4
    <3> QED
      BY <3>2, <3>3
  <2>8. WaitersWait'
    BY <2>1, <2>7 DEF WaitersWait
  <2>9. \A r \in JobStates : lease'[r] = lease[r]
    BY <1>1, <2>3
  <2> QED
    BY <1>3, <2>6, <2>8, <2>9 DEF OwnInv
<1>6. CASE Receive(a)
  <2>1. /\ lease[a].state = "answered" /\ lease' = [lease EXCEPT ![a].state = "held"]
        /\ UNCHANGED <<lock, queue, exits>>
    BY <1>6 DEF Receive
  <2>2. \A c \in Askers : c # a => lease'[c] = lease[c]
    BY <1>1, <2>1 DEF TypeOK
  <2>3. /\ lease'[a].state = "held" /\ lease'[a].name = lease[a].name
        /\ lease'[a].token = lease[a].token
    <3>1. lease[a] \in Lease /\ lease'[a] = [lease[a] EXCEPT !.state = "held"]
      BY <1>1, <2>1 DEF TypeOK
    <3> QED
      BY <3>1 DEF Lease
  <2>4. WaitersWait'
    BY <1>2, <2>1, <2>2, WaitersUndisturbed
  <2>5. FreshLockHasOwner'
    BY <1>2, <2>1, <2>2, <2>3 DEF FreshLockHasOwner, HasToken, Fresh
  <2> QED
    BY <1>1, <1>3, <2>2, <2>4, <2>5 DEF OwnInv
<1>7. CASE Release(a)
  <2>1. HasToken(a) /\ ReleaseBy(a) /\ exits' = exits
    BY <1>7 DEF Release, HasToken
  <2>2. WaitersWait' /\ FreshLockHasOwner'
    BY <1>1, <1>2, <2>1, ReleaseKeepsOwners
  <2>3. \A r \in JobStates : lease'[r] = lease[r]
    BY <1>1, <2>1, ReleaseKeepsRuns
  <2> QED
    BY <1>3, <2>2, <2>3 DEF OwnInv
<1>8. CASE Exit(a)
  <2>1. exits' = exits + 1 /\ exits \in Nat /\ lease' = [lease EXCEPT ![a] = NoLease]
    BY <1>1, <1>8 DEF Exit, TypeOK
  <2>2. exits' # 0
    BY <2>1
  <2>3. \A r \in JobStates : lease'[r] = lease[r]
    BY <1>1, <2>1 DEF TypeOK
  <2> QED
    BY <1>3, <2>2, <2>3 DEF OwnInv, WaitersWait, FreshLockHasOwner
<1> QED
  BY <1>4, <1>5, <1>6, <1>7, <1>8 DEF ClientStep, Acquire

\* The jobs that start() of a server scheduled last are the ones with its number,
\* and no job state of that server has a later number.
Scheduled ==
    /\ \A s \in Servers : started[s] => starts[s] > 0
    /\ \A n \in Names : current[n] <= starts[n[1]]
    /\ \A r \in JobStates : r[2] > starts[ServerOf(r)] => jobState[r] = "absent"
    /\ ScheduledJobsStay

LEMMA SchedulesKept ==
    ASSUME JobsTypeOK, JobsTypeOK', Scheduled, [Next]_vars
    PROVE  Scheduled'
<1>1. /\ starts \in [Servers -> 0 .. MaxStarts] /\ MaxStarts \in Nat
      /\ started \in [Servers -> BOOLEAN]
      /\ current \in [Names -> 0 .. MaxStarts]
      /\ jobState \in [JobStates -> {"absent", "armed", "running", "idle"}]
      /\ \A n \in Names : n[1] \in Servers
      /\ \A r \in JobStates : r[1] \in Names /\ ServerOf(r) \in Servers /\ r[2] \in Nat
  BY JobsAssumption DEF JobsTypeOK, JobStates, ServerOf
<1>2. CASE UNCHANGED <<started, starts, current, jobState>>
  BY <1>2 DEF Scheduled, ScheduledJobsStay
<1>3. ASSUME NEW s \in Servers, FinishStart(s) PROVE Scheduled'
  <2>1. PICK enabled \in SUBSET Jobs :
           /\ current' = [n \in Names |-> IF n[1] = s /\ n[2] \in enabled
                                          THEN starts[s] + 1 ELSE current[n]]
           /\ jobState' = [r \in JobStates |->
                             IF ServerOf(r) = s /\ JobOf(r) \in enabled
                                /\ r[2] = starts[s] + 1
                             THEN "armed" ELSE jobState[r]]
    BY <1>3 DEF FinishStart
  <2>2. /\ starts' = [starts EXCEPT ![s] = starts[s] + 1]
        /\ started' = [started EXCEPT ![s] = TRUE]
    BY <1>3 DEF FinishStart
  <2>3. /\ starts'[s] = starts[s] + 1 /\ starts[s] \in Nat /\ started'[s] = TRUE
        /\ starts'[s] \in 1 .. MaxStarts
        /\ \A t \in Servers : t # s => starts'[t] = starts[t] /\ started'[t] = started[t]
    <3>1. starts'[s] = starts[s] + 1 /\ starts[s] \in Nat /\ starts'[s] \in 0 .. MaxStarts
      BY <1>1, <2>2 DEF JobsTypeOK
    <3> QED
      BY <1>1, <2>2, <3>1
  <2>4. ASSUME NEW n \in Names
        PROVE  /\ current'[n] <= starts'[n[1]]
               /\ current'[n] = starts'[n[1]] /\ n[1] = s => n[2] \in enabled
               /\ n[1] # s => current'[n] = current[n]
    <3>1. /\ n[1] \in Servers /\ current[n] \in Nat /\ current[n] <= starts[n[1]]
          /\ current'[n] = IF n[1] = s /\ n[2] \in enabled THEN starts[s] + 1 ELSE current[n]
      BY <1>1, <2>1 DEF Scheduled
    <3>2. CASE n[1] = s
      BY <2>3, <3>1, <3>2
    <3>3. CASE n[1] # s
      BY <2>3, <3>1, <3>3
    <3> QED
      BY <3>2, <3>3
  <2>5. ASSUME NEW r \in JobStates, r[2] > starts'[ServerOf(r)] PROVE jobState'[r] = "absent"
    <3>1. r[2] > starts[ServerOf(r)] /\ ~(ServerOf(r) = s /\ r[2] = starts[s] + 1)
      BY <1>1, <2>3, <2>5
    <3> QED
      BY <2>1, <3>1 DEF Scheduled
  <2>6. ASSUME NEW n \in Names, started'[n[1]], current'[n] = starts'[n[1]]
        PROVE  jobState'[<<n, starts'[n[1]]>>] \in {"armed", "running"}
    <3>1. CASE n[1] = s
      <4> DEFINE r == <<n, starts'[s]>>
      <4>1. r \in JobStates /\ r[1] = n /\ r[2] = starts[s] + 1
        BY <2>3 DEF JobStates
      <4> HIDE DEF r
      <4>2. ServerOf(r) = s /\ JobOf(r) \in enabled
        BY <2>4, <2>6, <3>1, <4>1 DEF ServerOf, JobOf
      <4>3. jobState'[r] = "armed"
        BY <2>1, <4>1, <4>2
      <4> QED
        BY <3>1, <4>3 DEF r
    <3>2. CASE n[1] # s
      <4> DEFINE r == <<n, starts[n[1]]>>
      <4>1. /\ n[1] \in Servers /\ starts'[n[1]] = starts[n[1]] /\ started[n[1]]
            /\ current[n] = starts[n[1]]
        BY <1>1, <2>3, <2>4, <2>6, <3>2
      <4>2. r \in JobStates /\ r[1] = n
        <5>1. starts[n[1]] \in 1 .. MaxStarts
          BY <1>1, <4>1 DEF Scheduled
        <5> QED
          BY <5>1 DEF JobStates
      <4>3. jobState[r] \in {"armed", "running"}
        BY <4>1 DEF Scheduled, ScheduledJobsStay
      <4> HIDE DEF r
      <4>4. jobState'[r] \in {"armed", "running"}
        BY <2>1, <4>2, <4>3
      <4> QED
        BY <4>1, <4>4 DEF r
    <3> QED
      BY <3>1, <3>2
  <2>7. \A t \in Servers : started'[t] => starts'[t] > 0
    BY <1>1, <2>3 DEF Scheduled
  <2>8. ScheduledJobsStay'
    BY <2>6 DEF ScheduledJobsStay
  <2> QED
    BY <2>4, <2>5, <2>7, <2>8 DEF Scheduled
<1>4. ASSUME NEW s \in Servers, Stop(s) PROVE Scheduled'
  <2>1. /\ started' = [started EXCEPT ![s] = FALSE] /\ UNCHANGED <<starts, current>>
        /\ \A r \in JobStates : jobState[r] = "absent" => jobState'[r] = "absent"
        /\ \A r \in JobStates : ServerOf(r) # s => jobState'[r] = jobState[r]
    BY <1>4 DEF Stop
  <2>2. ASSUME NEW n \in Names, started'[n[1]], current[n] = starts[n[1]]
        PROVE  jobState'[<<n, starts[n[1]]>>] \in {"armed", "running"}
    <3>1. n[1] # s /\ started[n[1]] /\ n[1] \in Servers
      BY <1>1, <2>1, <2>2
    <3>2. <<n, starts[n[1]]>> \in JobStates /\ ServerOf(<<n, starts[n[1]]>>) = n[1]
      <4>1. starts[n[1]] \in 1 .. MaxStarts
        BY <1>1, <3>1 DEF Scheduled
      <4> QED
        BY <4>1 DEF JobStates, ServerOf
    <3>3. jobState[<<n, starts[n[1]]>>] \in {"armed", "running"}
      BY <2>2, <3>1 DEF Scheduled, ScheduledJobsStay
    <3> QED
      BY <2>1, <3>1, <3>2, <3>3
  <2>3. ScheduledJobsStay'
    BY <2>1, <2>2 DEF ScheduledJobsStay
  <2>4. \A t \in Servers : started'[t] => started[t]
    BY <1>1, <2>1
  <2> QED
    BY <2>1, <2>3, <2>4 DEF Scheduled
<1>5. ASSUME NEW r \in JobStates, jobState[r] # "absent", UNCHANGED <<started, starts, current>>,
             NEW x \in {"running", Finished(r)}, jobState' = [jobState EXCEPT ![r] = x]
      PROVE  Scheduled'
  <2>1. \A q \in JobStates : jobState[q] = "absent" => jobState'[q] = "absent"
    BY <1>1, <1>5
  <2>2. started[ServerOf(r)] => x \in {"armed", "running"}
    BY <1>5 DEF Finished
  <2>3. ScheduledJobsStay'
    <3> SUFFICES ASSUME NEW n \in Names, started[n[1]], current[n] = starts[n[1]]
                 PROVE  jobState'[<<n, starts[n[1]]>>] \in {"armed", "running"}
      BY <1>5 DEF ScheduledJobsStay
    <3>1. <<n, starts[n[1]]>> \in JobStates /\ ServerOf(<<n, starts[n[1]]>>) = n[1]
      <4>1. starts[n[1]] \in 1 .. MaxStarts
        BY <1>1 DEF Scheduled
      <4> QED
        BY <4>1 DEF JobStates, ServerOf
    <3>2. jobState[<<n, starts[n[1]]>>] \in {"armed", "running"}
      BY DEF Scheduled, ScheduledJobsStay
    <3> QED
      BY <1>1, <1>5, <2>2, <3>1, <3>2
  <2> QED
    BY <1>5, <2>1, <2>3 DEF Scheduled
<1>6. ASSUME NEW r \in JobStates, Skip(r) \/ BeginRun(r) \/ EndRun(r)
      PROVE  \E x \in {"running", Finished(r)} :
                /\ jobState[r] # "absent" /\ UNCHANGED <<started, starts, current>>
                /\ jobState' = [jobState EXCEPT ![r] = x]
  BY <1>6 DEF Skip, BeginRun, EndRun
<1>7. ASSUME NEW s \in Servers, BeginStart(s) \/ StartFails(s)
      PROVE  UNCHANGED <<started, starts, current, jobState>>
  BY <1>7 DEF BeginStart, StartFails
<1> QED
  BY <1>2, <1>3, <1>4, <1>5, <1>6, <1>7 DEF Next, ClientStep, Time, vars, jobVars

\* A run takes a lock when its job state holds nothing, and gives it back.
LEMMA RunnerKeepsOwners ==
    ASSUME IInv, OwnInv, Scheduled, RunnerStep
    PROVE  OwnInv'
<1>1. /\ JobStates \subseteq Askers /\ TypeOK /\ LockInv
      /\ \A r \in JobStates : r[1] \in Names
      /\ WaitersWait /\ FreshLockHasOwner
      /\ jobState \in [JobStates -> {"absent", "armed", "running", "idle"}]
  BY JobsAssumption DEF IInv, OwnInv, LockInv, JobsTypeOK, JobStates
<1>2. ASSUME UNCHANGED lockVars,
             \A r \in JobStates : jobState[r] = "running" => jobState'[r] = "running"
      PROVE  OwnInv'
  BY <1>2 DEF OwnInv, WaitersWait, IdleHoldsNothing, FreshLockHasOwner, HasToken, Fresh, lockVars
<1>3. ASSUME NEW s \in Servers, FinishStart(s) PROVE OwnInv'
  <2>1. ASSUME NEW r \in JobStates, jobState[r] = "running" PROVE jobState'[r] = "running"
    <3>1. ~(r[2] > starts[ServerOf(r)])
      BY <2>1 DEF Scheduled
    <3>2. r[2] \in Nat /\ starts[s] \in Nat
      BY JobsAssumption DEF JobStates, IInv, JobsTypeOK
    <3>3. ~(ServerOf(r) = s /\ r[2] = starts[s] + 1)
      BY <3>1, <3>2
    <3> QED
      BY <1>3, <2>1, <3>3 DEF FinishStart
  <2> QED
    BY <1>2, <1>3, <2>1 DEF FinishStart
<1>4. ASSUME NEW s \in Servers, BeginStart(s) \/ StartFails(s) \/ Stop(s) PROVE OwnInv'
  BY <1>1, <1>2, <1>4 DEF BeginStart, StartFails, Stop
<1>5. ASSUME NEW r \in JobStates, Skip(r) PROVE OwnInv'
  <2>1. \A s \in JobStates : jobState[s] = "running" => jobState'[s] = "running"
    BY <1>1, <1>5 DEF Skip
  <2> QED
    BY <1>2, <1>5, <2>1 DEF Skip
<1>6. ASSUME NEW r \in JobStates, BeginRun(r) PROVE OwnInv'
  <2>1. /\ AcquireFree(r, r[1], JobTtl) /\ jobState[r] = "armed" /\ exits' = exits
        /\ jobState' = [jobState EXCEPT ![r] = "running"]
    BY <1>6 DEF BeginRun
  <2>2. lease[r] = NoLease
    BY <2>1 DEF OwnInv, IdleHoldsNothing
  <2>3. WaitersWait' /\ FreshLockHasOwner'
    BY <1>1, <2>1, <2>2, AcquireFreeKeepsOwners, JobsAssumption
  <2>4. ASSUME NEW s \in JobStates, jobState'[s] # "running" PROVE lease'[s] = NoLease
    <3>1. s # r /\ jobState[s] # "running"
      BY <1>1, <2>1, <2>4
    <3>2. lease'[s] = lease[s]
      BY <1>1, <2>1, <3>1 DEF AcquireFree
    <3> QED
      BY <3>1, <3>2 DEF OwnInv, IdleHoldsNothing
  <2> QED
    BY <2>3, <2>4 DEF OwnInv, IdleHoldsNothing
<1>7. ASSUME NEW r \in JobStates, EndRun(r) PROVE OwnInv'
  <2>1. /\ ReleaseBy(r) /\ jobState[r] = "running" /\ exits' = exits
        /\ jobState' = [jobState EXCEPT ![r] = Finished(r)]
    BY <1>7 DEF EndRun
  <2>2. HasToken(r) /\ r \in Askers
    BY <1>1, <2>1 DEF IInv, RunsHold
  <2>3. WaitersWait' /\ FreshLockHasOwner'
    BY <1>1, <2>1, <2>2, ReleaseKeepsOwners
  <2>4. \A s \in JobStates : s # r => lease'[s] = lease[s]
    BY <2>1, <2>2, ReleaseKeepsRuns
  <2>5. lease'[r] = NoLease
    BY <1>1, <2>1, <2>2, ReleaserIsLeft DEF IInv, OwnInv
  <2>6. \A s \in JobStates : s # r /\ jobState'[s] # "running" => jobState[s] # "running"
    BY <1>1, <2>1
  <2> QED
    BY <2>3, <2>4, <2>5, <2>6 DEF OwnInv, IdleHoldsNothing
<1> QED
  BY <1>3, <1>4, <1>5, <1>6, <1>7 DEF RunnerStep

LEMMA OwnershipKept ==
    ASSUME IInv, OwnInv, Scheduled, [Next]_vars
    PROVE  OwnInv'
<1>1. CASE UNCHANGED vars
  BY <1>1 DEF vars, lockVars, jobVars, OwnInv, WaitersWait, IdleHoldsNothing, FreshLockHasOwner,
              HasToken, Fresh
<1>2. CASE RunnerStep
  BY <1>2, RunnerKeepsOwners
<1>3. ASSUME NEW a \in Clients, ClientStep(a) PROVE OwnInv'
  BY <1>3, ClientKeepsOwners
<1>4. CASE Time
  BY <1>4, TimeKeepsOwners
<1> QED
  BY <1>1, <1>2, <1>3, <1>4 DEF Next, RunnerStep

LEMMA OwnershipInit == ASSUME Init PROVE OwnInv /\ Scheduled
<1>1. /\ \A n \in Names : lock[n] = NoLock /\ DOMAIN queue[n] = {}
      /\ \A a \in Askers : lease[a] = NoLease
      /\ \A s \in Servers : started[s] = FALSE /\ starts[s] = 0
      /\ \A n \in Names : current[n] = 0 /\ n[1] \in Servers
      /\ \A r \in JobStates : jobState[r] = "absent"
  BY JobsAssumption DEF Init, LocksInit
<1>2. JobStates \subseteq Askers
  BY JobsAssumption
<1>3. FreshLockHasOwner
  BY <1>1 DEF FreshLockHasOwner, Fresh, NoLock
<1>4. Scheduled
  BY <1>1 DEF Scheduled, ScheduledJobsStay
<1> QED
  BY <1>1, <1>2, <1>3, <1>4 DEF OwnInv, WaitersWait, IdleHoldsNothing

LEMMA OwnershipHolds == Spec => [](IInv /\ OwnInv /\ Scheduled)
<1>1. Init => IInv /\ OwnInv /\ Scheduled
  BY InitIInv, OwnershipInit
<1>2. IInv /\ OwnInv /\ Scheduled /\ CountInv' /\ [Next]_vars =>
        (IInv /\ OwnInv /\ Scheduled)'
  BY NextKeepsIInv, OwnershipKept, SchedulesKept DEF IInv
<1> QED
  BY <1>1, <1>2, CountHolds, PTL DEF Spec

-----------------------------------------------------------------------------
(* The theorems.                                                           *)

\* The variables of locks and jobs keep their types.
THEOREM JobsTypeCorrect == Spec => []JobsTypeOK
<1>1. IInv => JobsTypeOK
  BY DEF IInv
<1> QED
  BY <1>1, IInvHolds, PTL

LEMMA IInvExcludes == IInv => MutualExclusion
<1> SUFFICES ASSUME IInv, NEW a \in Askers, NEW b \in Askers,
                    HasToken(a), lease[a].left > 0, HasToken(b), lease[b].left > 0,
                    lease[a].name = lease[b].name
             PROVE  a = b
  BY DEF MutualExclusion
<1>1. /\ lock[lease[a].name] = [token |-> lease[a].token, left |-> lease[a].left]
      /\ lock[lease[b].name] = [token |-> lease[b].token, left |-> lease[b].left]
  BY DEF IInv, LeaseMatches
<1>2. lease[a].token = lease[b].token
  BY <1>1
<1> QED
  BY <1>2 DEF IInv, TokensDiffer

\* Two askers never have a token of the same lock that has not run out
\* (state_system.js acquireLock, releaseLock, maybeGrantNextWaiter).
THEOREM LocksExclude == Spec => []MutualExclusion
BY IInvExcludes, IInvHolds, PTL

\* Runs of one job in one server overlap only when one of them has outlived its
\* lock, for any number of servers and starts (job_runner.js runJob, start).
THEOREM JobsExclude == Spec => []RunsShareNoLease
<1>1. IInv => RunsShareNoLease
  <2> SUFFICES ASSUME IInv, NEW r \in JobStates, NEW s \in JobStates,
                      r # s, r[1] = s[1], jobState[r] = "running", jobState[s] = "running"
               PROVE  \E t \in {r, s} : HasToken(t) /\ lease[t].left = 0
    BY DEF RunsShareNoLease
  <2>1. /\ HasToken(r) /\ HasToken(s) /\ lease[r].name = lease[s].name
        /\ r \in Askers /\ s \in Askers
    BY JobsAssumption DEF IInv, RunsHold
  <2>2. lease[r].left \in Nat /\ lease[s].left \in Nat
    BY <2>1, LocksAssumption DEF IInv, JobsTypeOK, TypeOK, Lease
  <2>3. ~(lease[r].left > 0 /\ lease[s].left > 0)
    BY <2>1, IInvExcludes DEF MutualExclusion
  <2> QED
    BY <2>1, <2>2, <2>3
<1> QED
  BY <1>1, IInvHolds, PTL

\* While no asker has died, a lock that has not run out is somebody's: it is not
\* given to a waiter that has timed out (state_system.js acquireLock,
\* maybeGrantNextWaiter).
THEOREM GrantedLocksHaveOwners == Spec => []FreshLockHasOwner
<1>1. OwnInv => FreshLockHasOwner
  BY DEF OwnInv
<1> QED
  BY <1>1, OwnershipHolds, PTL

\* A job that was scheduled by the last start() of a server has a timer or a run under way
\* until stop(), whatever becomes of its runs (job_runner.js runJob, start, stop).
THEOREM JobsStayScheduled == Spec => []ScheduledJobsStay
<1>1. Scheduled => ScheduledJobsStay
  BY DEF Scheduled
<1> QED
  BY <1>1, OwnershipHolds, PTL

LEMMA ReleaseEndsOwnLock ==
    ASSUME LockInv, NEW b \in Askers, HasToken(b), ReleaseBy(b),
           NEW n \in Names, Fresh(n), lock'[n].token # lock[n].token
    PROVE  /\ lease[b].token = lock[n].token /\ lease[b].name = n
           /\ lease'[b].token # lock[n].token
<1> DEFINE m == lease[b].name
<1>1. /\ m \in Names /\ lease[b].token \in Tokens /\ lease[b].token # None
      /\ NewToken # lease[b].token
  BY NewTokenIsNew, LocksAssumption DEF LockInv, LeaseMatches, TokensInUse
<1>2. CASE ~(Fresh(m) /\ lock[m].token = lease[b].token)
  <2>1. lock' = IF Fresh(m) THEN lock ELSE [lock EXCEPT ![m] = NoLock]
    BY <1>2 DEF ReleaseBy
  <2>2. lock'[n] = lock[n]
    BY <2>1 DEF LockInv, TypeOK
  <2> QED
    BY <2>2
<1>3. CASE Fresh(m) /\ lock[m].token = lease[b].token
  <2>1. GrantNextWaiter(m, b)
    BY <1>3 DEF ReleaseBy
  <2>2. n = m
    BY <2>1 DEF GrantNextWaiter, LockInv, TypeOK
  <2>3. lease'[b] = NoLease \/ lease'[b] = Given(m, NewToken, Head(queue[m]).ttl)
    BY <2>1 DEF GrantNextWaiter, LockInv, TypeOK
  <2>4. lease'[b].token \in {None, NewToken}
    BY <2>3 DEF NoLease, Given
  <2>5. lease'[b].token # lease[b].token
    BY <1>1, <2>4
  <2> QED
    BY <1>3, <2>2, <2>5
<1> QED
  BY <1>2, <1>3

\* A lock that has not run out is ended by nobody but its owner: neither a stale
\* token nor an acquisition takes it away (state_system.js releaseLock,
\* acquireLock).
THEOREM OwnersEndTheirLocks == Spec => OnlyOwnerEndsLock
<1> DEFINE Ends ==
        \A n \in Names :
            Fresh(n) /\ lock'[n].token # lock[n].token =>
                \E a \in Askers : /\ lease[a].token = lock[n].token
                                  /\ lease[a].name = n
                                  /\ lease'[a].token # lock[n].token
<1>1. IInv /\ [Next]_vars => [Ends]_lockVars
  <2> SUFFICES ASSUME IInv, [Next]_vars,
                      NEW n \in Names, Fresh(n), lock'[n].token # lock[n].token
               PROVE  \E a \in Askers : /\ lease[a].token = lock[n].token
                                        /\ lease[a].name = n
                                        /\ lease'[a].token # lock[n].token
    OBVIOUS
  <2>1. LockInv /\ TypeOK /\ JobStates \subseteq Askers /\ Clients \subseteq Askers
    BY JobsAssumption DEF IInv, LockInv, JobsTypeOK
  <2>2. lock' # lock
    OBVIOUS
  <2>3. ASSUME NEW a, NEW m, NEW ttl, AcquireFree(a, m, ttl) PROVE FALSE
    <3>1. lock'[n] = lock[n]
      BY <2>1, <2>3 DEF AcquireFree, TypeOK
    <3> QED
      BY <3>1
  <2>4. ~Tick
    <3> SUFFICES ASSUME Tick PROVE FALSE
      OBVIOUS
    <3>1. lock'[n] = [lock[n] EXCEPT !.left = Less(@)] /\ lock[n] \in Lock
      BY <2>1 DEF Tick, TypeOK
    <3> QED
      BY <3>1 DEF Lock
  <2>5. \E b \in Askers : HasToken(b) /\ ReleaseBy(b)
    <3>1. ASSUME NEW r \in JobStates, EndRun(r)
          PROVE  \E b \in Askers : HasToken(b) /\ ReleaseBy(b)
      BY <2>1, <3>1 DEF EndRun, IInv, RunsHold
    <3>2. ASSUME NEW a \in Clients, Release(a)
          PROVE  \E b \in Askers : HasToken(b) /\ ReleaseBy(b)
      BY <2>1, <3>2 DEF Release, HasToken
    <3>3. \/ \E r \in JobStates : EndRun(r)
          \/ \E a \in Clients : Release(a)
      <4>1. ASSUME \/ \E s \in Servers :
                          BeginStart(s) \/ FinishStart(s) \/ StartFails(s) \/ Stop(s)
                   \/ \E r \in JobStates : Skip(r)
            PROVE FALSE
        BY <2>2, <4>1 DEF BeginStart, FinishStart, StartFails, Stop, Skip, lockVars
      <4>2. ASSUME NEW r \in JobStates, BeginRun(r) PROVE FALSE
        BY <2>3, <4>2 DEF BeginRun
      <4>3. ASSUME NEW a \in Clients, ClientStep(a) PROVE Release(a)
        BY <2>2, <2>3, <4>3 DEF ClientStep, Acquire, AcquireWait, Receive, Exit
      <4>4. ASSUME Time PROVE FALSE
        BY <2>2, <2>4, <4>4 DEF Time, WaiterTimesOut
      <4>5. ~UNCHANGED vars
        BY <2>2 DEF vars, lockVars
      <4> QED
        BY <4>1, <4>2, <4>3, <4>4, <4>5 DEF Next
    <3> QED
      BY <3>1, <3>2, <3>3
  <2> QED
    BY <2>1, <2>5, ReleaseEndsOwnLock
<1> QED
  BY <1>1, IInvHolds, PTL DEF Spec, OnlyOwnerEndsLock
=============================================================================
