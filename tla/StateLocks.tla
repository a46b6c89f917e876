----------------------------- MODULE StateLocks -----------------------------
(***************************************************************************)
(* The named locks of the primary's state system (state_system.js) and the *)
(* processes that ask for them: directly, or from a worker through a state *)
(* request (cluster.js).                                                   *)
(*                                                                         *)
(*   lock[n]    the record of locks: its token and the time it has left;   *)
(*              NoLock when there is none.  A lock that has run out stays  *)
(*              until somebody looks (ensureFreshLock)                     *)
(*   queue[n]   waitQueues: who asked, the time until the waiter's timer,  *)
(*              the TTL it asked for                                       *)
(*   lease[a]   what asker a knows: it waits, an answer is on its way to   *)
(*              it, or it holds a token with the expiresAtMs it was given  *)
(*   exits      how many askers died while they waited or held             *)
(*                                                                         *)
(* Time is what is left until a deadline; Tick takes one unit from all of  *)
(* them.  Timers may fire late.  Tokens are random in the code: a fresh    *)
(* one is any that nothing refers to.                                      *)
(***************************************************************************)
EXTENDS Integers, FiniteSets, Sequences, SequencesExt

CONSTANTS
    Names, Askers, Tokens,
    None,
    MaxTtl, MaxWait,   \* longest TTL and longest wait of a request
    MaxExits

ASSUME LocksAssumption ==
    /\ None \notin Names \cup Askers \cup Tokens
    /\ Names \cap Askers = {}
    /\ IsFiniteSet(Names) /\ IsFiniteSet(Askers) /\ IsFiniteSet(Tokens)
    /\ Cardinality(Tokens) > Cardinality(Names \cup Askers)
    /\ MaxTtl \in Nat \ {0}
    /\ MaxWait \in Nat
    /\ MaxExits \in Nat

VARIABLES lock, queue, lease, exits

lockVars == <<lock, queue, lease, exits>>

Lock   == [token : Tokens \cup {None}, left : 0 .. MaxTtl]
Waiter == [asker : Askers \cup {None}, left : 0 .. MaxWait, ttl : 1 .. MaxTtl]
Lease  == [state : {"none", "waiting", "answered", "held"},
           name : Names \cup {None}, token : Tokens \cup {None}, left : 0 .. MaxTtl]

NoLock  == [token |-> None, left |-> 0]
NoLease == [state |-> "none", name |-> None, token |-> None, left |-> 0]

HasToken(a) == lease[a].state \in {"answered", "held"}
Fresh(n)    == lock[n].left > 0
TokensInUse == {lock[n].token : n \in Names} \cup {lease[a].token : a \in Askers}

\* createIpcRequestId("state-lock")
NewToken == CHOOSE t \in Tokens : t \notin TokensInUse

\* The variables have the types of their comments.
TypeOK ==
    /\ lock \in [Names -> Lock]
    /\ queue \in [Names -> Seq(Waiter)]
    /\ lease \in [Askers -> Lease]
    /\ exits \in 0 .. MaxExits

LocksInit ==
    /\ lock = [n \in Names |-> NoLock]
    /\ queue = [n \in Names |-> <<>>]
    /\ lease = [a \in Askers |-> NoLease]
    /\ exits = 0

---------------------------------------------------------------------------
(* What a call does.                                                       *)

Waiting(n)       == [state |-> "waiting", name |-> n, token |-> None, left |-> 0]
Given(n, t, ttl) == [state |-> "answered", name |-> n, token |-> t, left |-> ttl]

\* A mutant of AcquireFree that takes a lock for expired one unit too early.
AcquireFreeEarly(a, n, ttl) ==
    /\ lock[n].left < 2
    /\ lock' = [lock EXCEPT ![n] = [token |-> NewToken, left |-> ttl]]
    /\ lease' = [lease EXCEPT ![a] = Given(n, NewToken, ttl)]
    /\ UNCHANGED queue

\* acquireLock of a free or expired lock: granted, whoever waits for it.
AcquireFree(a, n, ttl) ==
    /\ ~Fresh(n)
    /\ lock' = [lock EXCEPT ![n] = [token |-> NewToken, left |-> ttl]]
    /\ lease' = [lease EXCEPT ![a] = Given(n, NewToken, ttl)]
    /\ UNCHANGED queue

\* acquireLock of a lock that is held, with a wait.
AcquireWait(a, n, ttl, wait) ==
    /\ Fresh(n)
    /\ queue' = [queue EXCEPT ![n] = Append(@, [asker |-> a, left |-> wait, ttl |-> ttl])]
    /\ lease' = [lease EXCEPT ![a] = Waiting(n)]
    /\ UNCHANGED lock

\* A mutant of GrantNextWaiter that forgets the waiters behind the one it grants.
GrantAndDropQueue(n, b) ==
    IF queue[n] = <<>>
    THEN /\ lock' = [lock EXCEPT ![n] = NoLock]
         /\ lease' = [lease EXCEPT ![b] = NoLease]
         /\ UNCHANGED queue
    ELSE LET waiter == Head(queue[n]) IN
         /\ lock' = [lock EXCEPT ![n] = [token |-> NewToken, left |-> waiter.ttl]]
         /\ lease' = [c \in Askers |->
                         IF c = waiter.asker THEN Given(n, NewToken, waiter.ttl)
                         ELSE IF c = b THEN NoLease ELSE lease[c]]
         /\ queue' = [queue EXCEPT ![n] = <<>>]

\* maybeGrantNextWaiter after the lock was deleted; b has given its token back.
GrantNextWaiter(n, b) ==
    IF queue[n] = <<>>
    THEN /\ lock' = [lock EXCEPT ![n] = NoLock]
         /\ lease' = [lease EXCEPT ![b] = NoLease]
         /\ UNCHANGED queue
    ELSE LET waiter == Head(queue[n]) IN
         /\ lock' = [lock EXCEPT ![n] = [token |-> NewToken, left |-> waiter.ttl]]
         /\ lease' = [c \in Askers |->
                         IF c = waiter.asker THEN Given(n, NewToken, waiter.ttl)
                         ELSE IF c = b THEN NoLease ELSE lease[c]]
         /\ queue' = [queue EXCEPT ![n] = Tail(@)]

\* A mutant of ReleaseBy that does not compare the tokens.
ReleaseAny(b) ==
    LET n == lease[b].name IN GrantNextWaiter(n, b)

\* releaseLock by b.  A token that is not the current one changes nothing but
\* that an expired lock is removed.
ReleaseBy(b) ==
    LET n == lease[b].name
        current == Fresh(n) /\ lock[n].token = lease[b].token
    IN
    \/ /\ current
       /\ GrantNextWaiter(n, b)
    \/ /\ ~current
       /\ lock' = IF Fresh(n) THEN lock ELSE [lock EXCEPT ![n] = NoLock]
       /\ lease' = [lease EXCEPT ![b] = NoLease]
       /\ UNCHANGED queue

---------------------------------------------------------------------------
(* Steps of the askers that use the locks through state requests.          *)

Acquire(a, n) ==
    /\ lease[a] = NoLease
    /\ \E ttl \in 1 .. MaxTtl :
        \/ AcquireFree(a, n, ttl)
        \/ \E wait \in 1 .. MaxWait : AcquireWait(a, n, ttl, wait)
    /\ UNCHANGED exits

\* The answer with the token arrives.
Receive(a) ==
    /\ lease[a].state = "answered"
    /\ lease' = [lease EXCEPT ![a].state = "held"]
    /\ UNCHANGED <<lock, queue, exits>>

Release(a) ==
    /\ lease[a].state = "held"
    /\ ReleaseBy(a)
    /\ UNCHANGED exits

\* A mutant of WaiterTimesOut that leaves the waiter in the queue.
TimesOutInQueue(n, a) ==
    \E i \in DOMAIN queue[n] :
        /\ queue[n][i].asker = a
        /\ queue[n][i].left = 0
        /\ lease' = [c \in Askers |-> IF c = a THEN NoLease ELSE lease[c]]
        /\ UNCHANGED <<lock, queue, exits>>

\* The timer of a waiter of a fires: it leaves the queue and a is told that it
\* has no lock.
WaiterTimesOut(n, a) ==
    \E i \in DOMAIN queue[n] :
        /\ queue[n][i].asker = a
        /\ queue[n][i].left = 0
        /\ queue' = [queue EXCEPT ![n] = RemoveAt(@, i)]
        /\ lease' = [c \in Askers |-> IF c = a THEN NoLease ELSE lease[c]]
        /\ UNCHANGED <<lock, exits>>

\* A worker process exits.  The primary knows nothing of it: its lock stays, and
\* so does its place in a queue.  Its successor starts without leases.
Exit(a) ==
    /\ lease[a] # NoLease
    /\ exits < MaxExits
    /\ exits' = exits + 1
    /\ lease' = [lease EXCEPT ![a] = NoLease]
    /\ queue' = [n \in Names |-> [i \in DOMAIN queue[n] |->
                   IF queue[n][i].asker = a THEN [queue[n][i] EXCEPT !.asker = None]
                   ELSE queue[n][i]]]
    /\ UNCHANGED lock

\* A mutant of Less without a floor.
LessBelowZero(k) == k - 1

Less(k) == IF k = 0 THEN 0 ELSE k - 1

Tick ==
    /\ lock' = [n \in Names |-> [lock[n] EXCEPT !.left = Less(@)]]
    /\ queue' = [n \in Names |-> [i \in DOMAIN queue[n] |->
                   [queue[n][i] EXCEPT !.left = Less(@)]]]
    /\ lease' = [a \in Askers |-> [lease[a] EXCEPT !.left = Less(@)]]
    /\ UNCHANGED exits

LocksNext ==
    \/ \E a \in Askers, n \in Names : Acquire(a, n)
    \/ \E a \in Askers : Receive(a) \/ Release(a) \/ Exit(a)
    \/ \E n \in Names, a \in Askers \cup {None} : WaiterTimesOut(n, a)
    \/ Tick

LocksSpec == LocksInit /\ [][LocksNext]_lockVars

---------------------------------------------------------------------------
(* Properties.                                                             *)

\* At most one asker has a token of a lock that has not run out, even with answers
\* under way, waiters that timed out and locks that outlived their owner
\* (state_system.js acquireLock, maybeGrantNextWaiter).
MutualExclusion ==
    \A a, b \in Askers :
        /\ HasToken(a) /\ lease[a].left > 0
        /\ HasToken(b) /\ lease[b].left > 0
        /\ lease[a].name = lease[b].name
        => a = b

\* A lock that has not run out is somebody's: no grant goes to a waiter that has
\* timed out already, where it would block everybody for its whole TTL
\* (state_system.js, the timer of acquireLock against maybeGrantNextWaiter).
FreshLockHasOwner ==
    exits = 0 =>
        \A n \in Names : Fresh(n) =>
            \E a \in Askers : HasToken(a) /\ lease[a].name = n /\ lease[a].token = lock[n].token

\* Only its owner ends a lock that has not run out (state_system.js releaseLock:
\* a stale token frees nobody else's lock).
OnlyOwnerEndsLock ==
    [][\A n \in Names :
          Fresh(n) /\ lock'[n].token # lock[n].token =>
              \E a \in Askers : /\ lease[a].token = lock[n].token
                                /\ lease[a].name = n
                                /\ lease'[a].token # lock[n].token]_lockVars

\* Whoever waits is answered, also when the lock it waits for was left by a dead
\* worker or was released after it had run out (state_system.js acquireLock).
WaitersAnswered ==
    \A a \in Askers : lease[a].state = "waiting" ~> lease[a].state # "waiting"
=============================================================================
