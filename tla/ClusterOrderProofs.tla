------------------------- MODULE ClusterOrderProofs -------------------------
(***************************************************************************)
(* What the order of the messages in a channel gives: theorems about       *)
(* ClusterReplication, for every set of workers, keys and values, every    *)
(* retention and every bound.                                              *)
(*                                                                         *)
(* OrderInv adds to IInv                                                   *)
(*   ChannelOrdered  the versions in a channel go up one by one, and every *)
(*                   version after the one a message ends at is announced  *)
(*                   behind it,                                            *)
(*   SyncInv         a pull that is under way starts where the replica is, *)
(*                   or everything the replica lacks is on its way,        *)
(*   TurnInv         one boot sync and one browser request at most are     *)
(*                   under way,                                            *)
(*   AckInv          nothing in the channel is older than what a browser   *)
(*                   was promised or than what its answer will promise.    *)
(***************************************************************************)
EXTENDS ClusterReplicationProofs

\* The version of the primary when a message was sent; 0 if it carries none.
End(m) ==
    CASE m.kind \in {"STATE_DELTA", "delta"} -> m.delta.toVersion
      [] m.kind \in {"STATE_SNAPSHOT", "snapshot"} -> m.snapshot.version
      [] m.kind \in {"commit", "emptyCommit"} -> m.version
      [] OTHER -> 0

\* The broadcast of version v.
Announces(m, v) ==
    m.kind \in {"STATE_DELTA", "STATE_SNAPSHOT"} /\ End(m) = v

\* Every version after r up to v is announced in channel c before anything newer.
Follows(c, r, v) ==
    \A n \in r + 1 .. v :
        \E k \in DOMAIN c :
            /\ Announces(c[k], n)
            /\ \A j \in 1 .. k - 1 : End(c[j]) < n

\* The delta of a single commit.
OneStep(m) ==
    /\ m.kind \in {"STATE_DELTA", "commit"} => m.delta.toVersion = m.delta.fromVersion + 1
    /\ m.kind = "commit" => m.version = m.delta.toVersion

\* A channel to a worker when the primary is at version v.
Ordered(c, v) ==
    /\ \A i \in DOMAIN c : OneStep(c[i]) /\ End(c[i]) <= v
    /\ \A i, j \in DOMAIN c :
          i < j /\ c[j].kind # "noDelta" => End(c[i]) <= End(c[j])
    /\ \A i \in DOMAIN c : c[i].kind # "noDelta" => Follows(c, End(c[i]), v)

ChannelOrdered(w) ==
    /\ Ordered(toWorker[w], version)
    /\ phase[w] = "down" => toWorker[w] = <<>> /\ toPrimary[w] = <<>>

\* The versions the pulls of w that are under way start from.
Asked(w) ==
    {m.fromVersion : m \in {x \in InTransit(toPrimary[w]) : x.kind = "getDeltaSince"}}
        \cup {m.delta.fromVersion : m \in {x \in InTransit(toWorker[w]) : x.kind = "delta"}}

\* Everything the replica lacks is on its way.
UpToDate(w) == Follows(toWorker[w], replica[w].version, version)

AtBoot(w) == replica[w].version = bootSnapshot[w].version

SyncInv(w) ==
    HasWatchdog(w) =>
        /\ bootSnapshot[w].version <= replica[w].version
        /\ UpToDate(w) \/ \A f \in Asked(w) : f = replica[w].version
        /\ phase[w] = "starting" \/ (phase[w] # "listening" /\ AtBoot(w)) =>
              \A f \in Asked(w) : f = bootSnapshot[w].version
        /\ phase[w] \in {"loading", "starting"} \/ (phase[w] = "listening" /\ ~ AtBoot(w)) =>
              UpToDate(w)

Commits == {"commitProjectPaths", "commit", "emptyCommit"}
Pulls == {"getDeltaSince", "getSnapshot", "delta", "noDelta", "snapshot"}

\* Which await of the worker a message is part of.
Settles(m) ==
    IF m.kind \in Commits THEN "request" ELSE IF m.kind \in Pulls THEN m.tag ELSE "none"

Contains(c, t) == \E i \in DOMAIN c : Settles(c[i]) = t
AtMostOne(c, t) ==
    \A i, j \in DOMAIN c : Settles(c[i]) = t /\ Settles(c[j]) = t => i = j

\* A message of w is part of t; at most one is.
Busy(w, t) == Contains(toWorker[w], t) \/ Contains(toPrimary[w], t)
Single(w, t) ==
    /\ AtMostOne(toWorker[w], t) /\ AtMostOne(toPrimary[w], t)
    /\ ~ (Contains(toWorker[w], t) /\ Contains(toPrimary[w], t))

NoCommitIn(channel) == \A m \in InTransit(channel) : m.kind \notin Commits

TurnInv(w) ==
    /\ Single(w, "boot") /\ Single(w, "request")
    /\ Busy(w, "boot") => phase[w] = "syncing"
    /\ Busy(w, "request") => request[w] # Idle
    /\ phase[w] # "listening" => request[w] = Idle /\ acked[w] = 0
    /\ request[w].kind = "fenced" => NoCommitIn(toWorker[w]) /\ NoCommitIn(toPrimary[w])

AckInv(w) ==
    /\ acked[w] <= version /\ request[w].floor <= version
    /\ \A m \in InTransit(toWorker[w]) :
          /\ m.kind # "noDelta" => acked[w] <= End(m)
          /\ m.kind \in {"delta", "snapshot"} /\ m.tag = "request" =>
                request[w].floor <= End(m)
    /\ phase[w] = "listening" /\ ~ AtBoot(w) => acked[w] <= replica[w].version

WorkerOrder(w) == ChannelOrdered(w) /\ SyncInv(w) /\ TurnInv(w) /\ AckInv(w)

OrderInv == \A w \in Workers : WorkerOrder(w)

-----------------------------------------------------------------------------
(* Channels. *)

LEMMA EndFacts ==
    ASSUME NEW m \in WorkerMessage
    PROVE  /\ End(m) \in Nat
           /\ m.kind \in {"STATE_DELTA", "delta"} => End(m) = m.delta.toVersion
           /\ m.kind \in {"STATE_SNAPSHOT", "snapshot"} => End(m) = m.snapshot.version
           /\ m.kind \in {"commit", "emptyCommit"} => End(m) = m.version
           /\ m.kind = "noDelta" => End(m) = 0
<1>1. /\ m.kind \in {"STATE_DELTA", "delta", "commit"} => m.delta.toVersion \in Nat
      /\ m.kind \in {"STATE_SNAPSHOT", "snapshot"} => m.snapshot.version \in Nat
      /\ m.kind \in {"commit", "emptyCommit"} => m.version \in Nat
    BY WorkerMessageFields DEF Delta, Snapshot
<1>2. m.kind \in {"STATE_DELTA", "STATE_SNAPSHOT", "delta", "noDelta", "snapshot", "commit",
                  "emptyCommit"}
    BY DEF WorkerMessage
<1>. QED
    BY <1>1, <1>2 DEF End

\* Domain and members of a channel after sending and after receiving.
LEMMA SentPositions ==
    ASSUME NEW S, NEW c \in Seq(S), NEW m \in S
    PROVE  /\ Append(c, m) \in Seq(S)
           /\ DOMAIN c = 1 .. Len(c) /\ Len(c) \in Nat
           /\ DOMAIN Append(c, m) = 1 .. Len(c) + 1
           /\ \A i \in 1 .. Len(c) : Append(c, m)[i] = c[i] /\ c[i] \in S
           /\ Append(c, m)[Len(c) + 1] = m
OBVIOUS

LEMMA ReceivedPositions ==
    ASSUME NEW S, NEW c \in Seq(S), c # <<>>
    PROVE  /\ Tail(c) \in Seq(S)
           /\ DOMAIN c = 1 .. Len(c) /\ Len(c) \in Nat \ {0}
           /\ DOMAIN Tail(c) = 1 .. Len(c) - 1
           /\ \A i \in 1 .. Len(c) - 1 : Tail(c)[i] = c[i + 1]
           /\ \A i \in 1 .. Len(c) : c[i] \in S
           /\ Head(c) = c[1] /\ Head(c) \in S
OBVIOUS

\* Who needs less is followed too.
LEMMA FollowsMore ==
    ASSUME NEW c, NEW r \in Nat, NEW s \in Nat, NEW v \in Nat, Follows(c, r, v), r <= s
    PROVE  Follows(c, s, v)
<1>1. \A n \in s + 1 .. v : n \in r + 1 .. v
    OBVIOUS
<1>. QED
    BY <1>1 DEF Follows

\* The primary sends a message of its present version, or announces the next one.
LEMMA SendOrdered ==
    ASSUME NEW c \in Seq(WorkerMessage), NEW m \in WorkerMessage, NEW v \in Nat, NEW v2 \in Nat,
           Ordered(c, v), OneStep(m),
           m.kind = "noDelta" \/ End(m) = v2,
           v2 = v \/ (v2 = v + 1 /\ Announces(m, v2))
    PROVE  /\ Ordered(Append(c, m), v2)
           /\ \A r \in Nat : Follows(c, r, v) => Follows(Append(c, m), r, v2)
<1>. DEFINE d == Append(c, m)
            last == Len(c) + 1
<1>1. /\ DOMAIN c = 1 .. Len(c) /\ Len(c) \in Nat
      /\ DOMAIN d = 1 .. last
      /\ \A i \in 1 .. Len(c) : d[i] = c[i] /\ c[i] \in WorkerMessage
      /\ d[last] = m
    BY SentPositions
<1>. HIDE DEF d
<1>2. \A i \in 1 .. last : d[i] \in WorkerMessage /\ End(d[i]) \in Nat
    BY <1>1, EndFacts
<1>3. \A i \in 1 .. Len(c) : End(d[i]) <= v
    BY <1>1 DEF Ordered
<1>4. End(m) <= v2 /\ v <= v2
    BY EndFacts
<1>5. ASSUME NEW r \in Nat, Follows(c, r, v)
      PROVE  Follows(d, r, v2)
    <2>. SUFFICES ASSUME NEW n \in r + 1 .. v2
                  PROVE  \E k \in DOMAIN d : /\ Announces(d[k], n)
                                             /\ \A j \in 1 .. k - 1 : End(d[j]) < n
        BY DEF Follows
    <2>1. CASE n <= v
        <3>1. PICK k \in DOMAIN c : /\ Announces(c[k], n)
                                    /\ \A j \in 1 .. k - 1 : End(c[j]) < n
            BY <1>5, <2>1 DEF Follows
        <3>2. \A j \in 1 .. k - 1 : j \in 1 .. Len(c)
            BY <1>1
        <3>. QED
            BY <1>1, <3>1, <3>2
    <2>2. CASE ~ (n <= v)
        <3>1. n = v2 /\ v2 = v + 1 /\ Announces(m, v2)
            BY <2>2
        <3>2. \A j \in 1 .. last - 1 : End(d[j]) < n
            <4>1. \A j \in 1 .. last - 1 : j \in 1 .. Len(c) /\ j \in 1 .. last
                BY <1>1
            <4>. QED
                BY <1>2, <1>3, <3>1, <4>1
        <3>. QED
            BY <1>1, <3>1, <3>2
    <2>. QED
        BY <2>1, <2>2
<1>6. \A i \in DOMAIN d : OneStep(d[i]) /\ End(d[i]) <= v2
    <2>1. \A i \in 1 .. Len(c) : OneStep(d[i])
        BY <1>1 DEF Ordered
    <2>. QED
        BY <1>1, <1>2, <1>3, <1>4, <2>1
<1>7. ASSUME NEW i \in DOMAIN d, NEW j \in DOMAIN d, i < j, d[j].kind # "noDelta"
      PROVE  End(d[i]) <= End(d[j])
    <2>1. CASE j = last
        <3>1. End(d[j]) = v2 /\ i \in 1 .. Len(c)
            BY <1>1, <1>7, <2>1
        <3>. QED
            BY <1>1, <1>2, <1>3, <1>4, <3>1
    <2>2. CASE j # last
        <3>1. i \in 1 .. Len(c) /\ j \in 1 .. Len(c)
            BY <1>1, <1>7, <2>2
        <3>. QED
            BY <1>1, <1>7, <3>1 DEF Ordered
    <2>. QED
        BY <2>1, <2>2
<1>8. ASSUME NEW i \in DOMAIN d, d[i].kind # "noDelta"
      PROVE  Follows(d, End(d[i]), v2)
    <2>1. CASE i = last
        <3>1. End(d[i]) = v2
            BY <1>1, <1>8, <2>1
        <3>. QED
            BY <3>1 DEF Follows
    <2>2. CASE i # last
        <3>1. i \in 1 .. Len(c)
            BY <1>1, <2>2
        <3>2. d[i] = c[i] /\ Follows(c, End(c[i]), v)
            BY <1>1, <1>8, <3>1 DEF Ordered
        <3>. QED
            BY <1>1, <1>2, <1>5, <3>1, <3>2
    <2>. QED
        BY <2>1, <2>2
<1>. QED
    BY <1>5, <1>6, <1>7, <1>8 DEF Ordered, d

\* The worker takes the first message.  Who is not behind it is still followed.
LEMMA ReceiveOrdered ==
    ASSUME NEW c \in Seq(WorkerMessage), NEW v \in Nat, c # <<>>, Ordered(c, v)
    PROVE  /\ Ordered(Tail(c), v)
           /\ \A r, s \in Nat : Follows(c, r, v) /\ r <= s /\ End(Head(c)) <= s =>
                 Follows(Tail(c), s, v)
           /\ Head(c).kind # "noDelta" => Follows(Tail(c), End(Head(c)), v)
           /\ \A m \in InTransit(Tail(c)) : m.kind # "noDelta" => End(Head(c)) <= End(m)
           /\ End(Head(c)) <= v /\ OneStep(Head(c))
<1>. DEFINE d == Tail(c)
            e == End(Head(c))
<1>1. /\ DOMAIN c = 1 .. Len(c) /\ Len(c) \in Nat \ {0}
      /\ DOMAIN d = 1 .. Len(c) - 1
      /\ \A i \in 1 .. Len(c) - 1 : d[i] = c[i + 1]
      /\ \A i \in 1 .. Len(c) : c[i] \in WorkerMessage
      /\ Head(c) = c[1]
    BY ReceivedPositions
<1>. HIDE DEF d
<1>2. \A i \in 1 .. Len(c) - 1 : i + 1 \in 1 .. Len(c) /\ 1 < i + 1
    BY <1>1
<1>3. /\ \A i \in 1 .. Len(c) : End(c[i]) \in Nat
      /\ e \in Nat
    BY <1>1, EndFacts
<1>4. e <= v /\ OneStep(Head(c)) /\ (Head(c).kind # "noDelta" => Follows(c, e, v))
    BY <1>1 DEF Ordered
<1>. HIDE DEF e
<1>5. ASSUME NEW r \in Nat, NEW s \in Nat, Follows(c, r, v), r <= s, e <= s
      PROVE  Follows(d, s, v)
    <2>. SUFFICES ASSUME NEW n \in s + 1 .. v
                  PROVE  \E k \in DOMAIN d : /\ Announces(d[k], n)
                                             /\ \A j \in 1 .. k - 1 : End(d[j]) < n
        BY DEF Follows
    <2>1. n \in r + 1 .. v
        BY <1>5
    <2>2. PICK k \in DOMAIN c : /\ Announces(c[k], n)
                                /\ \A j \in 1 .. k - 1 : End(c[j]) < n
        BY <1>5, <2>1 DEF Follows
    <2>3. k # 1
        BY <1>1, <1>3, <1>5, <2>2 DEF Announces, e
    <2>4. k - 1 \in DOMAIN d /\ d[k - 1] = c[k]
        BY <1>1, <2>3
    <2>5. \A j \in 1 .. (k - 1) - 1 : End(d[j]) < n
        <3>. SUFFICES ASSUME NEW j \in 1 .. (k - 1) - 1
                      PROVE  End(d[j]) < n
            OBVIOUS
        <3>1. j + 1 \in 1 .. k - 1 /\ j \in 1 .. Len(c) - 1
            BY <1>1
        <3>. QED
            BY <1>1, <2>2, <3>1
    <2>. QED
        BY <2>2, <2>4, <2>5
<1>6. \A i \in DOMAIN d : OneStep(d[i]) /\ End(d[i]) <= v
    BY <1>1, <1>2 DEF Ordered
<1>7. ASSUME NEW i \in DOMAIN d, NEW j \in DOMAIN d, i < j, d[j].kind # "noDelta"
      PROVE  End(d[i]) <= End(d[j])
    <2>1. i + 1 \in DOMAIN c /\ j + 1 \in DOMAIN c /\ i + 1 < j + 1
        BY <1>1, <1>7
    <2>. QED
        BY <1>1, <1>7, <2>1 DEF Ordered
<1>8. ASSUME NEW i \in DOMAIN d, d[i].kind # "noDelta"
      PROVE  e <= End(d[i]) /\ Follows(d, End(d[i]), v)
    <2>1. i + 1 \in DOMAIN c /\ 1 < i + 1 /\ 1 \in DOMAIN c /\ d[i] = c[i + 1]
        BY <1>1, <1>8
    <2>2. e <= End(c[i + 1]) /\ Follows(c, End(c[i + 1]), v)
        BY <1>1, <1>8, <2>1 DEF Ordered, e
    <2>3. End(c[i + 1]) \in Nat
        BY <1>1, <1>3, <2>1
    <2>. QED
        BY <1>5, <2>1, <2>2, <2>3
<1>9. /\ \A r, s \in Nat : Follows(c, r, v) /\ r <= s /\ e <= s => Follows(d, s, v)
      /\ Head(c).kind # "noDelta" => Follows(d, e, v)
    BY <1>3, <1>4, <1>5
<1>10. \A m \in InTransit(d) : m.kind # "noDelta" => e <= End(m)
    BY <1>8 DEF InTransit
<1>11. Ordered(d, v)
    BY <1>6, <1>7, <1>8 DEF Ordered
<1>. QED
    BY <1>4, <1>9, <1>10, <1>11 DEF d, e

\* A replica with everything on its way is not behind the next message, or that
\* message announces the next version.
LEMMA NextInLine ==
    ASSUME NEW c \in Seq(WorkerMessage), NEW v \in Nat, NEW r \in Nat,
           c # <<>>, Ordered(c, v), Follows(c, r, v)
    PROVE  \/ End(Head(c)) <= r
           \/ End(Head(c)) = r + 1 /\ Announces(Head(c), r + 1)
<1>. DEFINE e == End(Head(c))
<1>1. /\ DOMAIN c = 1 .. Len(c) /\ Len(c) \in Nat \ {0}
      /\ Head(c) = c[1] /\ Head(c) \in WorkerMessage
    BY ReceivedPositions
<1>2. e \in Nat /\ e <= v
    BY <1>1, EndFacts DEF Ordered
<1>3. \A n \in r + 1 .. v : n <= e => Announces(Head(c), n)
    <2>. SUFFICES ASSUME NEW n \in r + 1 .. v, n <= e
                  PROVE  Announces(Head(c), n)
        OBVIOUS
    <2>1. PICK k \in DOMAIN c : /\ Announces(c[k], n)
                                /\ \A j \in 1 .. k - 1 : End(c[j]) < n
        BY DEF Follows
    <2>2. k = 1
        <3>1. k # 1 => 1 \in 1 .. k - 1
            BY <1>1
        <3>. QED
            BY <1>1, <1>2, <2>1, <3>1
    <2>. QED
        BY <1>1, <2>1, <2>2
<1>4. CASE e > r
    <2>1. r + 1 \in r + 1 .. v /\ r + 1 <= e /\ e \in r + 1 .. v
        BY <1>2, <1>4
    <2>2. Announces(Head(c), r + 1) /\ Announces(Head(c), e)
        BY <1>2, <1>3, <2>1
    <2>. QED
        BY <2>2 DEF Announces
<1>. QED
    BY <1>2, <1>4

-----------------------------------------------------------------------------
(* Turns. *)

LEMMA SentTurn ==
    ASSUME NEW S, NEW c \in Seq(S), NEW m \in S, NEW t
    PROVE  /\ Contains(Append(c, m), t) <=> Contains(c, t) \/ Settles(m) = t
           /\ AtMostOne(c, t) /\ ~ (Contains(c, t) /\ Settles(m) = t) =>
                 AtMostOne(Append(c, m), t)
BY SentPositions DEF Contains, AtMostOne

LEMMA ReceivedTurn ==
    ASSUME NEW S, NEW c \in Seq(S), c # <<>>, NEW t
    PROVE  /\ Contains(Tail(c), t) => Contains(c, t)
           /\ Settles(Head(c)) = t => Contains(c, t)
           /\ AtMostOne(c, t) => AtMostOne(Tail(c), t)
           /\ AtMostOne(c, t) /\ Settles(Head(c)) = t => ~ Contains(Tail(c), t)
<1>1. /\ DOMAIN c = 1 .. Len(c) /\ Len(c) \in Nat \ {0}
      /\ DOMAIN Tail(c) = 1 .. Len(c) - 1
      /\ \A i \in 1 .. Len(c) - 1 : Tail(c)[i] = c[i + 1]
      /\ Head(c) = c[1]
    BY ReceivedPositions
<1>2. \A i \in 1 .. Len(c) - 1 : i + 1 \in 1 .. Len(c) /\ i + 1 # 1
    BY <1>1
<1>3. 1 \in DOMAIN c
    BY <1>1
<1>4. Contains(Tail(c), t) => Contains(c, t)
    BY <1>1, <1>2 DEF Contains
<1>5. Settles(Head(c)) = t => Contains(c, t)
    BY <1>1, <1>3 DEF Contains
<1>6. AtMostOne(c, t) => AtMostOne(Tail(c), t)
    BY <1>1, <1>2 DEF AtMostOne
<1>7. AtMostOne(c, t) /\ Settles(Head(c)) = t => ~ Contains(Tail(c), t)
    BY <1>1, <1>2, <1>3 DEF AtMostOne, Contains
<1>. QED
    BY <1>4, <1>5, <1>6, <1>7

LEMMA EmptyTurn == \A t : ~ Contains(<<>>, t) /\ AtMostOne(<<>>, t)
BY DEF Contains, AtMostOne

\* What the messages of the protocol are part of.
LEMMA SettlesFacts ==
    /\ \A s : Settles(SnapshotMsg(s)) = "none"
    /\ \A d : Settles(DeltaMsg(d)) = "none"
    /\ \A t, d : Settles(DeltaResponse(t, d)) = t
    /\ \A t : Settles(NoDeltaResponse(t)) = t
    /\ \A t, s : Settles(SnapshotResponse(t, s)) = t
    /\ \A d, v : Settles(CommitResponse(d, v)) = "request"
    /\ \A v : Settles(EmptyCommitResponse(v)) = "request"
    /\ Settles(ReadyMsg) = "none" /\ Settles(CommitProjectPaths) = "request"
    /\ \A t, v : Settles(GetDeltaSince(t, v)) = t
    /\ \A t : Settles(GetSnapshot(t)) = t
BY DEF Settles, Commits, Pulls, SnapshotMsg, DeltaMsg, DeltaResponse, NoDeltaResponse,
       SnapshotResponse, CommitResponse, EmptyCommitResponse, ReadyMsg, CommitProjectPaths,
       GetDeltaSince, GetSnapshot

-----------------------------------------------------------------------------
(* The primary acts. *)

\* What the steps of the primary have in common for a worker.
LEMMA Served ==
    ASSUME TypeOK, TypeOK', NEW u \in Workers, WorkerOrder(u), UNCHANGED workerVars,
           version <= version',
           Ordered(toWorker'[u], version'),
           \A r \in Nat : Follows(toWorker[u], r, version) => Follows(toWorker'[u], r, version'),
           phase[u] = "down" => toWorker'[u] = <<>> /\ toPrimary'[u] = <<>>,
           InTransit(toPrimary'[u]) \subseteq InTransit(toPrimary[u]),
           \A m \in InTransit(toWorker'[u]) :
              \/ m \in InTransit(toWorker[u])
              \/ /\ m.kind = "noDelta" \/ End(m) = version'
                 /\ m.kind = "delta" => m.delta.fromVersion \in Asked(u)
                 /\ m.kind \in Commits => ~ NoCommitIn(toPrimary[u]),
           \A t \in {"boot", "request"} :
              Single(u, t) => Single(u, t)' /\ (Busy(u, t)' => Busy(u, t))
    PROVE  WorkerOrder(u)'
<1>1. /\ phase' = phase /\ bootSnapshot' = bootSnapshot /\ replica' = replica
      /\ request' = request /\ acked' = acked
    BY DEF workerVars
<1>2. /\ version \in Nat /\ version' \in Nat /\ replica[u].version \in Nat
      /\ acked[u] \in Nat /\ request[u].floor \in Nat
    BY DEF TypeOK, Snapshot, Request
<1>3. ChannelOrdered(u)'
    BY <1>1 DEF ChannelOrdered
<1>4. SyncInv(u)'
    <2>1. Asked(u)' \subseteq Asked(u)
        BY DEF Asked
    <2>2. UpToDate(u) => UpToDate(u)'
        BY <1>1, <1>2 DEF UpToDate
    <2>. QED
        BY <1>1, <2>1, <2>2 DEF WorkerOrder, SyncInv, AtBoot, HasWatchdog
<1>5. TurnInv(u)'
    <2>1. /\ Single(u, "boot")' /\ Single(u, "request")'
          /\ Busy(u, "boot")' => phase[u] = "syncing"
          /\ Busy(u, "request")' => request[u] # Idle
        BY DEF WorkerOrder, TurnInv
    <2>2. request[u].kind = "fenced" => NoCommitIn(toWorker[u])' /\ NoCommitIn(toPrimary[u])'
        BY DEF WorkerOrder, TurnInv, NoCommitIn
    <2>. QED
        BY <1>1, <2>1, <2>2 DEF WorkerOrder, TurnInv
<1>6. AckInv(u)'
    <2>1. acked[u] <= version' /\ request[u].floor <= version'
        BY <1>2 DEF WorkerOrder, AckInv
    <2>2. \A m \in InTransit(toWorker'[u]) :
              /\ m.kind # "noDelta" => acked[u] <= End(m)
              /\ m.kind \in {"delta", "snapshot"} /\ m.tag = "request" =>
                    request[u].floor <= End(m)
        BY <2>1 DEF WorkerOrder, AckInv
    <2>. QED
        BY <1>1, <2>1, <2>2 DEF WorkerOrder, AckInv, AtBoot
<1>. QED
    BY <1>3, <1>4, <1>5, <1>6 DEF WorkerOrder

LEMMA Unserved ==
    ASSUME TypeOK, TypeOK', NEW u \in Workers, WorkerOrder(u),
           phase'[u] = phase[u], bootSnapshot'[u] = bootSnapshot[u], replica'[u] = replica[u],
           request'[u] = request[u], acked'[u] = acked[u],
           toWorker'[u] = toWorker[u], toPrimary'[u] = toPrimary[u], version' = version
    PROVE  WorkerOrder(u)'
<1>1. /\ UpToDate(u)' <=> UpToDate(u)
      /\ Asked(u)' = Asked(u)
      /\ AtBoot(u)' <=> AtBoot(u)
      /\ \A t : (Busy(u, t)' <=> Busy(u, t)) /\ (Single(u, t)' <=> Single(u, t))
      /\ HasWatchdog(u)' <=> HasWatchdog(u)
    BY DEF UpToDate, Asked, AtBoot, Busy, Single, HasWatchdog
<1>. QED
    BY <1>1 DEF WorkerOrder, ChannelOrdered, SyncInv, TurnInv, AckInv

\* A broadcast.
LEMMA BroadcastOrder ==
    ASSUME TypeOK, TypeOK', NEW u \in Workers, WorkerOrder(u), UNCHANGED workerVars,
           NEW m \in WorkerMessage, m.kind \in {"STATE_DELTA", "STATE_SNAPSHOT"},
           OneStep(m), End(m) = version', version' = version \/ version' = version + 1,
           toWorker'[u] = Broadcast(m)[u], toPrimary'[u] = toPrimary[u]
    PROVE  WorkerOrder(u)'
<1>0. /\ toWorker[u] \in Seq(WorkerMessage) /\ version \in Nat /\ version' \in Nat
      /\ Ordered(toWorker[u], version)
    BY DEF TypeOK, WorkerOrder, ChannelOrdered
<1>1. CASE phase[u] = "down"
    <2>1. toWorker'[u] = <<>> /\ toPrimary'[u] = <<>> /\ toWorker[u] = <<>>
        BY <1>1 DEF Broadcast, Connected, WorkerOrder, ChannelOrdered
    <2>2. Ordered(<<>>, version') /\ phase' = phase
        BY DEF Ordered, workerVars
    <2>3. /\ ~ HasWatchdog(u)' /\ ChannelOrdered(u)'
        BY <1>1, <2>1, <2>2 DEF HasWatchdog, ChannelOrdered
    <2>4. /\ request' = request /\ acked' = acked /\ request[u] = Idle /\ acked[u] = 0
        BY <1>1 DEF workerVars, WorkerOrder, TurnInv
    <2>5. TurnInv(u)'
        BY <1>1, <2>1, <2>2, <2>4, EmptyTurn
           DEF TurnInv, Single, Busy, Idle
    <2>6. AckInv(u)'
        BY <1>0, <1>1, <2>1, <2>2, <2>4, NothingInTransit DEF AckInv, Idle
    <2>. QED
        BY <2>3, <2>5, <2>6 DEF WorkerOrder, SyncInv
<1>2. CASE phase[u] # "down"
    <2>1. toWorker'[u] = Append(toWorker[u], m)
        BY <1>2 DEF Broadcast, Connected
    <2>2. /\ Ordered(toWorker'[u], version')
          /\ \A r \in Nat : Follows(toWorker[u], r, version) => Follows(toWorker'[u], r, version')
        BY <1>0, <2>1, SendOrdered DEF Announces
    <2>3. InTransit(toWorker'[u]) = InTransit(toWorker[u]) \cup {m}
        BY <1>0, <2>1, AppendInTransit
    <2>4. Settles(m) = "none"
        BY DEF Settles, Commits, Pulls
    <2>5. \A t \in {"boot", "request"} :
              Single(u, t) => Single(u, t)' /\ (Busy(u, t)' => Busy(u, t))
        BY <1>0, <2>1, <2>4, SentTurn DEF Single, Busy
    <2>6. m.kind # "delta" /\ m.kind \notin Commits
        BY DEF Commits
    <2>. QED
        BY <1>0, <1>2, <2>2, <2>3, <2>5, <2>6, Served
<1>. QED
    BY <1>1, <1>2

\* An answer, possibly behind the announcement of a commit.
LEMMA AnswerOrder ==
    ASSUME TypeOK, TypeOK', NEW w \in Workers, WorkerOrder(w), UNCHANGED workerVars,
           toPrimary[w] # <<>>, toPrimary'[w] = Tail(toPrimary[w]),
           NEW c \in Seq(WorkerMessage), NEW m \in WorkerMessage, toWorker'[w] = Append(c, m),
           \/ c = toWorker[w] /\ version' = version
           \/ \E a \in WorkerMessage : /\ c = Append(toWorker[w], a) /\ version' = version + 1
                                       /\ Announces(a, version') /\ OneStep(a),
           OneStep(m), m.kind = "noDelta" \/ End(m) = version',
           m.kind = "delta" => m.delta.fromVersion \in Asked(w),
           m.kind \in Commits => Head(toPrimary[w]).kind \in Commits,
           Settles(m) = Settles(Head(toPrimary[w]))
    PROVE  WorkerOrder(w)'
<1>0. /\ toWorker[w] \in Seq(WorkerMessage) /\ toPrimary[w] \in Seq(PrimaryMessage)
      /\ version \in Nat /\ version' \in Nat /\ version <= version'
      /\ Ordered(toWorker[w], version) /\ phase[w] # "down"
    BY DEF TypeOK, WorkerOrder, ChannelOrdered
<1>1. /\ Ordered(c, version')
      /\ \A r \in Nat : Follows(toWorker[w], r, version) => Follows(c, r, version')
      /\ \A x \in InTransit(c) :
            \/ x \in InTransit(toWorker[w])
            \/ x.kind \in {"STATE_DELTA", "STATE_SNAPSHOT"} /\ End(x) = version'
      /\ \A t \in {"boot", "request"} :
            /\ Contains(c, t) <=> Contains(toWorker[w], t)
            /\ AtMostOne(toWorker[w], t) => AtMostOne(c, t)
    <2>1. CASE c = toWorker[w] /\ version' = version
        BY <1>0, <2>1
    <2>2. CASE \E a \in WorkerMessage : /\ c = Append(toWorker[w], a) /\ version' = version + 1
                                          /\ Announces(a, version') /\ OneStep(a)
        <3>0. PICK a \in WorkerMessage : /\ c = Append(toWorker[w], a) /\ version' = version + 1
                                         /\ Announces(a, version') /\ OneStep(a)
            BY <2>2
        <3>1. a.kind \in {"STATE_DELTA", "STATE_SNAPSHOT"} /\ End(a) = version'
            BY <3>0 DEF Announces
        <3>2. /\ Ordered(c, version')
              /\ \A r \in Nat : Follows(toWorker[w], r, version) => Follows(c, r, version')
            BY <1>0, <3>0, <3>1, SendOrdered
        <3>3. InTransit(c) = InTransit(toWorker[w]) \cup {a}
            BY <1>0, <3>0, AppendInTransit
        <3>4. Settles(a) = "none"
            BY <3>1 DEF Settles, Commits, Pulls
        <3>5. \A t \in {"boot", "request"} :
                  /\ Contains(c, t) <=> Contains(toWorker[w], t)
                  /\ AtMostOne(toWorker[w], t) => AtMostOne(c, t)
            BY <1>0, <3>0, <3>4, SentTurn
        <3>. QED
            BY <3>1, <3>2, <3>3, <3>5
    <2>. QED
        BY <2>1, <2>2
<1>2. /\ Ordered(toWorker'[w], version')
      /\ \A r \in Nat : Follows(c, r, version') => Follows(toWorker'[w], r, version')
    BY <1>0, <1>1, SendOrdered
<1>3. InTransit(toWorker'[w]) = InTransit(c) \cup {m}
    BY AppendInTransit
<1>4. /\ InTransit(toPrimary'[w]) \subseteq InTransit(toPrimary[w])
      /\ Head(toPrimary[w]) \in InTransit(toPrimary[w])
    BY <1>0, HeadInTransit
<1>5. m.kind \in Commits => ~ NoCommitIn(toPrimary[w])
    BY <1>4 DEF NoCommitIn
<1>6. \A x \in InTransit(toWorker'[w]) :
          \/ x \in InTransit(toWorker[w])
          \/ /\ x.kind = "noDelta" \/ End(x) = version'
             /\ x.kind = "delta" => x.delta.fromVersion \in Asked(w)
             /\ x.kind \in Commits => ~ NoCommitIn(toPrimary[w])
    <2>1. \A x \in InTransit(c) :
              \/ x \in InTransit(toWorker[w])
              \/ End(x) = version' /\ x.kind # "delta" /\ x.kind \notin Commits
        BY <1>1 DEF Commits
    <2>. QED
        BY <1>3, <1>5, <2>1
<1>7. ASSUME NEW t \in {"boot", "request"}, Single(w, t)
      PROVE  Single(w, t)' /\ (Busy(w, t)' => Busy(w, t))
    <2>. DEFINE a == Head(toPrimary[w])
    <2>1. /\ Contains(toWorker'[w], t) <=> Contains(c, t) \/ Settles(m) = t
          /\ AtMostOne(c, t) /\ ~ (Contains(c, t) /\ Settles(m) = t) =>
                AtMostOne(toWorker'[w], t)
        BY SentTurn
    <2>2. /\ Contains(toPrimary'[w], t) => Contains(toPrimary[w], t)
          /\ Settles(a) = t => Contains(toPrimary[w], t)
          /\ AtMostOne(toPrimary[w], t) => AtMostOne(toPrimary'[w], t)
          /\ AtMostOne(toPrimary[w], t) /\ Settles(a) = t => ~ Contains(toPrimary'[w], t)
        BY <1>0, ReceivedTurn
    <2>3. /\ Contains(c, t) <=> Contains(toWorker[w], t)
          /\ AtMostOne(toWorker[w], t) => AtMostOne(c, t)
        BY <1>1
    <2>. QED
        BY <1>7, <2>1, <2>2, <2>3 DEF Single, Busy
<1>8. \A r \in Nat : Follows(toWorker[w], r, version) => Follows(toWorker'[w], r, version')
    BY <1>1, <1>2
<1>. QED
    BY <1>0, <1>2, <1>4, <1>6, <1>7, <1>8, Served

\* What a commit announces, and what it answers.
LEMMA CommitMessages ==
    ASSUME TypeOK, NEW s \in State, NEW d \in Delta, d = CommitDelta(s)
    PROVE  /\ DeltaMsg(d) \in WorkerMessage /\ OneStep(DeltaMsg(d))
           /\ DeltaMsg(d).kind = "STATE_DELTA" /\ End(DeltaMsg(d)) = version + 1
           /\ LET m == CommitResponse(d, version + 1)
              IN  /\ m \in WorkerMessage /\ OneStep(m)
                  /\ m.kind = "commit" /\ End(m) = version + 1
<1>1. version \in Nat /\ d.fromVersion = version /\ d.toVersion = version + 1
    BY DEF TypeOK, CommitDelta
<1>2. DeltaMsg(d) \in WorkerMessage /\ CommitResponse(d, version + 1) \in WorkerMessage
    BY <1>1, MessageTypes
<1>. QED
    BY <1>1, <1>2 DEF DeltaMsg, CommitResponse, OneStep, End

\* The primary's own commits and reloads.
LEMMA PrimaryOrder ==
    ASSUME TypeOK, TypeOK', NEW u \in Workers, WorkerOrder(u), PrimaryCommit \/ ReloadConfig
    PROVE  WorkerOrder(u)'
<1>0. UNCHANGED workerVars /\ toPrimary' = toPrimary /\ version \in Nat
    BY DEF PrimaryCommit, ReloadConfig, TypeOK
<1>1. CASE PrimaryCommit
    <2>1. PICK s \in State : Commit(s) /\ toWorker' = Broadcast(DeltaMsg(CommitDelta(s)))
        BY <1>1 DEF PrimaryCommit
    <2>2. PICK d \in Delta : d = CommitDelta(s)
        BY CommitDeltaType
    <2>3. PICK m \in WorkerMessage : m = DeltaMsg(d)
        BY MessageTypes
    <2>4. OneStep(m) /\ m.kind = "STATE_DELTA" /\ End(m) = version + 1
        BY <2>2, <2>3, CommitMessages
    <2>5. version' = version + 1 /\ toWorker'[u] = Broadcast(m)[u]
        BY <2>1, <2>2, <2>3 DEF Commit
    <2>. QED
        BY <1>0, <2>4, <2>5, BroadcastOrder
<1>2. CASE ReloadConfig
    <2>1. PICK c \in Snapshot : c = [state |-> entries', version |-> version']
        BY DEF TypeOK, Snapshot
    <2>2. PICK m \in WorkerMessage : m = SnapshotMsg(c)
        BY MessageTypes
    <2>3. OneStep(m) /\ m.kind = "STATE_SNAPSHOT" /\ End(m) = version'
        BY <2>1, <2>2 DEF SnapshotMsg, OneStep, End
    <2>4. version' = version \/ version' = version + 1
        BY <1>2 DEF ReloadConfig, Commit, primaryVars
    <2>5. toWorker'[u] = Broadcast(m)[u]
        BY <1>2, <2>1, <2>2 DEF ReloadConfig
    <2>. QED
        BY <1>0, <2>3, <2>4, <2>5, BroadcastOrder
<1>. QED
    BY <1>1, <1>2

\* The primary's answers.
LEMMA AnswersOrder ==
    ASSUME TypeOK, TypeOK', LogInv, NEW w \in Workers, WorkerInv(w), WorkerOrder(w),
           PrimaryHandles(w), NEW u \in Workers, WorkerOrder(u)
    PROVE  WorkerOrder(u)'
<1>. DEFINE ask == Head(toPrimary[w])
<1>0. /\ toPrimary[w] # <<>> /\ toPrimary' = [toPrimary EXCEPT ![w] = Tail(@)]
      /\ UNCHANGED workerVars
    BY DEF PrimaryHandles, HandleReady, HandleGetDeltaSince, HandleGetSnapshot,
        HandleCommitProjectPaths, Asks
<1>1. /\ toPrimary[w] \in Seq(PrimaryMessage) /\ toWorker[w] \in Seq(WorkerMessage)
      /\ toPrimary \in [Workers -> Seq(PrimaryMessage)]
      /\ toWorker \in [Workers -> Seq(WorkerMessage)]
      /\ version \in Nat
    BY DEF TypeOK
<1>2. ask \in PrimaryMessage /\ ask \in InTransit(toPrimary[w])
    BY <1>0, <1>1, HeadInTransit
<1>3. toPrimary'[w] = Tail(toPrimary[w]) /\ (u # w => toPrimary'[u] = toPrimary[u])
    BY <1>0, <1>1
\* An answer that announces nothing.
<1>4. ASSUME NEW m \in WorkerMessage, toWorker' = [toWorker EXCEPT ![w] = Append(@, m)],
             version' = version, OneStep(m), m.kind = "noDelta" \/ End(m) = version,
             m.kind = "delta" => m.delta.fromVersion \in Asked(w),
             m.kind \in Commits => ask.kind \in Commits,
             Settles(m) = Settles(ask)
      PROVE  WorkerOrder(u)'
    <2>1. CASE u = w
        <3>1. toWorker'[w] = Append(toWorker[w], m)
            BY <1>1, <1>4
        <3>2. WorkerOrder(w)'
            BY <1>0, <1>1, <1>3, <1>4, <3>1, AnswerOrder
        <3>. QED
            BY <2>1, <3>2
    <2>2. CASE u # w
        <3>1. toWorker'[u] = toWorker[u]
            BY <1>1, <1>4, <2>2
        <3>. QED
            BY <1>0, <1>3, <1>4, <2>2, <3>1, Unserved DEF workerVars
    <2>. QED
        BY <2>1, <2>2
<1>5. CASE HandleReady(w) \/ HandleGetSnapshot(w)
    <2>0. PICK c \in Snapshot : c = CurrentSnapshot
        BY DEF TypeOK, CurrentSnapshot, Snapshot
    <2>1. c = CurrentSnapshot /\ c.version = version
        BY <2>0 DEF CurrentSnapshot
    <2>2. version' = version
        BY <1>5 DEF HandleReady, HandleGetSnapshot, primaryVars
    <2>3. CASE HandleReady(w)
        <3>1. PICK m \in WorkerMessage : m = SnapshotMsg(c)
            BY MessageTypes
        <3>2. OneStep(m) /\ End(m) = version /\ m.kind = "STATE_SNAPSHOT"
            BY <2>1, <3>1 DEF SnapshotMsg, OneStep, End
        <3>3. Settles(m) = "none" /\ Settles(ask) = "none"
            BY <2>3, <3>2 DEF HandleReady, Asks, Settles, Commits, Pulls
        <3>4. toWorker' = [toWorker EXCEPT ![w] = Append(@, m)]
            BY <2>1, <2>3, <3>1 DEF HandleReady
        <3>. QED
            BY <1>4, <2>2, <3>2, <3>3, <3>4 DEF Commits
    <2>4. CASE HandleGetSnapshot(w)
        <3>1. ask.tag \in Tags /\ ask.kind = "getSnapshot"
            BY <1>2, <2>4, PrimaryMessageFields DEF HandleGetSnapshot, Asks
        <3>2. PICK m \in WorkerMessage : m = SnapshotResponse(ask.tag, c)
            BY <3>1, MessageTypes
        <3>3. OneStep(m) /\ End(m) = version /\ m.kind = "snapshot"
            BY <2>1, <3>2 DEF SnapshotResponse, OneStep, End
        <3>4. Settles(m) = Settles(ask)
            BY <3>1, <3>2 DEF SnapshotResponse, Settles, Commits, Pulls
        <3>5. toWorker' = [toWorker EXCEPT ![w] = Append(@, m)]
            BY <2>1, <2>4, <3>2 DEF HandleGetSnapshot
        <3>. QED
            BY <1>4, <2>2, <3>3, <3>4, <3>5 DEF Commits
    <2>. QED
        BY <1>5, <2>3, <2>4
<1>6. CASE HandleGetDeltaSince(w)
    <2>0. version' = version
        BY <1>6 DEF HandleGetDeltaSince, primaryVars
    <2>1. /\ ask.kind = "getDeltaSince" /\ ask.tag \in Tags
          /\ ask.fromVersion \in Nat /\ ask.fromVersion <= version
        BY <1>2, <1>6, PrimaryMessageFields
           DEF HandleGetDeltaSince, Asks, WorkerInv, ChannelInv
    <2>2. CASE CanReplay(deltaLog, version, ask.fromVersion)
        <3>1. PICK d \in Delta : d = DeltaSince(deltaLog, version, ask.fromVersion)
            BY <2>1, <2>2, ReplayType
        <3>2. d.fromVersion = ask.fromVersion /\ d.toVersion = version
            <4>1. CASE ask.fromVersion < version
                BY <2>1, <2>2, <3>1, <4>1, ReplayType DEF DeltaSince
            <4>2. CASE ask.fromVersion = version
                BY <1>1, <3>1, <4>2 DEF DeltaSince
            <4>. QED
                BY <1>1, <2>1, <4>1, <4>2
        <3>3. PICK m \in WorkerMessage : m = DeltaResponse(ask.tag, d)
            BY <2>1, MessageTypes
        <3>4. OneStep(m) /\ End(m) = version /\ m.kind = "delta" /\ m.delta = d
            BY <3>2, <3>3 DEF DeltaResponse, OneStep, End
        <3>5. Settles(m) = Settles(ask)
            BY <2>1, <3>3 DEF DeltaResponse, Settles, Commits, Pulls
        <3>6. m.delta.fromVersion \in Asked(w)
            BY <1>2, <2>1, <3>2, <3>4 DEF Asked
        <3>7. toWorker' = [toWorker EXCEPT ![w] = Append(@, m)]
            BY <1>6, <2>2, <3>1, <3>3 DEF HandleGetDeltaSince
        <3>. QED
            BY <1>4, <2>0, <3>4, <3>5, <3>6, <3>7 DEF Commits
    <2>3. CASE ~ CanReplay(deltaLog, version, ask.fromVersion)
        <3>1. PICK m \in WorkerMessage : m = NoDeltaResponse(ask.tag)
            BY <2>1, MessageTypes
        <3>2. OneStep(m) /\ m.kind = "noDelta"
            BY <3>1 DEF NoDeltaResponse, OneStep
        <3>3. Settles(m) = Settles(ask)
            BY <2>1, <3>1 DEF NoDeltaResponse, Settles, Commits, Pulls
        <3>4. toWorker' = [toWorker EXCEPT ![w] = Append(@, m)]
            BY <1>6, <2>3, <3>1 DEF HandleGetDeltaSince
        <3>. QED
            BY <1>4, <2>0, <3>2, <3>3, <3>4 DEF Commits
    <2>. QED
        BY <2>2, <2>3
<1>7. CASE HandleCommitProjectPaths(w)
    <2>0. ask.kind = "commitProjectPaths" /\ ask.kind \in Commits /\ Settles(ask) = "request"
        BY <1>7 DEF HandleCommitProjectPaths, Asks, Settles, Commits
    <2>1. CASE /\ UNCHANGED primaryVars
               /\ toWorker' = [toWorker EXCEPT ![w] = Append(@, EmptyCommitResponse(version))]
        <3>1. PICK m \in WorkerMessage : m = EmptyCommitResponse(version)
            BY <1>1, MessageTypes
        <3>2. OneStep(m) /\ End(m) = version /\ m.kind = "emptyCommit"
            BY <3>1 DEF EmptyCommitResponse, OneStep, End
        <3>3. Settles(m) = "request"
            BY <3>1, SettlesFacts
        <3>4. version' = version /\ toWorker' = [toWorker EXCEPT ![w] = Append(@, m)]
            BY <2>1, <3>1 DEF primaryVars
        <3>. QED
            BY <1>4, <2>0, <3>2, <3>3, <3>4
    <2>2. ASSUME NEW s \in State, Commit(s),
                 toWorker' = [Broadcast(DeltaMsg(CommitDelta(s))) EXCEPT
                     ![w] = Append(@, CommitResponse(CommitDelta(s), version + 1))]
          PROVE  WorkerOrder(u)'
        <3>1. PICK d \in Delta : d = CommitDelta(s)
            BY CommitDeltaType
        <3>2. PICK a \in WorkerMessage : a = DeltaMsg(d)
            BY MessageTypes
        <3>3. PICK b \in WorkerMessage : b = CommitResponse(d, version + 1)
            BY <1>1, MessageTypes
        <3>4. /\ OneStep(a) /\ a.kind = "STATE_DELTA" /\ End(a) = version + 1
              /\ OneStep(b) /\ b.kind = "commit" /\ End(b) = version + 1
            BY <3>1, <3>2, <3>3, CommitMessages
        <3>5. version' = version + 1
            BY <2>2 DEF Commit
        <3>6. Broadcast(a) \in [Workers -> Seq(WorkerMessage)]
            BY ChannelTypes
        <3>7. toWorker' = [Broadcast(a) EXCEPT ![w] = Append(@, b)]
            BY <2>2, <3>1, <3>2, <3>3
        <3>8. CASE u # w
            <4>1. toWorker'[u] = Broadcast(a)[u] /\ toPrimary'[u] = toPrimary[u]
                BY <1>3, <3>6, <3>7, <3>8
            <4>. QED
                BY <1>0, <3>4, <3>5, <4>1, BroadcastOrder
        <3>9. CASE u = w
            <4>1. phase[w] # "down"
                BY <1>0 DEF WorkerOrder, ChannelOrdered
            <4>2. PICK c \in Seq(WorkerMessage) : c = Broadcast(a)[w]
                BY <3>6
            <4>3. c = Append(toWorker[w], a) /\ toWorker'[w] = Append(c, b)
                BY <3>6, <3>7, <4>1, <4>2 DEF Broadcast, Connected
            <4>4. Settles(b) = "request"
                BY <3>3, SettlesFacts
            <4>5. Announces(a, version')
                BY <3>4, <3>5 DEF Announces
            <4>6. WorkerOrder(w)'
                BY <1>0, <1>3, <2>0, <3>4, <3>5, <4>3, <4>4, <4>5, AnswerOrder
            <4>. QED
                BY <3>9, <4>6
        <3>. QED
            BY <3>8, <3>9
    <2>. QED
        BY <1>7, <2>1, <2>2 DEF HandleCommitProjectPaths
<1>. QED
    BY <1>5, <1>6, <1>7 DEF PrimaryHandles

-----------------------------------------------------------------------------
(* A worker receives a message. *)

\* What a worker may do with the message h it takes from its channel: move the
\* replica to where the message ends, pull from where the replica is, and, when
\* the message is what an await waits for, go on behind that await.
Handles(w, h) ==
    /\ \/ replica'[w].version = replica[w].version
       \/ /\ replica'[w].version = End(h) /\ replica[w].version <= End(h)
          /\ h.kind # "noDelta"
    /\ UpToDate(w) => End(h) <= replica'[w].version
    /\ \/ toPrimary'[w] = toPrimary[w]
       \/ \E q \in PrimaryMessage :
             /\ toPrimary'[w] = Append(toPrimary[w], q)
             /\ Settles(q) \in {"heal", Settles(h)} /\ q.kind \notin Commits
             /\ q.kind = "getDeltaSince" =>
                   q.fromVersion = replica[w].version /\ ~ UpToDate(w)
    /\ \/ phase'[w] = phase[w]
       \/ /\ phase'[w] = "loading" /\ Settles(h) = "boot" /\ h.kind # "noDelta"
          /\ End(h) <= replica'[w].version /\ toPrimary'[w] = toPrimary[w]
    /\ \/ request'[w] = request[w] /\ acked'[w] = acked[w]
       \/ /\ Settles(h) = "request" /\ h.kind # "noDelta"
          /\ request'[w] = Idle /\ acked'[w] <= End(h) /\ toPrimary'[w] = toPrimary[w]
       \/ /\ Settles(h) = "request" /\ h.kind # "noDelta"
          /\ request'[w].kind = request[w].kind /\ request'[w].floor = End(h)
          /\ request'[w] # Idle /\ acked'[w] = acked[w]

Receipt(w, h) ==
    /\ HasWatchdog(w) /\ toWorker[w] # <<>> /\ h = Head(toWorker[w])
    /\ toWorker'[w] = Tail(toWorker[w])
    /\ version' = version /\ bootSnapshot'[w] = bootSnapshot[w]
    /\ Handles(w, h)

LEMMA ReceiptTypes ==
    ASSUME TypeOK, TypeOK', NEW w \in Workers, NEW h, Receipt(w, h), WorkerOrder(w)
    PROVE  /\ toWorker[w] \in Seq(WorkerMessage) /\ toPrimary[w] \in Seq(PrimaryMessage)
           /\ Ordered(toWorker[w], version)
           /\ h \in WorkerMessage /\ h \in InTransit(toWorker[w]) /\ End(h) \in Nat
           /\ InTransit(toWorker'[w]) \subseteq InTransit(toWorker[w])
           /\ version \in Nat /\ replica[w].version \in Nat /\ replica'[w].version \in Nat
           /\ bootSnapshot[w].version \in Nat
           /\ acked[w] \in Nat /\ acked'[w] \in Nat
           /\ request[w].floor \in Nat /\ request'[w].floor \in Nat
<1>1. toWorker[w] \in Seq(WorkerMessage) /\ Ordered(toWorker[w], version)
    BY DEF TypeOK, WorkerOrder, ChannelOrdered
<1>2. /\ h \in WorkerMessage /\ h \in InTransit(toWorker[w])
      /\ InTransit(toWorker'[w]) \subseteq InTransit(toWorker[w])
    BY <1>1, HeadInTransit DEF Receipt
<1>. QED
    BY <1>1, <1>2, EndFacts DEF TypeOK, Snapshot, Request

\* What is on its way stays so, and what a message announced has arrived.
LEMMA ReceiptSync ==
    ASSUME TypeOK, TypeOK', NEW w \in Workers, NEW h, Receipt(w, h), WorkerOrder(w)
    PROVE  SyncInv(w)'
<1>0. /\ toWorker[w] \in Seq(WorkerMessage) /\ toPrimary[w] \in Seq(PrimaryMessage)
      /\ Ordered(toWorker[w], version) /\ End(h) \in Nat
      /\ InTransit(toWorker'[w]) \subseteq InTransit(toWorker[w])
      /\ version \in Nat /\ replica[w].version \in Nat /\ replica'[w].version \in Nat
      /\ bootSnapshot[w].version \in Nat
    BY ReceiptTypes
<1>1. SyncInv(w) /\ HasWatchdog(w)
    BY DEF WorkerOrder, Receipt
<1>2. /\ toWorker[w] # <<>> /\ h = Head(toWorker[w]) /\ toWorker'[w] = Tail(toWorker[w])
      /\ version' = version /\ bootSnapshot'[w] = bootSnapshot[w]
    BY DEF Receipt
<1>3. /\ replica[w].version <= replica'[w].version
      /\ replica'[w].version # replica[w].version =>
            replica'[w].version = End(h) /\ h.kind # "noDelta"
    BY <1>0 DEF Receipt, Handles
<1>4. UpToDate(w) => UpToDate(w)'
    <2>. SUFFICES ASSUME UpToDate(w) PROVE UpToDate(w)'
        OBVIOUS
    <2>1. End(h) <= replica'[w].version
        BY DEF Receipt, Handles
    <2>2. Follows(Tail(toWorker[w]), replica'[w].version, version)
        BY <1>0, <1>2, <1>3, <2>1, ReceiveOrdered DEF UpToDate
    <2>. QED
        BY <1>2, <2>2 DEF UpToDate
<1>5. h.kind # "noDelta" /\ End(h) <= replica'[w].version => UpToDate(w)'
    <2>. SUFFICES ASSUME h.kind # "noDelta", End(h) <= replica'[w].version
                  PROVE  UpToDate(w)'
        OBVIOUS
    <2>1. Follows(Tail(toWorker[w]), End(h), version)
        BY <1>0, <1>2, ReceiveOrdered
    <2>2. Follows(Tail(toWorker[w]), replica'[w].version, version)
        BY <1>0, <2>1, FollowsMore
    <2>. QED
        BY <1>2, <2>2 DEF UpToDate
<1>6. /\ Asked(w)' \subseteq Asked(w) \cup {replica[w].version}
      /\ UpToDate(w) => Asked(w)' \subseteq Asked(w)
    <2>1. CASE toPrimary'[w] = toPrimary[w]
        BY <1>0, <2>1 DEF Asked
    <2>2. ASSUME NEW q \in PrimaryMessage, toPrimary'[w] = Append(toPrimary[w], q),
                 q.kind = "getDeltaSince" =>
                    q.fromVersion = replica[w].version /\ ~ UpToDate(w)
          PROVE  /\ Asked(w)' \subseteq Asked(w) \cup {replica[w].version}
                 /\ UpToDate(w) => Asked(w)' \subseteq Asked(w)
        <3>1. InTransit(toPrimary'[w]) = InTransit(toPrimary[w]) \cup {q}
            BY <1>0, <2>2, AppendInTransit
        <3>. QED
            BY <1>0, <2>2, <3>1 DEF Asked
    <2>. QED
        BY <2>1, <2>2 DEF Receipt, Handles
<1>7. UpToDate(w)' \/ \A f \in Asked(w)' : f = replica'[w].version
    <2>. SUFFICES ASSUME ~ UpToDate(w)'
                  PROVE  \A f \in Asked(w)' : f = replica'[w].version
        OBVIOUS
    <2>1. replica'[w].version = replica[w].version
        BY <1>0, <1>3, <1>5
    <2>. QED
        BY <1>1, <1>4, <1>6, <2>1 DEF SyncInv
<1>8. \/ phase'[w] = phase[w]
      \/ phase[w] = "syncing" /\ phase'[w] = "loading" /\ UpToDate(w)'
    <2>1. CASE phase'[w] = "loading" /\ Settles(h) = "boot" /\ h.kind # "noDelta"
               /\ End(h) <= replica'[w].version
        <3>1. Contains(toWorker[w], "boot")
            BY <1>0, <1>2, <2>1, ReceivedTurn
        <3>2. phase[w] = "syncing"
            BY <3>1 DEF WorkerOrder, TurnInv, Busy
        <3>. QED
            BY <1>5, <2>1, <3>2
    <2>. QED
        BY <2>1 DEF Receipt, Handles
<1>9. AtBoot(w)' => AtBoot(w)
    BY <1>0, <1>1, <1>2, <1>3 DEF SyncInv, AtBoot
<1>10. phase'[w] = "starting" \/ (phase'[w] # "listening" /\ AtBoot(w)') =>
          \A f \in Asked(w)' : f = bootSnapshot'[w].version
    <2>1. CASE phase'[w] = "starting"
        BY <1>1, <1>2, <1>6, <1>8, <2>1 DEF SyncInv
    <2>2. CASE phase'[w] # "listening" /\ AtBoot(w)'
        <3>1. phase[w] # "listening" /\ AtBoot(w)
            BY <1>8, <1>9, <2>2
        <3>. QED
            BY <1>1, <1>2, <1>6, <3>1 DEF SyncInv, AtBoot
    <2>. QED
        BY <2>1, <2>2
<1>11. phase'[w] \in {"loading", "starting"} \/ (phase'[w] = "listening" /\ ~ AtBoot(w)') =>
           UpToDate(w)'
    <2>1. CASE phase'[w] = phase[w] /\ phase[w] \in {"loading", "starting"}
        BY <1>1, <1>4, <2>1 DEF SyncInv
    <2>2. CASE phase'[w] = phase[w] /\ phase[w] = "listening" /\ ~ AtBoot(w)'
        <3>1. CASE AtBoot(w)
            BY <1>0, <1>2, <1>3, <1>5, <2>2, <3>1 DEF AtBoot
        <3>2. CASE ~ AtBoot(w)
            BY <1>1, <1>4, <2>2, <3>2 DEF SyncInv
        <3>. QED
            BY <3>1, <3>2
    <2>. QED
        BY <1>8, <2>1, <2>2
<1>12. bootSnapshot'[w].version <= replica'[w].version
    BY <1>0, <1>1, <1>2, <1>3 DEF SyncInv
<1>. QED
    BY <1>7, <1>10, <1>11, <1>12 DEF SyncInv

\* Whoever goes on behind an await leaves no message of it behind.
LEMMA ReceiptTurn ==
    ASSUME TypeOK, TypeOK', NEW w \in Workers, NEW h, Receipt(w, h), WorkerOrder(w)
    PROVE  TurnInv(w)'
<1>0. /\ toWorker[w] \in Seq(WorkerMessage) /\ toPrimary[w] \in Seq(PrimaryMessage)
      /\ InTransit(toWorker'[w]) \subseteq InTransit(toWorker[w])
    BY ReceiptTypes
<1>1. TurnInv(w) /\ HasWatchdog(w)
    BY DEF WorkerOrder, Receipt
<1>2. toWorker[w] # <<>> /\ h = Head(toWorker[w]) /\ toWorker'[w] = Tail(toWorker[w])
    BY DEF Receipt
<1>3. ASSUME NEW t \in {"boot", "request"}
      PROVE  /\ Settles(h) = t => Busy(w, t)
             /\ Single(w, t)' /\ (Busy(w, t)' => Busy(w, t))
             /\ Settles(h) = t /\ toPrimary'[w] = toPrimary[w] => ~ Busy(w, t)'
    <2>1. Single(w, t)
        BY <1>1 DEF TurnInv
    <2>2. /\ Contains(toWorker'[w], t) => Contains(toWorker[w], t)
          /\ Settles(h) = t => Contains(toWorker[w], t)
          /\ AtMostOne(toWorker[w], t) => AtMostOne(toWorker'[w], t)
          /\ AtMostOne(toWorker[w], t) /\ Settles(h) = t => ~ Contains(toWorker'[w], t)
        BY <1>0, <1>2, ReceivedTurn
    <2>3. CASE toPrimary'[w] = toPrimary[w]
        BY <2>1, <2>2, <2>3 DEF Single, Busy
    <2>4. ASSUME NEW q \in PrimaryMessage, toPrimary'[w] = Append(toPrimary[w], q),
                 Settles(q) \in {"heal", Settles(h)}, toPrimary'[w] # toPrimary[w]
          PROVE  /\ Single(w, t)' /\ (Busy(w, t)' => Busy(w, t))
                 /\ Settles(h) = t => Busy(w, t)
        <3>1. /\ Contains(toPrimary'[w], t) <=> Contains(toPrimary[w], t) \/ Settles(q) = t
              /\ AtMostOne(toPrimary[w], t) /\ ~ (Contains(toPrimary[w], t) /\ Settles(q) = t) =>
                    AtMostOne(toPrimary'[w], t)
            BY <1>0, <2>4, SentTurn
        <3>2. Settles(q) = t => Settles(h) = t
            BY <2>4
        <3>. QED
            BY <2>1, <2>2, <3>1, <3>2 DEF Single, Busy
    <2>. QED
        BY <2>3, <2>4 DEF Receipt, Handles
<1>4. Busy(w, "boot")' => phase'[w] = "syncing"
    BY <1>1, <1>3 DEF TurnInv, Receipt, Handles
<1>5. Busy(w, "request")' => request'[w] # Idle
    BY <1>1, <1>3 DEF TurnInv, Receipt, Handles
<1>6. phase'[w] # "listening" => request'[w] = Idle /\ acked'[w] = 0
    <2>. SUFFICES ASSUME phase'[w] # "listening"
                  PROVE  request'[w] = Idle /\ acked'[w] = 0
        OBVIOUS
    <2>1. phase[w] # "listening"
        <3>1. Settles(h) = "boot" => phase[w] = "syncing"
            BY <1>1, <1>3 DEF TurnInv
        <3>. QED
            BY <3>1 DEF Receipt, Handles
    <2>2. Settles(h) # "request"
        BY <1>1, <1>3, <2>1 DEF TurnInv
    <2>. QED
        BY <1>1, <2>1, <2>2 DEF TurnInv, Receipt, Handles
<1>7. ASSUME request'[w].kind = "fenced"
      PROVE  NoCommitIn(toWorker[w])' /\ NoCommitIn(toPrimary[w])'
    <2>1. request[w].kind = "fenced"
        BY <1>7 DEF Receipt, Handles, Idle
    <2>2. NoCommitIn(toWorker[w]) /\ NoCommitIn(toPrimary[w])
        BY <1>1, <2>1 DEF TurnInv
    <2>3. NoCommitIn(toWorker[w])'
        BY <1>0, <2>2 DEF NoCommitIn
    <2>4. CASE toPrimary'[w] = toPrimary[w]
        BY <2>2, <2>3, <2>4 DEF NoCommitIn
    <2>5. ASSUME NEW q \in PrimaryMessage, toPrimary'[w] = Append(toPrimary[w], q),
                 q.kind \notin Commits
          PROVE  NoCommitIn(toPrimary[w])'
        <3>1. InTransit(toPrimary'[w]) = InTransit(toPrimary[w]) \cup {q}
            BY <1>0, <2>5, AppendInTransit
        <3>. QED
            BY <2>2, <2>5, <3>1 DEF NoCommitIn
    <2>. QED
        BY <2>3, <2>4, <2>5 DEF Receipt, Handles
<1>8. Single(w, "boot")' /\ Single(w, "request")'
    BY <1>3
<1>. QED
    BY <1>4, <1>5, <1>6, <1>7, <1>8 DEF TurnInv

\* What a browser was promised is what messages behind this one bring, or more.
LEMMA ReceiptAck ==
    ASSUME TypeOK, TypeOK', NEW w \in Workers, NEW h, Receipt(w, h), WorkerOrder(w)
    PROVE  AckInv(w)'
<1>0. /\ toWorker[w] \in Seq(WorkerMessage) /\ Ordered(toWorker[w], version)
      /\ h \in WorkerMessage /\ h \in InTransit(toWorker[w]) /\ End(h) \in Nat
      /\ InTransit(toWorker'[w]) \subseteq InTransit(toWorker[w])
      /\ version \in Nat /\ replica[w].version \in Nat /\ replica'[w].version \in Nat
      /\ bootSnapshot[w].version \in Nat
      /\ acked[w] \in Nat /\ acked'[w] \in Nat
      /\ request[w].floor \in Nat /\ request'[w].floor \in Nat
    BY ReceiptTypes
<1>1. AckInv(w) /\ SyncInv(w) /\ HasWatchdog(w)
    BY DEF WorkerOrder, Receipt
<1>2. /\ toWorker[w] # <<>> /\ h = Head(toWorker[w]) /\ toWorker'[w] = Tail(toWorker[w])
      /\ version' = version /\ bootSnapshot'[w] = bootSnapshot[w]
    BY DEF Receipt
<1>3. /\ End(h) <= version
      /\ \A m \in InTransit(toWorker'[w]) : m.kind # "noDelta" => End(h) <= End(m)
    BY <1>0, <1>2, ReceiveOrdered
<1>4. \/ acked'[w] = acked[w]
      \/ h.kind # "noDelta" /\ acked'[w] <= End(h)
    BY DEF Receipt, Handles
<1>5. \/ request'[w].floor = request[w].floor
      \/ request'[w].floor <= End(h)
    BY <1>0 DEF Receipt, Handles, Idle
<1>6. acked'[w] <= version' /\ request'[w].floor <= version'
    BY <1>0, <1>1, <1>2, <1>3, <1>4, <1>5 DEF AckInv
<1>7. ASSUME NEW m \in InTransit(toWorker'[w])
      PROVE  /\ m.kind # "noDelta" => acked'[w] <= End(m)
             /\ m.kind \in {"delta", "snapshot"} /\ m.tag = "request" =>
                   request'[w].floor <= End(m)
    <2>0. m \in InTransit(toWorker[w])
        BY <1>0, <1>7
    <2>a. m \in WorkerMessage
        BY <1>0, <2>0 DEF InTransit
    <2>1. m \in InTransit(toWorker[w]) /\ m \in WorkerMessage /\ End(m) \in Nat
        BY <2>0, <2>a, EndFacts
    <2>2. /\ m.kind # "noDelta" => acked[w] <= End(m) /\ End(h) <= End(m)
          /\ m.kind \in {"delta", "snapshot"} /\ m.tag = "request" => request[w].floor <= End(m)
        BY <1>1, <1>3, <1>7, <2>1 DEF AckInv
    <2>. QED
        BY <1>0, <1>4, <1>5, <2>1, <2>2
<1>8. ASSUME phase'[w] = "listening", ~ AtBoot(w)'
      PROVE  acked'[w] <= replica'[w].version
    <2>1. phase[w] = "listening"
        BY <1>8 DEF Receipt, Handles
    <2>2. \/ replica'[w].version = replica[w].version
          \/ replica'[w].version = End(h) /\ replica[w].version <= End(h) /\ h.kind # "noDelta"
        BY DEF Receipt, Handles
    <2>3. CASE AtBoot(w)
        <3>1. replica'[w].version = End(h) /\ h.kind # "noDelta"
            BY <1>2, <1>8, <2>2, <2>3 DEF AtBoot
        <3>2. acked[w] <= End(h)
            BY <1>0, <1>1, <3>1 DEF AckInv
        <3>. QED
            BY <1>4, <3>1, <3>2
    <2>4. CASE ~ AtBoot(w)
        <3>1. End(h) <= replica'[w].version
            BY <1>1, <2>1, <2>4 DEF SyncInv, Receipt, Handles
        <3>2. acked[w] <= replica[w].version
            BY <1>1, <2>1, <2>4 DEF AckInv
        <3>. QED
            BY <1>0, <1>4, <2>2, <3>1, <3>2
    <2>. QED
        BY <2>3, <2>4
<1>. QED
    BY <1>6, <1>7, <1>8 DEF AckInv

LEMMA ReceiptOrder ==
    ASSUME TypeOK, TypeOK', NEW w \in Workers, NEW h, Receipt(w, h), WorkerOrder(w)
    PROVE  WorkerOrder(w)'
<1>1. /\ toWorker[w] \in Seq(WorkerMessage) /\ Ordered(toWorker[w], version) /\ version \in Nat
    BY ReceiptTypes
<1>2. Ordered(toWorker'[w], version')
    BY <1>1, ReceiveOrdered DEF Receipt
<1>3. phase'[w] # "down"
    BY DEF Receipt, Handles, HasWatchdog
<1>. QED
    BY <1>2, <1>3, ReceiptSync, ReceiptTurn, ReceiptAck DEF WorkerOrder, ChannelOrdered

\* Where a delta takes a replica.
LEMMA ApplyMoves ==
    ASSUME NEW r \in Snapshot, NEW d \in Delta
    PROVE  /\ \/ ApplyDelta(r, d).version = r.version
              \/ ApplyDelta(r, d).version = d.toVersion /\ r.version <= d.toVersion
           /\ ~ Gap(r, d) => d.toVersion <= ApplyDelta(r, d).version
           /\ Gap(r, d) => ApplyDelta(r, d) = r
<1>1. r.version \in Nat /\ d.toVersion \in Nat
    BY DEF Snapshot, Delta
<1>. QED
    BY <1>1 DEF ApplyDelta, Stale, Gap

\* The delta in front of a replica fits when everything the replica lacks is on
\* its way, and the answer to a pull always does.
LEMMA FirstFits ==
    ASSUME TypeOK, NEW w \in Workers, WorkerOrder(w), HasWatchdog(w), toWorker[w] # <<>>,
           NEW h, h = Head(toWorker[w]), h.kind \in {"STATE_DELTA", "delta", "commit"},
           UpToDate(w) \/ h.kind = "delta"
    PROVE  ~ Gap(replica[w], h.delta)
<1>. DEFINE r == replica[w].version
<1>0. /\ toWorker[w] \in Seq(WorkerMessage) /\ Ordered(toWorker[w], version)
      /\ version \in Nat /\ r \in Nat
    BY DEF TypeOK, Snapshot, WorkerOrder, ChannelOrdered
<1>1. h \in WorkerMessage /\ h \in InTransit(toWorker[w]) /\ OneStep(h)
    BY <1>0, HeadInTransit, ReceiveOrdered
<1>2. h.delta.toVersion \in Nat /\ h.delta.fromVersion \in Nat
    BY <1>1, WorkerMessageFields DEF Delta
<1>3. End(h) = h.delta.toVersion
    BY <1>1, EndFacts DEF OneStep
<1>4. CASE UpToDate(w)
    <2>1. End(h) <= r \/ (End(h) = r + 1 /\ Announces(h, r + 1))
        BY <1>0, <1>4, NextInLine DEF UpToDate
    <2>2. CASE End(h) <= r
        BY <1>3, <2>2 DEF Gap, Stale
    <2>3. CASE End(h) = r + 1 /\ Announces(h, r + 1)
        <3>1. h.delta.toVersion = h.delta.fromVersion + 1
            BY <1>1, <2>3 DEF OneStep, Announces
        <3>. QED
            BY <1>0, <1>2, <1>3, <2>3, <3>1 DEF Gap
    <2>. QED
        BY <2>1, <2>2, <2>3
<1>5. CASE h.kind = "delta" /\ ~ UpToDate(w)
    <2>1. h.delta.fromVersion \in Asked(w)
        BY <1>1, <1>5 DEF Asked
    <2>. QED
        BY <1>5, <2>1 DEF WorkerOrder, SyncInv, Gap
<1>. QED
    BY <1>4, <1>5

\* Before its watchdog exists a worker only drops messages.
LEMMA BootReceiptOrder ==
    ASSUME TypeOK, TypeOK', NEW w \in Workers, WorkerOrder(w),
           ReceiveBootSnapshot(w) \/ IgnoreMessage(w)
    PROVE  WorkerOrder(w)'
<1>0. /\ toWorker[w] \in Seq(WorkerMessage) /\ Ordered(toWorker[w], version) /\ version \in Nat
      /\ toWorker \in [Workers -> Seq(WorkerMessage)]
    BY DEF TypeOK, WorkerOrder, ChannelOrdered
<1>1. /\ toWorker[w] # <<>> /\ toWorker'[w] = Tail(toWorker[w])
      /\ toPrimary' = toPrimary /\ request' = request /\ acked' = acked /\ version' = version
    BY <1>0 DEF ReceiveBootSnapshot, IgnoreMessage, Receives, Consumed, primaryVars, workerVars
<1>2. phase[w] \in {"forked", "bootstrapped"} /\ phase'[w] \in {"forked", "bootstrapped"}
    BY DEF ReceiveBootSnapshot, IgnoreMessage, TypeOK, workerVars
<1>3. ChannelOrdered(w)'
    BY <1>0, <1>1, <1>2, ReceiveOrdered DEF ChannelOrdered
<1>4. SyncInv(w)'
    BY <1>2 DEF SyncInv, HasWatchdog
<1>5. TurnInv(w)'
    <2>1. \A t : /\ Contains(toWorker'[w], t) => Contains(toWorker[w], t)
                 /\ AtMostOne(toWorker[w], t) => AtMostOne(toWorker'[w], t)
        BY <1>0, <1>1, ReceivedTurn
    <2>2. \A t : (Single(w, t) => Single(w, t)') /\ (Busy(w, t)' => Busy(w, t))
        BY <1>1, <2>1 DEF Single, Busy
    <2>3. request[w] = Idle /\ acked[w] = 0 /\ ~ Busy(w, "boot") /\ ~ Busy(w, "request")
        BY <1>2 DEF WorkerOrder, TurnInv
    <2>. QED
        BY <1>1, <2>2, <2>3 DEF WorkerOrder, TurnInv, Idle
<1>6. AckInv(w)'
    <2>1. InTransit(toWorker'[w]) \subseteq InTransit(toWorker[w])
        BY <1>0, <1>1, HeadInTransit
    <2>. QED
        BY <1>1, <1>2, <2>1 DEF WorkerOrder, AckInv
<1>. QED
    BY <1>3, <1>4, <1>5, <1>6 DEF WorkerOrder

\* Every message a worker with a watchdog receives.
LEMMA ReceivesOrder ==
    ASSUME TypeOK, TypeOK', NEW w \in Workers, WorkerInv(w), WorkerOrder(w), WorkerReceives(w)
    PROVE  WorkerOrder(w)'
<1>. DEFINE h == Head(toWorker[w])
            R == replica[w].version
<1>0. /\ toWorker[w] # <<>> /\ toWorker' = Consumed(w)
      /\ UNCHANGED primaryVars
    BY DEF WorkerReceives, ReceiveBootSnapshot, IgnoreMessage, ReceiveDelta,
        ReceiveSnapshot, ReceiveDeltaResponse, ReceiveNoDelta, ReceiveSnapshotResponse,
        ReceiveCommitResponse, ReceiveEmptyCommitResponse, Receives
<1>1. /\ h \in WorkerMessage
      /\ HasWatchdog(w) \/ h.kind \in {"STATE_SNAPSHOT", "STATE_DELTA"}
    BY <1>0, ReceivedMessage
<1>2. /\ toWorker[w] \in Seq(WorkerMessage) /\ Ordered(toWorker[w], version)
      /\ version \in Nat /\ R \in Nat /\ replica[w] \in Snapshot /\ version' = version
      /\ toWorker \in [Workers -> Seq(WorkerMessage)]
      /\ toPrimary \in [Workers -> Seq(PrimaryMessage)]
      /\ replica \in [Workers -> Snapshot] /\ request \in [Workers -> Request]
      /\ acked \in [Workers -> Nat] /\ phase \in [Workers -> Phases]
    BY <1>0 DEF TypeOK, Snapshot, WorkerOrder, ChannelOrdered, primaryVars
<1>3. /\ toWorker'[w] = Tail(toWorker[w])
      /\ h \in InTransit(toWorker[w]) /\ End(h) \in Nat /\ OneStep(h)
    BY <1>0, <1>1, <1>2, HeadInTransit, ReceiveOrdered, EndFacts DEF Consumed
<1>4. CASE ReceiveBootSnapshot(w) \/ IgnoreMessage(w)
    BY <1>4, BootReceiptOrder
<1>5. CASE ~ (ReceiveBootSnapshot(w) \/ IgnoreMessage(w))
    <2>0. HasWatchdog(w)
        BY <1>1, <1>5 DEF WorkerReceives, ReceiveDelta, ReceiveSnapshot, ReceiveDeltaResponse,
            ReceiveNoDelta, ReceiveSnapshotResponse, ReceiveCommitResponse,
            ReceiveEmptyCommitResponse, Receives
    <2>1. bootSnapshot' = bootSnapshot
        BY <1>5 DEF WorkerReceives, ReceiveDelta, ReceiveSnapshot, ReceiveDeltaResponse,
            ReceiveNoDelta, ReceiveSnapshotResponse, ReceiveCommitResponse,
            ReceiveEmptyCommitResponse, workerVars
    <2>2. Handles(w, h) => WorkerOrder(w)'
        BY <1>0, <1>2, <1>3, <2>0, <2>1, ReceiptOrder DEF Receipt
    <2>3. UpToDate(w) =>
             \/ End(h) <= R
             \/ End(h) = R + 1 /\ Announces(h, R + 1)
        BY <1>0, <1>2, NextInLine DEF UpToDate
    \* Messages that carry a delta, messages that carry a snapshot.
    <2>4. ASSUME h.kind \in {"STATE_DELTA", "delta", "commit"},
                 replica' = [replica EXCEPT ![w] = ApplyDelta(@, h.delta)]
          PROVE  /\ \/ replica'[w].version = R
                    \/ /\ replica'[w].version = End(h) /\ R <= End(h) /\ h.kind # "noDelta"
                 /\ ~ Gap(replica[w], h.delta) => End(h) <= replica'[w].version
                 /\ UpToDate(w) \/ h.kind = "delta" => ~ Gap(replica[w], h.delta)
        <3>1. h.delta \in Delta /\ End(h) = h.delta.toVersion
            BY <1>1, <1>3, <2>4, WorkerMessageFields, EndFacts DEF OneStep
        <3>2. replica'[w] = ApplyDelta(replica[w], h.delta)
            BY <1>2, <2>4
        <3>3. UpToDate(w) \/ h.kind = "delta" => ~ Gap(replica[w], h.delta)
            BY <1>0, <2>0, <2>4, FirstFits
        <3>. QED
            BY <1>2, <2>4, <3>1, <3>2, <3>3, ApplyMoves
    <2>5. ASSUME h.kind \in {"STATE_SNAPSHOT", "snapshot"}, InstallSnapshot(w, h.snapshot)
          PROVE  /\ \/ replica'[w].version = R
                    \/ /\ replica'[w].version = End(h) /\ R <= End(h) /\ h.kind # "noDelta"
                 /\ End(h) <= replica'[w].version
        <3>1. End(h) = h.snapshot.version
            BY <1>1, <2>5, EndFacts
        <3>. QED
            BY <1>2, <1>3, <2>5, <3>1 DEF InstallSnapshot, ApplySnapshot
    \* A pull is over.
    <2>6. ASSUME h.kind \in {"delta", "snapshot"}, SyncDone(w, h.tag),
                 toPrimary' = toPrimary, End(h) <= replica'[w].version,
                 \/ replica'[w].version = R
                 \/ replica'[w].version = End(h) /\ R <= End(h)
          PROVE  Handles(w, h)
        <3>1. Settles(h) = h.tag
            BY <2>6 DEF Settles, Commits, Pulls
        <3>2. \/ phase'[w] = phase[w]
              \/ phase'[w] = "loading" /\ Settles(h) = "boot"
            BY <1>2, <2>6, <3>1 DEF SyncDone
        <3>3. \/ request'[w] = request[w] /\ acked'[w] = acked[w]
              \/ Settles(h) = "request" /\ request'[w] = Idle /\ acked'[w] <= End(h)
            <4>1. CASE h.tag = "request"
                <5>1. request'[w] = Idle /\ acked'[w] = request[w].floor
                    BY <1>2, <2>6, <4>1 DEF SyncDone, Answer
                <5>2. request[w].floor <= End(h)
                    BY <1>3, <2>6, <4>1 DEF WorkerOrder, AckInv
                <5>. QED
                    BY <3>1, <4>1, <5>1, <5>2
            <4>2. CASE h.tag # "request"
                BY <2>6, <4>2 DEF SyncDone
            <4>. QED
                BY <4>1, <4>2
        <3>. QED
            BY <2>6, <3>2, <3>3 DEF Handles
    <2>. HIDE DEF h, R
    <2>a. CASE ReceiveDelta(w)
        <3>0. replica' = [replica EXCEPT ![w] = ApplyDelta(@, h.delta)]
            BY <2>a DEF ReceiveDelta, h
        <3>1. /\ h.kind = "STATE_DELTA" /\ phase' = phase /\ request' = request /\ acked' = acked
              /\ toPrimary' = IF Gap(replica[w], h.delta)
                              THEN Send(w, GetDeltaSince("heal", R))
                              ELSE toPrimary
            BY <2>a DEF ReceiveDelta, Receives, h, R
        <3>m. /\ \/ replica'[w].version = R
                 \/ /\ replica'[w].version = End(h) /\ R <= End(h) /\ h.kind # "noDelta"
              /\ ~ Gap(replica[w], h.delta) => End(h) <= replica'[w].version
              /\ UpToDate(w) => ~ Gap(replica[w], h.delta)
            BY <2>4, <3>0, <3>1
        <3>2. CASE ~ Gap(replica[w], h.delta)
            <4>1. toPrimary' = toPrimary /\ End(h) <= replica'[w].version
                BY <3>1, <3>2, <3>m
            <4>h. Handles(w, h)
                BY <3>1, <3>m, <4>1 DEF Handles, R
            <4>. QED
                BY <2>2, <4>h
        <3>3. CASE Gap(replica[w], h.delta)
            <4>1. PICK q \in PrimaryMessage : q = GetDeltaSince("heal", R)
                BY <1>2, MessageTypes DEF Tags, R
            <4>2. /\ q.kind = "getDeltaSince" /\ q.kind \notin Commits /\ Settles(q) = "heal"
                  /\ q.fromVersion = R
                BY <4>1, SettlesFacts DEF GetDeltaSince, Commits
            <4>3. toPrimary'[w] = Append(toPrimary[w], q)
                BY <1>2, <3>1, <3>3, <4>1 DEF Send
            <4>4. ~ UpToDate(w)
                BY <3>3, <3>m
            <4>h. Handles(w, h)
                BY <3>1, <3>m, <4>2, <4>3, <4>4 DEF Handles, R
            <4>. QED
                BY <2>2, <4>h
        <3>. QED
            BY <3>2, <3>3
    <2>b. CASE ReceiveSnapshot(w)
        <3>1. /\ h.kind = "STATE_SNAPSHOT" /\ InstallSnapshot(w, h.snapshot)
              /\ UNCHANGED <<toPrimary, phase, request, acked>>
            BY <2>b DEF ReceiveSnapshot, Receives, h
        <3>2. Handles(w, h)
            BY <2>5, <3>1 DEF Handles, R
        <3>. QED
            BY <2>2, <3>2
    <2>c. CASE ReceiveDeltaResponse(w)
        <3>1. /\ h.kind = "delta" /\ SyncDone(w, h.tag) /\ toPrimary' = toPrimary
              /\ replica' = [replica EXCEPT ![w] = ApplyDelta(@, h.delta)]
            BY <2>c DEF ReceiveDeltaResponse, Receives, h
        <3>2. Handles(w, h)
            BY <2>4, <2>6, <3>1
        <3>. QED
            BY <2>2, <3>2
    <2>d. CASE ReceiveSnapshotResponse(w)
        <3>1. /\ h.kind = "snapshot" /\ SyncDone(w, h.tag) /\ toPrimary' = toPrimary
              /\ InstallSnapshot(w, h.snapshot)
            BY <2>d DEF ReceiveSnapshotResponse, Receives, h
        <3>2. Handles(w, h)
            BY <2>5, <2>6, <3>1
        <3>. QED
            BY <2>2, <3>2
    <2>e. CASE ReceiveNoDelta(w)
        <3>1. /\ h.kind = "noDelta" /\ toPrimary' = Send(w, GetSnapshot(h.tag))
              /\ UNCHANGED workerVars
            BY <2>e DEF ReceiveNoDelta, Receives, h
        <3>2. h.tag \in Tags /\ End(h) = 0 /\ Settles(h) = h.tag
            BY <1>1, <3>1, WorkerMessageFields, EndFacts DEF Settles, Commits, Pulls
        <3>3. PICK q \in PrimaryMessage : q = GetSnapshot(h.tag)
            BY <3>2, MessageTypes
        <3>4. q.kind = "getSnapshot" /\ q.kind \notin Commits /\ Settles(q) = Settles(h)
            BY <3>2, <3>3, SettlesFacts DEF GetSnapshot, Commits
        <3>5. toPrimary'[w] = Append(toPrimary[w], q)
            BY <1>2, <3>1, <3>3 DEF Send
        <3>6. Handles(w, h)
            BY <1>2, <3>1, <3>2, <3>4, <3>5 DEF Handles, workerVars, R
        <3>. QED
            BY <2>2, <3>6
    <2>f. CASE ReceiveCommitResponse(w)
        <3>0. replica' = [replica EXCEPT ![w] = ApplyDelta(@, h.delta)]
            BY <2>f DEF ReceiveCommitResponse, h
        <3>1. h.kind = "commit" /\ phase' = phase
            BY <2>f DEF ReceiveCommitResponse, Receives, h
        <3>2. Settles(h) = "request" /\ End(h) = h.version
            BY <1>1, <3>1, EndFacts DEF Settles, Commits
        <3>m. /\ \/ replica'[w].version = R
                 \/ /\ replica'[w].version = End(h) /\ R <= End(h) /\ h.kind # "noDelta"
              /\ ~ Gap(replica[w], h.delta) => End(h) <= replica'[w].version
              /\ UpToDate(w) => ~ Gap(replica[w], h.delta)
            BY <2>4, <3>0, <3>1
        <3>3. CASE ~ Gap(replica[w], h.delta)
            <4>1. /\ toPrimary' = toPrimary /\ request'[w] = Idle /\ acked'[w] = h.version
                BY <1>2, <2>f, <3>3 DEF ReceiveCommitResponse, Answer, h
            <4>2. End(h) <= replica'[w].version /\ acked'[w] <= End(h)
                BY <1>3, <3>2, <3>3, <3>m, <4>1
            <4>h. Handles(w, h)
                BY <3>1, <3>2, <3>m, <4>1, <4>2 DEF Handles, R
            <4>. QED
                BY <2>2, <4>h
        <3>4. CASE Gap(replica[w], h.delta)
            <4>1. /\ toPrimary' = Send(w, GetDeltaSince("request", R)) /\ acked' = acked
                  /\ request' = [request EXCEPT ![w].floor = h.version]
                BY <2>f, <3>4 DEF ReceiveCommitResponse, h, R
            <4>2. request[w] \in Request
                BY <1>2
            <4>3. request'[w].kind = request[w].kind /\ request'[w].floor = End(h)
                BY <1>2, <3>2, <4>1, <4>2 DEF Request
            <4>4. request'[w] # Idle
                <5>1. h.delta.fromVersion \in Nat /\ h.version = h.delta.fromVersion + 1
                    BY <1>1, <1>3, <3>1, WorkerMessageFields DEF OneStep, Delta
                <5>2. request'[w].floor # 0
                    BY <3>2, <4>3, <5>1
                <5>. QED
                    BY <5>2 DEF Idle
            <4>5. PICK q \in PrimaryMessage : q = GetDeltaSince("request", R)
                BY <1>2, MessageTypes DEF Tags, R
            <4>6. /\ q.kind = "getDeltaSince" /\ q.kind \notin Commits /\ Settles(q) = "request"
                  /\ q.fromVersion = R
                BY <4>5, SettlesFacts DEF GetDeltaSince, Commits
            <4>7. toPrimary'[w] = Append(toPrimary[w], q)
                BY <1>2, <4>1, <4>5 DEF Send
            <4>8. ~ UpToDate(w)
                BY <3>4, <3>m
            <4>h. Handles(w, h)
                BY <3>1, <3>2, <3>m, <4>1, <4>3, <4>4, <4>6, <4>7, <4>8 DEF Handles, R
            <4>. QED
                BY <2>2, <4>h
        <3>. QED
            BY <3>3, <3>4
    <2>g. CASE ReceiveEmptyCommitResponse(w)
        <3>1. /\ h.kind = "emptyCommit" /\ Answer(w, h.version)
              /\ UNCHANGED <<toPrimary, phase, replica>>
            BY <2>g DEF ReceiveEmptyCommitResponse, Receives, h
        <3>2. Settles(h) = "request" /\ End(h) = h.version
            BY <1>1, <3>1, EndFacts DEF Settles, Commits
        <3>3. UpToDate(w) => End(h) <= R
            BY <2>3, <3>1 DEF Announces
        <3>4. request'[w] = Idle /\ acked'[w] = End(h)
            BY <1>2, <3>1, <3>2 DEF Answer
        <3>5. Handles(w, h)
            BY <1>3, <3>1, <3>2, <3>3, <3>4 DEF Handles, R
        <3>. QED
            BY <2>2, <3>5
    <2>. QED
        BY <1>5, <2>a, <2>b, <2>c, <2>d, <2>e, <2>f, <2>g DEF WorkerReceives
<1>. QED
    BY <1>4, <1>5

-----------------------------------------------------------------------------
(* Booting, taking up a browser request, exiting and being forked. *)

\* A worker sends a request and receives nothing.
LEMMA SendingTurn ==
    ASSUME TypeOK, NEW w \in Workers, toWorker'[w] = toWorker[w],
           NEW q \in PrimaryMessage, toPrimary'[w] = Append(toPrimary[w], q),
           NEW t, Single(w, t), Settles(q) = t => ~ Busy(w, t)
    PROVE  /\ Single(w, t)'
           /\ Busy(w, t)' <=> Busy(w, t) \/ Settles(q) = t
<1>1. toPrimary[w] \in Seq(PrimaryMessage)
    BY DEF TypeOK
<1>2. /\ Contains(toPrimary'[w], t) <=> Contains(toPrimary[w], t) \/ Settles(q) = t
      /\ AtMostOne(toPrimary[w], t) /\ ~ (Contains(toPrimary[w], t) /\ Settles(q) = t) =>
            AtMostOne(toPrimary'[w], t)
    BY <1>1, SentTurn
<1>. QED
    BY <1>2 DEF Single, Busy

\* A pull or a commit that no request waits for is not under way.
LEMMA IdleTurn ==
    ASSUME NEW c, ~ Contains(c, "request")
    PROVE  /\ NoCommitIn(c)
           /\ \A m \in InTransit(c) : ~ (m.kind \in {"delta", "snapshot"} /\ m.tag = "request")
BY DEF Contains, Settles, NoCommitIn, InTransit, Pulls, Commits

LEMMA BootOrder ==
    ASSUME TypeOK, TypeOK', NEW w \in Workers, WorkerInv(w), WorkerOrder(w), WorkerBoots(w)
    PROVE  WorkerOrder(w)'
<1>0. /\ version' = version /\ toWorker' = toWorker /\ bootSnapshot' = bootSnapshot
      /\ request' = request /\ acked' = acked
    BY DEF WorkerBoots, CreateWatchdog, BeginStart, FinishStart, primaryVars, channelVars
<1>1. /\ version \in Nat /\ bootSnapshot[w].version \in Nat /\ replica[w].version \in Nat
      /\ toPrimary[w] \in Seq(PrimaryMessage)
      /\ toPrimary \in [Workers -> Seq(PrimaryMessage)]
      /\ replica \in [Workers -> Snapshot] /\ phase \in [Workers -> Phases]
    BY DEF TypeOK, Snapshot
<1>2. /\ ChannelOrdered(w) /\ SyncInv(w) /\ TurnInv(w) /\ AckInv(w)
    BY DEF WorkerOrder
<1>3. CASE CreateWatchdog(w)
    <2>1. /\ phase[w] = "bootstrapped" /\ phase'[w] = "syncing"
          /\ replica'[w].version = bootSnapshot[w].version
        BY <1>1, <1>3 DEF CreateWatchdog
    <2>2. PICK q \in PrimaryMessage : q = GetDeltaSince("boot", bootSnapshot[w].version)
        BY <1>1, MessageTypes DEF Tags
    <2>3. toPrimary'[w] = Append(toPrimary[w], q)
        BY <1>1, <1>3, <2>2 DEF CreateWatchdog, Send
    <2>4. /\ q.kind = "getDeltaSince" /\ q.fromVersion = bootSnapshot[w].version
          /\ Settles(q) = "boot"
        BY <2>2, SettlesFacts DEF GetDeltaSince
    <2>5. ~ Busy(w, "boot") /\ ~ Busy(w, "request") /\ request[w] = Idle /\ acked[w] = 0
        BY <1>2, <2>1 DEF TurnInv
    <2>6. \A f \in Asked(w)' : f = bootSnapshot[w].version
        <3>1. InTransit(toPrimary'[w]) = InTransit(toPrimary[w]) \cup {q}
            BY <1>1, <2>3, AppendInTransit
        <3>2. /\ \A m \in InTransit(toWorker[w]) : m.kind # "delta"
              /\ \A m \in InTransit(toPrimary[w]) : m.kind # "getDeltaSince"
            BY <2>1 DEF WorkerInv, BootInv, HasWatchdog
        <3>. QED
            BY <1>0, <2>4, <3>1, <3>2 DEF Asked
    <2>7. SyncInv(w)'
        BY <1>0, <1>1, <2>1, <2>6 DEF SyncInv, AtBoot
    <2>8. TurnInv(w)'
        <3>1. /\ Single(w, "boot")' /\ Single(w, "request")'
              /\ ~ Busy(w, "request")'
            BY <1>0, <1>2, <2>3, <2>4, <2>5, SendingTurn DEF TurnInv
        <3>. QED
            BY <1>0, <2>1, <2>5, <3>1 DEF TurnInv, Idle
    <2>9. ChannelOrdered(w)' /\ AckInv(w)'
        BY <1>0, <1>2, <2>1 DEF ChannelOrdered, AckInv
    <2>. QED
        BY <2>7, <2>8, <2>9 DEF WorkerOrder
<1>4. CASE BeginStart(w)
    <2>1. /\ phase[w] = "loading" /\ replica' = replica /\ toPrimary' = toPrimary
          /\ phase'[w] = IF bootSnapshot[w].version < replica[w].version
                         THEN "listening" ELSE "starting"
        BY <1>1, <1>4 DEF BeginStart, channelVars
    <2>2. UpToDate(w)' = UpToDate(w) /\ Asked(w)' = Asked(w) /\ AtBoot(w)' = AtBoot(w)
        BY <1>0, <2>1 DEF UpToDate, Asked, AtBoot
    <2>3. SyncInv(w)'
        BY <1>0, <1>1, <1>2, <2>1, <2>2 DEF SyncInv, AtBoot, HasWatchdog
    <2>4. TurnInv(w)'
        <3>1. \A t : Single(w, t)' = Single(w, t) /\ Busy(w, t)' = Busy(w, t)
            BY <1>0, <2>1 DEF Single, Busy
        <3>2. ~ Busy(w, "boot") /\ ~ Busy(w, "request") /\ request[w] = Idle /\ acked[w] = 0
            BY <1>2, <2>1 DEF TurnInv
        <3>. QED
            BY <1>0, <1>2, <3>1, <3>2 DEF TurnInv, Idle
    <2>5. ChannelOrdered(w)'
        BY <1>0, <1>2, <2>1 DEF ChannelOrdered
    <2>6. AckInv(w)'
        <3>1. acked[w] = 0
            BY <1>2, <2>1 DEF TurnInv
        <3>. QED
            BY <1>0, <1>1, <1>2, <2>1, <3>1 DEF AckInv
    <2>. QED
        BY <2>3, <2>4, <2>5, <2>6 DEF WorkerOrder
<1>5. CASE FinishStart(w)
    <2>1. /\ phase[w] = "starting" /\ phase'[w] = "listening" /\ toPrimary' = toPrimary
          /\ replica'[w].version = bootSnapshot[w].version
        BY <1>1, <1>5 DEF FinishStart, ApplySnapshot, channelVars
    <2>2. Asked(w)' = Asked(w) /\ AtBoot(w)'
        BY <1>0, <2>1 DEF Asked, AtBoot
    <2>3. SyncInv(w)'
        BY <1>0, <1>1, <1>2, <2>1, <2>2 DEF SyncInv, HasWatchdog
    <2>4. TurnInv(w)'
        <3>1. \A t : Single(w, t)' = Single(w, t) /\ Busy(w, t)' = Busy(w, t)
            BY <1>0, <2>1 DEF Single, Busy
        <3>2. ~ Busy(w, "boot") /\ ~ Busy(w, "request") /\ request[w] = Idle
            BY <1>2, <2>1 DEF TurnInv
        <3>. QED
            BY <1>0, <1>2, <2>1, <3>1, <3>2 DEF TurnInv, Idle
    <2>5. ChannelOrdered(w)' /\ AckInv(w)'
        BY <1>0, <1>2, <2>1, <2>2 DEF ChannelOrdered, AckInv
    <2>. QED
        BY <2>3, <2>4, <2>5 DEF WorkerOrder
<1>. QED
    BY <1>3, <1>4, <1>5 DEF WorkerBoots

LEMMA BrowserOrder ==
    ASSUME TypeOK, TypeOK', NEW w \in Workers, WorkerInv(w), WorkerOrder(w), BrowserAsks(w)
    PROVE  WorkerOrder(w)'
<1>0. /\ version' = version /\ toWorker' = toWorker /\ bootSnapshot' = bootSnapshot
      /\ replica' = replica /\ acked' = acked /\ phase' = phase
      /\ phase[w] = "listening" /\ request[w] = Idle
    BY DEF BrowserAsks, BeginFencedRequest, BeginMutation, primaryVars
<1>1. /\ version \in Nat /\ replica[w].version \in Nat
      /\ toPrimary[w] \in Seq(PrimaryMessage)
      /\ toPrimary \in [Workers -> Seq(PrimaryMessage)] /\ request \in [Workers -> Request]
    BY DEF TypeOK, Snapshot
<1>2. ChannelOrdered(w) /\ SyncInv(w) /\ TurnInv(w) /\ AckInv(w)
    BY DEF WorkerOrder
<1>3. ~ Busy(w, "boot") /\ ~ Busy(w, "request")
    BY <1>0, <1>2 DEF TurnInv
<1>4. /\ NoCommitIn(toWorker[w]) /\ NoCommitIn(toPrimary[w])
      /\ \A m \in InTransit(toWorker[w]) :
            ~ (m.kind \in {"delta", "snapshot"} /\ m.tag = "request")
    BY <1>3, IdleTurn DEF Busy
<1>5. ASSUME NEW q \in PrimaryMessage, toPrimary'[w] = Append(toPrimary[w], q),
             Settles(q) = "request",
             q.kind = "getDeltaSince" => q.fromVersion = replica[w].version,
             request'[w].floor <= version, request'[w] # Idle,
             request'[w].kind = "fenced" => q.kind \notin Commits
      PROVE  WorkerOrder(w)'
    <2>1. InTransit(toPrimary'[w]) = InTransit(toPrimary[w]) \cup {q}
        BY <1>1, <1>5, AppendInTransit
    <2>2. Asked(w)' \subseteq Asked(w) \cup {replica[w].version}
        BY <1>0, <1>5, <2>1 DEF Asked
    <2>3. UpToDate(w)' = UpToDate(w) /\ AtBoot(w)' = AtBoot(w)
        BY <1>0 DEF UpToDate, AtBoot
    <2>4. SyncInv(w)'
        BY <1>0, <1>2, <2>2, <2>3 DEF SyncInv, HasWatchdog
    <2>5. TurnInv(w)'
        <3>1. Single(w, "boot")' /\ Single(w, "request")' /\ ~ Busy(w, "boot")'
            BY <1>0, <1>2, <1>3, <1>5, SendingTurn DEF TurnInv
        <3>2. request'[w].kind = "fenced" => NoCommitIn(toWorker[w])' /\ NoCommitIn(toPrimary[w])'
            BY <1>0, <1>4, <1>5, <2>1 DEF NoCommitIn
        <3>. QED
            BY <1>0, <1>5, <3>1, <3>2 DEF TurnInv
    <2>6. ChannelOrdered(w)'
        BY <1>0, <1>2 DEF ChannelOrdered
    <2>7. AckInv(w)'
        BY <1>0, <1>2, <1>4, <1>5, <2>3 DEF AckInv
    <2>. QED
        BY <2>4, <2>5, <2>6, <2>7 DEF WorkerOrder
<1>6. CASE BeginMutation(w)
    <2>1. PICK q \in PrimaryMessage : q = CommitProjectPaths
        BY MessageTypes
    <2>2. Settles(q) = "request" /\ q.kind # "getDeltaSince"
        BY <2>1, SettlesFacts DEF CommitProjectPaths
    <2>3. toPrimary'[w] = Append(toPrimary[w], q)
        BY <1>1, <1>6, <2>1 DEF BeginMutation, Send
    <2>4. request'[w] = [kind |-> "mutation", floor |-> 0]
        BY <1>1, <1>6 DEF BeginMutation
    <2>. QED
        BY <1>1, <1>5, <2>2, <2>3, <2>4 DEF Idle
<1>7. ASSUME NEW floor \in 1 .. version, BeginFencedRequest(w, floor)
      PROVE  WorkerOrder(w)'
    <2>1. PICK q \in PrimaryMessage : q = GetDeltaSince("request", replica[w].version)
        BY <1>1, MessageTypes DEF Tags
    <2>2. Settles(q) = "request" /\ q.kind \notin Commits /\ q.fromVersion = replica[w].version
        BY <2>1, SettlesFacts DEF GetDeltaSince, Commits
    <2>3. toPrimary'[w] = Append(toPrimary[w], q)
        BY <1>1, <1>7, <2>1 DEF BeginFencedRequest, Send
    <2>4. request'[w] = [kind |-> "fenced", floor |-> floor]
        BY <1>1, <1>7 DEF BeginFencedRequest
    <2>. QED
        BY <1>1, <1>5, <2>2, <2>3, <2>4 DEF Idle
<1>. QED
    BY <1>6, <1>7 DEF BrowserAsks

LEMMA ExitOrder ==
    ASSUME TypeOK, TypeOK', NEW w \in Workers, WorkerOrder(w), Crash(w) \/ Fork(w)
    PROVE  WorkerOrder(w)'
<1>1. /\ toWorker'[w] = <<>> /\ request'[w] = Idle /\ acked'[w] = 0
      /\ phase'[w] \in {"down", "forked"}
      /\ phase'[w] = "down" => toPrimary'[w] = <<>>
      /\ toPrimary'[w] = <<>> \/ toPrimary'[w] = Append(<<>>, ReadyMsg)
    <2>1. CASE Crash(w)
        BY <2>1 DEF Crash, TypeOK
    <2>2. CASE Fork(w)
        <3>1. toWorker[w] = <<>> /\ request[w] = Idle /\ acked[w] = 0
            BY <2>2 DEF Fork, WorkerOrder, ChannelOrdered, TurnInv
        <3>2. <<ReadyMsg>> = Append(<<>>, ReadyMsg)
            OBVIOUS
        <3>. QED
            BY <2>2, <3>1, <3>2 DEF Fork, TypeOK
    <2>. QED
        BY <2>1, <2>2
<1>2. ChannelOrdered(w)' /\ SyncInv(w)'
    BY <1>1 DEF ChannelOrdered, Ordered, SyncInv, HasWatchdog
<1>3. \A t \in {"boot", "request"} : Single(w, t)' /\ ~ Busy(w, t)'
    <2>1. ReadyMsg \in PrimaryMessage /\ Settles(ReadyMsg) = "none" /\ <<>> \in Seq(PrimaryMessage)
        BY MessageTypes, SettlesFacts
    <2>2. \A t \in {"boot", "request"} :
              ~ Contains(toPrimary'[w], t) /\ AtMostOne(toPrimary'[w], t)
        <3>1. CASE toPrimary'[w] = <<>>
            BY <3>1, EmptyTurn
        <3>2. CASE toPrimary'[w] = Append(<<>>, ReadyMsg)
            <4>1. PICK c \in Seq(PrimaryMessage), q \in PrimaryMessage :
                      c = <<>> /\ q = ReadyMsg
                BY <2>1
            <4>2. \A t \in {"boot", "request"} :
                      ~ Contains(c, t) /\ AtMostOne(c, t) /\ Settles(q) # t
                BY <2>1, <4>1, EmptyTurn
            <4>3. toPrimary'[w] = Append(c, q)
                BY <3>2, <4>1
            <4>. QED
                BY <4>2, <4>3, SentTurn
        <3>. QED
            BY <1>1, <3>1, <3>2
    <2>. QED
        BY <1>1, <2>2, EmptyTurn DEF Single, Busy
<1>4. TurnInv(w)'
    BY <1>1, <1>3 DEF TurnInv, Idle
<1>5. AckInv(w)'
    BY <1>1, NothingInTransit DEF AckInv, Idle, TypeOK
<1>. QED
    BY <1>2, <1>4, <1>5 DEF WorkerOrder

-----------------------------------------------------------------------------
(* The invariant. *)

\* A step of one worker is none of the others' business.
LEMMA OtherWorkersOrder ==
    ASSUME TypeOK, TypeOK', NEW w \in Workers,
           WorkerReceives(w) \/ WorkerBoots(w) \/ BrowserAsks(w) \/ Crash(w) \/ Fork(w),
           NEW u \in Workers, u # w, WorkerOrder(u)
    PROVE  WorkerOrder(u)'
<1>1. /\ phase'[u] = phase[u] /\ bootSnapshot'[u] = bootSnapshot[u]
      /\ replica'[u] = replica[u] /\ request'[u] = request[u] /\ acked'[u] = acked[u]
      /\ toPrimary'[u] = toPrimary[u] /\ toWorker'[u] = toWorker[u] /\ version' = version
    <2>0. /\ u \in DOMAIN phase /\ u \in DOMAIN bootSnapshot /\ u \in DOMAIN replica
          /\ u \in DOMAIN request /\ u \in DOMAIN acked
          /\ u \in DOMAIN toPrimary /\ u \in DOMAIN toWorker
        BY DEF TypeOK
    <2>. USE <2>0 DEF primaryVars, workerVars, channelVars
    <2>1. CASE WorkerReceives(w)
        <3>1. CASE ReceiveBootSnapshot(w) \/ IgnoreMessage(w)
            BY <3>1 DEF ReceiveBootSnapshot, IgnoreMessage, Consumed
        <3>2. CASE ReceiveDelta(w)
            BY <3>2 DEF ReceiveDelta, Send, Consumed
        <3>3. CASE ReceiveSnapshot(w)
            BY <3>3 DEF ReceiveSnapshot, InstallSnapshot, Consumed
        <3>4. CASE ReceiveDeltaResponse(w)
            BY <3>4 DEF ReceiveDeltaResponse, Send, SyncDone, Answer, Consumed
        <3>5. CASE ReceiveNoDelta(w)
            BY <3>5 DEF ReceiveNoDelta, Send, SyncDone, Answer, Consumed
        <3>6. CASE ReceiveSnapshotResponse(w)
            BY <3>6 DEF ReceiveSnapshotResponse, InstallSnapshot, SyncDone, Answer, Consumed
        <3>7. CASE ReceiveCommitResponse(w)
            BY <3>7 DEF ReceiveCommitResponse, Send, SyncDone, Answer, Consumed
        <3>8. CASE ReceiveEmptyCommitResponse(w)
            BY <3>8 DEF ReceiveEmptyCommitResponse, SyncDone, Answer, Consumed
        <3>. QED
            BY <2>1, <3>1, <3>2, <3>3, <3>4, <3>5, <3>6, <3>7, <3>8 DEF WorkerReceives
    <2>2. CASE WorkerBoots(w)
        <3>1. CASE CreateWatchdog(w) \/ FinishStart(w)
            BY <3>1 DEF CreateWatchdog, FinishStart, Send
        <3>2. CASE BeginStart(w)
            BY <3>2 DEF BeginStart, Send
        <3>. QED
            BY <2>2, <3>1, <3>2 DEF WorkerBoots
    <2>4. CASE BrowserAsks(w)
        <3>1. ASSUME NEW floor \in 1 .. version, BeginFencedRequest(w, floor)
              PROVE  /\ phase'[u] = phase[u] /\ bootSnapshot'[u] = bootSnapshot[u]
                     /\ replica'[u] = replica[u] /\ request'[u] = request[u]
                     /\ acked'[u] = acked[u] /\ toPrimary'[u] = toPrimary[u]
                     /\ toWorker'[u] = toWorker[u] /\ version' = version
            BY <3>1 DEF BeginFencedRequest, Send
        <3>2. CASE BeginMutation(w)
            BY <3>2 DEF BeginMutation, Send
        <3>. QED
            BY <2>4, <3>1, <3>2 DEF BrowserAsks
    <2>3. CASE Crash(w) \/ Fork(w)
        BY <2>3 DEF Crash, Fork
    <2>. QED
        BY <2>1, <2>2, <2>3, <2>4
<1>. QED
    BY <1>1, Unserved

LEMMA OrderInit == ASSUME Init PROVE OrderInv
<1>. SUFFICES ASSUME NEW w \in Workers PROVE WorkerOrder(w)
    BY DEF OrderInv
<1>1. /\ toWorker[w] = <<>> /\ toPrimary[w] = <<ReadyMsg>> /\ phase[w] = "forked"
      /\ request[w] = Idle /\ acked[w] = 0 /\ version = 0
    BY DEF Init
<1>2. ChannelOrdered(w) /\ SyncInv(w)
    BY <1>1 DEF ChannelOrdered, Ordered, SyncInv, HasWatchdog
<1>3. \A t \in {"boot", "request"} : Single(w, t) /\ ~ Busy(w, t)
    <2>0. <<>> \in Seq(PrimaryMessage) /\ ReadyMsg \in PrimaryMessage
        BY MessageTypes
    <2>1. PICK c \in Seq(PrimaryMessage), q \in PrimaryMessage : c = <<>> /\ q = ReadyMsg
        BY <2>0
    <2>2. \A t \in {"boot", "request"} : ~ Contains(c, t) /\ AtMostOne(c, t) /\ Settles(q) # t
        BY <2>1, EmptyTurn, SettlesFacts
    <2>3. toPrimary[w] = Append(c, q)
        BY <1>1, <2>1
    <2>4. \A t \in {"boot", "request"} :
              ~ Contains(toPrimary[w], t) /\ AtMostOne(toPrimary[w], t)
        BY <2>2, <2>3, SentTurn
    <2>. QED
        BY <1>1, <2>4, EmptyTurn DEF Single, Busy
<1>4. TurnInv(w)
    BY <1>1, <1>3 DEF TurnInv, Idle
<1>5. AckInv(w)
    BY <1>1, NothingInTransit DEF AckInv, Idle
<1>. QED
    BY <1>2, <1>4, <1>5 DEF WorkerOrder

LEMMA OrderStep ==
    ASSUME IInv, OrderInv, [Next]_vars
    PROVE  OrderInv'
<1>0. TypeOK /\ LogInv /\ TypeOK'
    BY InvStep DEF IInv
<1>. SUFFICES ASSUME NEW u \in Workers PROVE WorkerOrder(u)'
    BY DEF OrderInv
<1>1. WorkerOrder(u) /\ WorkerInv(u)
    BY DEF OrderInv, IInv
<1>2. CASE PrimaryCommit \/ ReloadConfig
    BY <1>0, <1>1, <1>2, PrimaryOrder
<1>3. ASSUME NEW w \in Workers, PrimaryHandles(w)
      PROVE  WorkerOrder(u)'
    BY <1>0, <1>1, <1>3, AnswersOrder DEF OrderInv, IInv
<1>4. ASSUME NEW w \in Workers,
             WorkerReceives(w) \/ WorkerBoots(w) \/ BrowserAsks(w) \/ Crash(w) \/ Fork(w)
      PROVE  WorkerOrder(u)'
    <2>1. CASE u = w
        BY <1>0, <1>1, <1>4, <2>1, ReceivesOrder, BootOrder, BrowserOrder, ExitOrder
    <2>2. CASE u # w
        BY <1>0, <1>1, <1>4, <2>2, OtherWorkersOrder
    <2>. QED
        BY <2>1, <2>2
<1>5. CASE UNCHANGED vars
    BY <1>0, <1>1, <1>5, Unserved DEF vars, primaryVars, channelVars, workerVars
<1>. QED
    BY <1>2, <1>3, <1>4, <1>5 DEF Next

-----------------------------------------------------------------------------
(* What follows. *)

\* No answer of getDeltaSince meets a version gap when the worker applies it,
\* for any number of syncs, broadcasts and commits in between: the await of
\* syncWatchdogFromPrimary is never rejected with STATE_VERSION_GAP
\* (cluster.js syncWatchdogFromPrimary, state_system.js applyDelta).
THEOREM SyncsNeverRejected == Spec => []SyncResponsesFit
<1>1. Init => IInv /\ OrderInv
    BY InvInit, OrderInit
<1>2. IInv /\ OrderInv /\ [Next]_vars => IInv' /\ OrderInv'
    BY InvStep, OrderStep
<1>3. IInv /\ OrderInv => SyncResponsesFit
    <2>. SUFFICES ASSUME IInv, OrderInv, NEW w \in Workers, Receives(w, "delta")
                  PROVE  ~ Gap(replica[w], Head(toWorker[w]).delta)
        BY DEF SyncResponsesFit
    <2>0. TypeOK /\ WorkerInv(w) /\ WorkerOrder(w)
        BY DEF IInv, OrderInv
    <2>1. toWorker[w] # <<>>
        BY DEF Receives
    <2>2. PICK h : h = Head(toWorker[w])
        OBVIOUS
    <2>3. h.kind = "delta"
        BY <2>2 DEF Receives
    <2>4. HasWatchdog(w)
        BY <2>0, <2>1, <2>2, <2>3, ReceivedMessage
    <2>5. ~ Gap(replica[w], h.delta)
        BY <2>0, <2>1, <2>2, <2>3, <2>4, FirstFits
    <2>. QED
        BY <2>2, <2>5
<1>. QED
    BY <1>1, <1>2, <1>3, PTL DEF Spec

\* A listening worker that has left its boot snapshot is never behind a version
\* it has answered a browser for (cluster.js commitProjectPaths and
\* applyPrimarySyncPayload).
THEOREM AnswersAreHeld == Spec => []AnsweredVersionHeld
<1>1. Init => IInv /\ OrderInv
    BY InvInit, OrderInit
<1>2. IInv /\ OrderInv /\ [Next]_vars => IInv' /\ OrderInv'
    BY InvStep, OrderStep
<1>3. OrderInv => AnsweredVersionHeld
    BY DEF OrderInv, WorkerOrder, AckInv, AtBoot, AnsweredVersionHeld
<1>. QED
    BY <1>1, <1>2, <1>3, PTL DEF Spec

\* One step: a fenced request is answered by the pull it sent, and the answer
\* brings the replica to the floor of the request.
LEMMA FencedStep ==
    ASSUME IInv, IInv', OrderInv, [Next]_vars, NEW w \in Workers,
           request[w].kind = "fenced", request'[w] = Idle, phase'[w] = "listening"
    PROVE  replica'[w].version >= request[w].floor
<1>. DEFINE h == Head(toWorker[w])
<1>0. /\ TypeOK /\ WorkerInv(w) /\ WorkerOrder(w)
      /\ request[w] # Idle /\ request'[w] # request[w]
      /\ phase \in [Workers -> Phases] /\ request \in [Workers -> Request]
      /\ replica \in [Workers -> Snapshot]
    BY DEF IInv, OrderInv, TypeOK, Idle
<1>1. /\ NoCommitIn(toWorker[w])
      /\ request[w].floor \in Nat /\ replica'[w].version \in Nat /\ replica[w].version \in Nat
    BY <1>0 DEF WorkerOrder, TurnInv, IInv, TypeOK, Request, Snapshot
<1>2. ASSUME NEW u \in Workers, WorkerReceives(u)
      PROVE  replica'[w].version >= request[w].floor
    <2>1. u = w /\ ~ (ReceiveBootSnapshot(w) \/ IgnoreMessage(w) \/ ReceiveDelta(w)
                      \/ ReceiveSnapshot(w) \/ ReceiveNoDelta(w))
        BY <1>0, <1>2 DEF WorkerReceives, ReceiveBootSnapshot, IgnoreMessage, ReceiveDelta,
            ReceiveSnapshot, ReceiveDeltaResponse, ReceiveNoDelta, ReceiveSnapshotResponse,
            ReceiveCommitResponse, ReceiveEmptyCommitResponse, SyncDone, Answer, workerVars
    <2>2. /\ toWorker[w] # <<>> /\ h \in WorkerMessage /\ h \in InTransit(toWorker[w])
          /\ End(h) \in Nat
        <3>1. toWorker[w] # <<>> /\ toWorker[w] \in Seq(WorkerMessage)
            BY <1>0, <1>2, <2>1 DEF WorkerReceives, ReceiveDeltaResponse,
                ReceiveSnapshotResponse, ReceiveCommitResponse, ReceiveEmptyCommitResponse,
                Receives, TypeOK
        <3>. QED
            BY <3>1, HeadInTransit, EndFacts
    <2>3. h.kind \notin Commits
        BY <1>1, <2>2 DEF NoCommitIn
    <2>4. ReceiveDeltaResponse(w) \/ ReceiveSnapshotResponse(w)
        BY <1>2, <2>1, <2>3 DEF WorkerReceives, ReceiveCommitResponse,
            ReceiveEmptyCommitResponse, Receives, Commits
    <2>5. h.kind \in {"delta", "snapshot"} /\ SyncDone(w, h.tag)
        BY <2>4 DEF ReceiveDeltaResponse, ReceiveSnapshotResponse, Receives
    <2>6. h.tag = "request"
        BY <1>0, <2>5 DEF SyncDone
    <2>7. request[w].floor <= End(h)
        BY <1>0, <2>2, <2>5, <2>6 DEF WorkerOrder, AckInv
    <2>8. End(h) <= replica'[w].version
        <3>1. CASE ReceiveDeltaResponse(w)
            <4>1. /\ h.kind = "delta" /\ replica'[w] = ApplyDelta(replica[w], h.delta)
                BY <1>0, <3>1 DEF ReceiveDeltaResponse, Receives
            <4>2. h.delta \in Delta /\ End(h) = h.delta.toVersion
                BY <2>2, <4>1, WorkerMessageFields, EndFacts
            <4>3. ~ Gap(replica[w], h.delta)
                <5>1. HasWatchdog(w)
                    BY <1>0, <2>2, <4>1, ReceivedMessage
                <5>. QED
                    BY <1>0, <2>2, <4>1, <5>1, FirstFits
            <4>4. replica[w] \in Snapshot
                BY <1>0
            <4>. HIDE DEF h
            <4>. QED
                BY <4>1, <4>2, <4>3, <4>4, ApplyMoves
        <3>2. CASE ReceiveSnapshotResponse(w)
            <4>1. h.kind = "snapshot" /\ InstallSnapshot(w, h.snapshot)
                BY <3>2 DEF ReceiveSnapshotResponse, Receives
            <4>2. End(h) = h.snapshot.version
                BY <2>2, <4>1, EndFacts
            <4>. HIDE DEF h
            <4>. QED
                BY <1>0, <1>1, <2>2, <4>1, <4>2 DEF InstallSnapshot, ApplySnapshot
        <3>. QED
            BY <2>4, <3>1, <3>2
    <2>. HIDE DEF h
    <2>. QED
        BY <1>1, <2>2, <2>7, <2>8
<1>3. ASSUME NEW u \in Workers, Crash(u)
      PROVE  FALSE
    BY <1>0, <1>3 DEF Crash, TypeOK
<1>4. ASSUME NEW u \in Workers, BrowserAsks(u)
      PROVE  FALSE
    BY <1>0, <1>4 DEF BrowserAsks, BeginFencedRequest, BeginMutation, TypeOK
<1>5. ASSUME NEW u \in Workers, PrimaryHandles(u) \/ WorkerBoots(u) \/ Fork(u)
      PROVE  FALSE
    BY <1>0, <1>5 DEF PrimaryHandles, HandleReady, HandleGetDeltaSince, HandleGetSnapshot,
        HandleCommitProjectPaths, WorkerBoots, CreateWatchdog, BeginStart, FinishStart, Fork,
        workerVars
<1>6. CASE PrimaryCommit \/ ReloadConfig \/ UNCHANGED vars
    BY <1>0, <1>6 DEF PrimaryCommit, ReloadConfig, vars, workerVars
<1>. QED
    BY <1>2, <1>3, <1>4, <1>5, <1>6 DEF Next

\* One pull is enough: whatever happens between a browser request that carries
\* a version floor and its answer, the answer is given by a replica that has
\* reached the floor (cluster.js waitForVersion).
THEOREM OnePullIsEnough == Spec => FencedRequestSeesFloor
<1>1. Init => IInv /\ OrderInv
    BY InvInit, OrderInit
<1>2. IInv /\ OrderInv /\ [Next]_vars => IInv' /\ OrderInv'
    BY InvStep, OrderStep
<1>3. IInv /\ OrderInv /\ IInv' /\ [Next]_vars =>
          [\A w \in Workers :
              request[w].kind = "fenced" /\ request'[w] = Idle /\ phase'[w] = "listening"
                  => replica'[w].version >= request[w].floor]_vars
    BY FencedStep
<1>. QED
    BY <1>1, <1>2, <1>3, PTL DEF Spec, FencedRequestSeesFloor
=============================================================================
