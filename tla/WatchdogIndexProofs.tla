------------------------ MODULE WatchdogIndexProofs ------------------------
(***************************************************************************)
(* Theorems about WatchdogIndex, for any tree of directories, any shards   *)
(* and any bounds, with or without live watching.                          *)
(*                                                                         *)
(* IInv, which every step preserves, says                                  *)
(*   TypeInv    the types, and that index and replicated state hold only   *)
(*              entries that their files have or had,                      *)
(*   TreeInv    what is there is in a directory that is there,             *)
(*   QueueInv   only the first operation has begun, and each is sound:     *)
(*              what it is about to commit is a state that the file had    *)
(*              since the committed one (Reached), and if it answers a     *)
(*              report, a state since the report; a scan takes what is     *)
(*              below a missing directory to be missing, which was so at   *)
(*              the time it found the directory missing (Gone),            *)
(*   IndexIsCommitted.                                                     *)
(*                                                                         *)
(* The directories above a path come from a recursive function.  That it   *)
(* exists follows from the depth of the tree, by taking the least depth    *)
(* at which it would not (LeastNatural).                                   *)
(***************************************************************************)
EXTENDS WatchdogIndex, FiniteSetTheorems, FunctionTheorems,
        SequenceTheorems, WellFoundedInduction, TLAPS

-----------------------------------------------------------------------------
(* The tree of directories. *)

\* A set of natural numbers has a least one.
LEMMA LeastNatural ==
    ASSUME NEW T \in SUBSET Nat, T # {}
    PROVE  \E m \in T : \A k \in T : m <= k
<1> DEFINE R == OpToRel(<, Nat)
<1>1. IsWellFoundedOn(R, Nat)
  BY NatLessThanWellFounded
<1>2. \A k, m \in Nat : k < m => <<k, m>> \in R
  BY DEF OpToRel
<1> HIDE DEF R
<1>3. PICK m \in T : \A k \in T : ~ (<<k, m>> \in R)
  BY <1>1, WFMin
<1>4. \A k \in T : ~ (k < m)
  BY <1>2, <1>3
<1>5. \A k \in T : k \in Nat /\ m \in Nat
  OBVIOUS
<1> QED
  BY <1>4, <1>5

\* The list of directories that Ancestors makes of the list of the parent's.
Above(p, f) == IF Parent[p] = Root THEN <<>> ELSE <<Parent[p]>> \o f[Parent[p]]

\* There are such lists for paths less than n deep.
LEMMA ListsAbove ==
    ASSUME NEW depth \in [Paths -> Nat],
           \A p \in Paths : Parent[p] # Root => depth[Parent[p]] < depth[p],
           NEW n \in Nat
    PROVE  \E f \in [{p \in Paths : depth[p] < n} -> Seq(Directories)] :
              \A p \in Paths : depth[p] < n => f[p] = Above(p, f)
<1> DEFINE Level(m) == {p \in Paths : depth[p] < m}
           Good(m) == \E f \in [Level(m) -> Seq(Directories)] :
                         \A p \in Level(m) : f[p] = Above(p, f)
           Bad == {m \in Nat : ~ Good(m)}
<1>1. SUFFICES Bad = {}
  OBVIOUS
<1>2. SUFFICES ASSUME NEW m \in Bad, \A k \in Bad : m <= k
               PROVE  FALSE
  <2> HIDE DEF Bad
  <2>1. Bad \in SUBSET Nat
    BY DEF Bad
  <2> QED
    BY <2>1, LeastNatural
<1>3. m # 0
  <2> SUFFICES Good(0)
    OBVIOUS
  <2>1. Level(0) = {}
    OBVIOUS
  <2>2. [p \in {} |-> <<>>] \in [{} -> Seq(Directories)]
    OBVIOUS
  <2> QED
    BY <2>1, <2>2
<1>4. m - 1 \in Nat /\ Good(m - 1)
  <2> HIDE DEF Good
  <2>1. m \in Nat /\ m - 1 \in Nat /\ ~ (m <= m - 1)
    BY <1>3
  <2>2. m - 1 \notin Bad
    BY <1>2, <2>1
  <2> QED
    BY <2>1, <2>2
<1>5. PICK f \in [Level(m - 1) -> Seq(Directories)] :
         \A p \in Level(m - 1) : f[p] = Above(p, f)
  BY <1>4
<1> DEFINE g == [p \in Level(m) |-> IF p \in Level(m - 1) THEN f[p] ELSE Above(p, f)]
<1>6. /\ Level(m - 1) \subseteq Level(m)
      /\ \A p \in Level(m) : Parent[p] # Root => Parent[p] \in Level(m - 1)
  BY <1>4, WatchdogAssumption
<1>7. \A p \in Level(m) : g[p] = Above(p, g)
  BY <1>5, <1>6 DEF Above
<1>8. \A p \in Level(m) : Above(p, f) \in Seq(Directories)
  <2> SUFFICES ASSUME NEW p \in Level(m) PROVE Above(p, f) \in Seq(Directories)
    OBVIOUS
  <2>1. CASE Parent[p] = Root
    BY <2>1 DEF Above
  <2>2. CASE Parent[p] # Root
    <3>1. Parent[p] \in Directories /\ f[Parent[p]] \in Seq(Directories)
      BY <1>5, <1>6, <2>2, WatchdogAssumption
    <3>2. <<Parent[p]>> \in Seq(Directories)
      BY <3>1
    <3> QED
      BY <2>2, <3>1, <3>2, ConcatProperties DEF Above
  <2> QED
    BY <2>1, <2>2
<1>9. g \in [Level(m) -> Seq(Directories)]
  BY <1>5, <1>8
<1>10. Good(m)
  BY <1>7, <1>9
<1> QED
  BY <1>10

\* What is above a path is the list of its directories, from the parent up.
LEMMA AncestorsAreDirectories ==
    /\ Ancestors \in [Paths -> Seq(Directories)]
    /\ \A p \in Paths : Ancestors[p] = Above(p, Ancestors)
<1>1. PICK depth \in [Paths -> 0 .. Cardinality(Paths)] :
         \A p \in Paths : Parent[p] # Root => depth[Parent[p]] < depth[p]
  BY WatchdogAssumption
<1>2. Cardinality(Paths) \in Nat
  BY WatchdogAssumption, FS_CardinalityType
<1>3. /\ depth \in [Paths -> Nat]
      /\ \A p \in Paths : depth[p] < Cardinality(Paths) + 1
  BY <1>1, <1>2
<1>4. PICK n \in Nat : \A p \in Paths : depth[p] < n
  BY <1>2, <1>3
<1>5. PICK f \in [Paths -> Seq(Directories)] : \A p \in Paths : f[p] = Above(p, f)
  <2>1. PICK f \in [{p \in Paths : depth[p] < n} -> Seq(Directories)] :
           \A p \in Paths : depth[p] < n => f[p] = Above(p, f)
    BY <1>1, <1>3, ListsAbove
  <2>2. {p \in Paths : depth[p] < n} = Paths
    BY <1>4
  <2> QED
    BY <1>4, <2>1, <2>2
<1>6. f = [p \in Paths |-> Above(p, f)]
  BY <1>5
<1>7. Ancestors = [p \in Paths |-> Above(p, Ancestors)]
  BY <1>6 DEF Ancestors, Above
<1>8. \A p \in Paths : Ancestors[p] \in Seq(Directories)
  <2> DEFINE Bad == {k \in Nat : \E p \in Paths : depth[p] = k /\ Ancestors[p] \notin Seq(Directories)}
  <2> SUFFICES Bad = {}
    BY <1>3
  <2> SUFFICES ASSUME NEW l \in Bad, \A k \in Bad : l <= k PROVE FALSE
    <3>1. Bad \in SUBSET Nat
      OBVIOUS
    <3> HIDE DEF Bad
    <3> QED
      BY <3>1, LeastNatural
  <2>1. PICK p \in Paths : depth[p] = l /\ Ancestors[p] \notin Seq(Directories)
    OBVIOUS
  <2>2. Ancestors[p] = Above(p, Ancestors)
    BY <1>7
  <2>3. CASE Parent[p] = Root
    BY <2>1, <2>2, <2>3 DEF Above
  <2>4. CASE Parent[p] # Root
    <3>1. Parent[p] \in Paths /\ Parent[p] \in Directories /\ depth[Parent[p]] < l
      BY <1>1, <2>1, <2>4, WatchdogAssumption
    <3>2. Ancestors[Parent[p]] \in Seq(Directories)
      BY <1>3, <3>1
    <3>3. <<Parent[p]>> \in Seq(Directories)
      BY <3>1
    <3> QED
      BY <2>1, <2>2, <2>4, <3>2, <3>3, ConcatProperties DEF Above
  <2> QED
    BY <2>3, <2>4
<1> QED
  BY <1>7, <1>8

-----------------------------------------------------------------------------
(* Sequences. *)

\* Removing one element of a sequence moves those behind it one place forward.
LEMMA RemoveAtIndex ==
    ASSUME NEW S, NEW s \in Seq(S), NEW i \in DOMAIN s
    PROVE  /\ RemoveAt(s, i) \in Seq(S)
           /\ Len(RemoveAt(s, i)) = Len(s) - 1
           /\ DOMAIN RemoveAt(s, i) = 1 .. Len(s) - 1
           /\ \A k \in 1 .. Len(s) - 1 :
                 RemoveAt(s, i)[k] = s[IF k < i THEN k ELSE k + 1]
<1> DEFINE p == SubSeq(s, 1, i - 1)
           q == SubSeq(s, i + 1, Len(s))
<1>0. /\ Len(s) \in Nat /\ DOMAIN s = 1 .. Len(s)
      /\ i \in 1 .. Len(s)
  OBVIOUS
<1>1. /\ p \in Seq(S) /\ Len(p) = i - 1
      /\ \A k \in 1 .. i - 1 : p[k] = s[k]
  OBVIOUS
<1>2. /\ q \in Seq(S) /\ Len(q) = Len(s) - i
      /\ \A k \in 1 .. Len(s) - i : q[k] = s[i + k]
  OBVIOUS
<1>3. RemoveAt(s, i) = p \o q
  BY DEF RemoveAt
<1> HIDE DEF p, q
<1>4. /\ p \o q \in Seq(S) /\ Len(p \o q) = Len(s) - 1
      /\ \A k \in 1 .. Len(s) - 1 :
            (p \o q)[k] = IF k <= i - 1 THEN p[k] ELSE q[k - (i - 1)]
  <2>1. /\ p \o q \in Seq(S) /\ Len(p \o q) = Len(p) + Len(q)
        /\ \A k \in 1 .. Len(p) + Len(q) :
              (p \o q)[k] = IF k <= Len(p) THEN p[k] ELSE q[k - Len(p)]
    BY <1>1, <1>2, ConcatProperties
  <2>2. Len(p) = i - 1 /\ Len(p) + Len(q) = Len(s) - 1
    BY <1>0, <1>1, <1>2
  <2>3. p \o q \in Seq(S) /\ Len(p \o q) = Len(s) - 1
    BY <2>1, <2>2
  <2>4. ASSUME NEW k \in 1 .. Len(s) - 1
        PROVE  (p \o q)[k] = IF k <= i - 1 THEN p[k] ELSE q[k - (i - 1)]
    <3>1. k \in 1 .. Len(p) + Len(q)
      BY <2>2
    <3> QED
      BY <2>1, <2>2, <3>1
  <2> QED
    BY <2>3, <2>4
<1>5. ASSUME NEW k \in 1 .. Len(s) - 1
      PROVE  (p \o q)[k] = s[IF k < i THEN k ELSE k + 1]
  <2>1. CASE k < i
    <3>1. (p \o q)[k] = p[k] /\ p[k] = s[k]
      BY <1>0, <1>1, <1>4, <2>1
    <3> QED
      BY <2>1, <3>1
  <2>2. CASE ~(k < i)
    <3>0. /\ ~(k <= i - 1)
          /\ k - (i - 1) \in 1 .. Len(s) - i /\ i + (k - (i - 1)) = k + 1
      BY <1>0, <2>2
    <3>1. (p \o q)[k] = q[k - (i - 1)]
      BY <1>4, <3>0
    <3>2. q[k - (i - 1)] = s[k + 1]
      BY <1>2, <3>0
    <3> QED
      BY <2>2, <3>1, <3>2
  <2> QED
    BY <2>1, <2>2
<1>6. DOMAIN (p \o q) = 1 .. Len(s) - 1
  BY <1>4
<1> QED
  BY <1>3, <1>4, <1>5, <1>6

LEMMA RemoveTheHead ==
    ASSUME NEW S, NEW s \in Seq(S), 1 \in DOMAIN s
    PROVE  /\ RemoveAt(s, 1) \in Seq(S)
           /\ Len(RemoveAt(s, 1)) = Len(s) - 1
           /\ DOMAIN RemoveAt(s, 1) = 1 .. Len(s) - 1
           /\ \A k \in 1 .. Len(s) - 1 : k + 1 \in DOMAIN s /\ RemoveAt(s, 1)[k] = s[k + 1]
<1>1. DOMAIN s = 1 .. Len(s) /\ Len(s) \in Nat /\ 1 \in 1 .. Len(s)
  OBVIOUS
<1> DEFINE rest == RemoveAt(s, 1)
<1>2. /\ rest \in Seq(S) /\ Len(rest) = Len(s) - 1
      /\ DOMAIN rest = 1 .. Len(s) - 1
      /\ \A k \in 1 .. Len(s) - 1 : rest[k] = s[IF k < 1 THEN k ELSE k + 1]
  BY RemoveAtIndex
<1> HIDE DEF rest
<1>3. \A k \in 1 .. Len(s) - 1 : ~(k < 1) /\ k + 1 \in DOMAIN s
  BY <1>1
<1> QED
  BY <1>2, <1>3 DEF rest

\* When removing another element gives what removing the first one gives, it is
\* the same element.
LEMMA RemoveSame ==
    ASSUME NEW S, NEW s \in Seq(S), NEW i \in DOMAIN s, RemoveAt(s, i) = RemoveAt(s, 1)
    PROVE  s[i] = s[1]
<1>1. DOMAIN s = 1 .. Len(s) /\ Len(s) \in Nat /\ i \in 1 .. Len(s) /\ 1 \in DOMAIN s
  OBVIOUS
<1>2. ASSUME NEW k \in 1 .. i - 1 PROVE s[k] = s[k + 1]
  <2>1. k \in 1 .. Len(s) - 1 /\ k < i
    BY <1>1
  <2>2. RemoveAt(s, i)[k] = s[k]
    BY <2>1, RemoveAtIndex
  <2>3. RemoveAt(s, 1)[k] = s[k + 1]
    BY <1>1, <2>1, RemoveTheHead
  <2> QED
    BY <2>2, <2>3
<1> DEFINE Bad == {k \in Nat : k \in 1 .. i /\ s[k] # s[1]}
<1> SUFFICES Bad = {}
  BY <1>1
<1> SUFFICES ASSUME NEW m \in Bad, \A k \in Bad : m <= k PROVE FALSE
  <2>1. Bad \in SUBSET Nat
    OBVIOUS
  <2> HIDE DEF Bad
  <2> QED
    BY <2>1, LeastNatural
<1>3. m \in 1 .. i /\ m # 1 /\ s[m] # s[1]
  OBVIOUS
<1>4. m - 1 \in 1 .. i - 1 /\ m - 1 \in Nat /\ (m - 1) + 1 = m /\ ~(m <= m - 1)
  BY <1>1, <1>3
<1>5. s[m - 1] = s[m]
  BY <1>2, <1>4
<1>6. m - 1 \in Bad
  BY <1>3, <1>4, <1>5
<1> QED
  BY <1>4, <1>6

-----------------------------------------------------------------------------
(* The inductive invariant. *)

\* What a scan has seen so far.
Seen == UNION {[S -> Nat] : S \in SUBSET Paths}

Operations ==
    [kind : {"sync", "refresh"}, full : SUBSET Paths, meta : SUBSET Paths,
     report : Report \cup {NoReport}, step : {"queued", "scanning", "indexed"},
     marked : SUBSET Paths, seen : Seen]

\* An entry that path p has or had.
Held(p, e) == e = None \/ (e \in 1 .. disk[p] /\ e % 2 = 1)

TypeInv ==
    /\ disk \in [Paths -> Nat]
    /\ index \in [Paths -> Nat]
    /\ committed \in [Paths -> Nat]
    /\ notices \in SUBSET Paths
    /\ pending \in SUBSET Paths
    /\ refreshTimer \in BOOLEAN /\ reconcileTimer \in BOOLEAN /\ started \in BOOLEAN
    /\ queue \in Seq(Operations)
    /\ writes \in 0 .. MaxWrites /\ reports \in 0 .. MaxReports /\ faults \in 0 .. MaxFaults
    /\ \A p \in Paths : Held(p, index[p]) /\ Held(p, committed[p])

\* What is there is in a directory that is there.
TreeInv == \A p \in Paths : OnDisk(p) => OnDisk(Parent[p])

\* Path p had entry e at some time since the state of it that is committed.
Reached(p, e) == \E n \in committed[p] .. disk[p] : Entry(n) = e

\* The paths that the end of an operation commits.
Targets(op) == IF op.kind = "sync" THEN op.marked ELSE Paths

\* A scan took path p, and what is below p, to be gone when it found no
\* directory: then all of it was gone at that time.
Gone(S) ==
    /\ \A p \in S : Reached(p, None)
    /\ \A p \in Paths : Parent[p] \in S => p \in S

SoundScan(op) ==
    /\ \A p \in DOMAIN op.seen : Reached(p, op.seen[p])
    /\ \E S \in SUBSET Paths :
          /\ Gone(S)
          /\ \A p \in Paths :
                Parent[p] \in DOMAIN op.seen /\ op.seen[Parent[p]] = None => p \in S

SoundReport(op) ==
    op.report # NoReport =>
        /\ op.kind = "sync"
        /\ op.report.path \in op.full
        /\ op.report.asked <= disk[op.report.path]
        /\ op.step = "indexed" =>
              \E n \in op.report.asked .. disk[op.report.path] : Entry(n) = index[op.report.path]

SoundOperation(op) ==
    /\ op.step = "scanning" => op.kind = "refresh"
    /\ op.step # "scanning" => DOMAIN op.seen = {}
    /\ op.step = "indexed" => \A p \in Targets(op) : Reached(p, index[p])
    /\ SoundScan(op)
    /\ SoundReport(op)

\* Only the first operation has begun.
QueueInv ==
    \A i \in DOMAIN queue :
        /\ SoundOperation(queue[i])
        /\ i # 1 => queue[i].step = "queued"

IInv == TypeInv /\ TreeInv /\ QueueInv /\ IndexIsCommitted

-----------------------------------------------------------------------------
(* Entries. *)

\* A path is there when it has changed an odd number of times.
LEMMA Parity ==
    \A n \in Nat :
        /\ n % 2 \in {0, 1}
        /\ (n + 1) % 2 = 1 - (n % 2)
        /\ (n + 2) % 2 = n % 2
        /\ Entry(n) \in {None, n}
        /\ Entry(n) # None <=> n % 2 = 1
BY DEF Entry, None

LEMMA OnDiskOdd ==
    ASSUME TypeInv, NEW p \in Paths
    PROVE  OnDisk(p) <=> disk[p] % 2 = 1
BY Parity, WatchdogAssumption DEF OnDisk, TypeInv

\* What was reached is an entry that the path has or had, and stays so.
LEMMA ReachedHeld ==
    ASSUME TypeInv, NEW p \in Paths, NEW e, Reached(p, e)
    PROVE  e \in Nat /\ Held(p, e)
<1>1. PICK n \in committed[p] .. disk[p] : Entry(n) = e
  BY DEF Reached
<1>2. committed[p] \in Nat /\ disk[p] \in Nat /\ n \in Nat /\ n <= disk[p]
  BY DEF TypeInv
<1>3. CASE n % 2 = 1
  <2>1. e = n /\ n # 0
    BY <1>1, <1>3 DEF Entry
  <2> QED
    BY <1>2, <1>3, <2>1 DEF Held
<1>4. CASE n % 2 # 1
  BY <1>1, <1>4 DEF Entry, Held, None
<1> QED
  BY <1>3, <1>4

\* The file system only goes on.
Grows == disk' \in [Paths -> Nat] /\ \A p \in Paths : disk[p] <= disk'[p]

LEMMA ReachedStays ==
    ASSUME TypeInv, Grows, committed' = committed, NEW p \in Paths, NEW e, Reached(p, e)
    PROVE  Reached(p, e)'
<1>1. PICK n \in committed[p] .. disk[p] : Entry(n) = e
  BY DEF Reached
<1>2. n \in committed'[p] .. disk'[p]
  BY <1>1 DEF TypeInv, Grows
<1> QED
  BY <1>1, <1>2 DEF Reached

LEMMA HeldStays ==
    ASSUME TypeInv, Grows, NEW p \in Paths, NEW e, Held(p, e)
    PROVE  Held(p, e)'
<1>1. disk[p] \in Nat /\ disk'[p] \in Nat /\ disk[p] <= disk'[p]
  BY DEF TypeInv, Grows
<1> QED
  BY <1>1 DEF Held

\* What the disk holds now has been reached.
LEMMA EntryReached ==
    ASSUME TypeInv, NEW p \in Paths
    PROVE  Reached(p, Entry(disk[p])) /\ Entry(disk[p]) \in Nat /\ Held(p, Entry(disk[p]))
<1>1. committed[p] \in Nat /\ disk[p] \in Nat /\ Held(p, committed[p])
  BY DEF TypeInv
<1>2. committed[p] <= disk[p]
  BY <1>1 DEF Held, None
<1>3. disk[p] \in committed[p] .. disk[p]
  BY <1>1, <1>2
<1>4. Reached(p, Entry(disk[p]))
  BY <1>3 DEF Reached
<1> QED
  BY <1>4, ReachedHeld

-----------------------------------------------------------------------------
(* The file system. *)

LEMMA BelowType ==
    \A S \in SUBSET Paths : Below(S) \in SUBSET Paths /\ S \subseteq Below(S)
BY DEF Below, Subtree

\* The subtree of a path has what is in its directories.
LEMMA SubtreeClosed ==
    ASSUME NEW p \in Paths, NEW q \in Paths, Parent[q] \in Subtree(p)
    PROVE  q \in Subtree(p)
<1>1. Parent[q] \in Paths /\ Parent[q] # Root /\ Parent[q] \in Directories
  BY WatchdogAssumption DEF Subtree
<1>2. /\ Ancestors[q] = <<Parent[q]>> \o Ancestors[Parent[q]]
      /\ Ancestors[Parent[q]] \in Seq(Directories) /\ <<Parent[q]>> \in Seq(Directories)
  <2>1. <<Parent[q]>> \in Seq(Directories)
    BY <1>1
  <2>2. Ancestors[Parent[q]] \in Seq(Directories)
    BY <1>1, AncestorsAreDirectories
  <2>3. Ancestors[q] = <<Parent[q]>> \o Ancestors[Parent[q]]
    BY <1>1, AncestorsAreDirectories DEF Above
  <2> QED
    BY <2>1, <2>2, <2>3
<1> DEFINE s == Ancestors[Parent[q]]
           one == <<Parent[q]>>
<1>3. Len(one) = 1 /\ one[1] = Parent[q]
  OBVIOUS
<1> HIDE DEF s, one
<1>4. /\ one \o s \in Seq(Directories) /\ Len(one \o s) = 1 + Len(s) /\ Len(s) \in Nat
      /\ (one \o s)[1] = one[1]
      /\ \A i \in 1 .. Len(s) : (one \o s)[1 + i] = s[i]
  BY <1>2, <1>3, ConcatProperties DEF s, one
<1>5. /\ DOMAIN (one \o s) = 1 .. 1 + Len(s)
      /\ DOMAIN s = 1 .. Len(s)
  BY <1>2, <1>4 DEF s
<1>6. Parent[q] \in ToSet(Ancestors[q])
  <2>1. 1 \in DOMAIN (one \o s)
    BY <1>4, <1>5
  <2> QED
    BY <1>2, <1>3, <1>4, <2>1 DEF ToSet, s, one
<1>7. ASSUME p \in ToSet(Ancestors[Parent[q]]) PROVE p \in ToSet(Ancestors[q])
  <2>1. PICK i \in DOMAIN s : s[i] = p
    BY <1>7 DEF ToSet, s
  <2>2. 1 + i \in DOMAIN (one \o s) /\ (one \o s)[1 + i] = p
    BY <1>4, <1>5, <2>1
  <2> QED
    BY <1>2, <2>2 DEF ToSet, s, one
<1> QED
  BY <1>6, <1>7 DEF Subtree

\* Files and directories come and go with what is in them.
LEMMA FilesChange ==
    ASSUME TypeInv, TreeInv, NEW p \in Paths, Put(p) \/ Delete(p)
    PROVE  /\ Grows /\ TreeInv'
           /\ writes' \in 0 .. MaxWrites /\ notices' \in SUBSET Paths
           /\ UNCHANGED <<index, committed, timerVars, queue, started, reports, faults>>
<1>1. /\ disk \in [Paths -> Nat] /\ writes \in 0 .. MaxWrites
      /\ MaxWrites \in Nat /\ notices \in SUBSET Paths
      /\ Parent \in [Paths -> Paths \cup {Root}]
  BY WatchdogAssumption DEF TypeInv
<1>2. ASSUME NEW after \in [Paths -> Nat], Change(p, after),
             \A q \in Paths : disk[q] <= after[q],
             \A q \in Paths : after[q] % 2 = 1 /\ Parent[q] \in Paths => after[Parent[q]] % 2 = 1
      PROVE  /\ Grows /\ TreeInv'
             /\ writes' \in 0 .. MaxWrites /\ notices' \in SUBSET Paths
             /\ UNCHANGED <<index, committed, timerVars, queue, started, reports, faults>>
  <2>1. PICK b \in BOOLEAN :
           disk' = [q \in Paths |-> IF q = Parent[p] /\ b THEN after[q] + 2 ELSE after[q]]
    BY <1>2 DEF Change
  <2>2. Grows /\ \A q \in Paths : disk'[q] % 2 = after[q] % 2
    BY <1>1, <1>2, <2>1, Parity DEF Grows
  <2>3. \A q \in Paths : OnDisk(q)' <=> after[q] % 2 = 1
    BY <2>2, Parity, WatchdogAssumption DEF OnDisk, Grows
  <2>4. TreeInv'
    <3> SUFFICES ASSUME NEW q \in Paths, OnDisk(q)' PROVE OnDisk(Parent[q])'
      BY DEF TreeInv
    <3>1. CASE Parent[q] = Root
      BY <3>1 DEF OnDisk
    <3>2. CASE Parent[q] \in Paths
      BY <1>2, <2>3, <3>2
    <3> QED
      BY <1>1, <3>1, <3>2
  <2>5. writes' \in 0 .. MaxWrites /\ notices' \in SUBSET Paths
    BY <1>1, <1>2 DEF Change
  <2> QED
    BY <1>2, <2>2, <2>4, <2>5 DEF Change
<1>3. \A q \in Paths : OnDisk(q) <=> disk[q] % 2 = 1
  BY OnDiskOdd
<1>4. \A q \in Paths : disk[q] % 2 = 1 /\ Parent[q] \in Paths => disk[Parent[q]] % 2 = 1
  BY <1>3 DEF TreeInv
<1>5. CASE Put(p)
  <2> DEFINE after == [disk EXCEPT ![p] = IF OnDisk(p) THEN @ + 2 ELSE @ + 1]
  <2>1. Change(p, after) /\ OnDisk(Parent[p])
    BY <1>5 DEF Put, Change
  <2>2. /\ after \in [Paths -> Nat]
        /\ \A q \in Paths : disk[q] <= after[q] /\ (q # p => after[q] = disk[q])
    BY <1>1
  <2>3. after[p] % 2 = 1
    <3>1. disk[p] \in Nat
      BY <1>1
    <3>2. after[p] = IF OnDisk(p) THEN disk[p] + 2 ELSE disk[p] + 1
      BY <1>1
    <3> QED
      BY <1>3, <3>1, <3>2, Parity
  <2>4. ASSUME NEW q \in Paths, after[q] % 2 = 1, Parent[q] \in Paths
        PROVE  after[Parent[q]] % 2 = 1
    <3>1. disk[Parent[q]] % 2 = 1
      BY <1>3, <1>4, <2>1, <2>2, <2>4
    <3> QED
      BY <2>2, <2>3, <2>4, <3>1
  <2> HIDE DEF after
  <2> QED
    BY <1>2, <2>1, <2>2, <2>4
<1>6. CASE Delete(p)
  <2> DEFINE after == [q \in Paths |-> IF q \in Subtree(p) /\ OnDisk(q) THEN disk[q] + 1 ELSE disk[q]]
  <2>1. Change(p, after)
    BY <1>6 DEF Delete
  <2>2. /\ after \in [Paths -> Nat]
        /\ \A q \in Paths : disk[q] <= after[q]
    BY <1>1
  <2>3. \A q \in Paths : after[q] % 2 = 1 <=> disk[q] % 2 = 1 /\ q \notin Subtree(p)
    <3> SUFFICES ASSUME NEW q \in Paths
                 PROVE  after[q] % 2 = 1 <=> disk[q] % 2 = 1 /\ q \notin Subtree(p)
      OBVIOUS
    <3>1. disk[q] \in Nat
      BY <1>1
    <3>2. after[q] = IF q \in Subtree(p) /\ OnDisk(q) THEN disk[q] + 1 ELSE disk[q]
      OBVIOUS
    <3> HIDE DEF after
    <3> QED
      BY <1>3, <3>1, <3>2, Parity
  <2>4. ASSUME NEW q \in Paths, after[q] % 2 = 1, Parent[q] \in Paths
        PROVE  after[Parent[q]] % 2 = 1
    BY <1>4, <2>3, <2>4, SubtreeClosed
  <2> HIDE DEF after
  <2> QED
    BY <1>2, <2>1, <2>2, <2>4
<1> QED
  BY <1>5, <1>6

-----------------------------------------------------------------------------
(* Operations and the queue. *)

LEMMA EmptySeen == <<>> \in Seen /\ DOMAIN <<>> = {}
<1>1. PICK e \in Seq(Nat) : e = <<>> /\ Len(e) = 0
  BY EmptySeq
<1>2. Len(e) = 0 /\ DOMAIN e = 1 .. Len(e) /\ e \in [1 .. Len(e) -> Nat]
  BY <1>1
<1>3. 1 .. 0 = {}
  OBVIOUS
<1>4. DOMAIN e = {} /\ e \in [{} -> Nat]
  BY <1>2, <1>3
<1> QED
  BY <1>1, <1>4 DEF Seen

\* An operation that is put into the queue.
LEMMA OperationType ==
    ASSUME NEW kind \in {"sync", "refresh"}, NEW full \in SUBSET Paths, NEW meta \in SUBSET Paths,
           NEW report \in Report \cup {NoReport}
    PROVE  /\ Operation(kind, full, meta, report) \in Operations
           /\ Operation(kind, full, meta, report).step = "queued"
           /\ DOMAIN Operation(kind, full, meta, report).seen = {}
           /\ Operation(kind, full, meta, report).kind = kind
           /\ Operation(kind, full, meta, report).full = full
           /\ Operation(kind, full, meta, report).report = report
<1>1. PICK e \in Seen : e = <<>> /\ DOMAIN e = {}
  BY EmptySeen
<1>2. Operation(kind, full, meta, report) =
         [kind |-> kind, full |-> full, meta |-> meta, report |-> report,
          step |-> "queued", marked |-> {}, seen |-> e]
  BY <1>1 DEF Operation
<1> QED
  BY <1>1, <1>2 DEF Operations

LEMMA QueuedIsSound ==
    ASSUME NEW op \in Operations, op.step = "queued", DOMAIN op.seen = {}, SoundReport(op)
    PROVE  SoundOperation(op)
<1>1. Gone({})
  BY WatchdogAssumption DEF Gone
<1> QED
  BY <1>1 DEF SoundOperation, SoundScan

\* A queued operation looks at nothing but the disk.
LEMMA QueuedStaysSound ==
    ASSUME TypeInv, Grows, NEW op \in Operations, op.step = "queued", SoundOperation(op)
    PROVE  SoundOperation(op)'
<1>1. op.report # NoReport => op.report.path \in Paths /\ op.report.asked \in Nat
  BY DEF Operations, Report
<1>2. SoundReport(op)'
  BY <1>1 DEF SoundOperation, SoundReport, Grows, TypeInv
<1>3. Gone({})'
  BY WatchdogAssumption DEF Gone
<1>4. DOMAIN op.seen = {}
  BY DEF SoundOperation
<1> QED
  BY <1>2, <1>3, <1>4 DEF SoundOperation, SoundScan

\* The file system can do nothing to an operation under way.
LEMMA StaysSound ==
    ASSUME TypeInv, Grows, UNCHANGED <<index, committed>>, NEW op \in Operations, SoundOperation(op)
    PROVE  SoundOperation(op)'
<1>1. SoundReport(op)'
  <2>1. op.report # NoReport => op.report.path \in Paths /\ op.report.asked \in Nat
    BY DEF Operations, Report
  <2> SUFFICES ASSUME op.report # NoReport
               PROVE  /\ op.kind = "sync"
                      /\ op.report.path \in op.full
                      /\ op.report.asked <= disk'[op.report.path]
                      /\ op.step = "indexed" =>
                            \E n \in op.report.asked .. disk'[op.report.path] :
                                Entry(n) = index[op.report.path]
    BY DEF SoundReport
  <2>2. op.report.asked .. disk[op.report.path] \subseteq op.report.asked .. disk'[op.report.path]
    BY <2>1 DEF Grows, TypeInv
  <2>3. op.report.asked <= disk'[op.report.path]
    BY <2>1 DEF SoundOperation, SoundReport, Grows, TypeInv
  <2> QED
    BY <2>2, <2>3 DEF SoundOperation, SoundReport
<1>2. \A p \in DOMAIN op.seen : p \in Paths
  BY DEF Operations, Seen
<1>3. SoundScan(op)'
  <2>1. PICK S \in SUBSET Paths :
           /\ Gone(S)
           /\ \A p \in Paths :
                 Parent[p] \in DOMAIN op.seen /\ op.seen[Parent[p]] = None => p \in S
    BY DEF SoundOperation, SoundScan
  <2>2. Gone(S)'
    BY <2>1, ReachedStays DEF Gone
  <2>3. \A p \in DOMAIN op.seen : Reached(p, op.seen[p])'
    BY <1>2, ReachedStays DEF SoundOperation, SoundScan
  <2> QED
    BY <2>1, <2>2, <2>3 DEF SoundScan
<1>4. ASSUME op.step = "indexed", NEW p \in Targets(op) PROVE Reached(p, index[p])'
  <2>1. p \in Paths
    BY <1>4 DEF Targets, Operations
  <2>2. Reached(p, index[p])
    BY <1>4 DEF SoundOperation
  <2>3. PICK e : e = index[p] /\ e = index'[p]
    OBVIOUS
  <2> QED
    BY <2>1, <2>2, <2>3, ReachedStays DEF Reached
<1> QED
  BY <1>1, <1>3, <1>4 DEF SoundOperation, Targets

\* Files change and operations come: the operations in the queue stay as they are.
LEMMA QueueGrows ==
    ASSUME IInv, Grows, UNCHANGED <<index, committed, faults>>,
           \/ queue' = queue
           \/ \E op \in Operations :
                 /\ queue' = Append(queue, op)
                 /\ op.step = "queued" /\ DOMAIN op.seen = {} /\ SoundReport(op)'
    PROVE  queue' \in Seq(Operations) /\ QueueInv' /\ IndexIsCommitted'
<1>1. queue \in Seq(Operations) /\ TypeInv
  BY DEF IInv, TypeInv
<1>2. \A i \in DOMAIN queue : queue[i] \in Operations
  BY <1>1
<1>3. \A i \in DOMAIN queue : /\ SoundOperation(queue[i])
                              /\ i # 1 => queue[i].step = "queued"
  BY DEF IInv, QueueInv
<1>4. ASSUME NEW i \in DOMAIN queue, queue'[i] = queue[i] PROVE SoundOperation(queue[i])'
  <2>1. PICK op \in Operations : op = queue[i] /\ op = queue'[i]
    BY <1>2, <1>4
  <2>2. SoundOperation(op)
    BY <1>3, <2>1
  <2>3. SoundOperation(op)'
    BY <1>1, <2>2, StaysSound
  <2> QED
    BY <2>1, <2>3 DEF SoundOperation, SoundScan, SoundReport, Targets
<1>5. CASE queue' = queue
  <2>1. QueueInv'
    BY <1>3, <1>4, <1>5 DEF QueueInv
  <2> QED
    BY <1>1, <1>5, <2>1 DEF IInv, IndexIsCommitted
<1>6. ASSUME NEW op \in Operations,
             queue' = Append(queue, op), op.step = "queued", DOMAIN op.seen = {}, SoundReport(op)'
      PROVE  queue' \in Seq(Operations) /\ QueueInv' /\ IndexIsCommitted'
  <2>1. /\ queue' \in Seq(Operations) /\ Len(queue) \in Nat
        /\ DOMAIN queue = 1 .. Len(queue)
        /\ DOMAIN queue' = 1 .. Len(queue) + 1
        /\ \A i \in 1 .. Len(queue) : queue'[i] = queue[i]
        /\ queue'[Len(queue) + 1] = op
    BY <1>1, <1>6
  <2>2. SoundOperation(op)'
    <3>1. Gone({})'
      BY WatchdogAssumption DEF Gone
    <3> QED
      BY <1>6, <3>1 DEF SoundOperation, SoundScan
  <2>3. ASSUME NEW i \in DOMAIN queue'
        PROVE  SoundOperation(queue[i])' /\ (i # 1 => queue'[i].step = "queued")
    <3>1. CASE i \in DOMAIN queue
      BY <1>3, <1>4, <2>1, <3>1
    <3>2. CASE i = Len(queue) + 1
      BY <1>6, <2>1, <2>2, <3>2 DEF SoundOperation, SoundScan, SoundReport, Targets
    <3> QED
      BY <2>1, <2>3, <3>1, <3>2
  <2>4. IndexIsCommitted'
    BY <2>1 DEF IInv, IndexIsCommitted
  <2> QED
    BY <2>1, <2>3, <2>4 DEF QueueInv
<1> QED
  BY <1>5, <1>6

\* The first operation is over: none is under way, and what it leaves is committed.
LEMMA HeadLeaves ==
    ASSUME IInv, Grows, 1 \in DOMAIN queue, queue' = RemoveAt(queue, 1),
           faults' = 0 => \A p \in Paths : index'[p] = committed'[p]
    PROVE  queue' \in Seq(Operations) /\ QueueInv' /\ IndexIsCommitted'
<1>1. queue \in Seq(Operations) /\ TypeInv
  BY DEF IInv, TypeInv
<1>2. /\ queue' \in Seq(Operations) /\ DOMAIN queue' = 1 .. Len(queue) - 1
      /\ \A k \in 1 .. Len(queue) - 1 : k + 1 \in DOMAIN queue /\ queue'[k] = queue[k + 1]
  BY <1>1, RemoveTheHead
<1>3. ASSUME NEW k \in DOMAIN queue'
      PROVE  SoundOperation(queue[k])' /\ queue'[k].step = "queued"
  <2>1. PICK op \in Operations : op = queue[k + 1] /\ op = queue'[k]
    BY <1>1, <1>2
  <2>2. SoundOperation(op) /\ op.step = "queued"
    <3>1. k + 1 \in DOMAIN queue /\ k + 1 # 1
      BY <1>2
    <3> QED
      BY <2>1, <3>1 DEF IInv, QueueInv
  <2>3. SoundOperation(op)'
    BY <1>1, <2>2, QueuedStaysSound
  <2> QED
    BY <2>1, <2>2, <2>3 DEF SoundOperation, SoundScan, SoundReport, Targets
<1> QED
  BY <1>2, <1>3 DEF QueueInv, IndexIsCommitted

\* The first operation goes on.
LEMMA HeadGoesOn ==
    ASSUME IInv, Grows, 1 \in DOMAIN queue,
           NEW op \in Operations, queue' = [queue EXCEPT ![1] = op], SoundOperation(op)',
           faults' = 0 =>
               \A p \in Paths :
                   index'[p] # committed'[p] =>
                       op.step = "indexed" /\ (op.kind = "sync" => p \in op.marked)
    PROVE  queue' \in Seq(Operations) /\ QueueInv' /\ IndexIsCommitted'
<1>1. queue \in Seq(Operations) /\ TypeInv
  BY DEF IInv, TypeInv
<1>2. /\ queue' \in Seq(Operations) /\ DOMAIN queue' = DOMAIN queue /\ queue'[1] = op
      /\ \A k \in DOMAIN queue : k # 1 => queue'[k] = queue[k]
  BY <1>1
<1>3. ASSUME NEW k \in DOMAIN queue', k # 1
      PROVE  SoundOperation(queue[k])' /\ queue'[k].step = "queued"
  <2>1. PICK o \in Operations : o = queue[k] /\ o = queue'[k]
    BY <1>1, <1>2, <1>3
  <2>2. SoundOperation(o) /\ o.step = "queued"
    BY <1>2, <1>3, <2>1 DEF IInv, QueueInv
  <2>3. SoundOperation(o)'
    BY <1>1, <2>2, QueuedStaysSound
  <2> QED
    BY <2>1, <2>2, <2>3 DEF SoundOperation, SoundScan, SoundReport, Targets
<1>4. SoundOperation(queue[1])'
  BY <1>2 DEF SoundOperation, SoundScan, SoundReport, Targets
<1>5. QueueInv'
  BY <1>3, <1>4 DEF QueueInv
<1>6. IndexIsCommitted'
  BY <1>2 DEF IndexIsCommitted
<1> QED
  BY <1>2, <1>5, <1>6

-----------------------------------------------------------------------------
(* Files, events and timers. *)

LEMMA HeldKept ==
    ASSUME TypeInv, Grows, UNCHANGED <<index, committed>>
    PROVE  \A p \in Paths : Held(p, index[p])' /\ Held(p, committed[p])'
<1> SUFFICES ASSUME NEW p \in Paths PROVE Held(p, index[p])' /\ Held(p, committed[p])'
  OBVIOUS
<1>1. PICK e, c : e = index[p] /\ e = index'[p] /\ c = committed[p] /\ c = committed'[p]
  OBVIOUS
<1>2. Held(p, e) /\ Held(p, c)
  BY <1>1 DEF TypeInv
<1>3. Held(p, e)' /\ Held(p, c)'
  BY <1>2, HeldStays
<1> QED
  BY <1>1, <1>3 DEF Held

LEMMA AncestorTargetsType ==
    ASSUME NEW p \in Paths
    PROVE  AncestorTargets(p) \in SUBSET Paths
<1>1. Ancestors[p] \in Seq(Directories)
  BY AncestorsAreDirectories
<1>2. \A i \in DOMAIN Ancestors[p] : Ancestors[p][i] \in Directories
  BY <1>1
<1> QED
  BY <1>2, WatchdogAssumption DEF AncestorTargets

LEMMA FilesKeepIInv ==
    ASSUME IInv, NEW p \in Paths, Put(p) \/ Delete(p)
    PROVE  IInv'
<1>1. /\ Grows /\ TreeInv'
      /\ writes' \in 0 .. MaxWrites /\ notices' \in SUBSET Paths
      /\ UNCHANGED <<index, committed, timerVars, queue, started, reports, faults>>
  BY FilesChange DEF IInv
<1>2. queue' \in Seq(Operations) /\ QueueInv' /\ IndexIsCommitted'
  BY <1>1, QueueGrows
<1>3. TypeInv'
  BY <1>1, <1>2, HeldKept DEF IInv, TypeInv, Grows, timerVars
<1> QED
  BY <1>1, <1>2, <1>3 DEF IInv

\* A step that leaves files, index and replicated state alone and may queue an
\* operation.
LEMMA ComingKeepsIInv ==
    ASSUME IInv, UNCHANGED <<disk, writes, index, committed, started, faults>>,
           notices' \in SUBSET Paths, pending' \in SUBSET Paths,
           refreshTimer' \in BOOLEAN, reconcileTimer' \in BOOLEAN,
           reports' \in 0 .. MaxReports,
           \/ queue' = queue
           \/ \E op \in Operations :
                 /\ queue' = Append(queue, op)
                 /\ op.step = "queued" /\ DOMAIN op.seen = {} /\ SoundReport(op)'
    PROVE  IInv'
<1>1. Grows
  BY DEF IInv, TypeInv, Grows
<1>2. queue' \in Seq(Operations) /\ QueueInv' /\ IndexIsCommitted'
  BY <1>1, QueueGrows
<1>3. TreeInv'
  BY DEF IInv, TreeInv, OnDisk
<1>4. TypeInv'
  BY <1>1, <1>2, HeldKept DEF IInv, TypeInv
<1> QED
  BY <1>2, <1>3, <1>4 DEF IInv

LEMMA SyncType ==
    ASSUME NEW full \in SUBSET Paths, NEW meta \in SUBSET Paths, NEW report \in Report
    PROVE  \E op \in Operations :
              /\ op = Operation("sync", full, meta, report)
              /\ op.step = "queued" /\ DOMAIN op.seen = {}
              /\ op.kind = "sync" /\ op.full = full /\ op.report = report
<1>1. PICK r \in Report \cup {NoReport}, kind \in {"sync", "refresh"} :
         r = report /\ kind = "sync"
  OBVIOUS
<1>2. PICK op \in Operations :
         /\ op = Operation(kind, full, meta, r) /\ op.step = "queued" /\ DOMAIN op.seen = {}
         /\ op.kind = kind /\ op.full = full /\ op.report = r
  BY OperationType
<1> QED
  BY <1>1, <1>2

\* A report becomes a sync of the path.
LEMMA ReportQueued ==
    ASSUME IInv, NEW p \in Paths, ReportPath(p)
    PROVE  \E op \in Operations :
              /\ queue' = Append(queue, op) /\ op.step = "queued" /\ DOMAIN op.seen = {}
              /\ op.kind = "sync" /\ op.full = {p}
              /\ op.report.path = p /\ op.report.asked = disk[p]
<1> DEFINE told == [path |-> p, asked |-> disk[p]]
           new == Operation("sync", {p}, AncestorTargets(p), told)
<1>1. disk \in [Paths -> Nat]
  BY DEF IInv, TypeInv
<1>2. PICK report \in Report :
         report = told /\ report.path = p /\ report.asked = disk[p]
  <2>1. told \in Report /\ told.path = p /\ told.asked = disk[p]
    BY <1>1 DEF Report
  <2> HIDE DEF told
  <2> QED
    BY <2>1
<1>3. AncestorTargets(p) \in SUBSET Paths /\ {p} \in SUBSET Paths
  BY AncestorTargetsType
<1>4. PICK op \in Operations :
         /\ op = new /\ op.step = "queued" /\ DOMAIN op.seen = {}
         /\ op.kind = "sync" /\ op.full = {p} /\ op.report = report
  <2>1. PICK full, meta \in SUBSET Paths : full = {p} /\ meta = AncestorTargets(p)
    BY <1>3
  <2>2. new = Operation("sync", full, meta, report)
    BY <1>2, <2>1
  <2>3. PICK op \in Operations :
           /\ op = Operation("sync", full, meta, report)
           /\ op.step = "queued" /\ DOMAIN op.seen = {}
           /\ op.kind = "sync" /\ op.full = full /\ op.report = report
    BY SyncType
  <2> HIDE DEF new, told
  <2> QED
    BY <2>1, <2>2, <2>3
<1>5. queue' = Append(queue, new)
  BY DEF ReportPath, Enqueue
<1> HIDE DEF new, told
<1> QED
  BY <1>2, <1>4, <1>5

LEMMA EventsKeepIInv ==
    ASSUME IInv, Timers \/ \E p \in Paths : WatchEvent(p) \/ ReportPath(p)
    PROVE  IInv'
<1>1. /\ notices \in SUBSET Paths /\ pending \in SUBSET Paths
      /\ refreshTimer \in BOOLEAN /\ reconcileTimer \in BOOLEAN
      /\ reports \in 0 .. MaxReports /\ disk \in [Paths -> Nat] /\ MaxReports \in Nat
      /\ {} \in SUBSET Paths
  BY WatchdogAssumption DEF IInv, TypeInv
<1>2. /\ RefreshOperation \in Operations
      /\ RefreshOperation.step = "queued" /\ DOMAIN RefreshOperation.seen = {}
      /\ RefreshOperation.report = NoReport
  BY <1>1, OperationType DEF RefreshOperation
<1>3. SoundReport(RefreshOperation)'
  BY <1>2 DEF SoundReport
<1>4. ASSUME NEW p \in Paths, WatchEvent(p) PROVE IInv'
  <2>1. /\ notices' \in SUBSET Paths /\ pending' \in SUBSET Paths
        /\ UNCHANGED <<disk, writes, index, committed, refreshTimer, reconcileTimer,
                       queue, started, reports, faults>>
    BY <1>1, <1>4 DEF WatchEvent
  <2> QED
    BY <1>1, <2>1, ComingKeepsIInv
<1>5. CASE PathSyncFires
  <2> DEFINE op == Operation("sync", pending, {}, NoReport)
  <2>1. op \in Operations /\ op.step = "queued" /\ DOMAIN op.seen = {} /\ op.report = NoReport
    BY <1>1, OperationType
  <2>2. queue' = Append(queue, op)
    BY <1>5 DEF PathSyncFires, Enqueue
  <2>3. PICK o \in Operations : o = op
    BY <2>1
  <2>4. queue' = Append(queue, o) /\ o.step = "queued" /\ DOMAIN o.seen = {} /\ o.report = NoReport
    BY <2>1, <2>2, <2>3
  <2> HIDE DEF op
  <2>5. SoundReport(o)'
    BY <2>4 DEF SoundReport
  <2> QED
    BY <1>1, <1>5, <2>4, <2>5, ComingKeepsIInv DEF PathSyncFires, fileVars
<1>6. CASE RefreshFires
  <2>1. queue' = Append(queue, RefreshOperation)
    BY <1>6 DEF RefreshFires, Enqueue
  <2> QED
    BY <1>1, <1>2, <1>3, <1>6, <2>1, ComingKeepsIInv DEF RefreshFires, fileVars
<1>7. CASE ReconcileFires
  <2>1. queue' = Append(queue, RefreshOperation)
    BY <1>7 DEF ReconcileFires, Enqueue
  <2> QED
    BY <1>1, <1>2, <1>3, <1>7, <2>1, ComingKeepsIInv DEF ReconcileFires, fileVars
<1>8. ASSUME NEW p \in Paths, ReportPath(p) PROVE IInv'
  <2>1. PICK op \in Operations :
           /\ queue' = Append(queue, op) /\ op.step = "queued" /\ DOMAIN op.seen = {}
           /\ op.kind = "sync" /\ op.full = {p}
           /\ op.report.path = p /\ op.report.asked = disk[p]
    BY <1>8, ReportQueued
  <2>2. /\ UNCHANGED <<disk, writes, notices, index, committed, started, faults>>
        /\ UNCHANGED <<pending, refreshTimer, reconcileTimer>>
        /\ reports' \in 0 .. MaxReports
    BY <1>1, <1>8 DEF ReportPath, fileVars, timerVars
  <2>3. SoundReport(op)'
    <3>1. disk'[p] \in Nat /\ disk'[p] = disk[p] /\ op.report.asked <= disk'[p] /\ p \in op.full
      BY <1>1, <2>1, <2>2
    <3> QED
      BY <2>1, <3>1 DEF SoundReport
  <2> QED
    BY <1>1, <2>1, <2>2, <2>3, ComingKeepsIInv
<1> QED
  BY <1>4, <1>5, <1>6, <1>7, <1>8 DEF Timers

-----------------------------------------------------------------------------
(* The running operation. *)

\* As long as no operation has failed, what the first one has not changed is
\* committed.
LEMMA OnlyHeadPending ==
    ASSUME IInv, faults = 0, 1 \in DOMAIN queue, NEW p \in Paths,
           queue[1].step # "indexed" \/ p \notin Targets(queue[1])
    PROVE  index[p] = committed[p]
BY DEF IInv, IndexIsCommitted, QueueInv, Targets

\* A sync reads what is on the disk.
LEMMA SyncedEntry ==
    ASSUME NEW full, NEW meta, NEW p \in Paths
    PROVE  /\ p \in Below(full) \cup meta => Synced(full, meta)[p] = Entry(disk[p])
           /\ p \notin Below(full) \cup meta => Synced(full, meta)[p] = index[p]
BY DEF Synced

\* Both maps hold entries after any step that takes each of them from what the
\* other or the disk held.
LEMMA EntriesHeld ==
    ASSUME TypeInv, disk' = disk,
           index' = [p \in Paths |-> index'[p]],
           committed' = [p \in Paths |-> committed'[p]],
           \A p \in Paths : /\ index'[p] \in {None, Entry(disk[p]), index[p], committed[p]}
                                    \/ Reached(p, index'[p])
                            /\ committed'[p] \in {index[p], committed[p]}
    PROVE  /\ index' \in [Paths -> Nat] /\ committed' \in [Paths -> Nat]
           /\ \A p \in Paths : Held(p, index[p])' /\ Held(p, committed[p])'
<1>1. ASSUME NEW p \in Paths
      PROVE  /\ index'[p] \in Nat /\ committed'[p] \in Nat
             /\ Held(p, index'[p]) /\ Held(p, committed'[p])
  <2>1. /\ index[p] \in Nat /\ committed[p] \in Nat
        /\ Held(p, index[p]) /\ Held(p, committed[p])
    BY DEF TypeInv
  <2>2. None \in Nat /\ Held(p, None)
    BY DEF None, Held
  <2>3. Entry(disk[p]) \in Nat /\ Held(p, Entry(disk[p]))
    BY EntryReached
  <2>4. Reached(p, index'[p]) => index'[p] \in Nat /\ Held(p, index'[p])
    BY ReachedHeld
  <2> QED
    BY <2>1, <2>2, <2>3, <2>4
<1>2. index' \in [Paths -> Nat] /\ committed' \in [Paths -> Nat]
  BY <1>1
<1>3. ASSUME NEW p \in Paths PROVE Held(p, index[p])' /\ Held(p, committed[p])'
  BY <1>1 DEF Held
<1> QED
  BY <1>2, <1>3

\* What a step of the running operation leaves alone.
LEMMA RunKeeps ==
    ASSUME IInv, UNCHANGED <<disk, writes, reports>>,
           notices' \in SUBSET Paths, pending' \in SUBSET Paths,
           refreshTimer' \in BOOLEAN, reconcileTimer' \in BOOLEAN, started' \in BOOLEAN,
           faults' \in 0 .. MaxFaults,
           index' \in [Paths -> Nat] /\ committed' \in [Paths -> Nat],
           \A p \in Paths : Held(p, index[p])' /\ Held(p, committed[p])',
           queue' \in Seq(Operations), QueueInv', IndexIsCommitted'
    PROVE  IInv'
<1>1. TypeInv'
  BY DEF IInv, TypeInv
<1>2. TreeInv'
  BY DEF IInv, TreeInv, OnDisk
<1> QED
  BY <1>1, <1>2 DEF IInv

LEMMA BeginSyncKeepsIInv ==
    ASSUME IInv, 1 \in DOMAIN queue, BeginSync(1)
    PROVE  IInv'
<1> DEFINE op == queue[1]
           marked == Marked(op.full, op.meta)
           done == [op EXCEPT !.step = "indexed", !.marked = marked]
<1>1. /\ op \in Operations /\ SoundOperation(op) /\ TypeInv
      /\ queue \in Seq(Operations)
  BY DEF IInv, TypeInv, QueueInv
<1>2. /\ op.kind = "sync" /\ op.step = "queued"
      /\ index' = Synced(op.full, op.meta)
      /\ queue' = IF marked = {} THEN RemoveAt(queue, 1)
                  ELSE [queue EXCEPT ![1].step = "indexed", ![1].marked = marked]
      /\ UNCHANGED <<disk, notices, writes, committed, pending, refreshTimer, reconcileTimer,
                     started, reports, faults>>
  BY DEF BeginSync, fileVars, timerVars
<1>3. Grows
  BY <1>1, <1>2 DEF TypeInv, Grows
<1>4. op.full \in SUBSET Paths /\ op.meta \in SUBSET Paths /\ Below(op.full) \in SUBSET Paths
  BY <1>1, BelowType DEF Operations
<1>5. /\ index' \in [Paths -> Nat] /\ committed' \in [Paths -> Nat]
      /\ \A p \in Paths : Held(p, index[p])' /\ Held(p, committed[p])'
  <2>1. index' = [p \in Paths |-> index'[p]] /\ committed' = [p \in Paths |-> committed'[p]]
    BY <1>1, <1>2 DEF Synced, TypeInv
  <2>2. \A p \in Paths : index'[p] \in {None, Entry(disk[p]), index[p], committed[p]}
    BY <1>2, SyncedEntry
  <2> QED
    BY <1>1, <1>2, <2>1, <2>2, EntriesHeld
<1>6. marked \in SUBSET Paths /\ marked \subseteq Below(op.full) \cup op.meta
  BY <1>4 DEF Marked
<1>7. \A p \in Paths : p \notin marked => index'[p] = index[p]
  <2> SUFFICES ASSUME NEW p \in Paths, p \notin marked PROVE index'[p] = index[p]
    OBVIOUS
  <2>1. CASE p \in Below(op.full)
    <3>1. index[p] = None /\ ~ OnDisk(p)
      BY <2>1 DEF Marked
    <3>2. Entry(disk[p]) = None
      BY <3>1, WatchdogAssumption DEF OnDisk
    <3> QED
      BY <1>2, <2>1, <3>1, <3>2, SyncedEntry
  <2>2. CASE p \in op.meta
    <3>1. index[p] = Entry(disk[p])
      BY <2>2 DEF Marked
    <3> QED
      BY <1>2, <2>2, <3>1, SyncedEntry
  <2>3. CASE p \notin Below(op.full) \cup op.meta
    BY <1>2, <2>3, SyncedEntry
  <2> QED
    BY <2>1, <2>2, <2>3
<1>8. faults = 0 => \A p \in Paths : p \notin marked => index'[p] = committed'[p]
  <2> HIDE DEF marked
  <2> QED
    BY <1>2, <1>7, OnlyHeadPending
<1>9. CASE marked = {}
  <2>1. queue' = RemoveAt(queue, 1)
    BY <1>2, <1>9
  <2>2. faults' = 0 => \A p \in Paths : index'[p] = committed'[p]
    BY <1>2, <1>8, <1>9
  <2>3. queue' \in Seq(Operations) /\ QueueInv' /\ IndexIsCommitted'
    BY <1>3, <2>1, <2>2, HeadLeaves
  <2> QED
    BY <1>2, <1>5, <2>3, RunKeeps DEF IInv, TypeInv
<1>10. CASE marked # {}
  <2>1. PICK new \in Operations :
           /\ new = done /\ new.step = "indexed" /\ new.marked = marked
           /\ new.kind = op.kind /\ new.report = op.report /\ new.full = op.full
           /\ new.seen = op.seen
    <3>1. PICK m \in SUBSET Paths : m = marked
      BY <1>6
    <3>2. PICK o \in Operations : o = op
      BY <1>1
    <3>3. [o EXCEPT !.step = "indexed", !.marked = m] = done
      BY <3>1, <3>2
    <3>4. /\ [o EXCEPT !.step = "indexed", !.marked = m] \in Operations
          /\ [o EXCEPT !.step = "indexed", !.marked = m].step = "indexed"
          /\ [o EXCEPT !.step = "indexed", !.marked = m].marked = m
          /\ [o EXCEPT !.step = "indexed", !.marked = m].kind = o.kind
          /\ [o EXCEPT !.step = "indexed", !.marked = m].report = o.report
          /\ [o EXCEPT !.step = "indexed", !.marked = m].full = o.full
          /\ [o EXCEPT !.step = "indexed", !.marked = m].seen = o.seen
      BY DEF Operations
    <3> HIDE DEF op, marked, done
    <3> QED
      BY <3>1, <3>2, <3>3, <3>4
  <2>2. queue' = [queue EXCEPT ![1] = new]
    BY <1>2, <1>10, <2>1
  <2>3. SoundOperation(new)'
    <3>1. \A p \in Targets(new) : Reached(p, index[p])'
      <4> SUFFICES ASSUME NEW p \in marked PROVE Reached(p, index[p])'
        BY <1>2, <2>1 DEF Targets
      <4>1. index'[p] = Entry(disk[p]) /\ p \in Paths
        BY <1>2, <1>6, SyncedEntry
      <4>2. Reached(p, Entry(disk[p]))
        BY <1>1, <4>1, EntryReached
      <4> QED
        BY <1>2, <4>1, <4>2 DEF Reached
    <3>2. SoundReport(new)'
      <4> SUFFICES ASSUME new.report # NoReport
                   PROVE  /\ new.report.path \in new.full
                          /\ new.report.asked <= disk[new.report.path]
                          /\ \E n \in new.report.asked .. disk[new.report.path] :
                                Entry(n) = index'[new.report.path]
        BY <1>2, <2>1 DEF SoundReport
      <4>1. op.report.path \in op.full /\ op.report.asked <= disk[op.report.path]
        BY <1>1, <2>1 DEF SoundOperation, SoundReport
      <4>2. op.report.path \in Paths /\ op.report.asked \in Nat /\ disk[op.report.path] \in Nat
        BY <1>1, <1>4, <2>1, <4>1 DEF Operations, Report, TypeInv
      <4>3. index'[op.report.path] = Entry(disk[op.report.path])
        BY <1>2, <1>4, <4>1, <4>2, BelowType, SyncedEntry
      <4>4. disk[op.report.path] \in op.report.asked .. disk[op.report.path]
        BY <4>1, <4>2
      <4> QED
        BY <2>1, <4>1, <4>3, <4>4
    <3>3. DOMAIN new.seen = {}
      BY <1>1, <1>2, <2>1 DEF SoundOperation
    <3>4. Gone({})'
      BY WatchdogAssumption DEF Gone
    <3> QED
      BY <1>2, <2>1, <3>1, <3>2, <3>3, <3>4 DEF SoundOperation, SoundScan, Targets
  <2>4. faults' = 0 => \A p \in Paths : index'[p] # committed'[p] =>
                          new.step = "indexed" /\ (new.kind = "sync" => p \in new.marked)
    BY <1>2, <1>8, <2>1
  <2>5. queue' \in Seq(Operations) /\ QueueInv' /\ IndexIsCommitted'
    BY <1>3, <2>2, <2>3, <2>4, HeadGoesOn
  <2> QED
    BY <1>2, <1>5, <2>5, RunKeeps DEF IInv, TypeInv
<1> QED
  BY <1>9, <1>10

\* Committing what the first operation has changed leaves nothing to commit.
LEMMA CommitAgrees ==
    ASSUME IInv, 1 \in DOMAIN queue, queue[1].step = "indexed", CommitPaths(Targets(queue[1])),
           disk' = disk
    PROVE  /\ index' \in [Paths -> Nat] /\ committed' \in [Paths -> Nat]
           /\ \A p \in Paths : Held(p, index[p])' /\ Held(p, committed[p])'
           /\ faults = 0 => \A p \in Paths : index'[p] = committed'[p]
<1> DEFINE S == Targets(queue[1])
<1>1. TypeInv
  BY DEF IInv
<1>2. /\ committed' = [p \in Paths |-> committed'[p]] /\ index' = [p \in Paths |-> index'[p]]
      /\ \A p \in Paths :
            /\ committed'[p] = IF p \in S THEN index[p] ELSE committed[p]
            /\ index'[p] \in {index[p], committed[p]}
            /\ p \in S => index'[p] = index[p]
  BY DEF CommitPaths
<1>3. /\ index' \in [Paths -> Nat] /\ committed' \in [Paths -> Nat]
      /\ \A p \in Paths : Held(p, index[p])' /\ Held(p, committed[p])'
  <2> HIDE DEF S
  <2>1. \A p \in Paths : /\ index'[p] \in {None, Entry(disk[p]), index[p], committed[p]}
                         /\ committed'[p] \in {index[p], committed[p]}
    BY <1>2
  <2> QED
    BY <1>1, <1>2, <2>1, EntriesHeld
<1>4. ASSUME faults = 0, NEW p \in Paths PROVE index'[p] = committed'[p]
  <2>1. CASE p \in S
    BY <1>2, <2>1
  <2>2. CASE p \notin S
    <3>1. index[p] = committed[p]
      BY <1>4, <2>2, OnlyHeadPending
    <3> QED
      BY <1>2, <2>2, <3>1
  <2> QED
    BY <2>1, <2>2
<1> QED
  BY <1>3, <1>4

LEMMA EndsKeepIInv ==
    ASSUME IInv, 1 \in DOMAIN queue, EndSync(1) \/ EndRefresh(1)
    PROVE  IInv'
<1>1. /\ queue[1].step = "indexed" /\ CommitPaths(Targets(queue[1]))
      /\ queue' = RemoveAt(queue, 1)
      /\ UNCHANGED <<disk, notices, writes, pending, refreshTimer, reports, faults>>
      /\ started' \in BOOLEAN /\ reconcileTimer' \in BOOLEAN
  BY WatchdogAssumption
     DEF EndSync, EndRefresh, Targets, fileVars, timerVars, ScheduleNextReconcile, IInv, TypeInv
<1>2. Grows
  BY <1>1 DEF IInv, TypeInv, Grows
<1>3. /\ index' \in [Paths -> Nat] /\ committed' \in [Paths -> Nat]
      /\ \A p \in Paths : Held(p, index[p])' /\ Held(p, committed[p])'
      /\ faults = 0 => \A p \in Paths : index'[p] = committed'[p]
  BY <1>1, CommitAgrees
<1>4. queue' \in Seq(Operations) /\ QueueInv' /\ IndexIsCommitted'
  BY <1>1, <1>2, <1>3, HeadLeaves
<1> QED
  BY <1>1, <1>3, <1>4, RunKeeps DEF IInv, TypeInv

\* An operation that goes on with what it has seen.
GoingOn(op, step, found) == [op EXCEPT !.step = step, !.seen = found]

LEMMA GoesOn ==
    ASSUME NEW op \in Operations, NEW step \in {"queued", "scanning", "indexed"},
           NEW found \in Seen
    PROVE  /\ GoingOn(op, step, found) \in Operations
           /\ GoingOn(op, step, found).step = step
           /\ GoingOn(op, step, found).kind = op.kind
           /\ GoingOn(op, step, found).report = op.report
           /\ GoingOn(op, step, found).seen = found
BY DEF Operations, GoingOn

\* A scan takes in one more path.
LEMMA ScanKeepsIInv ==
    ASSUME IInv, 1 \in DOMAIN queue, NEW p \in Paths, ScanPath(1, p)
    PROVE  IInv'
<1> DEFINE op == queue[1]
           D == DOMAIN op.seen \cup {p}
           found == IF Parent[p] = Root THEN Entry(disk[p])
                    ELSE IF op.seen[Parent[p]] = None THEN None ELSE Entry(disk[p])
           now == [q \in D |-> IF q # p THEN op.seen[q] ELSE found]
<1>1. /\ op \in Operations /\ SoundOperation(op) /\ TypeInv
      /\ queue \in Seq(Operations) /\ index \in [Paths -> Nat]
  BY DEF IInv, TypeInv, QueueInv
<1>2. /\ op.kind = "refresh" /\ op.step \in {"queued", "scanning"}
      /\ p \notin DOMAIN op.seen
      /\ Parent[p] \in DOMAIN op.seen \cup {Root}
      /\ UNCHANGED <<disk, notices, writes, committed, pending, refreshTimer, reconcileTimer,
                     started, reports, faults>>
  BY DEF ScanPath, fileVars, timerVars
<1>3. IF DOMAIN now = Paths
      THEN /\ index' = now
           /\ queue' = [queue EXCEPT ![1].step = "indexed", ![1].seen = <<>>]
      ELSE /\ index' = index
           /\ queue' = [queue EXCEPT ![1].step = "scanning", ![1].seen = now]
  BY DEF ScanPath
<1>4. Grows
  BY <1>1, <1>2 DEF TypeInv, Grows
<1>5. DOMAIN op.seen \in SUBSET Paths /\ D \in SUBSET Paths /\ DOMAIN now = D
  BY <1>1 DEF Operations, Seen
<1>6. PICK S \in SUBSET Paths :
         /\ Gone(S)
         /\ \A q \in Paths : Parent[q] \in DOMAIN op.seen /\ op.seen[Parent[q]] = None => q \in S
  BY <1>1 DEF SoundOperation, SoundScan
<1>7. \/ found = Entry(disk[p])
      \/ found = None /\ p \in S
  BY <1>2, <1>6
<1>8. Reached(p, found)
  <2> HIDE DEF found
  <2>1. CASE found = Entry(disk[p])
    BY <1>1, <2>1, EntryReached
  <2>2. CASE found = None /\ p \in S
    BY <1>6, <2>2 DEF Gone
  <2> QED
    BY <1>7, <2>1, <2>2
<1>9. \A q \in D : q \in Paths /\ Reached(q, now[q]) /\ now[q] \in Nat
  <2> SUFFICES ASSUME NEW q \in D PROVE q \in Paths /\ Reached(q, now[q])
    BY <1>1, ReachedHeld
  <2>1. q \in Paths
    BY <1>5
  <2>2. now[q] = IF q # p THEN op.seen[q] ELSE found
    OBVIOUS
  <2> HIDE DEF now, found
  <2> QED
    BY <1>1, <1>8, <2>1, <2>2 DEF SoundOperation, SoundScan
<1>10. now \in [D -> Nat] /\ now \in Seen
  <2>1. now \in [D -> Nat]
    BY <1>9
  <2> HIDE DEF now, D
  <2> QED
    BY <1>5, <2>1 DEF Seen
<1>11. \E T \in SUBSET Paths :
          /\ Gone(T)
          /\ \A q \in Paths : Parent[q] \in D /\ now[Parent[q]] = None => q \in T
  <2> DEFINE away == {q \in Paths : ~ OnDisk(q)}
             T == S \cup IF found = None THEN away ELSE {}
  <2>1. \A q \in away : Reached(q, None)
    <3> SUFFICES ASSUME NEW q \in Paths, ~ OnDisk(q) PROVE Reached(q, None)
      OBVIOUS
    <3>1. Entry(disk[q]) = None
      BY WatchdogAssumption DEF OnDisk
    <3> QED
      BY <1>1, <3>1, EntryReached
  <2>2. \A q \in Paths : Parent[q] \in away => q \in away
    BY DEF IInv, TreeInv
  <2>3. Gone(T)
    BY <1>6, <2>1, <2>2 DEF Gone
  <2>4. ASSUME NEW q \in Paths, Parent[q] \in D, now[Parent[q]] = None
        PROVE  q \in T
    <3>1. CASE Parent[q] # p
      <4>1. Parent[q] \in DOMAIN op.seen /\ op.seen[Parent[q]] = None
        BY <2>4, <3>1
      <4> QED
        BY <1>6, <4>1
    <3>2. CASE Parent[q] = p
      <4>1. found = None
        BY <2>4, <3>2
      <4>2. CASE found = Entry(disk[p])
        <5>1. ~ OnDisk(p)
          BY <4>1, <4>2, WatchdogAssumption DEF OnDisk
        <5> QED
          BY <2>2, <3>2, <4>1, <5>1
      <4>3. CASE p \in S
        BY <1>6, <3>2, <4>3 DEF Gone
      <4> QED
        BY <1>7, <4>2, <4>3
    <3> QED
      BY <3>1, <3>2
  <2>5. T \in SUBSET Paths
    OBVIOUS
  <2> QED
    BY <2>3, <2>4, <2>5
<1>12. op.report = NoReport
  BY <1>1, <1>2 DEF SoundOperation, SoundReport
<1>13. PICK o \in Operations : o = op
  BY <1>1
<1>14. PICK seen \in Seen : seen = now
  BY <1>10
<1>15. CASE D = Paths
  <2>1. PICK e \in Seen : e = <<>> /\ DOMAIN e = {}
    BY EmptySeen
  <2>2. /\ index' = now
        /\ queue' = [queue EXCEPT ![1].step = "indexed", ![1].seen = <<>>]
    BY <1>3, <1>5, <1>15
  <2>3. PICK new \in Operations :
           /\ new = GoingOn(o, "indexed", e)
           /\ new.step = "indexed" /\ new.kind = o.kind /\ new.report = o.report
           /\ new.seen = e
    <3> HIDE DEF now, found, D, op
    <3> QED
      BY GoesOn
  <2>4. queue' = [queue EXCEPT ![1] = new]
    BY <1>13, <2>1, <2>2, <2>3 DEF GoingOn
  <2>5. SoundOperation(new)'
    <3>1. \A q \in Paths : Reached(q, index[q])'
      <4> HIDE DEF now
      <4> QED
        BY <1>2, <1>9, <1>15, <2>2 DEF Reached
    <3>2. new.report = NoReport /\ new.kind = "refresh" /\ DOMAIN new.seen = {}
          /\ new.step = "indexed"
      BY <1>2, <1>12, <1>13, <2>1, <2>3
    <3>3. Gone({})'
      BY WatchdogAssumption DEF Gone
    <3> QED
      BY <3>1, <3>2, <3>3 DEF SoundOperation, SoundScan, SoundReport, Targets
  <2>6. new.kind = "refresh" /\ new.step = "indexed"
    BY <1>2, <1>13, <2>3
  <2>7. queue' \in Seq(Operations) /\ QueueInv' /\ IndexIsCommitted'
    <3> HIDE DEF now, found, D, op
    <3> QED
      BY <1>4, <2>4, <2>5, <2>6, HeadGoesOn
  <2>8. /\ index' \in [Paths -> Nat] /\ committed' \in [Paths -> Nat]
        /\ \A q \in Paths : Held(q, index[q])' /\ Held(q, committed[q])'
    <3> HIDE DEF now, found
    <3>1. /\ index' = [q \in Paths |-> index'[q]] /\ committed' = [q \in Paths |-> committed'[q]]
          /\ \A q \in Paths : Reached(q, index'[q]) /\ committed'[q] = committed[q]
      BY <1>1, <1>2, <1>9, <1>10, <1>15, <2>2 DEF TypeInv
    <3> QED
      BY <1>1, <1>2, <3>1, EntriesHeld
  <2> HIDE DEF now, found, D, op
  <2> QED
    BY <1>2, <2>7, <2>8, RunKeeps DEF IInv, TypeInv
<1>16. CASE D # Paths
  <2>1. /\ index' = index
        /\ queue' = [queue EXCEPT ![1].step = "scanning", ![1].seen = now]
    BY <1>3, <1>5, <1>16
  <2>2. PICK new \in Operations :
           /\ new = GoingOn(o, "scanning", seen)
           /\ new.step = "scanning" /\ new.kind = o.kind /\ new.report = o.report
           /\ new.seen = seen
    <3> HIDE DEF now, found, D, op
    <3> QED
      BY GoesOn
  <2>3. queue' = [queue EXCEPT ![1] = new]
    <3> HIDE DEF now
    <3> QED
      BY <1>13, <1>14, <2>1, <2>2 DEF GoingOn
  <2>4. SoundOperation(new)'
    <3>1. /\ new.report = NoReport /\ new.kind = "refresh" /\ new.step = "scanning"
          /\ new.seen = now /\ DOMAIN new.seen = D
      BY <1>2, <1>5, <1>12, <1>13, <1>14, <2>2
    <3> HIDE DEF now, found, D, op
    <3>2. SoundScan(new)
      BY <1>9, <1>11, <3>1 DEF SoundScan
    <3>3. SoundScan(new)'
      BY <1>2, <3>2 DEF SoundScan, Gone, Reached
    <3> QED
      BY <3>1, <3>3 DEF SoundOperation, SoundReport
  <2>5. faults' = 0 => \A q \in Paths : index'[q] = committed'[q]
    BY <1>2, <2>1, OnlyHeadPending
  <2> HIDE DEF now, found, D, op
  <2>6. queue' \in Seq(Operations) /\ QueueInv' /\ IndexIsCommitted'
    BY <1>4, <2>3, <2>4, <2>5, HeadGoesOn
  <2>7. /\ index' \in [Paths -> Nat] /\ committed' \in [Paths -> Nat]
        /\ \A q \in Paths : Held(q, index[q])' /\ Held(q, committed[q])'
    BY <1>1, <1>2, <1>4, <2>1, HeldKept DEF TypeInv
  <2> QED
    BY <1>2, <2>6, <2>7, RunKeeps DEF IInv, TypeInv
<1> QED
  BY <1>15, <1>16

\* An operation fails half-way: what it leaves in the index is what was there
\* before, what is on the disk, or nothing.
LEMMA FailuresKeepIInv ==
    ASSUME IInv, 1 \in DOMAIN queue, SyncFails(1) \/ HandlersFail(1) \/ RefreshFails(1)
    PROVE  IInv'
<1>1. TypeInv /\ faults \in Nat /\ MaxFaults \in Nat
  BY WatchdogAssumption DEF IInv, TypeInv
<1>2. /\ queue' = RemoveAt(queue, 1) /\ faults' = faults + 1 /\ faults < MaxFaults
      /\ UNCHANGED <<disk, notices, writes, committed, pending, started, reports>>
      /\ refreshTimer' \in BOOLEAN /\ reconcileTimer' \in BOOLEAN
  BY WatchdogAssumption
     DEF SyncFails, HandlersFail, RefreshFails, fileVars, ScheduleNextReconcile, IInv, TypeInv
<1>3. faults' # 0 /\ faults' \in 0 .. MaxFaults
  BY <1>1, <1>2
<1>4. Grows
  BY <1>1, <1>2 DEF TypeInv, Grows
<1>5. queue' \in Seq(Operations) /\ QueueInv' /\ IndexIsCommitted'
  BY <1>2, <1>3, <1>4, HeadLeaves
<1>6. /\ index' = [p \in Paths |-> index'[p]]
      /\ \A p \in Paths : index'[p] \in {None, Entry(disk[p]), index[p]}
  <2>1. CASE HandlersFail(1) \/ RefreshFails(1)
    BY <1>1, <2>1 DEF HandlersFail, RefreshFails, TypeInv
  <2>2. CASE SyncFails(1)
    <3>1. PICK walked, back, full, meta :
             index' = [p \in Paths |-> IF p \in walked /\ p \notin back THEN None
                                       ELSE Synced(full, meta)[p]]
      BY <2>2 DEF SyncFails
    <3> QED
      BY <3>1, SyncedEntry
  <2> QED
    BY <2>1, <2>2
<1>7. /\ index' \in [Paths -> Nat] /\ committed' \in [Paths -> Nat]
      /\ \A p \in Paths : Held(p, index[p])' /\ Held(p, committed[p])'
  <2>1. committed' = [p \in Paths |-> committed'[p]]
    BY <1>1, <1>2 DEF TypeInv
  <2> QED
    BY <1>1, <1>2, <1>6, <2>1, EntriesHeld
<1> QED
  BY <1>2, <1>3, <1>5, <1>7, RunKeeps DEF IInv, TypeInv

LEMMA NextKeepsIInv == IInv /\ [Next]_vars => IInv'
<1> SUFFICES ASSUME IInv, [Next]_vars PROVE IInv'
  OBVIOUS
<1>1. CASE UNCHANGED vars
  <2>1. UNCHANGED <<disk, writes, index, committed, started, faults>>
        /\ UNCHANGED <<notices, pending, refreshTimer, reconcileTimer, reports, queue>>
    BY <1>1 DEF vars, fileVars, timerVars
  <2> QED
    BY <2>1, ComingKeepsIInv DEF IInv, TypeInv
<1>2. ASSUME NEW p \in Paths, Put(p) \/ Delete(p) PROVE IInv'
  BY <1>2, FilesKeepIInv
<1>3. CASE Timers \/ \E p \in Paths : WatchEvent(p) \/ ReportPath(p)
  BY <1>3, EventsKeepIInv
<1>4. CASE RunOperation
  BY <1>4, BeginSyncKeepsIInv, EndsKeepIInv, ScanKeepsIInv DEF RunOperation, MayRun
<1>5. CASE OperationFails
  BY <1>5, FailuresKeepIInv DEF OperationFails, MayRun
<1> QED
  BY <1>1, <1>2, <1>3, <1>4, <1>5 DEF Next

LEMMA InitIInv == Init => IInv
<1> SUFFICES ASSUME Init PROVE IInv
  OBVIOUS
<1>1. PICK op \in Operations :
         /\ op = RefreshOperation /\ op.step = "queued" /\ DOMAIN op.seen = {}
         /\ op.report = NoReport
  BY OperationType DEF RefreshOperation
<1>2. queue = <<op>>
  BY <1>1 DEF Init
<1>3. queue \in Seq(Operations) /\ DOMAIN queue = {1} /\ queue[1] = op
  <2>1. Len(queue) = 1 /\ queue[1] = op /\ queue \in Seq(Operations)
    BY <1>2
  <2> QED
    BY <2>1
<1>4. TypeInv
  <2>1. \A p \in Paths : Held(p, index[p]) /\ Held(p, committed[p])
    BY DEF Init, Held
  <2>2. 0 \in 0 .. MaxWrites /\ 0 \in 0 .. MaxReports /\ 0 \in 0 .. MaxFaults /\ None \in Nat
    BY WatchdogAssumption DEF None
  <2> QED
    BY <1>3, <2>1, <2>2 DEF Init, TypeInv
<1>5. TreeInv
  <2>1. \A p \in Paths : OnDisk(p)
    BY Parity DEF Init, OnDisk, Entry, None
  <2> QED
    BY <2>1, WatchdogAssumption DEF TreeInv, OnDisk
<1>6. SoundOperation(op)
  <2>1. SoundReport(op)
    BY <1>1 DEF SoundReport
  <2> QED
    BY <1>1, <2>1, QueuedIsSound
<1>7. QueueInv
  BY <1>3, <1>6 DEF QueueInv
<1>8. IndexIsCommitted
  BY DEF Init, IndexIsCommitted
<1> QED
  BY <1>4, <1>5, <1>7, <1>8 DEF IInv

LEMMA IInvHolds == Spec => []IInv
BY InitIInv, NextKeepsIInv, PTL DEF Spec

-----------------------------------------------------------------------------
(* The properties. *)

\* Every variable has its type, and the index and the replicated state hold
\* only metadata that their files have or had (createPathIndexEntry,
\* watchdog.js).
THEOREM WatchTypeCorrect == Spec => []WatchTypeOK
<1>1. ASSUME IInv PROVE WatchTypeOK
  <2>1. TypeInv
    BY <1>1 DEF IInv
  <2>2. ASSUME NEW i \in DOMAIN queue
        PROVE  /\ queue[i].kind \in {"sync", "refresh"}
               /\ queue[i].full \cup queue[i].meta \cup queue[i].marked \subseteq Paths
               /\ queue[i].report \in Report \cup {NoReport}
               /\ queue[i].step \in {"queued", "scanning", "indexed"}
               /\ DOMAIN queue[i].seen \subseteq Paths
    <3>1. PICK op \in Operations : op = queue[i]
      BY <2>1 DEF TypeInv
    <3>2. DOMAIN op.seen \subseteq Paths
      BY DEF Operations, Seen
    <3> QED
      BY <3>1, <3>2 DEF Operations
  <2>3. ASSUME NEW p \in Paths
        PROVE  {index[p], committed[p]} \subseteq {None} \cup {n \in 1 .. disk[p] : n % 2 = 1}
    BY <2>1 DEF TypeInv, Held
  <2>4. {refreshTimer, reconcileTimer, started} \subseteq BOOLEAN
    BY <2>1 DEF TypeInv
  <2>5. <<writes, reports, faults>> \in (0 .. MaxWrites) \X (0 .. MaxReports) \X (0 .. MaxFaults)
    BY <2>1 DEF TypeInv
  <2> QED
    BY <2>1, <2>2, <2>3, <2>4, <2>5 DEF TypeInv, WatchTypeOK
<1> QED
  BY <1>1, IInvHolds, PTL

\* Nothing that enters or leaves currentPathIndex escapes changedProjectPaths,
\* which commitReplicatedState is given (applyAbsolutePathChanges and
\* refreshNow, watchdog.js).
THEOREM IndexCommitted == Spec => []IndexIsCommitted
<1>1. IInv => IndexIsCommitted
  BY DEF IInv
<1> QED
  BY <1>1, IInvHolds, PTL

\* The steps that change what is committed.
LEMMA CommitSteps ==
    ASSUME Next, committed' # committed
    PROVE  1 \in DOMAIN queue /\ (EndSync(1) \/ EndRefresh(1))
<1>1. ASSUME NEW p \in Paths, Put(p) \/ Delete(p) \/ WatchEvent(p) \/ ReportPath(p) PROVE FALSE
  BY <1>1 DEF Put, Delete, Change, WatchEvent, ReportPath
<1>2. CASE Timers
  BY <1>2 DEF Timers, PathSyncFires, RefreshFires, ReconcileFires
<1>3. CASE OperationFails
  BY <1>3 DEF OperationFails, SyncFails, HandlersFail, RefreshFails
<1>4. CASE RunOperation
  <2>1. ~ BeginSync(1) /\ \A p \in Paths : ~ ScanPath(1, p)
    BY DEF BeginSync, ScanPath
  <2> QED
    BY <1>4, <2>1 DEF RunOperation, MayRun
<1> QED
  BY <1>1, <1>2, <1>3, <1>4 DEF Next

\* What commitReplicatedState tells the workers of a file is a state that the
\* file had since the one they were told last: the scan of a refresh, which
\* reads one path after the other while files change, cannot take them back
\* behind a sync (operationQueue, watchdog.js).
THEOREM CommitsForward == Spec => CommitsMoveForward
<1>1. ASSUME IInv, [Next]_vars
      PROVE  [\A p \in Paths :
                 committed'[p] # committed[p] =>
                     \E n \in committed[p] .. disk[p] : Entry(n) = committed'[p]]_vars
  <2> SUFFICES ASSUME Next, NEW p \in Paths, committed'[p] # committed[p]
               PROVE  \E n \in committed[p] .. disk[p] : Entry(n) = committed'[p]
    BY <1>1
  <2>1. 1 \in DOMAIN queue /\ (EndSync(1) \/ EndRefresh(1))
    BY CommitSteps
  <2>2. queue[1].step = "indexed" /\ CommitPaths(Targets(queue[1]))
    BY <2>1 DEF EndSync, EndRefresh, Targets
  <2>3. p \in Targets(queue[1]) /\ committed'[p] = index[p]
    BY <2>2 DEF CommitPaths
  <2>4. Reached(p, index[p])
    BY <1>1, <2>1, <2>2, <2>3 DEF IInv, QueueInv, SoundOperation
  <2> QED
    BY <2>3, <2>4 DEF Reached
<1> QED
  BY <1>1, IInvHolds, PTL DEF Spec, CommitsMoveForward

\* An operation leaves the queue when it is the running one and ends.
LEMMA Leaving ==
    ASSUME IInv, Next, NEW i \in DOMAIN queue, queue' = RemoveAt(queue, i), faults' = 0
    PROVE  /\ 1 \in DOMAIN queue /\ queue[i] = queue[1] /\ faults = 0
           /\ \/ EndSync(1)
              \/ EndRefresh(1)
              \/ BeginSync(1) /\ Marked(queue[1].full, queue[1].meta) = {}
<1>1. /\ queue \in Seq(Operations) /\ Len(queue) \in Nat /\ DOMAIN queue = 1 .. Len(queue)
      /\ faults \in Nat
  BY WatchdogAssumption DEF IInv, TypeInv
<1>2. DOMAIN queue' = 1 .. Len(queue) - 1 /\ Len(queue) \in DOMAIN queue
  BY <1>1, RemoveAtIndex
<1>3. ~ (DOMAIN queue \subseteq DOMAIN queue')
  BY <1>1, <1>2
<1>4. \A op : ~ Enqueue(op)
  <2> SUFFICES ASSUME NEW op, queue' = Append(queue, op) PROVE FALSE
    BY DEF Enqueue
  <2>1. DOMAIN queue' = 1 .. Len(queue) + 1
    BY <1>1
  <2>2. PICK n \in Nat : n = Len(queue)
    BY <1>1
  <2>3. n + 1 \in 1 .. n + 1 /\ n + 1 \notin 1 .. n - 1
    OBVIOUS
  <2> QED
    BY <1>2, <2>1, <2>2, <2>3
<1>5. CASE \E p \in Paths : Put(p) \/ Delete(p) \/ WatchEvent(p) \/ ReportPath(p)
  BY <1>3, <1>4, <1>5 DEF Put, Delete, Change, WatchEvent, ReportPath
<1>6. CASE Timers
  BY <1>4, <1>6 DEF Timers, PathSyncFires, RefreshFires, ReconcileFires
<1>7. CASE OperationFails
  <2>1. faults' = faults + 1
    BY <1>7 DEF OperationFails, SyncFails, HandlersFail, RefreshFails
  <2> QED
    BY <1>1, <2>1
<1>8. CASE RunOperation
  <2>1. /\ 1 \in DOMAIN queue
        /\ \/ BeginSync(1) \/ EndSync(1) \/ EndRefresh(1)
           \/ \E p \in Paths : ScanPath(1, p)
    BY <1>8 DEF RunOperation, MayRun
  <2>2. \A p \in Paths : ~ ScanPath(1, p)
    <3> SUFFICES ASSUME NEW p \in Paths, ScanPath(1, p) PROVE FALSE
      OBVIOUS
    <3>1. DOMAIN queue' = DOMAIN queue
      BY DEF ScanPath
    <3> QED
      BY <1>3, <3>1
  <2>3. BeginSync(1) => Marked(queue[1].full, queue[1].meta) = {}
    <3> SUFFICES ASSUME BeginSync(1), Marked(queue[1].full, queue[1].meta) # {} PROVE FALSE
      OBVIOUS
    <3>1. DOMAIN queue' = DOMAIN queue
      BY DEF BeginSync
    <3> QED
      BY <1>3, <3>1
  <2>4. queue' = RemoveAt(queue, 1) /\ faults' = faults
    BY <2>1, <2>2, <2>3 DEF BeginSync, EndSync, EndRefresh
  <2>5. queue[i] = queue[1]
    BY <1>1, <2>4, RemoveSame
  <2> QED
    BY <2>1, <2>2, <2>3, <2>4, <2>5
<1> QED
  BY <1>5, <1>6, <1>7, <1>8 DEF Next

\* A report that applyProjectPathChanges answers is committed: the workers'
\* index has a state of the file no older than the report (watchdog.js).
THEOREM ReportsCommitted == Spec => ReportsAreCommitted
<1>1. ASSUME IInv, Next, NEW i \in DOMAIN queue,
             faults' = 0, queue[i].report # NoReport, queue' = RemoveAt(queue, i)
      PROVE  \E n \in queue[i].report.asked .. disk[queue[i].report.path] :
                Entry(n) = committed'[queue[i].report.path]
  <2>1. /\ 1 \in DOMAIN queue /\ queue[i] = queue[1] /\ faults = 0
        /\ \/ EndSync(1)
           \/ EndRefresh(1)
           \/ BeginSync(1) /\ Marked(queue[1].full, queue[1].meta) = {}
    BY <1>1, Leaving
  <2>2. PICK op \in Operations : op = queue[1] /\ op = queue[i]
    BY <1>1, <2>1 DEF IInv, TypeInv
  <2> DEFINE p == op.report.path
             asked == op.report.asked
  <2>3. /\ op.kind = "sync" /\ p \in op.full /\ asked <= disk[p]
        /\ op.step = "indexed" => \E n \in asked .. disk[p] : Entry(n) = index[p]
    BY <1>1, <2>1, <2>2 DEF IInv, QueueInv, SoundOperation, SoundReport
  <2>4. p \in Paths /\ asked \in Nat /\ disk[p] \in Nat /\ op.full \in SUBSET Paths
    BY <1>1, <2>2, <2>3 DEF Operations, Report, IInv, TypeInv
  <2>5. CASE EndSync(1)
    <3>1. op.step = "indexed" /\ CommitPaths(op.marked)
      BY <2>2, <2>5 DEF EndSync
    <3>2. CASE p \in op.marked
      BY <2>2, <2>3, <2>4, <3>1, <3>2 DEF CommitPaths
    <3>3. CASE p \notin op.marked
      <4>1. index[p] = committed[p]
        BY <1>1, <2>1, <2>2, <2>3, <2>4, <3>3, OnlyHeadPending DEF Targets
      <4> QED
        BY <2>2, <2>3, <2>4, <3>1, <3>3, <4>1 DEF CommitPaths
    <3> QED
      BY <3>2, <3>3
  <2>6. CASE EndRefresh(1)
    BY <2>2, <2>3, <2>6 DEF EndRefresh
  <2>7. CASE BeginSync(1) /\ Marked(queue[1].full, queue[1].meta) = {}
    <3>1. op.step = "queued" /\ committed' = committed /\ Marked(op.full, op.meta) = {}
      BY <2>2, <2>7 DEF BeginSync
    <3>2. index[p] = None /\ ~ OnDisk(p)
      BY <2>3, <2>4, <3>1, BelowType DEF Marked
    <3>3. Entry(disk[p]) = None
      BY <2>4, <3>2, WatchdogAssumption DEF OnDisk
    <3>4. index[p] = committed[p]
      BY <1>1, <2>1, <2>2, <2>4, <3>1, OnlyHeadPending
    <3>5. disk[p] \in asked .. disk[p]
      BY <2>3, <2>4
    <3> QED
      BY <2>2, <3>1, <3>2, <3>3, <3>4, <3>5
  <2> QED
    BY <2>1, <2>5, <2>6, <2>7
<1>2. ASSUME IInv, [Next]_vars
      PROVE  [\A i \in DOMAIN queue :
                 LET report == queue[i].report
                 IN  faults' = 0 /\ report # NoReport /\ queue' = RemoveAt(queue, i) =>
                         \E n \in report.asked .. disk[report.path] :
                             Entry(n) = committed'[report.path]]_vars
  BY <1>1, <1>2
<1> QED
  BY <1>2, IInvHolds, PTL DEF Spec, ReportsAreCommitted

-----------------------------------------------------------------------------
(* How many refreshes wait. *)

Refreshes(q) == {i \in DOMAIN q : q[i].kind = "refresh"}

\* The one refresh that an armed timer is going to queue.
Armed(timer) == IF timer THEN 1 ELSE 0

LEMMA RefreshesFinite ==
    ASSUME NEW q \in Seq(Operations)
    PROVE  IsFiniteSet(Refreshes(q)) /\ Cardinality(Refreshes(q)) \in Nat
<1>1. DOMAIN q = 1 .. Len(q) /\ Len(q) \in Nat
  OBVIOUS
<1>2. IsFiniteSet(DOMAIN q)
  BY <1>1, FS_Interval
<1>3. Refreshes(q) \subseteq DOMAIN q
  BY DEF Refreshes
<1> QED
  BY <1>2, <1>3, FS_Subset, FS_CardinalityType

LEMMA RefreshComes ==
    ASSUME NEW q \in Seq(Operations), NEW op \in Operations
    PROVE  Cardinality(Refreshes(Append(q, op))) =
              Cardinality(Refreshes(q)) + Armed(op.kind = "refresh")
<1> DEFINE new == Append(q, op)
<1>1. /\ Len(q) \in Nat /\ DOMAIN q = 1 .. Len(q) /\ DOMAIN new = 1 .. Len(q) + 1
      /\ \A i \in 1 .. Len(q) : new[i] = q[i]
      /\ new[Len(q) + 1] = op
  OBVIOUS
<1>2. IsFiniteSet(Refreshes(q)) /\ Cardinality(Refreshes(q)) \in Nat
  BY RefreshesFinite
<1>3. Len(q) + 1 \notin Refreshes(q)
  BY <1>1 DEF Refreshes
<1> HIDE DEF new
<1>4. CASE op.kind = "refresh"
  <2>1. Refreshes(new) = Refreshes(q) \cup {Len(q) + 1}
    BY <1>1, <1>4 DEF Refreshes
  <2>2. Cardinality(Refreshes(new)) = Cardinality(Refreshes(q)) + 1
    BY <1>2, <1>3, <2>1, FS_AddElement
  <2> QED
    BY <1>4, <2>2 DEF Armed, new
<1>5. CASE op.kind # "refresh"
  <2>1. Refreshes(new) = Refreshes(q)
    BY <1>1, <1>5 DEF Refreshes
  <2> QED
    BY <1>2, <1>5, <2>1 DEF Armed, new
<1> QED
  BY <1>4, <1>5

LEMMA RefreshLeaves ==
    ASSUME NEW q \in Seq(Operations), 1 \in DOMAIN q
    PROVE  Cardinality(Refreshes(RemoveAt(q, 1))) =
              Cardinality(Refreshes(q)) - Armed(q[1].kind = "refresh")
<1> DEFINE rest == RemoveAt(q, 1)
           behind == Refreshes(q) \ {1}
           next == [k \in Refreshes(rest) |-> k + 1]
<1>1. /\ rest \in Seq(Operations) /\ DOMAIN rest = 1 .. Len(q) - 1
      /\ \A k \in 1 .. Len(q) - 1 : k + 1 \in DOMAIN q /\ rest[k] = q[k + 1]
      /\ Len(q) \in Nat /\ DOMAIN q = 1 .. Len(q)
  BY RemoveTheHead
<1> HIDE DEF rest
<1>2. IsFiniteSet(Refreshes(rest)) /\ IsFiniteSet(Refreshes(q)) /\ Cardinality(Refreshes(q)) \in Nat
  BY <1>1, RefreshesFinite
<1>3. next \in [Refreshes(rest) -> behind]
  <2> SUFFICES ASSUME NEW k \in Refreshes(rest) PROVE k + 1 \in behind
    OBVIOUS
  <2>1. k \in 1 .. Len(q) - 1 /\ rest[k].kind = "refresh"
    BY <1>1 DEF Refreshes
  <2> QED
    BY <1>1, <2>1 DEF Refreshes
<1>4. \A k, l \in Refreshes(rest) : next[k] = next[l] => k = l
  <2>1. \A k \in Refreshes(rest) : k \in Nat
    BY <1>1 DEF Refreshes
  <2> QED
    BY <2>1
<1>5. \A j \in behind : \E k \in Refreshes(rest) : next[k] = j
  <2> SUFFICES ASSUME NEW j \in behind PROVE \E k \in Refreshes(rest) : next[k] = j
    OBVIOUS
  <2>1. j \in 2 .. Len(q) /\ q[j].kind = "refresh"
    BY <1>1 DEF Refreshes
  <2>2. j - 1 \in 1 .. Len(q) - 1 /\ (j - 1) + 1 = j
    BY <1>1, <2>1
  <2>3. j - 1 \in Refreshes(rest)
    BY <1>1, <2>1, <2>2 DEF Refreshes
  <2> QED
    BY <2>2, <2>3
<1>6. ExistsBijection(Refreshes(rest), behind)
  <2> HIDE DEF next, behind
  <2>1. next \in Bijection(Refreshes(rest), behind)
    BY <1>3, <1>4, <1>5, Fun_IsBij
  <2> QED
    BY <2>1 DEF ExistsBijection
<1>7. Cardinality(Refreshes(rest)) = Cardinality(behind)
  <2>1. IsFiniteSet(behind)
    BY <1>2, FS_Subset
  <2> QED
    BY <1>2, <1>6, <2>1, FS_Bijection
<1>8. CASE q[1].kind = "refresh"
  <2>1. 1 \in Refreshes(q)
    BY <1>8 DEF Refreshes
  <2>2. Cardinality(behind) = Cardinality(Refreshes(q)) - 1
    BY <1>2, <2>1, FS_RemoveElement
  <2> QED
    BY <1>7, <1>8, <2>2 DEF Armed, rest
<1>9. CASE q[1].kind # "refresh"
  <2>1. behind = Refreshes(q)
    BY <1>9 DEF Refreshes
  <2>2. Armed(q[1].kind = "refresh") = 0
    BY <1>9 DEF Armed
  <2>3. Cardinality(Refreshes(rest)) = Cardinality(Refreshes(q))
    BY <1>7, <2>1
  <2> QED
    BY <1>2, <2>2, <2>3 DEF rest
<1> QED
  BY <1>8, <1>9

\* An operation that goes on stays what it is.
LEMMA RefreshesGoOn ==
    ASSUME NEW q, NEW new, DOMAIN new = DOMAIN q, \A i \in DOMAIN q : new[i].kind = q[i].kind
    PROVE  Refreshes(new) = Refreshes(q)
BY DEF Refreshes

\* The timers and the operations that wait for them.
LEMMA TimersAndRefreshes ==
    ASSUME IInv
    PROVE  /\ ReconcilesDoNotPileUp <=>
                 Cardinality(Refreshes(queue)) + Armed(refreshTimer) + Armed(reconcileTimer)
                     <= 1 + faults
           /\ ReconcilesDoNotPileUp' <=>
                 Cardinality(Refreshes(queue')) + Armed(refreshTimer') + Armed(reconcileTimer')
                     <= 1 + faults'
           /\ Cardinality(Refreshes(queue)) \in Nat /\ faults \in Nat
<1>1. queue \in Seq(Operations) /\ faults \in Nat
  BY WatchdogAssumption DEF IInv, TypeInv
<1> QED
  BY <1>1, RefreshesFinite DEF ReconcilesDoNotPileUp, Refreshes, Armed

LEMMA ArmedIs ==
    /\ Armed(TRUE) = 1 /\ Armed(FALSE) = 0
    /\ \A b : Armed(b) \in {0, 1}
BY DEF Armed

\* Files, events and reports bring no refresh, a timer brings the one that it
\* was armed for.
LEMMA ComingRefreshes ==
    ASSUME IInv, Timers \/ \E p \in Paths : Put(p) \/ Delete(p) \/ WatchEvent(p) \/ ReportPath(p)
    PROVE  /\ faults' = faults
           /\ Cardinality(Refreshes(queue')) + Armed(refreshTimer') + Armed(reconcileTimer')
                 = Cardinality(Refreshes(queue)) + Armed(refreshTimer) + Armed(reconcileTimer)
<1>1. queue \in Seq(Operations) /\ Cardinality(Refreshes(queue)) \in Nat
  BY TimersAndRefreshes DEF IInv, TypeInv
<1>2. ASSUME NEW op \in Operations, queue' = Append(queue, op)
      PROVE  Cardinality(Refreshes(queue')) =
                Cardinality(Refreshes(queue)) + Armed(op.kind = "refresh")
  BY <1>1, <1>2, RefreshComes
<1>3. ASSUME NEW p \in Paths, Put(p) \/ Delete(p) \/ WatchEvent(p)
      PROVE  UNCHANGED <<queue, refreshTimer, reconcileTimer, faults>>
  BY <1>3 DEF Put, Delete, Change, WatchEvent, timerVars
<1>4. PICK refresh \in Operations : refresh = RefreshOperation /\ refresh.kind = "refresh"
  <2>1. {} \in SUBSET Paths
    OBVIOUS
  <2>2. RefreshOperation \in Operations /\ RefreshOperation.kind = "refresh"
    BY <2>1, OperationType DEF RefreshOperation
  <2> QED
    BY <2>2
<1>5. CASE RefreshFires
  <2>1. /\ refreshTimer /\ refreshTimer' = FALSE /\ queue' = Append(queue, refresh)
        /\ reconcileTimer' = reconcileTimer /\ faults' = faults
    BY <1>4, <1>5 DEF RefreshFires, Enqueue
  <2>2. /\ Armed(refreshTimer) = 1 /\ Armed(refreshTimer') = 0
        /\ Armed(refresh.kind = "refresh") = 1
    BY <1>4, <2>1 DEF Armed
  <2>3. Cardinality(Refreshes(queue')) = Cardinality(Refreshes(queue)) + 1
    BY <1>2, <2>1, <2>2
  <2>4. /\ Armed(reconcileTimer') = Armed(reconcileTimer) /\ Armed(reconcileTimer) \in {0, 1}
        /\ faults' = faults
    BY <2>1 DEF Armed
  <2> QED
    BY <1>1, <2>2, <2>3, <2>4
<1>6. CASE ReconcileFires
  <2>1. /\ reconcileTimer /\ reconcileTimer' = FALSE /\ queue' = Append(queue, refresh)
        /\ refreshTimer' = refreshTimer /\ faults' = faults
    BY <1>4, <1>6 DEF ReconcileFires, Enqueue
  <2>2. /\ Armed(reconcileTimer) = 1 /\ Armed(reconcileTimer') = 0
        /\ Armed(refresh.kind = "refresh") = 1
    BY <1>4, <2>1 DEF Armed
  <2>3. Cardinality(Refreshes(queue')) = Cardinality(Refreshes(queue)) + 1
    BY <1>2, <2>1, <2>2
  <2>4. /\ Armed(refreshTimer') = Armed(refreshTimer) /\ Armed(refreshTimer) \in {0, 1}
        /\ faults' = faults
    BY <2>1 DEF Armed
  <2> QED
    BY <1>1, <2>2, <2>3, <2>4
<1>7. CASE PathSyncFires \/ \E p \in Paths : ReportPath(p)
  <2>1. \E op \in Operations : op.kind = "sync" /\ queue' = Append(queue, op)
    <3>1. CASE PathSyncFires
      <4>1. Operation("sync", pending, {}, NoReport) \in Operations
            /\ Operation("sync", pending, {}, NoReport).kind = "sync"
        <5>1. pending \in SUBSET Paths /\ {} \in SUBSET Paths
          BY DEF IInv, TypeInv
        <5> QED
          BY <5>1, OperationType
      <4> QED
        BY <3>1, <4>1 DEF PathSyncFires, Enqueue
    <3>2. ASSUME NEW p \in Paths, ReportPath(p)
          PROVE  \E op \in Operations : op.kind = "sync" /\ queue' = Append(queue, op)
      BY <3>2, ReportQueued
    <3> QED
      BY <1>7, <3>1, <3>2
  <2>2. PICK op \in Operations : op.kind = "sync" /\ queue' = Append(queue, op)
    BY <2>1
  <2>3. Armed(op.kind = "refresh") = 0
    BY <2>2 DEF Armed
  <2>4. Cardinality(Refreshes(queue')) = Cardinality(Refreshes(queue))
    BY <1>1, <1>2, <2>2, <2>3
  <2>5. UNCHANGED <<refreshTimer, reconcileTimer, faults>>
    BY <1>7 DEF PathSyncFires, ReportPath, timerVars
  <2> QED
    BY <2>4, <2>5
<1> QED
  BY <1>3, <1>5, <1>6, <1>7 DEF Timers

\* Of the running operation nothing is left, or it goes on.
LEMMA RunningRefreshes ==
    ASSUME IInv, RunOperation \/ OperationFails
    PROVE  \/ /\ Cardinality(Refreshes(queue')) = Cardinality(Refreshes(queue))
              /\ UNCHANGED <<refreshTimer, reconcileTimer, faults>>
           \/ /\ Cardinality(Refreshes(queue')) = Cardinality(Refreshes(queue)) - 1
              /\ UNCHANGED <<refreshTimer, faults>>
           \/ /\ Cardinality(Refreshes(queue')) = Cardinality(Refreshes(queue))
              /\ reconcileTimer' = reconcileTimer /\ faults' = faults + 1
           \/ /\ Cardinality(Refreshes(queue')) = Cardinality(Refreshes(queue)) - 1
              /\ refreshTimer' = refreshTimer /\ faults' = faults + 1
<1>1. queue \in Seq(Operations) /\ Cardinality(Refreshes(queue)) \in Nat
  BY TimersAndRefreshes DEF IInv, TypeInv
<1>2. 1 \in DOMAIN queue
  BY DEF RunOperation, OperationFails, MayRun
<1>3. ASSUME queue' = RemoveAt(queue, 1), queue[1].kind = "sync"
      PROVE  Cardinality(Refreshes(queue')) = Cardinality(Refreshes(queue))
  <2>1. Armed(queue[1].kind = "refresh") = 0
    BY <1>3 DEF Armed
  <2> QED
    BY <1>1, <1>2, <1>3, <2>1, RefreshLeaves
<1>4. ASSUME queue' = RemoveAt(queue, 1), queue[1].kind = "refresh"
      PROVE  Cardinality(Refreshes(queue')) = Cardinality(Refreshes(queue)) - 1
  <2>1. Armed(queue[1].kind = "refresh") = 1
    BY <1>4 DEF Armed
  <2> QED
    BY <1>1, <1>2, <1>4, <2>1, RefreshLeaves
<1>5. CASE BeginSync(1)
  <2>1. queue[1].kind = "sync" /\ UNCHANGED <<refreshTimer, reconcileTimer, faults>>
    BY <1>5 DEF BeginSync, timerVars
  <2>2. CASE queue' = RemoveAt(queue, 1)
    BY <1>2, <1>3, <2>1, <2>2
  <2>3. CASE queue' # RemoveAt(queue, 1)
    <3>1. PICK m : queue' = [queue EXCEPT ![1].step = "indexed", ![1].marked = m]
      BY <1>5, <2>3 DEF BeginSync
    <3>2. DOMAIN queue' = DOMAIN queue /\ \A i \in DOMAIN queue : queue'[i].kind = queue[i].kind
      <4>1. PICK o \in Operations : o = queue[1]
        BY <1>1, <1>2
      <4>2. [[o EXCEPT !.step = "indexed"] EXCEPT !.marked = m].kind = o.kind
        BY DEF Operations
      <4> QED
        BY <1>2, <3>1, <4>1, <4>2
    <3>3. Refreshes(queue') = Refreshes(queue)
      BY <3>2, RefreshesGoOn
    <3> QED
      BY <1>2, <2>1, <3>3
  <2> QED
    BY <2>2, <2>3
<1>6. ASSUME NEW p \in Paths, ScanPath(1, p)
      PROVE  /\ UNCHANGED <<refreshTimer, reconcileTimer, faults>>
             /\ Cardinality(Refreshes(queue')) = Cardinality(Refreshes(queue))
  <2>1. \E step, seen : queue' = [queue EXCEPT ![1].step = step, ![1].seen = seen]
    BY <1>6 DEF ScanPath
  <2>2. PICK step, seen : queue' = [queue EXCEPT ![1].step = step, ![1].seen = seen]
    BY <2>1
  <2>3. DOMAIN queue' = DOMAIN queue /\ \A i \in DOMAIN queue : queue'[i].kind = queue[i].kind
    <3>1. PICK o \in Operations : o = queue[1]
      BY <1>1, <1>2
    <3>2. [[o EXCEPT !.step = step] EXCEPT !.seen = seen].kind = o.kind
      BY DEF Operations
    <3> QED
      BY <1>2, <2>2, <3>1, <3>2
  <2>4. Refreshes(queue') = Refreshes(queue)
    BY <2>3, RefreshesGoOn
  <2> QED
    BY <1>6, <2>4 DEF ScanPath, timerVars
<1>7. CASE EndSync(1)
  BY <1>2, <1>3, <1>7 DEF EndSync, timerVars
<1>8. CASE EndRefresh(1)
  BY <1>2, <1>4, <1>8 DEF EndRefresh
<1>9. CASE SyncFails(1)
  BY <1>2, <1>3, <1>9 DEF SyncFails
<1>10. CASE HandlersFail(1)
  BY <1>2, <1>3, <1>10 DEF HandlersFail
<1>11. CASE RefreshFails(1)
  BY <1>2, <1>4, <1>11 DEF RefreshFails
<1> QED
  BY <1>2, <1>5, <1>6, <1>7, <1>8, <1>9, <1>10, <1>11 DEF RunOperation, OperationFails, MayRun

\* scheduleNextReconcile arms the timer only when the refresh before it is over:
\* beside that one refresh, which is armed, queued or running, there are at most
\* those that failed syncs asked for (watchdog.js).
THEOREM ReconcilesBounded == Spec => []ReconcilesDoNotPileUp
<1>1. ASSUME Init, IInv PROVE ReconcilesDoNotPileUp
  <2>1. PICK op \in Operations : op = RefreshOperation
    BY OperationType DEF RefreshOperation
  <2>2. <<>> \in Seq(Operations) /\ queue = Append(<<>>, op)
    BY <1>1, <2>1 DEF Init
  <2>3. Refreshes(<<>>) = {}
    BY DEF Refreshes
  <2>4. Cardinality(Refreshes(<<>>)) = 0
    BY <2>3, FS_EmptySet
  <2>5. Cardinality(Refreshes(queue)) = 0 + Armed(op.kind = "refresh")
    BY <2>2, <2>4, RefreshComes
  <2>6. /\ Armed(refreshTimer) = 0 /\ Armed(reconcileTimer) = 0 /\ faults = 0
        /\ Armed(op.kind = "refresh") \in {0, 1}
    BY <1>1 DEF Init, Armed
  <2>7. Cardinality(Refreshes(queue)) + Armed(refreshTimer) + Armed(reconcileTimer) <= 1 + faults
    BY <2>5, <2>6
  <2> QED
    BY <1>1, <2>7, TimersAndRefreshes
<1>2. ASSUME IInv, [Next]_vars, ReconcilesDoNotPileUp PROVE ReconcilesDoNotPileUp'
  <2> DEFINE count == Cardinality(Refreshes(queue))
  <2>1. /\ count \in Nat /\ faults \in Nat
        /\ count + Armed(refreshTimer) + Armed(reconcileTimer) <= 1 + faults
    BY <1>2, TimersAndRefreshes
  <2>2. SUFFICES Cardinality(Refreshes(queue')) + Armed(refreshTimer') + Armed(reconcileTimer')
                    <= 1 + faults'
    BY <1>2, TimersAndRefreshes
  <2>3. CASE UNCHANGED vars
    BY <2>1, <2>3 DEF vars, timerVars
  <2>4. CASE Timers \/ \E p \in Paths : Put(p) \/ Delete(p) \/ WatchEvent(p) \/ ReportPath(p)
    BY <1>2, <2>1, <2>4, ComingRefreshes
  <2>5. CASE RunOperation \/ OperationFails
    <3>1. /\ Armed(refreshTimer) \in {0, 1} /\ Armed(reconcileTimer) \in {0, 1}
          /\ Armed(refreshTimer') \in {0, 1} /\ Armed(reconcileTimer') \in {0, 1}
      BY ArmedIs
    <3>2. \/ /\ Cardinality(Refreshes(queue')) = count
             /\ UNCHANGED <<refreshTimer, reconcileTimer, faults>>
          \/ /\ Cardinality(Refreshes(queue')) = count - 1
             /\ UNCHANGED <<refreshTimer, faults>>
          \/ /\ Cardinality(Refreshes(queue')) = count
             /\ reconcileTimer' = reconcileTimer /\ faults' = faults + 1
          \/ /\ Cardinality(Refreshes(queue')) = count - 1
             /\ refreshTimer' = refreshTimer /\ faults' = faults + 1
      BY <1>2, <2>5, RunningRefreshes
    <3> HIDE DEF count
    <3> QED
      BY <2>1, <3>1, <3>2
  <2> QED
    BY <1>2, <2>3, <2>4, <2>5 DEF Next
<1> QED
  BY <1>1, <1>2, InitIInv, IInvHolds, PTL DEF Spec
=============================================================================
