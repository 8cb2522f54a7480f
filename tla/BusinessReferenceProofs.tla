------------------------ MODULE BusinessReferenceProofs ------------------------
(***************************************************************************)
(* Proofs about BusinessReference, for any number of rows and workers.     *)
(*                                                                         *)
(* Inv is the inductive invariant.  Its data part (DataInv) is preserved   *)
(* by a step in which one worker takes locks and writes only rows it has   *)
(* write-locked (WriteStep), by the end of a transaction and by the        *)
(* autocommitted insert; its control part says what a worker has locked    *)
(* when it allocates and when it propagates a reference.                   *)
(*                                                                         *)
(* LiveInv, on top of it, says that no statement after an allocation takes *)
(* the root out of its live status before the commit.  SerialInv says what *)
(* a request that runs alone has still to link.                            *)
(***************************************************************************)
EXTENDS MCBusinessReference, TLAPS

-----------------------------------------------------------------------------
(* The inductive invariant *)

\* No two workers hold conflicting locks of a row.
LocksCompatible ==
  \A v, w \in Workers : \A r \in Rows : v # w => lock[v][r] + lock[w][r] < 4

\* A row nobody has write-locked has one version.
Clean == \A r \in Rows : (\A w \in Workers : lock[w][r] < 2) => cur[r] = row[r]

\* An uncommitted version keeps the reference of the committed one.
LinkKept == \A r \in Rows : row[r].bt # None => cur[r].bt = row[r].bt

\* Every reference carried is a registered one.
LinksRegistered ==
  /\ \A r \in Rows : row[r].bt # None => \E b \in registry : b.ref = row[r].bt
  /\ \A w \in Workers : \A r \in Rows :
       lock[w][r] >= 2 /\ cur[r].bt # None => \E b \in Registered(w) : b.ref = cur[r].bt

\* The reference is the parent's, in the committed version and in a worker's own.
Inherited ==
  /\ InheritsReference
  /\ \A w \in Workers : \A r \in Rows :
       lock[w][r] >= 2 /\ cur[r].bt # None /\ cur[r].parent # None
         => View(w, cur[r].parent).bt = cur[r].bt

\* Who has taken numbers, and which.
Tickets ==
  /\ counter <= ticket
  /\ (\A w \in Workers : alloc[w] = {}) => ticket = counter
  /\ \A v, w \in Workers : alloc[v] # {} /\ alloc[w] # {} => v = w
  /\ \A w \in Workers : \A b \in alloc[w] : counter < b.ref /\ b.ref <= ticket
  /\ \A w \in Workers : alloc[w] # {} =>
       \A n \in Nat : counter < n /\ n <= ticket => \E b \in alloc[w] : b.ref = n
  /\ \A b \in registry : 1 <= b.ref /\ b.ref <= counter
  /\ \A n \in Nat : 1 <= n /\ n <= counter => \E b \in registry : b.ref = n

\* One reference per root, counting the rows a worker has not committed yet.
UniqueIn(refs) == \A a, b \in refs : a.ref = b.ref \/ a.root = b.root => a = b

Unique == UniqueIn(registry) /\ \A w \in Workers : UniqueIn(Registered(w))

\* A root carries its reference from the allocation on.
Carried ==
  /\ RootCarriesReference
  /\ \A w \in Workers : \A b \in alloc[w] : lock[w][b.root] >= 2 /\ cur[b.root].bt = b.ref

DataInv == /\ LocksCompatible /\ Clean /\ LinkKept /\ LinksRegistered
           /\ Inherited /\ Tickets /\ Unique /\ Carried

\* A worker that allocates or propagates has locked the root.
ControlOf(w) ==
  /\ pc[w] # "idle" => job[w].row \in Rows
  /\ pc[w] \in {"enquiry", "insert"} => job[w].status # Keep
  /\ pc[w] = "enquiry" => job[w].root = job[w].row
  /\ pc[w] \in {"root", "allocate", "propagate", "link"} => job[w].root \in Rows
  /\ pc[w] = "allocate" => lock[w][job[w].root] = 3 /\ cur[job[w].root].bt = None
  /\ pc[w] \in {"propagate", "link"} => lock[w][job[w].root] = 3 /\ cur[job[w].root].bt # None

Control == \A w \in Workers : ControlOf(w)

Inv == TypeOK /\ DataInv /\ Control

-----------------------------------------------------------------------------
(* Locks *)

\* Wanted is a lock mode.
LEMMA WantedMode == \A w \in Workers, r \in Rows : Wanted(w, r) \in 0..3
BY DEF Wanted, Update, NoKeyUpdate, KeyShare, NoLock

\* What the statement of a worker that is granted its locks may rely on.
Granted(w) ==
  /\ lock' \in [Workers -> [Rows -> 0..3]]
  /\ \A v \in Workers \ {w} : lock'[v] = lock[v]
  /\ \A r \in Rows : lock'[w][r] >= lock[w][r] /\ lock'[w][r] >= Wanted(w, r)
  /\ \A r \in Rows : lock'[w][r] = lock[w][r] \/ lock'[w][r] = Wanted(w, r)
  /\ \A r \in Rows : \A v \in Workers \ {w} : lock[v][r] + lock'[w][r] < 4

\* Acquire grants the wanted locks, and leaves the locks of all workers compatible.
LEMMA AcquireGrants ==
  ASSUME TypeOK, LocksCompatible, NEW w \in Workers, Acquire(w)
  PROVE  Granted(w)
<1> DEFINE L == [r \in Rows |-> MaxMode(lock[w][r], Wanted(w, r))]
<1>1. lock' = [lock EXCEPT ![w] = L]
  BY DEF Acquire
<1>2. L \in [Rows -> 0..3]
  BY WantedMode DEF MaxMode, TypeOK
<1>3. lock'[w] = L /\ \A v \in Workers \ {w} : lock'[v] = lock[v]
  BY <1>1 DEF TypeOK
<1>4. lock' \in [Workers -> [Rows -> 0..3]]
  BY <1>1, <1>2 DEF TypeOK
<1>5. ASSUME NEW r \in Rows
      PROVE  /\ L[r] >= lock[w][r] /\ L[r] >= Wanted(w, r)
             /\ L[r] = lock[w][r] \/ L[r] = Wanted(w, r)
  BY WantedMode DEF MaxMode, TypeOK
<1>6. ASSUME NEW r \in Rows, NEW v \in Workers \ {w}
      PROVE  lock[v][r] + L[r] < 4
  <2>1. lock[v][r] + lock[w][r] < 4
    BY DEF LocksCompatible
  <2>2. ~(lock[v][r] + Wanted(w, r) >= 4)
    BY DEF Acquire, Blockers
  <2>3. lock[v][r] \in 0..3 /\ lock[w][r] \in 0..3 /\ Wanted(w, r) \in 0..3
    BY WantedMode DEF TypeOK
  <2> QED
    BY <1>5, <2>1, <2>2, <2>3
<1> HIDE DEF L
<1> QED
  BY <1>3, <1>4, <1>5, <1>6 DEF Granted

-----------------------------------------------------------------------------
(* A step that writes rows *)

\* w, granted its locks, writes rows it has write-locked: it changes no reference but a
\* missing one, into a registered reference that agrees with the row's parent.
WriteStep(w) ==
  /\ Granted(w)
  /\ UNCHANGED <<row, counter, registry>>
  /\ cur' \in [Rows -> RowRec]
  /\ alloc[w] \subseteq alloc'[w]
  /\ \A v \in Workers \ {w} : alloc'[v] = alloc[v]
  /\ \A r \in Rows : cur[r].bt # None => cur'[r].bt = cur[r].bt
  /\ \A r \in Rows : cur'[r] # cur[r] =>
       /\ lock'[w][r] >= 2
       /\ cur'[r].bt # None => \E b \in registry \union alloc'[w] : b.ref = cur'[r].bt
       /\ cur'[r].bt # None /\ cur'[r].parent # None => View(w, cur'[r].parent).bt = cur'[r].bt

\* A worker that has just locked a row sees the version it saw before.
LEMMA LockedRowIsCurrent ==
  ASSUME TypeOK, LocksCompatible, Clean, NEW w \in Workers, Granted(w),
         NEW r \in Rows, lock'[w][r] >= 2
  PROVE  View(w, r) = cur[r]
<1>1. CASE lock[w][r] >= 2
  BY <1>1 DEF View, NoKeyUpdate
<1>2. CASE ~(lock[w][r] >= 2)
  <2>1. ASSUME NEW v \in Workers \ {w}
        PROVE  lock[v][r] < 2
    <3>1. lock[v][r] \in 0..3 /\ lock'[w][r] \in 0..3 /\ lock[v][r] + lock'[w][r] < 4
      BY DEF Granted, TypeOK
    <3> QED
      BY <3>1
  <2>2. lock[w][r] < 2
    BY <1>2 DEF TypeOK
  <2>3. cur[r] = row[r]
    BY <2>1, <2>2 DEF Clean
  <2> QED
    BY <2>3, <1>2 DEF View, NoKeyUpdate
<1> QED
  BY <1>1, <1>2

\* Only the worker that takes the step has write-locked a row it may change.
LEMMA OneWriter ==
  ASSUME TypeOK, NEW w \in Workers, Granted(w), NEW v \in Workers, NEW r \in Rows,
         lock'[w][r] >= 2, lock'[v][r] >= 2
  PROVE  v = w
<1> SUFFICES ASSUME v # w
             PROVE  FALSE
  OBVIOUS
<1>1. lock'[v] = lock[v] /\ lock[v][r] + lock'[w][r] < 4
  BY DEF Granted
<1>2. lock'[v][r] \in 0..3 /\ lock'[w][r] \in 0..3
  BY DEF Granted
<1> QED
  BY <1>1, <1>2

\* What a worker sees keeps its reference when the worker or another one writes.
LEMMA ViewKeepsReference ==
  ASSUME TypeOK, LocksCompatible, Clean, NEW w \in Workers, WriteStep(w),
         NEW v \in Workers, NEW r \in Rows, View(v, r).bt # None
  PROVE  View(v, r)'.bt = View(v, r).bt
<1> USE DEF NoKeyUpdate
<1>1. CASE v = w
  <2>1. CASE lock'[w][r] >= 2
    BY <2>1, <1>1, LockedRowIsCurrent DEF View, WriteStep
  <2>2. CASE ~(lock'[w][r] >= 2)
    BY <2>2, <1>1 DEF View, WriteStep, Granted, TypeOK
  <2> QED
    BY <2>1, <2>2
<1>2. CASE v # w
  BY <1>2 DEF View, WriteStep, Granted, TypeOK
<1> QED
  BY <1>1, <1>2

\* A write step preserves every part of DataInv that does not speak of new allocations.
LEMMA WriteStepData ==
  ASSUME TypeOK, DataInv, NEW w \in Workers, WriteStep(w)
  PROVE  /\ LocksCompatible' /\ Clean' /\ LinkKept' /\ LinksRegistered' /\ Inherited'
         /\ RootCarriesReference'
         /\ \A v \in Workers : \A b \in alloc[v] : lock'[v][b.root] >= 2 /\ cur'[b.root].bt = b.ref
<1> USE DEF DataInv
<1>1. LocksCompatible'
  <2> SUFFICES ASSUME NEW v \in Workers, NEW u \in Workers, NEW r \in Rows, v # u
               PROVE  lock'[v][r] + lock'[u][r] < 4
    BY DEF LocksCompatible
  <2>1. CASE v # w /\ u # w
    BY <2>1 DEF LocksCompatible, WriteStep, Granted
  <2>2. CASE v = w
    <3>1. lock'[v][r] \in 0..3 /\ lock'[u][r] \in 0..3
      BY DEF WriteStep, Granted
    <3> QED
      BY <2>2, <3>1 DEF WriteStep, Granted
  <2>3. CASE u = w
    <3>1. lock'[v][r] \in 0..3 /\ lock'[u][r] \in 0..3
      BY DEF WriteStep, Granted
    <3> QED
      BY <2>3, <3>1 DEF WriteStep, Granted
  <2> QED
    BY <2>1, <2>2, <2>3
<1>2. Clean'
  <2> SUFFICES ASSUME NEW r \in Rows, \A v \in Workers : lock'[v][r] < 2
               PROVE  cur'[r] = row[r]
    BY DEF Clean, WriteStep
  <2>1. lock'[w][r] \in 0..3
    BY DEF WriteStep, Granted
  <2>2. cur'[r] = cur[r]
    BY <2>1 DEF WriteStep
  <2>3. \A v \in Workers : lock[v][r] < 2
    <3> SUFFICES ASSUME NEW v \in Workers
                 PROVE  lock[v][r] < 2
      OBVIOUS
    <3>1. lock'[v][r] >= lock[v][r] /\ lock[v][r] \in 0..3 /\ lock'[v][r] \in 0..3
      BY DEF WriteStep, Granted, TypeOK
    <3> QED
      BY <3>1
  <2> QED
    BY <2>2, <2>3 DEF Clean
<1>3. LinkKept'
  BY DEF LinkKept, WriteStep
<1>4. LinksRegistered'
  <2>1. ASSUME NEW v \in Workers, NEW r \in Rows, lock'[v][r] >= 2, cur'[r].bt # None
        PROVE  \E b \in registry \union alloc'[v] : b.ref = cur'[r].bt
    <3>1. CASE cur'[r] # cur[r]
      <4>1. lock'[w][r] >= 2
        BY <3>1 DEF WriteStep
      <4>2. v = w
        BY <4>1, <2>1, OneWriter DEF WriteStep
      <4> QED
        BY <3>1, <4>2, <2>1 DEF WriteStep
    <3>2. CASE cur'[r] = cur[r] /\ lock[v][r] >= 2
      BY <3>2, <2>1 DEF LinksRegistered, Registered, WriteStep
    <3>3. CASE cur'[r] = cur[r] /\ ~(lock[v][r] >= 2)
      <4>1. v = w
        BY <3>3, <2>1 DEF WriteStep, Granted
      <4>2. View(w, r) = cur[r]
        BY <4>1, <2>1, LockedRowIsCurrent DEF WriteStep
      <4>3. row[r].bt # None /\ row[r].bt = cur'[r].bt
        BY <4>1, <4>2, <3>3, <2>1 DEF View, NoKeyUpdate
      <4> QED
        BY <4>3 DEF LinksRegistered
    <3> QED
      BY <3>1, <3>2, <3>3
  <2> QED
    BY <2>1 DEF LinksRegistered, Registered, WriteStep
<1>5. Inherited'
  <2>1. InheritsReference'
    BY DEF Inherited, InheritsReference, WriteStep
  <2>2. ASSUME NEW v \in Workers, NEW r \in Rows,
               lock'[v][r] >= 2, cur'[r].bt # None, cur'[r].parent # None
        PROVE  View(v, cur[r].parent)'.bt = cur'[r].bt
    <3>0. PICK p \in Rows : p = cur'[r].parent
      BY <2>2 DEF WriteStep, RowRec
    <3>1. View(v, p).bt = cur'[r].bt
      <4>1. CASE cur'[r] # cur[r]
        <5>1. lock'[w][r] >= 2
          BY <4>1 DEF WriteStep
        <5>2. v = w
          BY <5>1, <2>2, OneWriter DEF WriteStep
        <5> QED
          BY <3>0, <4>1, <5>2, <2>2 DEF WriteStep
      <4>2. CASE cur'[r] = cur[r] /\ lock[v][r] >= 2
        BY <3>0, <4>2, <2>2 DEF Inherited
      <4>3. CASE cur'[r] = cur[r] /\ ~(lock[v][r] >= 2)
        <5>1. v = w
          BY <4>3, <2>2 DEF WriteStep, Granted
        <5>2. View(w, r) = cur[r]
          BY <5>1, <2>2, LockedRowIsCurrent DEF WriteStep
        <5>3. row[r] = cur'[r]
          BY <5>1, <5>2, <4>3 DEF View, NoKeyUpdate
        <5>4. row[p].bt = cur'[r].bt
          BY <3>0, <5>3, <2>2 DEF Inherited, InheritsReference
        <5>5. View(v, p).bt = row[p].bt
          BY <5>4, <2>2, <3>0 DEF View, LinkKept
        <5> QED
          BY <5>4, <5>5
      <4> QED
        BY <4>1, <4>2, <4>3
    <3>2. View(v, p).bt # None
      BY <3>1, <2>2
    <3>3. View(v, p)'.bt = View(v, p).bt
      BY <3>0, <3>2, ViewKeepsReference
    <3> QED
      BY <3>0, <3>1, <3>3 DEF View
  <2> QED
    BY <2>1, <2>2 DEF Inherited
<1>6. RootCarriesReference'
  BY DEF Carried, RootCarriesReference, WriteStep
<1>7. ASSUME NEW v \in Workers, NEW b \in alloc[v]
      PROVE  lock'[v][b.root] >= 2 /\ cur'[b.root].bt = b.ref
  <2>1. b \in RefRec /\ b.ref # None /\ b.root \in Rows
    BY NullAssumption DEF TypeOK, RefRec
  <2>2. lock[v][b.root] >= 2 /\ cur[b.root].bt = b.ref
    BY DEF Carried
  <2>3. lock'[v][b.root] >= lock[v][b.root]
    BY <2>1 DEF WriteStep, Granted, TypeOK
  <2>4. lock[v][b.root] \in 0..3 /\ lock'[v][b.root] \in 0..3
    BY <2>1 DEF WriteStep, Granted, TypeOK
  <2> QED
    BY <2>1, <2>2, <2>3, <2>4 DEF WriteStep
<1> QED
  BY <1>1, <1>2, <1>3, <1>4, <1>5, <1>6, <1>7

-----------------------------------------------------------------------------
(* Steps that leave the rows alone, and the end of a transaction *)

dataVars == <<row, cur, lock, counter, ticket, registry, alloc>>

\* A step that changes only control state preserves DataInv.
LEMMA DataStutter ==
  ASSUME DataInv, UNCHANGED dataVars
  PROVE  DataInv'
BY DEF DataInv, dataVars, LocksCompatible, Clean, LinkKept, LinksRegistered, Inherited,
       InheritsReference, Tickets, Unique, UniqueIn, Carried, RootCarriesReference, View, Registered

\* A commit publishes the worker's rows, references and counter.
LEMMA CommitData ==
  ASSUME TypeOK, DataInv, NEW w \in Workers, Commit(w)
  PROVE  DataInv'
<1> USE DEF DataInv, NoKeyUpdate, NoLock
<1>1. /\ \A r \in Rows : row'[r] = IF lock[w][r] >= 2 THEN cur[r] ELSE row[r]
      /\ \A r \in Rows : lock'[w][r] = 0
      /\ \A v \in Workers \ {w} : lock'[v] = lock[v] /\ alloc'[v] = alloc[v]
      /\ alloc'[w] = {}
      /\ registry' = registry \union alloc[w]
      /\ counter' = IF alloc[w] = {} THEN counter ELSE ticket
      /\ ticket' = ticket /\ cur' = cur
  BY DEF Commit, Release, Registered, TypeOK
<1>2. LocksCompatible'
  <2> SUFFICES ASSUME NEW v \in Workers, NEW u \in Workers, NEW r \in Rows, v # u
               PROVE  lock'[v][r] + lock'[u][r] < 4
    BY DEF LocksCompatible
  <2>1. lock[v][r] \in 0..3 /\ lock[u][r] \in 0..3
    BY DEF TypeOK
  <2>2. lock[v][r] + lock[u][r] < 4
    BY DEF LocksCompatible
  <2>3. lock'[v][r] \in {0, lock[v][r]} /\ lock'[u][r] \in {0, lock[u][r]}
    BY <1>1
  <2> QED
    BY <2>1, <2>2, <2>3
<1>3. Clean'
  <2> SUFFICES ASSUME NEW r \in Rows, \A v \in Workers : lock'[v][r] < 2
               PROVE  cur'[r] = row'[r]
    BY DEF Clean
  <2>1. CASE lock[w][r] >= 2
    BY <1>1, <2>1
  <2>2. CASE ~(lock[w][r] >= 2)
    <3>1. lock[w][r] < 2
      BY <2>2 DEF TypeOK
    <3>2. \A v \in Workers : lock[v][r] < 2
      BY <1>1, <3>1
    <3>3. cur[r] = row[r]
      BY <3>2 DEF Clean
    <3> QED
      BY <1>1, <2>2, <3>3
  <2> QED
    BY <2>1, <2>2
<1>4. LinkKept'
  BY <1>1 DEF LinkKept
<1>5. LinksRegistered'
  BY <1>1 DEF LinksRegistered, Registered
<1>6. Inherited'
  <2>1. \A r \in Rows : row'[r] = View(w, r)
    BY <1>1 DEF View
  <2>2. \A r \in Rows : row[r].bt # None => row'[r].bt = row[r].bt
    BY <1>1 DEF LinkKept
  <2>3. ASSUME NEW r \in Rows, row'[r].bt # None, row'[r].parent # None
        PROVE  row'[row'[r].parent].bt = row'[r].bt
    <3>1. PICK p \in Rows : p = row'[r].parent
      BY <1>1, <2>3 DEF TypeOK, RowRec
    <3>2. CASE lock[w][r] >= 2
      BY <1>1, <2>1, <2>3, <3>1, <3>2 DEF Inherited
    <3>3. CASE ~(lock[w][r] >= 2)
      BY <1>1, <2>2, <2>3, <3>1, <3>3 DEF Inherited, InheritsReference
    <3> QED
      BY <3>2, <3>3
  <2>4. ASSUME NEW v \in Workers, NEW r \in Rows,
               lock'[v][r] >= 2, cur'[r].bt # None, cur'[r].parent # None
        PROVE  View(v, cur[r].parent)'.bt = cur'[r].bt
    <3>1. PICK p \in Rows : p = cur[r].parent
      BY <1>1, <2>4 DEF TypeOK, RowRec
    <3>2. lock'[v] = lock[v] /\ lock[v][r] >= 2
      BY <1>1, <2>4
    <3>3. View(v, p).bt = cur[r].bt
      BY <1>1, <2>4, <3>1, <3>2 DEF Inherited
    <3>4. View(v, p)'.bt = View(v, p).bt
      BY <1>1, <2>2, <2>4, <3>2, <3>3 DEF View
    <3> QED
      BY <1>1, <3>1, <3>3, <3>4
  <2> QED
    BY <2>3, <2>4 DEF Inherited, InheritsReference
<1>7. Tickets'
  <2>1. CASE alloc[w] = {}
    <3>1. alloc' = alloc /\ counter' = counter /\ registry' = registry
      BY <1>1, <2>1 DEF TypeOK, Commit, Release, Registered
    <3> QED
      BY <1>1, <3>1 DEF Tickets
  <2>2. CASE alloc[w] # {}
    <3>1. \A v \in Workers : alloc'[v] = {}
      BY <1>1, <2>2 DEF Tickets
    <3>2. counter' = ticket /\ ticket' = ticket
      BY <1>1, <2>2
    <3>3. \A b \in registry' : 1 <= b.ref /\ b.ref <= ticket
      BY <1>1, <2>2 DEF Tickets, TypeOK, RefRec
    <3>4. ASSUME NEW n \in Nat, 1 <= n, n <= ticket
          PROVE  \E b \in registry' : b.ref = n
      <4>1. CASE n <= counter
        BY <1>1, <3>4, <4>1 DEF Tickets
      <4>2. CASE counter < n
        BY <1>1, <2>2, <3>4, <4>2 DEF Tickets
      <4> QED
        BY <4>1, <4>2 DEF TypeOK
    <3>5. counter' <= ticket'
      BY <3>2 DEF TypeOK
    <3> QED
      BY <3>1, <3>2, <3>3, <3>4, <3>5 DEF Tickets
  <2> QED
    BY <2>1, <2>2
<1>8. Unique'
  <2>1. UniqueIn(registry')
    BY <1>1 DEF Unique, Registered
  <2>2. ASSUME NEW v \in Workers
        PROVE  UniqueIn(registry' \union alloc'[v])
    <3>1. CASE alloc[w] = {}
      <4>1. alloc' = alloc /\ registry' = registry
        BY <1>1, <3>1 DEF TypeOK, Commit, Release, Registered
      <4> QED
        BY <4>1 DEF Unique, Registered
    <3>2. CASE alloc[w] # {}
      <4>1. alloc'[v] = {}
        BY <1>1, <3>2 DEF Tickets
      <4> QED
        BY <4>1, <2>1 DEF UniqueIn
    <3> QED
      BY <3>1, <3>2
  <2> QED
    BY <2>1, <2>2 DEF Unique, Registered, UniqueIn
<1>9. Carried'
  <2>1. ASSUME NEW b \in registry'
        PROVE  row'[b.root].bt = b.ref
    <3>1. b.root \in Rows /\ b.ref # None
      BY <1>1, NullAssumption DEF TypeOK, RefRec
    <3>2. CASE b \in registry
      BY <1>1, <3>1, <3>2 DEF Carried, RootCarriesReference, LinkKept
    <3>3. CASE b \in alloc[w]
      BY <1>1, <3>1, <3>3 DEF Carried
    <3> QED
      BY <1>1, <3>2, <3>3
  <2>2. ASSUME NEW v \in Workers, NEW b \in alloc'[v]
        PROVE  lock'[v][b.root] >= 2 /\ cur'[b.root].bt = b.ref
    BY <1>1, <2>2 DEF Carried
  <2> QED
    BY <2>1, <2>2 DEF Carried, RootCarriesReference
<1> QED
  BY <1>2, <1>3, <1>4, <1>5, <1>6, <1>7, <1>8, <1>9

\* A rollback forgets the worker's rows, references and numbers.
LEMMA RollbackData ==
  ASSUME TypeOK, DataInv, NEW w \in Workers, Rollback(w)
  PROVE  DataInv'
<1> USE DEF DataInv, NoKeyUpdate, NoLock
<1>1. /\ \A r \in Rows : cur'[r] = IF lock[w][r] >= 2 THEN row[r] ELSE cur[r]
      /\ \A r \in Rows : lock'[w][r] = 0
      /\ \A v \in Workers \ {w} : lock'[v] = lock[v] /\ alloc'[v] = alloc[v]
      /\ alloc'[w] = {}
      /\ registry' = registry /\ counter' = counter /\ row' = row
      /\ ticket' = IF alloc[w] = {} THEN ticket ELSE counter
  BY DEF Rollback, Release, TypeOK
<1>2. ASSUME NEW v \in Workers, NEW r \in Rows, lock'[v][r] >= 2
      PROVE  v # w /\ lock[v][r] >= 2 /\ cur'[r] = cur[r] /\ lock[w][r] < 2
  <2>1. v # w /\ lock'[v] = lock[v]
    BY <1>1, <1>2
  <2>2. lock[v][r] + lock[w][r] < 4 /\ lock[v][r] \in 0..3 /\ lock[w][r] \in 0..3
    BY <2>1 DEF LocksCompatible, TypeOK
  <2> QED
    BY <1>1, <1>2, <2>1, <2>2
<1>3. LocksCompatible'
  <2> SUFFICES ASSUME NEW v \in Workers, NEW u \in Workers, NEW r \in Rows, v # u
               PROVE  lock'[v][r] + lock'[u][r] < 4
    BY DEF LocksCompatible
  <2>1. lock[v][r] \in 0..3 /\ lock[u][r] \in 0..3
    BY DEF TypeOK
  <2>2. lock[v][r] + lock[u][r] < 4
    BY DEF LocksCompatible
  <2>3. lock'[v][r] \in {0, lock[v][r]} /\ lock'[u][r] \in {0, lock[u][r]}
    BY <1>1
  <2> QED
    BY <2>1, <2>2, <2>3
<1>4. Clean'
  <2> SUFFICES ASSUME NEW r \in Rows, \A v \in Workers : lock'[v][r] < 2
               PROVE  cur'[r] = row'[r]
    BY DEF Clean
  <2>1. CASE lock[w][r] >= 2
    BY <1>1, <2>1
  <2>2. CASE ~(lock[w][r] >= 2)
    <3>1. lock[w][r] < 2
      BY <2>2 DEF TypeOK
    <3>2. \A v \in Workers : lock[v][r] < 2
      BY <1>1, <3>1
    <3>3. cur[r] = row[r]
      BY <3>2 DEF Clean
    <3> QED
      BY <1>1, <2>2, <3>3
  <2> QED
    BY <2>1, <2>2
<1>5. LinkKept'
  BY <1>1 DEF LinkKept
<1>6. LinksRegistered'
  <2>1. ASSUME NEW v \in Workers, NEW r \in Rows, lock'[v][r] >= 2, cur'[r].bt # None
        PROVE  \E b \in registry' \union alloc'[v] : b.ref = cur'[r].bt
    BY <1>1, <1>2, <2>1 DEF LinksRegistered, Registered
  <2> QED
    BY <1>1, <2>1 DEF LinksRegistered, Registered
<1>7. Inherited'
  <2>1. InheritsReference'
    BY <1>1 DEF Inherited, InheritsReference
  <2>2. ASSUME NEW v \in Workers, NEW r \in Rows,
               lock'[v][r] >= 2, cur'[r].bt # None, cur'[r].parent # None
        PROVE  View(v, cur[r].parent)'.bt = cur'[r].bt
    <3>1. v # w /\ lock[v][r] >= 2 /\ cur'[r] = cur[r]
      BY <1>2, <2>2
    <3>2. PICK p \in Rows : p = cur'[r].parent
      BY <3>1, <2>2 DEF TypeOK, RowRec
    <3>3. View(v, p).bt = cur[r].bt
      BY <2>2, <3>1, <3>2 DEF Inherited
    <3>4. View(v, p)' = View(v, p)
      BY <1>1, <1>2, <3>1 DEF View
    <3> QED
      BY <3>1, <3>2, <3>3, <3>4
  <2> QED
    BY <2>1, <2>2 DEF Inherited
<1>8. Tickets'
  <2>1. CASE alloc[w] = {}
    <3>1. alloc' = alloc /\ ticket' = ticket
      BY <1>1, <2>1 DEF TypeOK, Rollback, Release
    <3> QED
      BY <1>1, <3>1 DEF Tickets
  <2>2. CASE alloc[w] # {}
    <3>1. \A v \in Workers : alloc'[v] = {}
      BY <1>1, <2>2 DEF Tickets
    <3> QED
      BY <1>1, <2>2, <3>1 DEF Tickets, TypeOK
  <2> QED
    BY <2>1, <2>2
<1>9. Unique'
  BY <1>1 DEF Unique, UniqueIn, Registered
<1>10. Carried'
  <2>1. ASSUME NEW v \in Workers, NEW b \in alloc'[v]
        PROVE  lock'[v][b.root] >= 2 /\ cur'[b.root].bt = b.ref
    <3>1. v # w /\ b \in alloc[v] /\ lock'[v] = lock[v] /\ b.root \in Rows
      BY <1>1, <2>1 DEF TypeOK, RefRec
    <3>2. lock[v][b.root] >= 2 /\ cur[b.root].bt = b.ref
      BY <3>1 DEF Carried
    <3> QED
      BY <1>2, <3>1, <3>2
  <2> QED
    BY <1>1, <2>1 DEF Carried, RootCarriesReference
<1> QED
  BY <1>3, <1>4, <1>5, <1>6, <1>7, <1>8, <1>9, <1>10

-----------------------------------------------------------------------------
(* The statements are write steps *)

\* A row the worker has locked carries a registered reference, its parent's.
LEMMA LockedRowKnown ==
  ASSUME TypeOK, DataInv, NEW w \in Workers, Granted(w),
         NEW r \in Rows, lock'[w][r] >= 2, cur[r].bt # None
  PROVE  /\ \E b \in Registered(w) : b.ref = cur[r].bt
         /\ cur[r].parent # None => View(w, cur[r].parent).bt = cur[r].bt
<1> USE DEF DataInv
<1>1. CASE lock[w][r] >= 2
  BY <1>1 DEF LinksRegistered, Inherited
<1>2. CASE ~(lock[w][r] >= 2)
  <2>1. row[r] = cur[r]
    BY <1>2, LockedRowIsCurrent DEF View, NoKeyUpdate
  <2>2. \E b \in Registered(w) : b.ref = cur[r].bt
    BY <2>1 DEF LinksRegistered, Registered
  <2>3. ASSUME cur[r].parent # None
        PROVE  View(w, cur[r].parent).bt = cur[r].bt
    <3>1. PICK p \in Rows : p = row[r].parent
      BY <2>1, <2>3 DEF TypeOK, RowRec
    <3>2. row[p].bt = row[r].bt
      BY <2>1, <2>3, <3>1 DEF Inherited, InheritsReference
    <3>3. View(w, p).bt = row[p].bt
      BY <2>1, <3>2 DEF View, LinkKept
    <3> QED
      BY <2>1, <3>1, <3>2, <3>3
  <2> QED
    BY <2>2, <2>3
<1> QED
  BY <1>1, <1>2

\* Setting an enquiry's status.
LEMMA SetEnquiryStatusWrites ==
  ASSUME Inv, NEW w \in Workers, SetEnquiryStatus(w)
  PROVE  WriteStep(w)
<1> DEFINE e == job[w].row
<1>1. TypeOK /\ DataInv /\ e \in Rows /\ job[w].status \in Statuses
  BY DEF Inv, Control, ControlOf, SetEnquiryStatus, TypeOK, Jobs
<1>2. Granted(w)
  BY <1>1, AcquireGrants DEF SetEnquiryStatus, DataInv
<1>3. cur' = [cur EXCEPT ![e] = [cur[e] EXCEPT !.status = job[w].status]]
  BY DEF SetEnquiryStatus
<1>4. [cur[e] EXCEPT !.status = job[w].status] \in RowRec
  <2>1. cur[e] \in RowRec
    BY <1>1 DEF TypeOK
  <2> QED
    BY <1>1, <2>1 DEF RowRec
<1>5. lock'[w][e] >= 2
  <2>1. Wanted(w, e) = 3
    BY DEF Wanted, SetEnquiryStatus, Update
  <2> QED
    BY <1>1, <1>2, <2>1 DEF Granted, TypeOK
<1>6. /\ cur[e] \in RowRec
      /\ cur'[e].bt = cur[e].bt /\ cur'[e].parent = cur[e].parent
      /\ \A r \in Rows : r # e => cur'[r] = cur[r]
  BY <1>1, <1>3 DEF TypeOK, RowRec
<1>7. cur' \in [Rows -> RowRec]
  BY <1>1, <1>3, <1>4 DEF TypeOK
<1>8. cur[e].bt # None => /\ \E b \in Registered(w) : b.ref = cur[e].bt
                          /\ cur[e].parent # None => View(w, cur[e].parent).bt = cur[e].bt
  BY <1>1, <1>2, <1>5, LockedRowKnown
<1>9. UNCHANGED <<row, counter, registry, alloc>>
  BY DEF SetEnquiryStatus
<1> HIDE DEF e
<1> QED
  BY <1>1, <1>2, <1>5, <1>6, <1>7, <1>8, <1>9 DEF WriteStep, Registered

\* Inserting a contract.
LEMMA InsertContractWrites ==
  ASSUME Inv, NEW w \in Workers, InsertContract(w)
  PROVE  WriteStep(w)
<1> DEFINE c == job[w].row
           new == [status |-> job[w].status, parent |-> job[w].parent, bt |-> None]
<1>1. TypeOK /\ DataInv /\ c \in Rows /\ job[w].status \in Statuses
  BY DEF Inv, Control, ControlOf, InsertContract, TypeOK, Jobs
<1>2. Granted(w)
  BY <1>1, AcquireGrants DEF InsertContract, DataInv
<1>3. cur' = [cur EXCEPT ![c] = new]
  BY DEF InsertContract
<1>4. new \in RowRec
  BY <1>1 DEF TypeOK, RowRec, Jobs
<1>5. lock'[w][c] >= 2
  BY <1>1, <1>2 DEF Granted, Wanted, InsertContract, NoKeyUpdate, TypeOK
<1>6. cur[c].bt = None
  BY DEF InsertContract, Fresh, AbsentRow
<1>7. UNCHANGED <<row, counter, registry, alloc>>
  BY DEF InsertContract
<1>8. cur'[c].bt = None /\ \A r \in Rows : r # c => cur'[r] = cur[r]
  BY <1>1, <1>3 DEF TypeOK
<1>9. cur' \in [Rows -> RowRec]
  BY <1>1, <1>3, <1>4 DEF TypeOK
<1> HIDE DEF c, new
<1> QED
  BY <1>1, <1>2, <1>5, <1>6, <1>7, <1>8, <1>9 DEF WriteStep

\* Updating the header of a contract.
LEMMA UpdateHeaderWrites ==
  ASSUME Inv, NEW w \in Workers, UpdateHeader(w)
  PROVE  WriteStep(w)
<1> DEFINE c == job[w].row
<1>1. TypeOK /\ DataInv /\ c \in Rows /\ job[w] \in Jobs
  BY DEF Inv, Control, ControlOf, UpdateHeader, TypeOK
<1>2. Granted(w)
  BY <1>1, AcquireGrants DEF UpdateHeader, DataInv
<1>3. cur' = [cur EXCEPT ![c] = HeaderRow(w)]
  BY DEF UpdateHeader
<1>4. HeaderRow(w) \in RowRec /\ HeaderRow(w).bt = cur[c].bt
  BY <1>1 DEF TypeOK, RowRec, Jobs, HeaderRow
<1>5. lock'[w][c] >= 2
  BY <1>1, <1>2 DEF Granted, Wanted, UpdateHeader, NoKeyUpdate, TypeOK
<1>6. cur[c].bt # None => /\ \E b \in Registered(w) : b.ref = cur[c].bt
                          /\ cur[c].parent # None => View(w, cur[c].parent).bt = cur[c].bt
  BY <1>1, <1>2, <1>5, LockedRowKnown
<1>7. HeaderRow(w).bt # None /\ HeaderRow(w).parent # None
        => View(w, HeaderRow(w).parent).bt = HeaderRow(w).bt
  <2>1. CASE MovesParent(w)
    BY <2>1 DEF UpdateHeader, HeaderAllowed, TriggerAllows
  <2>2. CASE ~MovesParent(w)
    <3>1. HeaderRow(w).parent = cur[c].parent
      BY <2>2 DEF HeaderRow
    <3> QED
      BY <3>1, <1>4, <1>6
  <2> QED
    BY <2>1, <2>2
<1>8. UNCHANGED <<row, counter, registry, alloc>>
  BY DEF UpdateHeader
<1>9. cur' \in [Rows -> RowRec]
  BY <1>1, <1>3, <1>4 DEF TypeOK
<1>10. cur'[c] = HeaderRow(w) /\ \A r \in Rows : r # c => cur'[r] = cur[r]
  BY <1>1, <1>3 DEF TypeOK
<1> HIDE DEF c
<1> QED
  BY <1>1, <1>2, <1>4, <1>5, <1>6, <1>7, <1>8, <1>9, <1>10 DEF WriteStep, Registered

\* Locking the root.
LEMMA LockRootWrites ==
  ASSUME Inv, NEW w \in Workers, LockRoot(w)
  PROVE  WriteStep(w) /\ cur' = cur /\ lock'[w][job[w].root] = 3
<1>1. TypeOK /\ DataInv /\ job[w].root \in Rows
  BY DEF Inv, Control, ControlOf, LockRoot
<1>2. Granted(w)
  BY <1>1, AcquireGrants DEF LockRoot, DataInv
<1>3. Wanted(w, job[w].root) = 3
  BY DEF Wanted, LockRoot, Update
<1>4. lock'[w][job[w].root] = 3
  BY <1>1, <1>2, <1>3 DEF Granted, TypeOK
<1> QED
  BY <1>1, <1>2, <1>4 DEF LockRoot, WriteStep, TypeOK

\* Linking related rows.
LEMMA LinkRelatedWrites ==
  ASSUME Inv, NEW w \in Workers, LinkRelated(w)
  PROVE  WriteStep(w)
<1>1. TypeOK /\ DataInv /\ job[w].root \in Rows /\ Reference(w) # None /\ lock[w][job[w].root] = 3
  BY DEF Inv, Control, ControlOf, LinkRelated, Reference
<1>2. Granted(w)
  BY <1>1, AcquireGrants DEF LinkRelated, DataInv
<1>3. cur' = [r \in Rows |-> IF r \in Targets(w) THEN Linked(w, r) ELSE cur[r]]
  BY DEF LinkRelated
<1>4. \E b \in Registered(w) : b.ref = Reference(w)
  BY <1>1 DEF DataInv, LinksRegistered, Reference
<1>5. Reference(w) \in Nat \union {None}
  BY <1>1 DEF Reference, TypeOK, RowRec
<1>6. UNCHANGED <<row, counter, registry, alloc>>
  BY DEF LinkRelated
<1>7. ASSUME NEW r \in Targets(w)
      PROVE  /\ r \in Rows
             /\ Linked(w, r) \in RowRec
             /\ Linked(w, r).bt = Reference(w)
             /\ cur[r].bt \in {None, Reference(w)}
             /\ lock'[w][r] >= 2
             /\ Linked(w, r).parent # None => View(w, Linked(w, r).parent).bt = Reference(w)
  <2>1. r \in Rows /\ cur[r].bt \in {None, Reference(w)}
    BY DEF Targets, Children
  <2>2. cur[r] \in RowRec
    BY <1>1, <2>1 DEF TypeOK
  <2>3. Linked(w, r) \in RowRec /\ Linked(w, r).bt = Reference(w)
    BY <2>2, <1>5 DEF Linked, RowRec
  <2>4. Wanted(w, r) >= 2
    BY DEF Wanted, LinkRelated, NoKeyUpdate, Update
  <2>5. lock'[w][r] >= 2
    BY <1>2, <2>1, <2>4, WantedMode DEF Granted
  <2>6. TriggerAllows(w, r, Linked(w, r), Registered(w))
    BY DEF LinkRelated
  <2> QED
    BY <1>1, <2>1, <2>3, <2>5, <2>6 DEF TriggerAllows
<1>8. cur' \in [Rows -> RowRec]
  BY <1>1, <1>3, <1>7 DEF TypeOK
<1>9. \A r \in Rows : IF r \in Targets(w) THEN cur'[r] = Linked(w, r) ELSE cur'[r] = cur[r]
  BY <1>3
<1> QED
  BY <1>1, <1>2, <1>4, <1>6, <1>7, <1>8, <1>9 DEF WriteStep, Registered

\* Allocating a reference.
LEMMA AllocateReferenceWrites ==
  ASSUME Inv, NEW w \in Workers, AllocateReference(w)
  PROVE  /\ WriteStep(w)
         /\ cur'[job[w].root].bt = ticket + 1
         /\ lock' = lock
<1> DEFINE root == job[w].root
<1>1. TypeOK /\ DataInv /\ root \in Rows /\ cur[root].bt = None /\ lock[w][root] = 3
  BY DEF Inv, Control, ControlOf, AllocateReference
<1>2. lock' = lock /\ UNCHANGED <<row, counter, registry>>
  BY DEF AllocateReference
<1>3. Granted(w)
  <2>1. \A r \in Rows : Wanted(w, r) = 0
    BY DEF Wanted, AllocateReference, NoLock
  <2>2. \A r \in Rows : \A v \in Workers \ {w} : lock[v][r] + lock[w][r] < 4
    BY <1>1 DEF DataInv, LocksCompatible
  <2> QED
    BY <1>1, <1>2, <2>1, <2>2 DEF Granted, TypeOK
<1>4. cur' = [cur EXCEPT ![root] = AllocatedRow(w)]
  BY DEF AllocateReference
<1>5. ticket + 1 \in Nat /\ ticket + 1 # None
  BY <1>1, NullAssumption DEF TypeOK
<1>6. AllocatedRow(w) \in RowRec /\ AllocatedRow(w).bt = ticket + 1
      /\ AllocatedRow(w).parent = cur[root].parent
  BY <1>1, <1>5 DEF TypeOK, RowRec, AllocatedRow
<1>7. alloc'[w] = alloc[w] \union {AllocatedRef(w)} /\ \A v \in Workers \ {w} : alloc'[v] = alloc[v]
  BY <1>1 DEF AllocateReference, TypeOK
<1>8. AllocatedRef(w).ref = ticket + 1
  BY DEF AllocatedRef
<1>9. AllocatedRow(w).parent # None => View(w, AllocatedRow(w).parent).bt = AllocatedRow(w).bt
  BY <1>5, <1>6 DEF AllocateReference, TriggerAllows
<1>10. cur'[root] = AllocatedRow(w) /\ \A r \in Rows : r # root => cur'[r] = cur[r]
  BY <1>1, <1>4 DEF TypeOK
<1>11. cur' \in [Rows -> RowRec]
  BY <1>1, <1>4, <1>6 DEF TypeOK
<1> HIDE DEF root
<1>12. WriteStep(w)
  BY <1>1, <1>2, <1>3, <1>6, <1>7, <1>8, <1>9, <1>10, <1>11 DEF WriteStep
<1> QED
  BY <1>2, <1>6, <1>10, <1>12 DEF root

-----------------------------------------------------------------------------
(* DataInv is preserved *)

\* A write step that allocates nothing.
LEMMA PlainWriteData ==
  ASSUME TypeOK, DataInv, NEW w \in Workers, WriteStep(w), UNCHANGED <<alloc, ticket>>
  PROVE  DataInv'
<1>1. /\ LocksCompatible' /\ Clean' /\ LinkKept' /\ LinksRegistered' /\ Inherited'
      /\ RootCarriesReference'
      /\ \A v \in Workers : \A b \in alloc[v] : lock'[v][b.root] >= 2 /\ cur'[b.root].bt = b.ref
  BY WriteStepData
<1>2. Tickets' /\ Unique'
  BY DEF DataInv, Tickets, Unique, UniqueIn, Registered, WriteStep
<1>3. Carried'
  BY <1>1 DEF Carried
<1> QED
  BY <1>1, <1>2, <1>3 DEF DataInv

\* The allocation takes the next number, and the root has none yet.
LEMMA AllocateReferenceData ==
  ASSUME Inv, NEW w \in Workers, AllocateReference(w)
  PROVE  DataInv'
<1> DEFINE new == AllocatedRef(w)
           root == job[w].root
<1>1. /\ WriteStep(w) /\ cur'[root].bt = ticket + 1 /\ lock' = lock
  BY AllocateReferenceWrites
<1>2. TypeOK /\ DataInv /\ root \in Rows /\ cur[root].bt = None /\ lock[w][root] = 3
  BY DEF Inv, Control, ControlOf, AllocateReference
<1>3. /\ LocksCompatible' /\ Clean' /\ LinkKept' /\ LinksRegistered' /\ Inherited'
      /\ RootCarriesReference'
      /\ \A v \in Workers : \A b \in alloc[v] : lock'[v][b.root] >= 2 /\ cur'[b.root].bt = b.ref
  BY <1>1, <1>2, WriteStepData
<1>4. \A v \in Workers \ {w} : alloc[v] = {}
  BY DEF AllocateReference, Blockers
<1>5. /\ alloc'[w] = alloc[w] \union {new}
      /\ \A v \in Workers \ {w} : alloc'[v] = {}
      /\ ticket' = ticket + 1 /\ counter' = counter /\ registry' = registry
  BY <1>2, <1>4 DEF AllocateReference, TypeOK
<1>6. new.ref = ticket + 1 /\ new.root = root
  BY DEF AllocatedRef
<1>7. Tickets'
  <2>1. counter' <= ticket' /\ (\A b \in registry' : 1 <= b.ref /\ b.ref <= counter')
    BY <1>2, <1>5 DEF DataInv, Tickets, TypeOK
  <2>2. \A b \in alloc'[w] : counter < b.ref /\ b.ref <= ticket'
    BY <1>2, <1>5, <1>6 DEF DataInv, Tickets, TypeOK, RefRec
  <2>3. ASSUME NEW n \in Nat, counter < n, n <= ticket'
        PROVE  \E b \in alloc'[w] : b.ref = n
    <3>1. CASE n = ticket + 1
      BY <1>5, <1>6, <3>1
    <3>2. CASE n # ticket + 1
      <4>1. n <= ticket /\ counter < ticket
        BY <1>2, <1>5, <2>3, <3>2 DEF TypeOK
      <4>2. alloc[w] # {}
        BY <1>2, <1>4, <4>1 DEF DataInv, Tickets, TypeOK
      <4> QED
        BY <1>2, <1>5, <2>3, <4>1, <4>2 DEF DataInv, Tickets
    <3> QED
      BY <3>1, <3>2
  <2>4. \A n \in Nat : 1 <= n /\ n <= counter' => \E b \in registry' : b.ref = n
    BY <1>2, <1>5 DEF DataInv, Tickets
  <2>5. alloc'[w] # {}
    BY <1>5
  <2> QED
    BY <1>5, <2>1, <2>2, <2>3, <2>4, <2>5 DEF Tickets
<1>8. Unique'
  <2>1. ASSUME NEW b \in registry \union alloc[w]
        PROVE  b.ref # new.ref /\ b.root # new.root
    <3>1. b.ref \in Nat /\ b.ref # None /\ b.root \in Rows
      BY <1>2, NullAssumption DEF TypeOK, RefRec
    <3>2. b.ref <= ticket
      BY <1>2, <3>1 DEF DataInv, Tickets, TypeOK
    <3>3. cur[b.root].bt = b.ref
      BY <1>2, <3>1 DEF DataInv, Carried, RootCarriesReference, LinkKept
    <3> QED
      BY <1>2, <1>6, <3>1, <3>2, <3>3 DEF TypeOK
  <2>2. UniqueIn(registry \union alloc[w]) /\ UniqueIn(registry)
    BY <1>2 DEF DataInv, Unique, Registered
  <2> HIDE DEF new, root
  <2>3. UniqueIn(registry' \union alloc'[w])
    BY <1>5, <2>1, <2>2 DEF UniqueIn
  <2>4. \A v \in Workers \ {w} : registry' \union alloc'[v] = registry
    BY <1>5
  <2>5. \A v \in Workers \ {w} : UniqueIn(registry' \union alloc'[v])
    BY <2>2, <2>4
  <2>6. UniqueIn(registry')
    BY <1>5, <2>2
  <2> QED
    BY <2>3, <2>5, <2>6 DEF Unique, Registered, UniqueIn
<1>9. Carried'
  BY <1>1, <1>2, <1>3, <1>5, <1>6 DEF Carried
<1> QED
  BY <1>3, <1>7, <1>8, <1>9 DEF DataInv

\* A fresh draft purchase contract carries its sales contract's reference, or none, and is
\* the parent of no row that carries one.
LEMMA CreatePurchaseData ==
  ASSUME Inv, NEW w \in Workers, NEW p \in Purchases, NEW c \in Contracts \union {None},
         CreatePurchase(w, p, c)
  PROVE  DataInv'
<1>1. TypeOK /\ DataInv /\ p \in Rows /\ p # None /\ (c # None => c \in Rows)
  BY RowsAssumption DEF Inv, Rows
<1>2. PICK bt \in {None} \union {row[d].bt : d \in {c} \ {None}} :
        /\ row' = [row EXCEPT ![p] = [status |-> "Draft", parent |-> c, bt |-> bt]]
        /\ cur' = [cur EXCEPT ![p] = [status |-> "Draft", parent |-> c, bt |-> bt]]
  BY DEF CreatePurchase
<1> DEFINE new == [status |-> "Draft", parent |-> c, bt |-> bt]
<1>3. /\ UNCHANGED <<lock, counter, ticket, registry, alloc>>
      /\ row[p].bt = None /\ cur[p].bt = None /\ \A v \in Workers : lock[v][p] = 0
      /\ row' = [row EXCEPT ![p] = new] /\ cur' = [cur EXCEPT ![p] = new]
      /\ c # p
  <2>1. /\ UNCHANGED <<lock, counter, ticket, registry, alloc>>
        /\ row[p] = AbsentRow /\ cur[p] = AbsentRow /\ \A v \in Workers : lock[v][p] = 0
        /\ c # None => row[c].status # "Absent"
    BY DEF CreatePurchase, Fresh, NoLock
  <2> QED
    BY <1>1, <1>2, <2>1 DEF AbsentRow
<1>4. /\ row'[p] = new /\ cur'[p] = new /\ new.parent = c
      /\ new.bt # None => c \in Rows /\ new.bt = row[c].bt
      /\ \A r \in Rows : r # p => row'[r] = row[r] /\ cur'[r] = cur[r]
  BY <1>1, <1>2, <1>3 DEF TypeOK
<1> HIDE DEF new
<1>5. LocksCompatible' /\ Clean' /\ LinkKept' /\ LinksRegistered' /\ Tickets' /\ Unique'
  <2>1. LocksCompatible' /\ Tickets' /\ Unique'
    BY <1>1, <1>3 DEF DataInv, LocksCompatible, Tickets, Unique, UniqueIn, Registered
  <2>2. Clean' /\ LinkKept'
    BY <1>1, <1>3, <1>4 DEF DataInv, Clean, LinkKept
  <2>3. LinksRegistered'
    BY <1>1, <1>3, <1>4 DEF DataInv, LinksRegistered, Registered
  <2> QED
    BY <2>1, <2>2, <2>3
<1>6. Inherited'
  <2>1. \A r \in Rows : row[r].bt # None /\ row[r].parent # None => row[r].parent # p
    BY <1>1, <1>3 DEF DataInv, Inherited, InheritsReference
  <2>2. InheritsReference'
    <3> SUFFICES ASSUME NEW r \in Rows, row'[r].bt # None, row'[r].parent # None
                 PROVE  row'[row'[r].parent].bt = row'[r].bt
      BY DEF InheritsReference
    <3>1. CASE r = p
      BY <1>3, <1>4, <3>1
    <3>2. CASE r # p
      <4>1. row'[r] = row[r]
        BY <1>4, <3>2
      <4>2. row[r].parent \in Rows /\ row[r].parent # p
        BY <1>1, <2>1, <4>1 DEF TypeOK, RowRec
      <4> QED
        BY <1>1, <1>4, <4>1, <4>2 DEF DataInv, Inherited, InheritsReference
    <3> QED
      BY <3>1, <3>2
  <2>3. ASSUME NEW v \in Workers, NEW r \in Rows,
               lock'[v][r] >= 2, cur'[r].bt # None, cur'[r].parent # None
        PROVE  View(v, cur[r].parent)'.bt = cur'[r].bt
    <3>1. r # p /\ cur'[r] = cur[r] /\ lock[v][r] >= 2
      BY <1>3, <1>4, <2>3
    <3>2. PICK q \in Rows : q = cur'[r].parent
      BY <1>1, <2>3, <3>1 DEF TypeOK, RowRec
    <3>3. View(v, q).bt = cur[r].bt
      BY <1>1, <2>3, <3>1, <3>2 DEF DataInv, Inherited
    <3>4. q # p
      BY <1>3, <2>3, <3>1, <3>3 DEF View
    <3>5. View(v, q)' = View(v, q)
      BY <1>3, <1>4, <3>4 DEF View
    <3> QED
      BY <3>1, <3>2, <3>3, <3>5
  <2> QED
    BY <2>2, <2>3 DEF Inherited
<1>7. Carried'
  <2>1. ASSUME NEW b \in registry
        PROVE  row'[b.root].bt = b.ref
    <3>1. b.root \in Rows /\ b.ref # None /\ row[b.root].bt = b.ref
      BY <1>1, NullAssumption DEF TypeOK, RefRec, DataInv, Carried, RootCarriesReference
    <3> QED
      BY <1>3, <1>4, <3>1
  <2>2. ASSUME NEW v \in Workers, NEW b \in alloc[v]
        PROVE  lock[v][b.root] >= 2 /\ cur'[b.root].bt = b.ref
    <3>1. b.root \in Rows /\ lock[v][b.root] >= 2 /\ cur[b.root].bt = b.ref
      BY <1>1 DEF TypeOK, RefRec, DataInv, Carried
    <3> QED
      BY <1>3, <1>4, <3>1
  <2> QED
    BY <1>3, <2>1, <2>2 DEF Carried, RootCarriesReference
<1> QED
  BY <1>5, <1>6, <1>7 DEF DataInv

-----------------------------------------------------------------------------
(* Types and control *)

\* What a step of w leaves alone in the other workers keeps their control invariant.
LEMMA OthersControl ==
  ASSUME Inv, NEW w \in Workers,
         \A v \in Workers \ {w} : pc'[v] = pc[v] /\ job'[v] = job[v] /\ lock'[v] = lock[v],
         \A r \in Rows : cur'[r] # cur[r] => lock[w][r] >= 2 \/ lock'[w][r] >= 2,
         \A v \in Workers \ {w} : \A r \in Rows : lock'[v][r] + lock'[w][r] < 4,
         lock' \in [Workers -> [Rows -> 0..3]]
  PROVE  \A v \in Workers \ {w} : ControlOf(v)'
<1> SUFFICES ASSUME NEW v \in Workers \ {w}
             PROVE  ControlOf(v)'
  OBVIOUS
<1>1. ControlOf(v) /\ pc'[v] = pc[v] /\ job'[v] = job[v] /\ lock'[v] = lock[v]
  BY DEF Inv, Control
<1>2. ASSUME NEW r \in Rows, lock[v][r] = 3
      PROVE  cur'[r] = cur[r]
  <2>1. lock[v][r] + lock[w][r] < 4 /\ lock[v][r] + lock'[w][r] < 4
    BY <1>1 DEF Inv, DataInv, LocksCompatible
  <2>2. lock[w][r] \in 0..3 /\ lock'[w][r] \in 0..3
    BY DEF Inv, TypeOK
  <2> QED
    BY <1>2, <2>1, <2>2
<1> QED
  BY <1>1, <1>2 DEF ControlOf

\* The same, for a write step.
LEMMA OthersControlWrite ==
  ASSUME Inv, NEW w \in Workers, WriteStep(w),
         \A v \in Workers \ {w} : pc'[v] = pc[v] /\ job'[v] = job[v]
  PROVE  \A v \in Workers \ {w} : ControlOf(v)'
<1>1. Granted(w)
  BY DEF WriteStep
<1>2. \A v \in Workers \ {w} : \A r \in Rows : lock'[v][r] + lock'[w][r] < 4
  BY <1>1 DEF Granted
<1>3. \A r \in Rows : cur'[r] # cur[r] => lock'[w][r] >= 2
  BY DEF WriteStep
<1> QED
  BY <1>1, <1>2, <1>3, OthersControl DEF Granted

\* Goto and an assignment to job touch one worker.
LEMMA OneWorker ==
  ASSUME TypeOK, NEW w \in Workers, NEW label \in Labels, Goto(w, label)
  PROVE  /\ pc' \in [Workers -> Labels] /\ pc'[w] = label
         /\ \A v \in Workers \ {w} : pc'[v] = pc[v]
BY DEF Goto, TypeOK

\* What is left of a job is a job.
LEMMA ForgetJob ==
  ASSUME TypeOK, NEW w \in Workers, job[w].row \in Rows \union {None}, Forget(w)
  PROVE  /\ job' \in [Workers -> Jobs]
         /\ \A v \in Workers \ {w} : job'[v] = job[v]
         /\ job'[w].row = job[w].row
<1> DEFINE rest == [NoJob EXCEPT !.row = job[w].row]
<1>1. rest \in Jobs /\ rest.row = job[w].row
  BY DEF NoJob, Jobs, AbsentRow, RowRec, Statuses, Keep
<1> HIDE DEF rest
<1> QED
  BY <1>1 DEF Forget, TypeOK, rest

\* A request starts.
LEMMA StartInv ==
  ASSUME Inv, NEW w \in Workers, NEW j \in Jobs, NEW label \in {"enquiry", "insert", "ensure", "header"},
         Start(w, label, j), j.row \in Rows,
         label \in {"enquiry", "insert"} => j.status # Keep,
         label = "enquiry" => j.root = j.row
  PROVE  Inv'
<1>1. /\ label \in Labels /\ job' = [job EXCEPT ![w] = j]
      /\ UNCHANGED <<row, cur, lock, counter, ticket, registry, alloc>>
      /\ Goto(w, label)
  BY DEF Start, Labels
<1>2. /\ pc' \in [Workers -> Labels] /\ pc'[w] = label
      /\ \A v \in Workers \ {w} : pc'[v] = pc[v]
  BY <1>1, OneWorker DEF Inv
<1>3. /\ job' \in [Workers -> Jobs] /\ job'[w] = j
      /\ \A v \in Workers \ {w} : job'[v] = job[v]
  BY <1>1 DEF Inv, TypeOK
<1>4. TypeOK'
  BY <1>1, <1>2, <1>3 DEF Inv, TypeOK
<1>5. DataInv'
  BY <1>1, DataStutter DEF Inv, dataVars
<1>6. Control'
  BY <1>1, <1>2, <1>3 DEF Inv, Control, ControlOf
<1> QED
  BY <1>4, <1>5, <1>6 DEF Inv

\* A request of a client.
LEMMA RequestInv ==
  ASSUME Inv, NEW w \in Workers, Request(w)
  PROVE  Inv'
<1> DEFINE Job(r, s, p, was, root, cont) ==
             [NoJob EXCEPT !.row = r, !.status = s, !.parent = p, !.was = was,
                           !.root = root, !.cont = cont]
<1>0. TypeOK /\ Enquiries \subseteq Rows /\ Contracts \subseteq Rows /\ Purchases \subseteq Rows
      /\ NoJob \in Jobs
  BY DEF Inv, Rows, NoJob, Jobs, AbsentRow, RowRec, Statuses, Keep
<1>1. ASSUME NEW e \in Enquiries, NEW s \in {"PENDING", "CONFIRMED"}, SyncEnquiryStatus(w, e, s)
      PROVE  Inv'
  <2> DEFINE j == [NoJob EXCEPT !.row = e, !.status = s, !.root = e]
  <2>1. j \in Jobs /\ j.row = e /\ j.status = s /\ j.root = e
    BY <1>0 DEF NoJob, Jobs, Statuses
  <2>2. Start(w, "enquiry", j)
    BY <1>1 DEF SyncEnquiryStatus
  <2> HIDE DEF j
  <2> QED
    BY <1>0, <2>1, <2>2, StartInv DEF Keep
<1>2. ASSUME NEW c \in Contracts, NEW e \in Enquiries \union {None}, NEW s \in {"Draft", "Active"},
             CreateContract(w, c, e, s)
      PROVE  Inv'
  <2> DEFINE j == [NoJob EXCEPT !.row = c, !.status = s, !.parent = e]
  <2>1. j \in Jobs /\ j.row = c /\ j.status = s
    BY <1>0 DEF NoJob, Jobs, Statuses
  <2>2. Start(w, "insert", j)
    BY <1>2 DEF CreateContract
  <2> HIDE DEF j
  <2> QED
    BY <1>0, <2>1, <2>2, StartInv DEF Keep
<1>3. ASSUME NEW c \in Contracts, NEW e \in Enquiries \union {None},
             NEW s \in {"Draft", "Active", Keep}, EditContract(w, c, e, s)
      PROVE  Inv'
  <2> DEFINE first == s = "Active" /\ (e # None \/ row[c].parent # None)
             label == IF first THEN "ensure" ELSE "header"
             cont == IF first THEN "header" ELSE "commit"
             j == [NoJob EXCEPT !.row = c, !.status = s, !.parent = e,
                                !.was = row[c], !.cont = cont]
  <2>1. j \in Jobs /\ j.row = c
    <3>1. c \in Rows /\ row[c] \in RowRec /\ e \in Rows \union {None}
      BY <1>0 DEF TypeOK
    <3>2. s \in Statuses \union {Keep}
      BY DEF Statuses
    <3>3. cont \in {"header", "commit"}
      OBVIOUS
    <3> HIDE DEF cont
    <3> QED
      BY <1>0, <3>1, <3>2, <3>3 DEF NoJob, Jobs
  <2>2. Start(w, label, j)
    BY <1>3 DEF EditContract
  <2>3. label \in {"ensure", "header"}
    OBVIOUS
  <2> HIDE DEF j, label
  <2> QED
    BY <1>0, <2>1, <2>2, <2>3, StartInv
<1>4. ASSUME NEW p \in Purchases, NEW s \in {"Draft", "In Progress", Keep}, EditPurchase(w, p, s)
      PROVE  Inv'
  <2> DEFINE linked == row[p].parent # None
             label == IF linked \/ s = Keep THEN "ensure" ELSE "header"
             j == [NoJob EXCEPT !.row = p, !.status = s, !.parent = row[p].parent, !.was = row[p],
                                !.cont = IF linked /\ s # Keep THEN "header" ELSE "commit"]
  <2>1. j \in Jobs /\ j.row = p
    <3>1. p \in Rows /\ row[p] \in RowRec /\ row[p].parent \in Rows \union {None}
      BY <1>0 DEF TypeOK, RowRec
    <3>2. s \in Statuses \union {Keep}
      BY DEF Statuses
    <3> QED
      BY <1>0, <3>1, <3>2 DEF NoJob, Jobs
  <2>2. Start(w, label, j)
    BY <1>4 DEF EditPurchase
  <2>3. label \in {"ensure", "header"}
    OBVIOUS
  <2> HIDE DEF j, label
  <2> QED
    BY <1>0, <2>1, <2>2, <2>3, StartInv
<1>5. ASSUME NEW p \in Purchases, NEW c \in Contracts \union {None}, CreatePurchase(w, p, c)
      PROVE  Inv'
  <2>0. PICK bt \in {None} \union {row[d].bt : d \in {c} \ {None}} :
          /\ row' = [row EXCEPT ![p] = [status |-> "Draft", parent |-> c, bt |-> bt]]
          /\ cur' = [cur EXCEPT ![p] = [status |-> "Draft", parent |-> c, bt |-> bt]]
    BY <1>5 DEF CreatePurchase
  <2> DEFINE new == [status |-> "Draft", parent |-> c, bt |-> bt]
  <2>1. DataInv'
    BY <1>5, CreatePurchaseData
  <2>2. new \in RowRec
    <3>1. bt \in Nat \union {None}
      BY <1>0, <2>0 DEF TypeOK, RowRec, Rows
    <3> QED
      BY <3>1 DEF RowRec, Statuses, Rows
  <2>3. TypeOK'
    <3>1. row' = [row EXCEPT ![p] = new] /\ cur' = [cur EXCEPT ![p] = new]
      BY <2>0
    <3> HIDE DEF new
    <3> QED
      BY <1>0, <1>5, <2>2, <3>1 DEF TypeOK, CreatePurchase
  <2>4. /\ \A r \in Rows : r # p => cur'[r] = cur[r]
        /\ \A v \in Workers : lock[v][p] = 0
        /\ UNCHANGED <<lock, pc, job>>
    BY <1>0, <1>5 DEF TypeOK, CreatePurchase, Fresh, NoLock
  <2>5. Control'
    BY <2>4 DEF Inv, Control, ControlOf
  <2> QED
    BY <2>1, <2>3, <2>5 DEF Inv
<1> QED
  BY <1>1, <1>2, <1>3, <1>4, <1>5 DEF Request

\* A statement of the transaction.
LEMMA ProceedInv ==
  ASSUME Inv, NEW w \in Workers, Proceed(w) \/ Crash(w)
  PROVE  Inv'
<1> DEFINE j == job[w]
<1>0. TypeOK /\ DataInv /\ ControlOf(w) /\ j \in Jobs
  BY DEF Inv, Control, TypeOK
<1>1. ASSUME SetEnquiryStatus(w)
      PROVE  Inv'
  <2>1. WriteStep(w) /\ UNCHANGED <<alloc, ticket, counter, registry, row, job>>
    BY <1>1, SetEnquiryStatusWrites DEF SetEnquiryStatus
  <2>2. DataInv'
    BY <1>0, <2>1, PlainWriteData
  <2>3. PICK label \in {"root", "commit"} : Goto(w, label)
    BY <1>1 DEF SetEnquiryStatus
  <2>4. pc' \in [Workers -> Labels] /\ pc'[w] = label /\ \A v \in Workers \ {w} : pc'[v] = pc[v]
    BY <1>0, <2>3, OneWorker DEF Labels
  <2>5. TypeOK'
    BY <1>0, <2>1, <2>4 DEF TypeOK, WriteStep, Granted
  <2>6. \A v \in Workers \ {w} : ControlOf(v)'
    BY <2>1, <2>4, OthersControlWrite
  <2>7. ControlOf(w)'
    BY <1>0, <1>1, <2>1, <2>4 DEF ControlOf, SetEnquiryStatus
  <2> QED
    BY <2>2, <2>5, <2>6, <2>7 DEF Inv, Control
<1>2. ASSUME InsertContract(w)
      PROVE  Inv'
  <2>1. WriteStep(w) /\ UNCHANGED <<alloc, ticket, counter, registry, row>>
    BY <1>2, InsertContractWrites DEF InsertContract
  <2>2. DataInv'
    BY <1>0, <2>1, PlainWriteData
  <2>3. PICK label \in {"ensure", "commit"} : Goto(w, label)
    BY <1>2 DEF InsertContract
  <2>4. pc' \in [Workers -> Labels] /\ pc'[w] = label /\ \A v \in Workers \ {w} : pc'[v] = pc[v]
    BY <1>0, <2>3, OneWorker DEF Labels
  <2>5. /\ job' \in [Workers -> Jobs] /\ \A v \in Workers \ {w} : job'[v] = job[v]
        /\ job'[w].row = j.row
    <3>1. j.row \in Rows /\ Forget(w)
      BY <1>0, <1>2 DEF ControlOf, InsertContract
    <3> QED
      BY <1>0, <3>1, ForgetJob
  <2>6. TypeOK'
    BY <1>0, <2>1, <2>4, <2>5 DEF TypeOK, WriteStep, Granted
  <2>7. \A v \in Workers \ {w} : ControlOf(v)'
    BY <2>1, <2>4, <2>5, OthersControlWrite
  <2>8. ControlOf(w)'
    BY <1>0, <1>2, <2>1, <2>4, <2>5 DEF ControlOf, InsertContract
  <2> QED
    BY <2>2, <2>6, <2>7, <2>8 DEF Inv, Control
<1>3. ASSUME Ensure(w)
      PROVE  Inv'
  <2> DEFINE up(r) == IF View(w, r).parent = None THEN r ELSE View(w, r).parent
             root == up(up(j.row))
             live == View(w, root).status = Live(root)
  <2>1. j.row \in Rows
    BY <1>0, <1>3 DEF ControlOf, Ensure
  <2>2. \A r \in Rows : up(r) \in Rows
    BY <1>0 DEF View, TypeOK, RowRec
  <2>3. root \in Rows
    BY <2>1, <2>2
  <2> HIDE DEF up, root
  <2>4. /\ job' = [job EXCEPT ![w] = IF live THEN [j EXCEPT !.root = root]
                                             ELSE [j EXCEPT !.cont = "commit"]]
        /\ Goto(w, IF live THEN "root" ELSE j.cont)
        /\ UNCHANGED <<row, cur, lock, counter, ticket, registry, alloc>>
    BY <1>3 DEF Ensure, root, up
  <2>5. [j EXCEPT !.root = root] \in Jobs /\ [j EXCEPT !.cont = "commit"] \in Jobs
    BY <1>0, <2>3 DEF Jobs
  <2>6. /\ job' \in [Workers -> Jobs] /\ \A v \in Workers \ {w} : job'[v] = job[v]
        /\ job'[w].row = j.row /\ (live => job'[w].root = root)
    BY <1>0, <2>4, <2>5 DEF TypeOK, Jobs
  <2>7. PICK label \in {"root", "header", "commit"} : Goto(w, label) /\ (label = "root" => live)
    BY <1>0, <2>4 DEF Jobs
  <2>8. pc' \in [Workers -> Labels] /\ pc'[w] = label /\ \A v \in Workers \ {w} : pc'[v] = pc[v]
    BY <1>0, <2>7, OneWorker DEF Labels
  <2>9. TypeOK' /\ DataInv'
    BY <1>0, <2>4, <2>6, <2>8, DataStutter DEF TypeOK, dataVars
  <2>10. Control'
    BY <2>1, <2>3, <2>4, <2>6, <2>7, <2>8 DEF Inv, Control, ControlOf
  <2> QED
    BY <2>9, <2>10 DEF Inv
<1>4. ASSUME UpdateHeader(w)
      PROVE  Inv'
  <2>1. WriteStep(w) /\ UNCHANGED <<alloc, ticket, counter, registry, row>>
    BY <1>4, UpdateHeaderWrites DEF UpdateHeader
  <2>2. DataInv'
    BY <1>0, <2>1, PlainWriteData
  <2>3. PICK label \in {"ensure", "commit"} : Goto(w, label)
    BY <1>4 DEF UpdateHeader
  <2>4. pc' \in [Workers -> Labels] /\ pc'[w] = label /\ \A v \in Workers \ {w} : pc'[v] = pc[v]
    BY <1>0, <2>3, OneWorker DEF Labels
  <2>5. /\ job' \in [Workers -> Jobs] /\ \A v \in Workers \ {w} : job'[v] = job[v]
        /\ job'[w].row = j.row
    <3>1. j.row \in Rows /\ Forget(w)
      BY <1>0, <1>4 DEF ControlOf, UpdateHeader
    <3> QED
      BY <1>0, <3>1, ForgetJob
  <2>6. TypeOK'
    BY <1>0, <2>1, <2>4, <2>5 DEF TypeOK, WriteStep, Granted
  <2>7. \A v \in Workers \ {w} : ControlOf(v)'
    BY <2>1, <2>4, <2>5, OthersControlWrite
  <2>8. ControlOf(w)'
    BY <1>0, <1>4, <2>1, <2>4, <2>5 DEF ControlOf, UpdateHeader
  <2> QED
    BY <2>2, <2>6, <2>7, <2>8 DEF Inv, Control
<1>5. ASSUME LockRoot(w)
      PROVE  Inv'
  <2>1. /\ WriteStep(w) /\ cur' = cur /\ lock'[w][j.root] = 3
        /\ UNCHANGED <<alloc, ticket, counter, registry, row>>
    BY <1>5, LockRootWrites DEF LockRoot
  <2>2. DataInv'
    BY <1>0, <2>1, PlainWriteData
  <2>3. PICK label \in {"allocate", "propagate"} :
          Goto(w, label) /\ (label = "allocate" <=> cur[j.root].bt = None)
    BY <1>5 DEF LockRoot
  <2>4. pc' \in [Workers -> Labels] /\ pc'[w] = label /\ \A v \in Workers \ {w} : pc'[v] = pc[v]
    BY <1>0, <2>3, OneWorker DEF Labels
  <2>5. j.root \in Rows /\ j.row \in Rows
    BY <1>0, <1>5 DEF ControlOf, LockRoot
  <2>6. job' = [job EXCEPT ![w] = [j EXCEPT !.todo = {j.root}]]
    BY <1>5 DEF LockRoot
  <2>7. [j EXCEPT !.todo = {j.root}] \in Jobs
    BY <1>0, <2>5 DEF Jobs
  <2>8. /\ job' \in [Workers -> Jobs] /\ \A v \in Workers \ {w} : job'[v] = job[v]
        /\ job'[w].row = j.row /\ job'[w].root = j.root
    BY <1>0, <2>6, <2>7 DEF TypeOK, Jobs
  <2>9. TypeOK'
    BY <1>0, <2>1, <2>4, <2>8 DEF TypeOK, WriteStep, Granted
  <2>10. \A v \in Workers \ {w} : ControlOf(v)'
    BY <2>1, <2>4, <2>8, OthersControlWrite
  <2>11. ControlOf(w)'
    BY <2>1, <2>3, <2>4, <2>5, <2>8 DEF ControlOf
  <2> QED
    BY <2>2, <2>9, <2>10, <2>11 DEF Inv, Control
<1>6. ASSUME AllocateReference(w)
      PROVE  Inv'
  <2>1. /\ WriteStep(w) /\ cur'[j.root].bt = ticket + 1 /\ lock' = lock
        /\ UNCHANGED <<counter, registry, row, job>> /\ ticket' = ticket + 1
    BY <1>6, AllocateReferenceWrites DEF AllocateReference
  <2>2. DataInv'
    BY <1>6, AllocateReferenceData
  <2>3. Goto(w, "propagate")
    BY <1>6 DEF AllocateReference
  <2>4. pc' \in [Workers -> Labels] /\ pc'[w] = "propagate" /\ \A v \in Workers \ {w} : pc'[v] = pc[v]
    BY <1>0, <2>3, OneWorker DEF Labels
  <2>5. j.root \in Rows /\ j.row \in Rows /\ lock[w][j.root] = 3
    BY <1>0, <1>6 DEF ControlOf, AllocateReference
  <2>6. AllocatedRef(w) \in RefRec
    BY <1>0, <2>5 DEF AllocatedRef, RefRec, TypeOK
  <2>7. TypeOK'
    <3>1. alloc' = [alloc EXCEPT ![w] = @ \union {AllocatedRef(w)}]
      BY <1>6 DEF AllocateReference
    <3>2. alloc' \in [Workers -> SUBSET RefRec]
      BY <1>0, <2>6, <3>1 DEF TypeOK
    <3>3. ticket' \in Nat
      BY <1>0, <2>1 DEF TypeOK
    <3> QED
      BY <1>0, <2>1, <2>4, <3>2, <3>3 DEF TypeOK, WriteStep
  <2>8. \A v \in Workers \ {w} : ControlOf(v)'
    BY <2>1, <2>4, OthersControlWrite
  <2>9. cur'[j.root].bt # None
    BY <1>0, <2>1, NullAssumption DEF TypeOK
  <2>10. ControlOf(w)'
    BY <2>1, <2>4, <2>5, <2>9 DEF ControlOf
  <2> QED
    BY <2>2, <2>7, <2>8, <2>10 DEF Inv, Control
<1>7. ASSUME NEW x \in j.todo, CheckRelated(w, x)
      PROVE  Inv'
  <2>1. UNCHANGED <<row, cur, lock, counter, ticket, registry, alloc>> /\ Goto(w, "link")
    BY <1>7 DEF CheckRelated
  <2>2. pc' \in [Workers -> Labels] /\ pc'[w] = "link" /\ \A v \in Workers \ {w} : pc'[v] = pc[v]
    BY <1>0, <2>1, OneWorker DEF Labels
  <2>3. job' = [job EXCEPT ![w] = [j EXCEPT !.at = x]] /\ x \in Rows
    BY <1>0, <1>7 DEF CheckRelated, Jobs
  <2>4. [j EXCEPT !.at = x] \in Jobs
    BY <1>0, <2>3 DEF Jobs
  <2>5. /\ job' \in [Workers -> Jobs] /\ \A v \in Workers \ {w} : job'[v] = job[v]
        /\ job'[w].row = j.row /\ job'[w].root = j.root
    BY <1>0, <2>3, <2>4 DEF TypeOK, Jobs
  <2>6. TypeOK' /\ DataInv'
    BY <1>0, <2>1, <2>2, <2>5, DataStutter DEF TypeOK, dataVars
  <2>7. pc[w] = "propagate"
    BY <1>7 DEF CheckRelated
  <2>8. Control'
    BY <2>1, <2>2, <2>5, <2>7 DEF Inv, Control, ControlOf
  <2> QED
    BY <2>6, <2>8 DEF Inv
<1>8. ASSUME LinkRelated(w)
      PROVE  Inv'
  <2> DEFINE todo == Remaining(w)
             rest == [NoJob EXCEPT !.row = j.row, !.status = j.status,
                                   !.parent = j.parent, !.was = j.was]
  <2>1. WriteStep(w) /\ UNCHANGED <<alloc, ticket, counter, registry, row>>
    BY <1>8, LinkRelatedWrites DEF LinkRelated
  <2>2. DataInv'
    BY <1>0, <2>1, PlainWriteData
  <2>3. \/ todo # {} /\ job' = [job EXCEPT ![w] = [j EXCEPT !.todo = todo]] /\ Goto(w, "propagate")
        \/ job' = [job EXCEPT ![w] = rest] /\ Goto(w, j.cont)
    BY <1>8 DEF LinkRelated
  <2>4. todo \in SUBSET Rows
    BY <1>0 DEF Remaining, Children, Jobs
  <2> HIDE DEF todo
  <2>5. [j EXCEPT !.todo = todo] \in Jobs /\ rest \in Jobs /\ rest.row = j.row
    BY <1>0, <2>4 DEF Jobs, NoJob
  <2> HIDE DEF rest
  <2>6. /\ job' \in [Workers -> Jobs] /\ \A v \in Workers \ {w} : job'[v] = job[v]
        /\ job'[w].row = j.row
    <3>1. CASE job' = [job EXCEPT ![w] = [j EXCEPT !.todo = todo]]
      <4>1. [j EXCEPT !.todo = todo].row = j.row
        BY <1>0 DEF Jobs
      <4> QED
        BY <1>0, <2>5, <3>1, <4>1 DEF TypeOK
    <3>2. CASE job' = [job EXCEPT ![w] = rest]
      BY <1>0, <2>5, <3>2 DEF TypeOK
    <3> QED
      BY <2>3, <3>1, <3>2
  <2>7. PICK label \in {"propagate", "header", "commit"} :
          Goto(w, label) /\ (label = "propagate" => job'[w].root = j.root)
    <3>1. CASE job' = [job EXCEPT ![w] = [j EXCEPT !.todo = todo]] /\ Goto(w, "propagate")
      <4>1. job'[w].root = j.root
        BY <1>0, <3>1 DEF TypeOK, Jobs
      <4> QED
        BY <3>1, <4>1
    <3>2. CASE job' = [job EXCEPT ![w] = rest] /\ Goto(w, j.cont)
      BY <1>0, <3>2 DEF Jobs
    <3> QED
      BY <2>3, <3>1, <3>2
  <2>8. pc' \in [Workers -> Labels] /\ pc'[w] = label /\ \A v \in Workers \ {w} : pc'[v] = pc[v]
    BY <1>0, <2>7, OneWorker DEF Labels
  <2>9. TypeOK'
    BY <1>0, <2>1, <2>6, <2>8 DEF TypeOK, WriteStep, Granted
  <2>10. \A v \in Workers \ {w} : ControlOf(v)'
    BY <2>1, <2>6, <2>8, OthersControlWrite
  <2>11. pc[w] = "link"
    BY <1>8 DEF LinkRelated
  <2>12. lock'[w][j.root] = 3 /\ cur'[j.root].bt # None /\ j.root \in Rows
    <3>1. lock[w][j.root] = 3 /\ cur[j.root].bt # None /\ j.root \in Rows
      BY <1>0, <2>11 DEF ControlOf
    <3>2. lock'[w][j.root] \in 0..3 /\ lock'[w][j.root] >= 3
      BY <2>1, <3>1 DEF WriteStep, Granted
    <3> QED
      BY <2>1, <3>1, <3>2 DEF WriteStep
  <2>13. ControlOf(w)'
    BY <1>0, <2>6, <2>7, <2>8, <2>11, <2>12 DEF ControlOf
  <2> QED
    BY <2>2, <2>9, <2>10, <2>13 DEF Inv, Control
<1>9. ASSUME Release(w), DataInv', TypeOK', \A r \in Rows : cur'[r] # cur[r] => lock[w][r] >= 2
      PROVE  Inv'
  <2>1. pc'[w] = "idle" /\ \A v \in Workers \ {w} : pc'[v] = pc[v] /\ job'[v] = job[v] /\ lock'[v] = lock[v]
    BY <1>0, <1>9 DEF Release, Goto, TypeOK
  <2>2. \A v \in Workers \ {w} : \A r \in Rows : lock'[v][r] + lock'[w][r] < 4
    BY <1>9 DEF DataInv, LocksCompatible
  <2>3. \A v \in Workers \ {w} : ControlOf(v)'
    BY <1>9, <2>1, <2>2, OthersControl DEF TypeOK
  <2>4. ControlOf(w)'
    BY <2>1 DEF ControlOf
  <2> QED
    BY <1>9, <2>3, <2>4 DEF Inv, Control
<1>10. ASSUME Release(w)
       PROVE  /\ lock' \in [Workers -> [Rows -> 0..3]] /\ alloc' \in [Workers -> SUBSET RefRec]
              /\ job' \in [Workers -> Jobs] /\ pc' \in [Workers -> Labels]
  <2>1. NoJob \in Jobs
    BY DEF NoJob, Jobs, AbsentRow, RowRec, Statuses, Keep
  <2>2. pc' \in [Workers -> Labels]
    BY <1>0, <1>10, OneWorker DEF Release, Labels
  <2>3. lock' \in [Workers -> [Rows -> 0..3]]
    <3>1. [r \in Rows |-> NoLock] \in [Rows -> 0..3]
      BY DEF NoLock
    <3> QED
      BY <1>0, <1>10, <3>1 DEF Release, TypeOK
  <2> QED
    BY <1>0, <1>10, <2>1, <2>2, <2>3 DEF Release, TypeOK
<1>11. ASSUME Commit(w)
       PROVE  Inv'
  <2>1. DataInv'
    BY <1>0, <1>11, CommitData
  <2>2. TypeOK'
    <3>1. row' \in [Rows -> RowRec] /\ counter' \in Nat /\ registry' \in SUBSET RefRec
      BY <1>0, <1>11 DEF Commit, Registered, TypeOK
    <3> QED
      BY <1>0, <1>10, <1>11, <3>1 DEF Commit, TypeOK
  <2> QED
    BY <1>9, <1>11, <2>1, <2>2 DEF Commit
<1>12. ASSUME Rollback(w)
       PROVE  Inv'
  <2>1. DataInv'
    BY <1>0, <1>12, RollbackData
  <2>2. TypeOK'
    <3>1. cur' \in [Rows -> RowRec] /\ ticket' \in Nat
      BY <1>0, <1>12 DEF Rollback, TypeOK
    <3> QED
      BY <1>0, <1>10, <1>12, <3>1 DEF Rollback, TypeOK
  <2>3. \A r \in Rows : cur'[r] # cur[r] => lock[w][r] >= 2
    BY <1>12 DEF Rollback, NoKeyUpdate
  <2> QED
    BY <1>9, <1>12, <2>1, <2>2, <2>3 DEF Rollback
<1>13. CASE Throw(w) \/ DeadlockVictim(w) \/ Crash(w)
  BY <1>12, <1>13 DEF Throw, DeadlockVictim, Crash
<1> QED
  BY <1>1, <1>2, <1>3, <1>4, <1>5, <1>6, <1>7, <1>8, <1>11, <1>13 DEF Proceed

-----------------------------------------------------------------------------
(* Theorems *)

\* The empty tables satisfy the invariant.
LEMMA InitInv == Init => Inv
<1> SUFFICES ASSUME Init
             PROVE  Inv
  OBVIOUS
<1>1. AbsentRow \in RowRec /\ AbsentRow.bt = None /\ AbsentRow.parent = None
  BY DEF AbsentRow, RowRec, Statuses
<1>2. [AbsentRow EXCEPT !.status = "PENDING"] \in RowRec
  BY DEF AbsentRow, RowRec, Statuses
<1>3. /\ row \in [Rows -> RowRec] /\ cur = row
      /\ \A r \in Rows : row[r].bt = None
  <2>1. \A r \in Rows : row[r] = IF r \in Enquiries THEN [AbsentRow EXCEPT !.status = "PENDING"] ELSE AbsentRow
    BY DEF Init
  <2>2. [AbsentRow EXCEPT !.status = "PENDING"].bt = None
    BY DEF AbsentRow
  <2> QED
    BY <1>1, <1>2, <2>1, <2>2 DEF Init
<1>4. NoJob \in Jobs
  BY <1>1 DEF NoJob, Jobs, Keep
<1>5. TypeOK
  BY <1>3, <1>4 DEF Init, TypeOK, NoLock, Labels
<1>6. /\ \A w \in Workers : \A r \in Rows : lock[w][r] = 0
      /\ \A w \in Workers : alloc[w] = {} /\ pc[w] = "idle"
      /\ registry = {} /\ counter = 0 /\ ticket = 0
  BY DEF Init, NoLock
<1>7. DataInv
  <2>1. LocksCompatible /\ Clean /\ LinkKept
    BY <1>3, <1>6 DEF LocksCompatible, Clean, LinkKept
  <2>2. LinksRegistered /\ Inherited
    BY <1>3, <1>6 DEF LinksRegistered, Inherited, InheritsReference
  <2>3. Tickets /\ Unique /\ Carried
    BY <1>6 DEF Tickets, Unique, UniqueIn, Registered, Carried, RootCarriesReference
  <2> QED
    BY <2>1, <2>2, <2>3 DEF DataInv
<1>8. Control
  BY <1>6 DEF Control, ControlOf
<1> QED
  BY <1>5, <1>7, <1>8 DEF Inv

\* Every step of a worker, a crash included, keeps the invariant.
LEMMA StepInv == Inv /\ [Next]_vars => Inv'
<1> SUFFICES ASSUME Inv, [Next]_vars
             PROVE  Inv'
  OBVIOUS
<1>1. CASE Next
  <2>1. PICK w \in Workers : Request(w) \/ Proceed(w) \/ Crash(w)
    BY <1>1 DEF Next
  <2> QED
    BY <2>1, RequestInv, ProceedInv
<1>2. CASE UNCHANGED vars
  <2>1. TypeOK'
    BY <1>2 DEF Inv, TypeOK, vars
  <2>2. DataInv'
    BY <1>2, DataStutter DEF Inv, vars, dataVars
  <2>3. Control'
    BY <1>2 DEF Inv, Control, ControlOf, vars
  <2> QED
    BY <2>1, <2>2, <2>3 DEF Inv
<1> QED
  BY <1>1, <1>2

\* Inv holds in every reachable state.
THEOREM Invariance == Spec => []Inv
BY InitInv, StepInv, PTL DEF Spec

\* Every variable keeps its type, whatever requests run side by side.
THEOREM TypeCorrectness == Spec => []TypeOK
BY Invariance, PTL DEF Inv

\* References are numbered without a gap (nextReference, and its rollback).
THEOREM GapFree == Spec => []GapFreeReferences
<1>1. Inv => GapFreeReferences
  BY DEF Inv, DataInv, Tickets, TypeOK, RefRec, GapFreeReferences
<1> QED
  BY <1>1, Invariance, PTL

\* A root has at most one reference and a reference one root (getOrCreateRoot).
THEOREM OnePerRoot == Spec => []OneReferencePerRoot
<1>1. Inv => OneReferencePerRoot
  BY DEF Inv, DataInv, Unique, UniqueIn, OneReferencePerRoot
<1> QED
  BY <1>1, Invariance, PTL

\* A reference and the link of its root commit together.
THEOREM RootsCarry == Spec => []RootCarriesReference
<1>1. Inv => RootCarriesReference
  BY DEF Inv, DataInv, Carried
<1> QED
  BY <1>1, Invariance, PTL

\* References are 1, 2, 3..., each with a root of its own that carries it (getOrCreateRoot,
\* nextReference).
THEOREM References == Spec => []ReferencesSound
<1>1. GapFreeReferences /\ OneReferencePerRoot /\ RootCarriesReference => ReferencesSound
  BY DEF ReferencesSound
<1> QED
  BY <1>1, GapFree, OnePerRoot, RootsCarry, PTL

\* A linked contract has its parent's reference (setRelatedRecords, root-owner trigger).
THEOREM Inheritance == Spec => []InheritsReference
<1>1. Inv => InheritsReference
  BY DEF Inv, DataInv, Inherited
<1> QED
  BY <1>1, Invariance, PTL

\* What a step may do to the committed rows, links and counter.
LEMMA StepCommits ==
  ASSUME Inv, Next
  PROVE  \/ /\ UNCHANGED <<counter, registry>>
            /\ \A r \in Rows : row[r].bt \in {None, row'[r].bt}
         \/ \E w \in Workers : Commit(w)
<1>1. PICK w \in Workers : Request(w) \/ Proceed(w) \/ Crash(w)
  BY DEF Next
<1>2. ASSUME NEW p \in Purchases, NEW c \in Contracts \union {None}, CreatePurchase(w, p, c)
      PROVE  UNCHANGED <<counter, registry>> /\ \A r \in Rows : row[r].bt \in {None, row'[r].bt}
  <2>1. row[p].bt = None /\ \A r \in Rows : r # p => row'[r] = row[r]
    BY <1>2 DEF CreatePurchase, Fresh, AbsentRow, Inv, TypeOK
  <2> QED
    BY <1>2, <2>1 DEF CreatePurchase
<1>3. CASE Request(w)
  BY <1>2, <1>3 DEF Request, SyncEnquiryStatus, CreateContract, EditContract, EditPurchase, Start
<1>4. CASE Proceed(w) \/ Crash(w)
  BY <1>4 DEF Proceed, Crash, Throw, DeadlockVictim, Rollback, SetEnquiryStatus, InsertContract,
     Ensure, UpdateHeader, LockRoot, AllocateReference, CheckRelated, LinkRelated
<1> QED
  BY <1>1, <1>3, <1>4

\* No step changes or removes a committed link.
THEOREM LinksNeverChange == Spec => LinksImmutable
<1>1. ASSUME Inv, [Next]_vars
      PROVE  [\A r \in Rows : row[r].bt # None => row'[r].bt = row[r].bt]_vars
  <2>1. CASE UNCHANGED vars
    BY <2>1
  <2>2. CASE Next
    <3>1. ASSUME NEW w \in Workers, Commit(w)
          PROVE  \A r \in Rows : row[r].bt # None => row'[r].bt = row[r].bt
      BY <1>1, <3>1 DEF Commit, Inv, DataInv, LinkKept
    <3> QED
      BY <1>1, <2>2, <3>1, StepCommits
  <2> QED
    BY <1>1, <2>1, <2>2
<1> QED
  BY <1>1, Invariance, PTL DEF Spec, LinksImmutable

\* The service implements the registry of ReferenceRegistry.
THEOREM Refinement == Spec => ImplementsRegistry
<1> DEFINE link == [r \in Rows |-> row[r].bt]
           AVars == <<counter, registry, link>>
<1>1. Init => Registry!Init
  BY DEF Init, Registry!Init, AbsentRow
<1>2. ASSUME Inv, Inv', [Next]_vars
      PROVE  [Registry!Next]_AVars
  <2>1. CASE UNCHANGED vars
    BY <2>1 DEF vars
  <2>2. CASE UNCHANGED <<counter, registry>> /\ \A r \in Rows : row[r].bt \in {None, row'[r].bt}
    <3>1. Registry!Issue
      BY <1>2, <2>2 DEF Registry!Issue, Inv, TypeOK
    <3>2. \A r \in Rows : row'[r].bt \in {b.ref : b \in registry'} \union {None}
      BY <1>2 DEF Inv, DataInv, LinksRegistered
    <3>3. Registry!Attach
      BY <2>2, <3>2 DEF Registry!Attach, Registry!Issued
    <3> QED
      BY <3>1, <3>3 DEF Registry!Next
  <2>3. ASSUME NEW w \in Workers, Commit(w)
        PROVE  Registry!Next
    <3>0. TypeOK /\ DataInv /\ TypeOK' /\ DataInv'
      BY <1>2 DEF Inv
    <3>1. /\ registry' = registry \union alloc[w]
          /\ counter' = IF alloc[w] = {} THEN counter ELSE ticket
          /\ \A r \in Rows : row[r].bt # None => row'[r].bt = row[r].bt
      BY <2>3, <3>0 DEF Commit, Registered, DataInv, LinkKept
    <3>2. \A b \in registry' \ registry : counter < b.ref /\ b.ref <= counter' /\ b.ref \in Nat
      BY <3>0, <3>1 DEF DataInv, Tickets, TypeOK, RefRec
    <3>3. ASSUME NEW n \in Nat, counter < n, n <= counter'
          PROVE  \E b \in registry' \ registry : b.ref = n
      <4>0. 1 <= n /\ (\A m \in Nat : 1 <= m /\ m <= counter' => \E b \in registry' : b.ref = m)
        <5>1. Tickets'
          BY <3>0 DEF DataInv
        <5>2. counter \in Nat
          BY <3>0 DEF TypeOK
        <5> QED
          BY <3>3, <5>1, <5>2 DEF Tickets
      <4>1. PICK b \in registry' : b.ref = n
        BY <3>3, <4>0
      <4>2. b \notin registry
        BY <3>0, <3>3, <4>1 DEF DataInv, Tickets, TypeOK
      <4> QED
        BY <4>1, <4>2
    <3>4. {b.ref : b \in registry' \ registry} = (counter + 1)..counter'
      BY <3>0, <3>2, <3>3 DEF TypeOK
    <3>5. counter <= counter'
      BY <3>0, <3>1 DEF DataInv, Tickets, TypeOK
    <3>6. \A a \in registry' \ registry, b \in registry' : a.ref = b.ref \/ a.root = b.root => a = b
      BY <3>0 DEF DataInv, Unique, UniqueIn
    <3>7. \A b \in registry' \ registry : b.root \in Rows /\ row'[b.root].bt = b.ref
      BY <3>0 DEF DataInv, Carried, RootCarriesReference, TypeOK, RefRec
    <3>8. \A r \in Rows : row'[r].bt \in {b.ref : b \in registry'} \union {None}
      BY <3>0 DEF DataInv, LinksRegistered
    <3>9. Registry!Issue
      BY <3>1, <3>4, <3>5, <3>6, <3>7 DEF Registry!Issue
    <3>10. Registry!Attach
      BY <3>1, <3>8 DEF Registry!Attach, Registry!Issued
    <3> QED
      BY <3>9, <3>10 DEF Registry!Next
  <2> QED
    BY <1>2, <2>1, <2>2, <2>3, StepCommits
<1>3. Inv /\ Inv' /\ [Next]_vars => [Registry!Next]_AVars
  BY <1>2
<1> QED
  BY <1>1, <1>3, Invariance, PTL DEF Spec, ImplementsRegistry, Registry!Spec

-----------------------------------------------------------------------------
(* References go to live roots *)

\* The rows a row may be linked to: a contract to an enquiry, a purchase to a contract.
Above(r) == IF r \in Enquiries THEN {None}
            ELSE IF r \in Contracts THEN Enquiries \union {None} ELSE Contracts \union {None}

\* Links go up one level, and a purchase contract keeps the one it is created with.
Hierarchy ==
  /\ \A r \in Rows : row[r].parent \in Above(r) /\ cur[r].parent \in Above(r)
  /\ \A p \in Purchases : cur[p].parent = row[p].parent

\* A root with an uncommitted reference is live.
AliveOf(w) == \A b \in alloc[w] : cur[b.root].status = Live(b.root)

\* The worker's transaction still writes a header that the request gives.
Heads(w) ==
  \/ pc[w] = "header"
  \/ job[w].cont = "header" /\ pc[w] \in {"ensure", "root", "allocate", "propagate", "link"}

\* A header is written after an allocation only by an activation, or by the update of a
\* purchase contract that hangs under another root.
JobOf(w) ==
  /\ pc[w] \in {"idle", "enquiry", "insert"} => alloc[w] = {} /\ job[w].cont = "commit"
  /\ pc[w] = "insert" => job[w].row \in Contracts
  /\ job[w].row \in Contracts => job[w].parent \in Enquiries \union {None}
  /\ Heads(w) => job[w].row \notin Enquiries
  /\ Heads(w) /\ job[w].row \in Contracts =>
       (pc[w] # "header" \/ alloc[w] # {} => job[w].status = "Active")
  /\ Heads(w) /\ job[w].row \in Purchases =>
       /\ job[w].parent = job[w].was.parent
       /\ pc[w] # "header" => row[job[w].row].parent # None
       /\ \A b \in alloc[w] : b.root \notin Purchases
       /\ pc[w] \in {"root", "allocate", "propagate", "link"} => job[w].root \notin Purchases

LiveInv == Hierarchy /\ \A w \in Workers : AliveOf(w) /\ JobOf(w)

-----------------------------------------------------------------------------
(* The steps *)

\* A worker cannot write a row on which another worker's reference waits for its commit.
LEMMA OthersLive ==
  ASSUME Inv, NEW w \in Workers, WriteStep(w), NEW v \in Workers \ {w}, AliveOf(v)
  PROVE  AliveOf(v)'
<1> SUFFICES ASSUME NEW b \in alloc'[v]
             PROVE  cur'[b.root].status = Live(b.root)
  BY DEF AliveOf, Live
<1>1. b \in alloc[v] /\ b.root \in Rows
  BY DEF WriteStep, Inv, TypeOK, RefRec
<1>2. lock[v][b.root] >= 2
  BY <1>1 DEF Inv, DataInv, Carried
<1>3. lock'[v] = lock[v] /\ Granted(w)
  BY DEF WriteStep, Granted
<1>4. cur'[b.root] = cur[b.root]
  BY <1>1, <1>2, <1>3, OneWriter DEF WriteStep, Inv
<1> QED
  BY <1>1, <1>4 DEF AliveOf

\* A write step keeps the invariant, if what it writes and what comes next do.
LEMMA LiveWrite ==
  ASSUME Inv, LiveInv, NEW w \in Workers, WriteStep(w),
         \A v \in Workers \ {w} : pc'[v] = pc[v] /\ job'[v] = job[v],
         \A r \in Rows : cur'[r].parent \in Above(r),
         \A p \in Purchases : cur'[p].parent = cur[p].parent,
         AliveOf(w)', JobOf(w)'
  PROVE  LiveInv'
<1>1. row' = row /\ \A v \in Workers \ {w} : alloc'[v] = alloc[v]
  BY DEF WriteStep
<1>2. Hierarchy'
  BY <1>1 DEF LiveInv, Hierarchy, Above
<1>3. ASSUME NEW v \in Workers \ {w}
      PROVE  AliveOf(v)' /\ JobOf(v)'
  <2>1. AliveOf(v)'
    BY OthersLive DEF LiveInv
  <2>2. JobOf(v)'
    BY <1>1 DEF LiveInv, JobOf, Heads
  <2> QED
    BY <2>1, <2>2
<1> QED
  BY <1>2, <1>3 DEF LiveInv

\* So does a step that changes only the worker's control state.
LEMMA LiveStand ==
  ASSUME LiveInv, NEW w \in Workers, UNCHANGED dataVars,
         \A v \in Workers \ {w} : pc'[v] = pc[v] /\ job'[v] = job[v],
         JobOf(w)'
  PROVE  LiveInv'
<1>1. UNCHANGED <<row, cur, alloc>>
  BY DEF dataVars
<1>2. Hierarchy' /\ \A v \in Workers : AliveOf(v)'
  BY <1>1 DEF LiveInv, Hierarchy, Above, AliveOf, Live
<1>3. \A v \in Workers \ {w} : JobOf(v)'
  BY <1>1 DEF LiveInv, JobOf, Heads
<1> QED
  BY <1>2, <1>3 DEF LiveInv

\* A request starts: nothing is allocated yet.
LEMMA StartLive ==
  ASSUME Inv, LiveInv, NEW w \in Workers, NEW j \in Jobs,
         NEW label \in {"enquiry", "insert", "ensure", "header"}, Start(w, label, j),
         label \in {"enquiry", "insert"} => j.cont = "commit",
         label = "insert" => j.row \in Contracts,
         j.row \in Contracts => j.parent \in Enquiries \union {None},
         label = "header" \/ j.cont = "header" => j.row \notin Enquiries,
         label = "ensure" /\ j.cont = "header" /\ j.row \in Contracts => j.status = "Active",
         j.row \in Purchases => j.parent = j.was.parent,
         label = "ensure" /\ j.cont = "header" /\ j.row \in Purchases => row[j.row].parent # None
  PROVE  LiveInv'
<1>1. /\ label \in Labels /\ job' = [job EXCEPT ![w] = j]
      /\ UNCHANGED <<row, cur, lock, counter, ticket, registry, alloc>>
      /\ Goto(w, label) /\ pc[w] = "idle"
  BY DEF Start, Labels
<1>2. pc'[w] = label /\ \A v \in Workers \ {w} : pc'[v] = pc[v]
  BY <1>1, OneWorker DEF Inv
<1>3. job'[w] = j /\ \A v \in Workers \ {w} : job'[v] = job[v]
  BY <1>1 DEF Inv, TypeOK
<1>4. alloc'[w] = {} /\ row' = row
  BY <1>1 DEF LiveInv, JobOf
<1>5. JobOf(w)'
  BY <1>2, <1>3, <1>4 DEF JobOf, Heads
<1> QED
  BY <1>1, <1>2, <1>3, <1>5, LiveStand DEF dataVars

\* A request of a client.
LEMMA RequestLive ==
  ASSUME Inv, LiveInv, NEW w \in Workers, Request(w)
  PROVE  LiveInv'
<1>0. /\ TypeOK /\ Enquiries \subseteq Rows /\ Contracts \subseteq Rows /\ Purchases \subseteq Rows
      /\ NoJob \in Jobs
  BY DEF Inv, Rows, NoJob, Jobs, AbsentRow, RowRec, Statuses, Keep
<1>1. ASSUME NEW e \in Enquiries, NEW s \in {"PENDING", "CONFIRMED"}, SyncEnquiryStatus(w, e, s)
      PROVE  LiveInv'
  <2> DEFINE j == [NoJob EXCEPT !.row = e, !.status = s, !.root = e]
  <2>1. j \in Jobs /\ j.row = e /\ j.cont = "commit"
    BY <1>0 DEF NoJob, Jobs, Statuses
  <2>2. Start(w, "enquiry", j)
    BY <1>1 DEF SyncEnquiryStatus
  <2>3. e \notin Contracts /\ e \notin Purchases
    BY RowsAssumption
  <2> HIDE DEF j
  <2> QED
    BY <2>1, <2>2, <2>3, StartLive
<1>2. ASSUME NEW c \in Contracts, NEW e \in Enquiries \union {None}, NEW s \in {"Draft", "Active"},
             CreateContract(w, c, e, s)
      PROVE  LiveInv'
  <2> DEFINE j == [NoJob EXCEPT !.row = c, !.status = s, !.parent = e]
  <2>1. j \in Jobs /\ j.row = c /\ j.parent = e /\ j.cont = "commit"
    BY <1>0 DEF NoJob, Jobs, Statuses
  <2>2. Start(w, "insert", j)
    BY <1>2 DEF CreateContract
  <2>3. c \notin Enquiries /\ c \notin Purchases
    BY RowsAssumption
  <2> HIDE DEF j
  <2> QED
    BY <2>1, <2>2, <2>3, StartLive
<1>3. ASSUME NEW c \in Contracts, NEW e \in Enquiries \union {None},
             NEW s \in {"Draft", "Active", Keep}, EditContract(w, c, e, s)
      PROVE  LiveInv'
  <2> DEFINE first == s = "Active" /\ (e # None \/ row[c].parent # None)
             label == IF first THEN "ensure" ELSE "header"
             cont == IF first THEN "header" ELSE "commit"
             j == [NoJob EXCEPT !.row = c, !.status = s, !.parent = e,
                                !.was = row[c], !.cont = cont]
  <2>1. j \in Jobs /\ j.row = c /\ j.parent = e /\ j.status = s /\ j.cont = cont
    <3>1. c \in Rows /\ row[c] \in RowRec /\ e \in Rows \union {None}
      BY <1>0 DEF TypeOK
    <3>2. s \in Statuses \union {Keep}
      BY DEF Statuses
    <3>3. cont \in {"header", "commit"}
      OBVIOUS
    <3> HIDE DEF cont
    <3> QED
      BY <1>0, <3>1, <3>2, <3>3 DEF NoJob, Jobs
  <2>2. Start(w, label, j)
    BY <1>3 DEF EditContract
  <2>3. label \in {"ensure", "header"} /\ (label = "ensure" => s = "Active")
    OBVIOUS
  <2>4. c \notin Enquiries /\ c \notin Purchases
    BY RowsAssumption
  <2> HIDE DEF j, label, cont
  <2> QED
    BY <2>1, <2>2, <2>3, <2>4, StartLive
<1>4. ASSUME NEW p \in Purchases, NEW s \in {"Draft", "In Progress", Keep}, EditPurchase(w, p, s)
      PROVE  LiveInv'
  <2> DEFINE linked == row[p].parent # None
             label == IF linked \/ s = Keep THEN "ensure" ELSE "header"
             cont == IF linked /\ s # Keep THEN "header" ELSE "commit"
             j == [NoJob EXCEPT !.row = p, !.status = s, !.parent = row[p].parent, !.was = row[p],
                                !.cont = cont]
  <2>1. j \in Jobs /\ j.row = p /\ j.parent = row[p].parent /\ j.was = row[p] /\ j.cont = cont
    <3>1. p \in Rows /\ row[p] \in RowRec /\ row[p].parent \in Rows \union {None}
      BY <1>0 DEF TypeOK, RowRec
    <3>2. s \in Statuses \union {Keep}
      BY DEF Statuses
    <3>3. cont \in {"header", "commit"}
      OBVIOUS
    <3> HIDE DEF cont
    <3> QED
      BY <1>0, <3>1, <3>2, <3>3 DEF NoJob, Jobs
  <2>2. Start(w, label, j)
    BY <1>4 DEF EditPurchase
  <2>3. label \in {"ensure", "header"} /\ (cont = "header" => row[p].parent # None)
    OBVIOUS
  <2>4. p \notin Enquiries /\ p \notin Contracts
    BY RowsAssumption
  <2> HIDE DEF j, label, cont
  <2> QED
    BY <2>1, <2>2, <2>3, <2>4, StartLive
<1>5. ASSUME NEW p \in Purchases, NEW c \in Contracts \union {None}, CreatePurchase(w, p, c)
      PROVE  LiveInv'
  <2>1. PICK bt \in {None} \union {row[d].bt : d \in {c} \ {None}} :
          /\ row' = [row EXCEPT ![p] = [status |-> "Draft", parent |-> c, bt |-> bt]]
          /\ cur' = [cur EXCEPT ![p] = [status |-> "Draft", parent |-> c, bt |-> bt]]
    BY <1>5 DEF CreatePurchase
  <2>2. /\ UNCHANGED <<lock, alloc, pc, job>>
        /\ row[p].parent = None /\ \A v \in Workers : lock[v][p] = 0
        /\ row'[p].parent = c /\ cur'[p].parent = c
        /\ \A r \in Rows : r # p => row'[r] = row[r] /\ cur'[r] = cur[r]
    BY <1>0, <1>5, <2>1 DEF CreatePurchase, Fresh, AbsentRow, NoLock, TypeOK
  <2>3. Hierarchy'
    <3>1. p \notin Enquiries /\ p \notin Contracts
      BY RowsAssumption
    <3>2. ASSUME NEW r \in Rows
          PROVE  row'[r].parent \in Above(r) /\ cur'[r].parent \in Above(r)
      BY <2>2, <3>1 DEF LiveInv, Hierarchy, Above
    <3>3. ASSUME NEW q \in Purchases
          PROVE  cur'[q].parent = row'[q].parent
      BY <1>0, <2>2 DEF LiveInv, Hierarchy
    <3> QED
      BY <3>2, <3>3 DEF Hierarchy, Above
  <2>4. ASSUME NEW v \in Workers
        PROVE  AliveOf(v)'
    <3> SUFFICES ASSUME NEW b \in alloc'[v]
                 PROVE  cur'[b.root].status = Live(b.root)
      BY DEF AliveOf, Live
    <3>1. b \in alloc[v] /\ b.root \in Rows
      BY <1>0, <2>2 DEF TypeOK, RefRec
    <3>2. lock[v][b.root] >= 2
      BY <3>1 DEF Inv, DataInv, Carried
    <3>3. cur'[b.root] = cur[b.root]
      BY <2>2, <3>1, <3>2
    <3> QED
      BY <3>1, <3>3 DEF LiveInv, AliveOf
  <2>5. ASSUME NEW v \in Workers
        PROVE  JobOf(v)'
    <3>1. row[job[v].row].parent # None /\ job[v].row \in Purchases => row'[job[v].row] = row[job[v].row]
      BY <1>0, <2>2
    <3> QED
      BY <2>2, <3>1 DEF LiveInv, JobOf, Heads
  <2> QED
    BY <2>3, <2>4, <2>5 DEF LiveInv
<1> QED
  BY <1>1, <1>2, <1>3, <1>4, <1>5 DEF Request

\* The end of a transaction: the rows keep the version that was committed, or commit the
\* worker's own.
LEMMA EndLive ==
  ASSUME Inv, LiveInv, NEW w \in Workers, Commit(w) \/ Rollback(w)
  PROVE  LiveInv'
<1>0. TypeOK /\ DataInv
  BY DEF Inv
<1>1. Release(w)
  BY DEF Commit, Rollback
<1>2. /\ pc'[w] = "idle" /\ job'[w] = NoJob /\ alloc'[w] = {}
      /\ \A v \in Workers \ {w} : pc'[v] = pc[v] /\ job'[v] = job[v] /\ alloc'[v] = alloc[v]
  BY <1>0, <1>1 DEF Release, Goto, TypeOK
<1>3. \A r \in Rows : row'[r] \in {row[r], cur[r]} /\ cur'[r] \in {row[r], cur[r]}
  BY <1>0 DEF Commit, Rollback, TypeOK
<1>4. \A r \in Rows : lock[w][r] < 2 => cur'[r] = cur[r]
  BY <1>0 DEF Commit, Rollback, NoKeyUpdate, TypeOK
<1>5. Hierarchy'
  <2>1. \A r \in Rows : row'[r].parent \in Above(r) /\ cur'[r].parent \in Above(r)
    BY <1>3 DEF LiveInv, Hierarchy
  <2>2. \A p \in Purchases : p \in Rows
    BY DEF Rows
  <2>3. \A p \in Purchases : cur'[p].parent = row'[p].parent
    BY <1>3, <2>2 DEF LiveInv, Hierarchy
  <2> QED
    BY <2>1, <2>3 DEF Hierarchy, Above
<1>6. AliveOf(w)' /\ JobOf(w)'
  <2>1. /\ NoJob.row = None /\ NoJob.cont = "commit"
        /\ None \notin Contracts /\ None \notin Purchases
    BY RowsAssumption DEF NoJob, Rows
  <2> QED
    BY <1>2, <2>1 DEF AliveOf, JobOf, Heads
<1>7. ASSUME NEW v \in Workers \ {w}
      PROVE  AliveOf(v)'
  <2> SUFFICES ASSUME NEW b \in alloc'[v]
               PROVE  cur'[b.root].status = Live(b.root)
    BY DEF AliveOf, Live
  <2>1. b \in alloc[v] /\ b.root \in Rows
    BY <1>0, <1>2 DEF TypeOK, RefRec
  <2>2. lock[v][b.root] >= 2
    BY <1>0, <2>1 DEF DataInv, Carried
  <2>3. lock[v][b.root] + lock[w][b.root] < 4 /\ lock[v][b.root] \in 0..3 /\ lock[w][b.root] \in 0..3
    BY <1>0, <2>1 DEF DataInv, LocksCompatible, TypeOK
  <2>4. cur'[b.root] = cur[b.root]
    BY <1>4, <2>1, <2>2, <2>3
  <2> QED
    BY <2>1, <2>4 DEF LiveInv, AliveOf
<1>8. ASSUME NEW v \in Workers \ {w}
      PROVE  JobOf(v)'
  <2>1. \A p \in Purchases : row'[p].parent = row[p].parent
    BY <1>3 DEF LiveInv, Hierarchy, Rows
  <2> QED
    BY <1>2, <2>1 DEF LiveInv, JobOf, Heads
<1> QED
  BY <1>5, <1>6, <1>7, <1>8 DEF LiveInv

\* A statement of the transaction that leaves the row, the parent and the status of the job
\* alone, goes on inside the allocation, and gives no reference to a purchase contract.
LEMMA SameJob ==
  ASSUME LiveInv, NEW w \in Workers,
         pc[w] \in {"root", "allocate", "propagate", "link"},
         pc'[w] \in {"root", "allocate", "propagate", "link"},
         job'[w].row = job[w].row, job'[w].status = job[w].status,
         job'[w].parent = job[w].parent, job'[w].was = job[w].was,
         job'[w].cont = job[w].cont, job'[w].root = job[w].root, row' = row,
         \A b \in alloc'[w] : b \in alloc[w] \/ b.root = job[w].root
  PROVE  JobOf(w)'
BY DEF LiveInv, JobOf, Heads

\* A new reference is given to a live root: the trigger lets a parent's reference through,
\* but no parent carries a number that is not taken yet.
LEMMA AllocatesLive ==
  ASSUME Inv, NEW w \in Workers, AllocateReference(w)
  PROVE  cur[job[w].root].status = Live(job[w].root)
<1> DEFINE root == job[w].root
           new == AllocatedRow(w)
<1>1. TypeOK /\ DataInv /\ root \in Rows /\ cur[root].bt = None /\ cur[root] \in RowRec
  BY DEF Inv, Control, ControlOf, AllocateReference, TypeOK
<1>2. ticket + 1 \in Nat /\ ticket + 1 # None /\ ticket \in Nat
  BY <1>1, NullAssumption DEF TypeOK
<1>3. new.bt = ticket + 1 /\ new.parent = cur[root].parent /\ new.status = cur[root].status
  BY <1>1, <1>2 DEF AllocatedRow, RowRec
<1>4. TriggerAllows(w, root, new, Registered(w) \union {AllocatedRef(w)})
  BY DEF AllocateReference
<1>5. ASSUME new.parent # None
      PROVE  View(w, new.parent).bt # new.bt
  <2>1. PICK p \in Rows : p = new.parent
    BY <1>1, <1>3, <1>5 DEF RowRec
  <2>2. ASSUME View(w, p).bt = ticket + 1
        PROVE  FALSE
    <3>1. PICK b \in Registered(w) : b.ref = ticket + 1
      BY <1>1, <1>2, <2>2 DEF DataInv, LinksRegistered, View, Registered, NoKeyUpdate, TypeOK
    <3>2. b.ref <= ticket
      BY <1>1, <1>2, <3>1 DEF DataInv, Tickets, Registered, TypeOK
    <3> QED
      BY <1>2, <3>1, <3>2
  <2> QED
    BY <1>3, <2>1, <2>2
<1> HIDE DEF new
<1>6. new.status = Live(root)
  BY <1>1, <1>2, <1>3, <1>4, <1>5 DEF TriggerAllows
<1> QED
  BY <1>3, <1>6

\* A statement of the transaction.
LEMMA ProceedLive ==
  ASSUME Inv, Inv', LiveInv, NEW w \in Workers, Proceed(w) \/ Crash(w)
  PROVE  LiveInv'
<1> DEFINE j == job[w]
<1>0. /\ TypeOK /\ DataInv /\ ControlOf(w) /\ j \in Jobs /\ AliveOf(w) /\ JobOf(w) /\ Hierarchy
      /\ TypeOK' /\ NoJob \in Jobs /\ NoJob.cont = "commit" /\ NoJob.parent = None
      /\ Purchases \subseteq Rows
  BY DEF Inv, Control, TypeOK, LiveInv, NoJob, Rows, Jobs, AbsentRow, RowRec, Statuses, Keep
<1>00. ASSUME Forget(w)
       PROVE  /\ job'[w].row = j.row /\ job'[w].cont = "commit" /\ job'[w].parent = None
              /\ \A v \in Workers \ {w} : job'[v] = job[v]
  <2> DEFINE rest == [NoJob EXCEPT !.row = j.row]
  <2>1. rest.row = j.row /\ rest.cont = "commit" /\ rest.parent = None
    BY DEF NoJob
  <2> HIDE DEF rest
  <2> QED
    BY <1>0, <1>00, <2>1 DEF Forget, TypeOK, rest
<1>01. ASSUME NEW label \in Labels, Goto(w, label)
       PROVE  pc'[w] = label /\ \A v \in Workers \ {w} : pc'[v] = pc[v]
  BY <1>0, <1>01, OneWorker
<1>1. ASSUME SetEnquiryStatus(w)
      PROVE  LiveInv'
  <2>1. WriteStep(w) /\ UNCHANGED <<alloc, row, job>> /\ pc[w] = "enquiry" /\ j.row \in Rows
    BY <1>0, <1>1, SetEnquiryStatusWrites DEF SetEnquiryStatus, ControlOf
  <2>2. PICK label \in {"root", "commit"} : Goto(w, label)
    BY <1>1 DEF SetEnquiryStatus
  <2>3. pc'[w] = label /\ \A v \in Workers \ {w} : pc'[v] = pc[v]
    BY <1>01, <2>2 DEF Labels
  <2>4. \A r \in Rows : cur'[r].parent = cur[r].parent
    BY <1>0, <1>1, <2>1 DEF SetEnquiryStatus, TypeOK, RowRec
  <2>5. AliveOf(w)' /\ JobOf(w)'
    BY <1>0, <2>1, <2>3 DEF AliveOf, JobOf, Heads
  <2>6. (\A r \in Rows : cur'[r].parent \in Above(r)) /\ \A p \in Purchases : cur'[p].parent = cur[p].parent
    BY <1>0, <2>4 DEF Hierarchy
  <2> QED
    BY <2>1, <2>3, <2>5, <2>6, LiveWrite
<1>2. ASSUME InsertContract(w)
      PROVE  LiveInv'
  <2>1. WriteStep(w) /\ UNCHANGED <<alloc, row>> /\ pc[w] = "insert" /\ j.row \in Rows /\ Forget(w)
    BY <1>0, <1>2, InsertContractWrites DEF InsertContract, ControlOf
  <2>2. PICK label \in {"ensure", "commit"} : Goto(w, label)
    BY <1>2 DEF InsertContract
  <2>3. pc'[w] = label /\ \A v \in Workers \ {w} : pc'[v] = pc[v]
    BY <1>01, <2>2 DEF Labels
  <2>4. /\ cur'[j.row].parent = j.parent /\ \A r \in Rows : r # j.row => cur'[r] = cur[r]
    BY <1>0, <1>2, <2>1 DEF InsertContract, TypeOK
  <2>5. AliveOf(w)' /\ JobOf(w)'
    BY <1>0, <1>00, <2>1, <2>3 DEF AliveOf, JobOf, Heads
  <2>6. j.row \in Contracts /\ j.row \notin Enquiries /\ j.row \notin Purchases
    BY <1>0, <2>1, RowsAssumption DEF JobOf
  <2>7. (\A r \in Rows : cur'[r].parent \in Above(r)) /\ \A p \in Purchases : cur'[p].parent = cur[p].parent
    BY <1>0, <2>4, <2>6 DEF Hierarchy, JobOf, Above
  <2> QED
    BY <1>00, <2>1, <2>3, <2>5, <2>7, LiveWrite
<1>3. ASSUME Ensure(w)
      PROVE  LiveInv'
  <2> DEFINE up(r) == IF View(w, r).parent = None THEN r ELSE View(w, r).parent
             root == up(up(j.row))
             live == View(w, root).status = Live(root)
  <2>1. j.row \in Rows /\ pc[w] = "ensure"
    BY <1>0, <1>3 DEF ControlOf, Ensure
  <2>2. \A r \in Rows : View(w, r).parent \in Above(r)
    BY <1>0 DEF View, Hierarchy
  <2>3. ASSUME j.row \in Purchases, row[j.row].parent # None
        PROVE  root \notin Purchases
    <3>1. View(w, j.row).parent = row[j.row].parent
      BY <1>0, <2>3 DEF View, Hierarchy
    <3>2. up(j.row) \in Contracts
      BY <2>1, <2>2, <2>3, <3>1, RowsAssumption DEF Above
    <3>3. up(up(j.row)) \in Contracts \union Enquiries
      BY <2>2, <3>2, RowsAssumption DEF Above, Rows
    <3> QED
      BY <3>3, RowsAssumption
  <2> HIDE DEF up, root
  <2>4. /\ job' = [job EXCEPT ![w] = IF live THEN [j EXCEPT !.root = root]
                                             ELSE [j EXCEPT !.cont = "commit"]]
        /\ Goto(w, IF live THEN "root" ELSE j.cont)
        /\ UNCHANGED <<row, cur, lock, counter, ticket, registry, alloc>>
    BY <1>3 DEF Ensure, root, up
  <2>5. /\ \A v \in Workers \ {w} : job'[v] = job[v]
        /\ job'[w].row = j.row /\ job'[w].status = j.status /\ job'[w].parent = j.parent
        /\ job'[w].was = j.was
        /\ live => job'[w].root = root /\ job'[w].cont = j.cont
        /\ ~live => job'[w].cont = "commit"
    BY <1>0, <2>4 DEF TypeOK, Jobs
  <2>6. PICK label \in {"root", "header", "commit"} :
          /\ Goto(w, label)
          /\ label = "root" => live
          /\ label = "header" => ~live /\ j.cont = "header"
    BY <1>0, <2>4 DEF Jobs
  <2>7. pc'[w] = label /\ \A v \in Workers \ {w} : pc'[v] = pc[v]
    BY <1>01, <2>6 DEF Labels
  <2> HIDE DEF live
  <2>8. JobOf(w)'
    BY <1>0, <2>1, <2>3, <2>4, <2>5, <2>6, <2>7 DEF JobOf, Heads
  <2> QED
    BY <2>4, <2>5, <2>7, <2>8, LiveStand DEF dataVars
<1>4. ASSUME UpdateHeader(w)
      PROVE  LiveInv'
  <2>1. WriteStep(w) /\ UNCHANGED <<alloc, row>> /\ pc[w] = "header" /\ j.row \in Rows /\ Forget(w)
    BY <1>0, <1>4, UpdateHeaderWrites DEF UpdateHeader, ControlOf
  <2>2. PICK label \in {"ensure", "commit"} : Goto(w, label)
    BY <1>4 DEF UpdateHeader
  <2>3. pc'[w] = label /\ \A v \in Workers \ {w} : pc'[v] = pc[v]
    BY <1>01, <2>2 DEF Labels
  <2>4. /\ cur'[j.row] = HeaderRow(w) /\ \A r \in Rows : r # j.row => cur'[r] = cur[r]
        /\ HeaderRow(w).status \in {cur[j.row].status, j.status}
        /\ HeaderRow(w).parent = IF j.parent # j.was.parent THEN j.parent ELSE cur[j.row].parent
    BY <1>0, <1>4, <2>1 DEF UpdateHeader, TypeOK, HeaderRow, MovesParent
  <2>5. JobOf(w)'
    BY <1>0, <1>00, <2>1, <2>3 DEF JobOf, Heads
  <2>6. AliveOf(w)'
    <3> SUFFICES ASSUME NEW b \in alloc[w]
                 PROVE  cur'[b.root].status = Live(b.root)
      BY <2>1 DEF AliveOf, Live
    <3>1. b.root \in Rows /\ cur[b.root].status = Live(b.root)
      BY <1>0 DEF TypeOK, RefRec, AliveOf
    <3>2. CASE b.root # j.row
      BY <2>4, <3>1, <3>2
    <3>3. CASE b.root = j.row
      <4>1. j.row \in Contracts /\ j.status = "Active"
        BY <1>0, <2>1, <3>3 DEF JobOf, Heads, Rows
      <4>2. Live(j.row) = "Active"
        BY <4>1, RowsAssumption DEF Live
      <4> QED
        BY <2>4, <3>1, <3>3, <4>1, <4>2
    <3> QED
      BY <3>2, <3>3
  <2>7. \A r \in Rows : cur'[r].parent \in Above(r)
    <3>1. HeaderRow(w).parent \in Above(j.row)
      <4>1. CASE j.row \in Contracts
        BY <1>0, <2>1, <2>4, <4>1, RowsAssumption DEF JobOf, Above, Hierarchy
      <4>2. CASE j.row \notin Contracts
        BY <1>0, <2>1, <2>4, <4>2 DEF JobOf, Heads, Hierarchy, Rows
      <4> QED
        BY <4>1, <4>2
    <3> QED
      BY <1>0, <2>4, <3>1 DEF Hierarchy
  <2>8. \A p \in Purchases : cur'[p].parent = cur[p].parent
    BY <1>0, <2>1, <2>4 DEF JobOf, Heads
  <2> QED
    BY <1>00, <2>1, <2>3, <2>5, <2>6, <2>7, <2>8, LiveWrite
<1>5. ASSUME LockRoot(w)
      PROVE  LiveInv'
  <2>1. WriteStep(w) /\ cur' = cur /\ UNCHANGED <<alloc, row>> /\ pc[w] = "root" /\ j.root \in Rows
    BY <1>0, <1>5, LockRootWrites DEF LockRoot, ControlOf
  <2>2. PICK label \in {"allocate", "propagate"} : Goto(w, label)
    BY <1>5 DEF LockRoot
  <2>3. pc'[w] = label /\ \A v \in Workers \ {w} : pc'[v] = pc[v]
    BY <1>01, <2>2 DEF Labels
  <2>4. job' = [job EXCEPT ![w] = [j EXCEPT !.todo = {j.root}]]
    BY <1>5 DEF LockRoot
  <2>5. /\ \A v \in Workers \ {w} : job'[v] = job[v]
        /\ job'[w].row = j.row /\ job'[w].status = j.status /\ job'[w].parent = j.parent
        /\ job'[w].was = j.was /\ job'[w].cont = j.cont /\ job'[w].root = j.root
    BY <1>0, <2>4 DEF TypeOK, Jobs
  <2>6. JobOf(w)'
    BY <2>1, <2>3, <2>5, SameJob
  <2>7. AliveOf(w)'
    BY <1>0, <2>1 DEF AliveOf, Live
  <2>8. (\A r \in Rows : cur'[r].parent \in Above(r)) /\ \A p \in Purchases : cur'[p].parent = cur[p].parent
    BY <1>0, <2>1 DEF Hierarchy
  <2> QED
    BY <2>1, <2>3, <2>5, <2>6, <2>7, <2>8, LiveWrite
<1>6. ASSUME AllocateReference(w)
      PROVE  LiveInv'
  <2>1. WriteStep(w) /\ UNCHANGED <<row, job>> /\ pc[w] = "allocate" /\ j.root \in Rows
    BY <1>0, <1>6, AllocateReferenceWrites DEF AllocateReference, ControlOf
  <2>2. Goto(w, "propagate")
    BY <1>6 DEF AllocateReference
  <2>3. pc'[w] = "propagate" /\ \A v \in Workers \ {w} : pc'[v] = pc[v]
    BY <1>01, <2>2 DEF Labels
  <2>4. alloc'[w] = alloc[w] \union {AllocatedRef(w)} /\ AllocatedRef(w).root = j.root
    BY <1>0, <1>6 DEF AllocateReference, TypeOK, AllocatedRef
  <2>5. \A r \in Rows : cur'[r].parent = cur[r].parent /\ cur'[r].status = cur[r].status
    <3>1. cur[j.root] \in RowRec
      BY <1>0, <2>1 DEF TypeOK
    <3>2. AllocatedRow(w).parent = cur[j.root].parent /\ AllocatedRow(w).status = cur[j.root].status
      BY <3>1 DEF AllocatedRow, RowRec
    <3> QED
      BY <1>0, <1>6, <2>1, <3>2 DEF AllocateReference, TypeOK
  <2>6. AliveOf(w)'
    <3> SUFFICES ASSUME NEW b \in alloc'[w]
                 PROVE  cur'[b.root].status = Live(b.root)
      BY DEF AliveOf, Live
    <3>1. CASE b \in alloc[w]
      BY <1>0, <2>5, <3>1 DEF AliveOf, TypeOK, RefRec
    <3>2. CASE b = AllocatedRef(w)
      BY <1>6, <2>1, <2>4, <2>5, <3>2, AllocatesLive
    <3> QED
      BY <2>4, <3>1, <3>2
  <2>7. JobOf(w)'
    BY <2>1, <2>3, <2>4, SameJob
  <2>8. (\A r \in Rows : cur'[r].parent \in Above(r)) /\ \A p \in Purchases : cur'[p].parent = cur[p].parent
    BY <1>0, <2>5 DEF Hierarchy
  <2> QED
    BY <2>1, <2>3, <2>6, <2>7, <2>8, LiveWrite
<1>7. ASSUME NEW x \in j.todo, CheckRelated(w, x)
      PROVE  LiveInv'
  <2>1. /\ UNCHANGED <<row, cur, lock, counter, ticket, registry, alloc>> /\ Goto(w, "link")
        /\ job' = [job EXCEPT ![w] = [j EXCEPT !.at = x]] /\ pc[w] = "propagate"
    BY <1>7 DEF CheckRelated
  <2>2. pc'[w] = "link" /\ \A v \in Workers \ {w} : pc'[v] = pc[v]
    BY <1>01, <2>1 DEF Labels
  <2>3. /\ \A v \in Workers \ {w} : job'[v] = job[v]
        /\ job'[w].row = j.row /\ job'[w].status = j.status /\ job'[w].parent = j.parent
        /\ job'[w].was = j.was /\ job'[w].cont = j.cont /\ job'[w].root = j.root
    BY <1>0, <2>1 DEF TypeOK, Jobs
  <2>4. JobOf(w)'
    BY <2>1, <2>2, <2>3, SameJob
  <2> QED
    BY <2>1, <2>2, <2>3, <2>4, LiveStand DEF dataVars
<1>8. ASSUME LinkRelated(w)
      PROVE  LiveInv'
  <2> DEFINE todo == Remaining(w)
             rest == [NoJob EXCEPT !.row = j.row, !.status = j.status,
                                   !.parent = j.parent, !.was = j.was]
  <2>1. WriteStep(w) /\ UNCHANGED <<alloc, row>> /\ pc[w] = "link"
    BY <1>8, LinkRelatedWrites DEF LinkRelated
  <2>2. \/ job' = [job EXCEPT ![w] = [j EXCEPT !.todo = todo]] /\ Goto(w, "propagate")
        \/ job' = [job EXCEPT ![w] = rest] /\ Goto(w, j.cont)
    BY <1>8 DEF LinkRelated
  <2> HIDE DEF todo
  <2>3. /\ rest.row = j.row /\ rest.status = j.status /\ rest.parent = j.parent /\ rest.was = j.was
        /\ rest.cont = "commit"
    BY DEF NoJob
  <2> HIDE DEF rest
  <2>4. /\ \A v \in Workers \ {w} : job'[v] = job[v]
        /\ job'[w].row = j.row /\ job'[w].status = j.status /\ job'[w].parent = j.parent
        /\ job'[w].was = j.was
    BY <1>0, <2>2, <2>3 DEF TypeOK, Jobs
  <2>5. \A r \in Rows : cur'[r].parent = cur[r].parent /\ cur'[r].status = cur[r].status
    BY <1>0, <1>8 DEF LinkRelated, Linked, TypeOK, RowRec
  <2>6. AliveOf(w)'
    <3>1. \A b \in alloc[w] : b.root \in Rows
      BY <1>0 DEF TypeOK, RefRec
    <3> QED
      BY <1>0, <2>1, <2>5, <3>1 DEF AliveOf, Live
  <2>7. ASSUME job' = [job EXCEPT ![w] = [j EXCEPT !.todo = todo]], Goto(w, "propagate")
        PROVE  JobOf(w)' /\ \A v \in Workers \ {w} : pc'[v] = pc[v]
    <3>1. pc'[w] = "propagate" /\ \A v \in Workers \ {w} : pc'[v] = pc[v]
      BY <1>01, <2>7 DEF Labels
    <3>2. job'[w].cont = j.cont /\ job'[w].root = j.root
      BY <1>0, <2>7 DEF TypeOK, Jobs
    <3>3. JobOf(w)'
      BY <2>1, <2>4, <3>1, <3>2, SameJob
    <3> QED
      BY <3>1, <3>3
  <2>8. ASSUME job' = [job EXCEPT ![w] = rest], Goto(w, j.cont)
        PROVE  JobOf(w)' /\ \A v \in Workers \ {w} : pc'[v] = pc[v]
    <3>1. j.cont \in {"header", "commit"} /\ j.cont \in Labels
      BY <1>0 DEF Jobs, Labels
    <3>2. pc'[w] = j.cont /\ \A v \in Workers \ {w} : pc'[v] = pc[v]
      BY <1>01, <2>8, <3>1
    <3>3. job'[w].cont = "commit"
      BY <1>0, <2>3, <2>8 DEF TypeOK
    <3>4. JobOf(w)'
      BY <1>0, <2>1, <2>4, <3>1, <3>2, <3>3 DEF JobOf, Heads
    <3> QED
      BY <3>2, <3>4
  <2>9. (\A r \in Rows : cur'[r].parent \in Above(r)) /\ \A p \in Purchases : cur'[p].parent = cur[p].parent
    BY <1>0, <2>5 DEF Hierarchy
  <2>10. JobOf(w)' /\ \A v \in Workers \ {w} : pc'[v] = pc[v]
    BY <2>2, <2>7, <2>8
  <2> QED
    BY <2>1, <2>4, <2>6, <2>9, <2>10, LiveWrite
<1>9. CASE Commit(w) \/ Throw(w) \/ DeadlockVictim(w) \/ Crash(w)
  BY <1>9, EndLive DEF Throw, DeadlockVictim, Crash
<1> QED
  BY <1>1, <1>2, <1>3, <1>4, <1>5, <1>6, <1>7, <1>8, <1>9 DEF Proceed

\* Nothing is allocated in the empty tables.
LEMMA InitLive == Init => LiveInv
<1> SUFFICES ASSUME Init
             PROVE  LiveInv
  OBVIOUS
<1>1. cur = row /\ \A r \in Rows : row[r].parent = None
  <2>1. \A r \in Rows : row[r] \in {AbsentRow, [AbsentRow EXCEPT !.status = "PENDING"]}
    BY DEF Init
  <2> QED
    BY <2>1 DEF Init, AbsentRow
<1>2. \A w \in Workers : alloc[w] = {} /\ pc[w] = "idle" /\ job[w] = NoJob
  BY DEF Init
<1>3. Hierarchy
  BY <1>1 DEF Hierarchy, Above, Rows
<1>4. NoJob.row = None /\ NoJob.cont = "commit" /\ None \notin Contracts /\ None \notin Purchases
  BY RowsAssumption DEF NoJob, Rows
<1> QED
  BY <1>2, <1>3, <1>4 DEF LiveInv, AliveOf, JobOf, Heads

\* Every step keeps both invariants.
LEMMA StepLive == Inv /\ Inv' /\ LiveInv /\ [Next]_vars => LiveInv'
<1> SUFFICES ASSUME Inv, Inv', LiveInv, [Next]_vars
             PROVE  LiveInv'
  OBVIOUS
<1>1. CASE Next
  <2>1. PICK w \in Workers : Request(w) \/ Proceed(w) \/ Crash(w)
    BY <1>1 DEF Next
  <2> QED
    BY <2>1, RequestLive, ProceedLive
<1>2. CASE UNCHANGED vars
  <2>1. UNCHANGED <<row, cur, alloc, pc, job>>
    BY <1>2 DEF vars
  <2>2. Hierarchy' /\ \A w \in Workers : AliveOf(w)'
    BY <2>1 DEF LiveInv, Hierarchy, Above, AliveOf, Live
  <2>3. \A w \in Workers : JobOf(w)'
    BY <2>1 DEF LiveInv, JobOf, Heads
  <2> QED
    BY <2>2, <2>3 DEF LiveInv
<1> QED
  BY <1>1, <1>2

\* A reference is only ever given to a root that is live when the transaction commits
\* (getOrCreateRoot, the root-owner trigger), although ensureForSalesContract reads the
\* status without a lock and the header is written after the allocation.
THEOREM AllocatedLive == Spec => AllocatedWhenLive
<1>1. ASSUME Inv, LiveInv, Next
      PROVE  \A b \in registry' \ registry : row'[b.root].status = Live(b.root)
  <2>1. ASSUME NEW w \in Workers, Commit(w), NEW b \in registry' \ registry
        PROVE  row'[b.root].status = Live(b.root)
    <3>1. b \in alloc[w] /\ b.root \in Rows
      BY <1>1, <2>1 DEF Commit, Registered, Inv, TypeOK, RefRec
    <3>2. lock[w][b.root] >= 2 /\ cur[b.root].status = Live(b.root)
      BY <1>1, <3>1 DEF Inv, DataInv, Carried, LiveInv, AliveOf
    <3> QED
      BY <2>1, <3>1, <3>2 DEF Commit, NoKeyUpdate
  <2> QED
    BY <1>1, <2>1, StepCommits
<1>2. Inv /\ LiveInv /\ [Next]_vars
        => [\A b \in registry' \ registry : row'[b.root].status = Live(b.root)]_vars
  BY <1>1
<1> QED
  BY <1>2, InitLive, StepLive, Invariance, PTL DEF Spec, AllocatedWhenLive

-----------------------------------------------------------------------------
(* One request at a time *)

\* The active contracts of confirmed enquiries that have no reference yet, a transaction's
\* own writes included.
Missing ==
  {c \in Contracts : /\ cur[c].status = "Active" /\ cur[c].bt = None
                     /\ cur[c].parent \in Enquiries
                     /\ cur[cur[c].parent].status = "CONFIRMED"}

\* Where the running request stands with the contracts it leaves unreferenced: it may miss
\* the contract it has written, or the children of the root it propagates from.
Pending(w) ==
  /\ pc[w] = "enquiry" => job[w].row \in Enquiries
  /\ pc[w] \in {"enquiry", "insert", "header", "commit"} => Missing = {}
  /\ pc[w] = "ensure" => Missing \subseteq {job[w].row}
  /\ pc[w] = "ensure" /\ job[w].cont = "header" => Missing = {}
  /\ pc[w] \in {"root", "allocate", "propagate", "link"} =>
       \A c \in Missing : cur[c].parent = job[w].root
  /\ pc[w] \in {"allocate", "propagate", "link"} => Missing = {} \/ job[w].root \in job[w].todo
  /\ Heads(w) /\ job[w].row \in Contracts => cur[job[w].row].status = job[w].was.status

OneBusy == \A v, w \in Workers : pc[v] # "idle" /\ pc[w] # "idle" => v = w

SerialInv ==
  /\ OneBusy
  /\ \A w \in Workers : \A r \in Rows : pc[w] = "idle" => lock[w][r] = 0
  /\ ActiveContractsReferenced
  /\ \A w \in Workers : pc[w] # "idle" => Pending(w)

\* The one request that runs sees every row as it is.
LEMMA SerialView ==
  ASSUME Inv, SerialInv, NEW w \in Workers, \A v \in Workers \ {w} : pc[v] = "idle",
         NEW r \in Rows
  PROVE  View(w, r) = cur[r] /\ (lock[w][r] < 2 => cur[r] = row[r])
<1>1. CASE lock[w][r] >= 2
  <2>1. lock[w][r] \in 0..3
    BY DEF Inv, TypeOK
  <2> QED
    BY <1>1, <2>1 DEF View, NoKeyUpdate
<1>2. CASE ~(lock[w][r] >= 2)
  <2>1. lock[w][r] < 2
    BY <1>2 DEF Inv, TypeOK
  <2>2. \A v \in Workers : lock[v][r] < 2
    BY <2>1 DEF SerialInv
  <2>3. cur[r] = row[r]
    BY <2>2 DEF Inv, DataInv, Clean
  <2> QED
    BY <1>2, <2>3 DEF View, NoKeyUpdate
<1> QED
  BY <1>1, <1>2

\* When nothing runs, nothing is missing.
LEMMA NothingMissing ==
  ASSUME Inv, SerialInv, \A v \in Workers : pc[v] = "idle"
  PROVE  cur = row /\ Missing = {}
<1>1. \A r \in Rows : cur[r] = row[r]
  BY DEF Inv, DataInv, Clean, SerialInv
<1>2. cur = row
  BY <1>1 DEF Inv, TypeOK
<1>3. Missing = {}
  BY <1>2 DEF Missing, SerialInv, ActiveContractsReferenced
<1> QED
  BY <1>2, <1>3

\* A step of the one request that runs.
LEMMA SerialStep ==
  ASSUME SerialInv, NEW w \in Workers, pc[w] # "idle", pc'[w] # "idle", row' = row,
         \A v \in Workers \ {w} : pc'[v] = pc[v] /\ lock'[v] = lock[v],
         Pending(w)'
  PROVE  SerialInv'
<1>1. \A v \in Workers \ {w} : pc[v] = "idle"
  BY DEF SerialInv, OneBusy
<1>2. OneBusy' /\ ActiveContractsReferenced'
  BY <1>1 DEF SerialInv, OneBusy, ActiveContractsReferenced
<1>3. \A v \in Workers : \A r \in Rows : pc'[v] = "idle" => lock'[v][r] = 0
  BY <1>1 DEF SerialInv
<1>4. \A v \in Workers : pc'[v] # "idle" => v = w
  BY <1>1
<1> QED
  BY <1>2, <1>3, <1>4 DEF SerialInv

\* A request starts, when no other one runs.
LEMMA StartSerial ==
  ASSUME Inv, SerialInv, NEW w \in Workers, NEW j \in Jobs,
         NEW label \in {"enquiry", "insert", "ensure", "header"}, Start(w, label, j), OneBusy',
         label = "enquiry" => j.row \in Enquiries,
         j.row \in Contracts /\ (label = "header" \/ j.cont = "header") => j.was = row[j.row]
  PROVE  SerialInv'
<1>1. /\ label \in Labels /\ job' = [job EXCEPT ![w] = j]
      /\ UNCHANGED <<row, cur, lock, counter, ticket, registry, alloc>>
      /\ Goto(w, label) /\ pc[w] = "idle"
  BY DEF Start, Labels
<1>2. pc'[w] = label /\ \A v \in Workers \ {w} : pc'[v] = pc[v]
  BY <1>1, OneWorker DEF Inv
<1>3. job'[w] = j
  BY <1>1 DEF Inv, TypeOK
<1>4. \A v \in Workers : pc[v] = "idle"
  BY <1>1, <1>2 DEF OneBusy
<1>5. cur = row /\ Missing = {}
  BY <1>4, NothingMissing
<1>6. Missing' = {}
  BY <1>1, <1>5 DEF Missing
<1>7. Pending(w)'
  BY <1>1, <1>2, <1>3, <1>5, <1>6 DEF Pending, Heads
<1>8. \A v \in Workers : \A r \in Rows : pc'[v] = "idle" => lock'[v][r] = 0
  BY <1>1, <1>4 DEF SerialInv
<1>9. \A v \in Workers : pc'[v] # "idle" => v = w
  BY <1>2, <1>4
<1>10. ActiveContractsReferenced'
  BY <1>1 DEF SerialInv, ActiveContractsReferenced
<1> QED
  BY <1>7, <1>8, <1>9, <1>10 DEF SerialInv

\* A request of a client that finds no other one running.
LEMMA RequestSerial ==
  ASSUME Inv, SerialInv, NEW w \in Workers, Request(w), OneBusy'
  PROVE  SerialInv'
<1>0. /\ TypeOK /\ Enquiries \subseteq Rows /\ Contracts \subseteq Rows /\ Purchases \subseteq Rows
      /\ NoJob \in Jobs
  BY DEF Inv, Rows, NoJob, Jobs, AbsentRow, RowRec, Statuses, Keep
<1>1. ASSUME NEW e \in Enquiries, NEW s \in {"PENDING", "CONFIRMED"}, SyncEnquiryStatus(w, e, s)
      PROVE  SerialInv'
  <2> DEFINE j == [NoJob EXCEPT !.row = e, !.status = s, !.root = e]
  <2>1. j \in Jobs /\ j.row = e
    BY <1>0 DEF NoJob, Jobs, Statuses
  <2>2. Start(w, "enquiry", j)
    BY <1>1 DEF SyncEnquiryStatus
  <2>3. e \notin Contracts
    BY RowsAssumption
  <2> HIDE DEF j
  <2> QED
    BY <2>1, <2>2, <2>3, StartSerial
<1>2. ASSUME NEW c \in Contracts, NEW e \in Enquiries \union {None}, NEW s \in {"Draft", "Active"},
             CreateContract(w, c, e, s)
      PROVE  SerialInv'
  <2> DEFINE j == [NoJob EXCEPT !.row = c, !.status = s, !.parent = e]
  <2>1. j \in Jobs /\ j.cont = "commit"
    BY <1>0 DEF NoJob, Jobs, Statuses
  <2>2. Start(w, "insert", j)
    BY <1>2 DEF CreateContract
  <2> HIDE DEF j
  <2> QED
    BY <2>1, <2>2, StartSerial
<1>3. ASSUME NEW c \in Contracts, NEW e \in Enquiries \union {None},
             NEW s \in {"Draft", "Active", Keep}, EditContract(w, c, e, s)
      PROVE  SerialInv'
  <2> DEFINE first == s = "Active" /\ (e # None \/ row[c].parent # None)
             label == IF first THEN "ensure" ELSE "header"
             cont == IF first THEN "header" ELSE "commit"
             j == [NoJob EXCEPT !.row = c, !.status = s, !.parent = e,
                                !.was = row[c], !.cont = cont]
  <2>1. j \in Jobs /\ j.row = c /\ j.was = row[c]
    <3>1. c \in Rows /\ row[c] \in RowRec /\ e \in Rows \union {None}
      BY <1>0 DEF TypeOK
    <3>2. s \in Statuses \union {Keep}
      BY DEF Statuses
    <3>3. cont \in {"header", "commit"}
      OBVIOUS
    <3> HIDE DEF cont
    <3> QED
      BY <1>0, <3>1, <3>2, <3>3 DEF NoJob, Jobs
  <2>2. Start(w, label, j)
    BY <1>3 DEF EditContract
  <2>3. label \in {"ensure", "header"}
    OBVIOUS
  <2> HIDE DEF j, label, cont
  <2> QED
    BY <2>1, <2>2, <2>3, StartSerial
<1>4. ASSUME NEW p \in Purchases, NEW s \in {"Draft", "In Progress", Keep}, EditPurchase(w, p, s)
      PROVE  SerialInv'
  <2> DEFINE linked == row[p].parent # None
             label == IF linked \/ s = Keep THEN "ensure" ELSE "header"
             cont == IF linked /\ s # Keep THEN "header" ELSE "commit"
             j == [NoJob EXCEPT !.row = p, !.status = s, !.parent = row[p].parent, !.was = row[p],
                                !.cont = cont]
  <2>1. j \in Jobs /\ j.row = p
    <3>1. p \in Rows /\ row[p] \in RowRec /\ row[p].parent \in Rows \union {None}
      BY <1>0 DEF TypeOK, RowRec
    <3>2. s \in Statuses \union {Keep}
      BY DEF Statuses
    <3>3. cont \in {"header", "commit"}
      OBVIOUS
    <3> HIDE DEF cont
    <3> QED
      BY <1>0, <3>1, <3>2, <3>3 DEF NoJob, Jobs
  <2>2. Start(w, label, j)
    BY <1>4 DEF EditPurchase
  <2>3. label \in {"ensure", "header"}
    OBVIOUS
  <2>4. p \notin Contracts
    BY RowsAssumption
  <2> HIDE DEF j, label, cont
  <2> QED
    BY <2>1, <2>2, <2>3, <2>4, StartSerial
<1>5. ASSUME NEW p \in Purchases, NEW c \in Contracts \union {None}, CreatePurchase(w, p, c)
      PROVE  SerialInv'
  <2>1. PICK bt \in {None} \union {row[d].bt : d \in {c} \ {None}} :
          /\ row' = [row EXCEPT ![p] = [status |-> "Draft", parent |-> c, bt |-> bt]]
          /\ cur' = [cur EXCEPT ![p] = [status |-> "Draft", parent |-> c, bt |-> bt]]
    BY <1>5 DEF CreatePurchase
  <2>2. UNCHANGED <<lock, pc, job>> /\ \A r \in Rows : r # p => row'[r] = row[r] /\ cur'[r] = cur[r]
    BY <1>0, <1>5, <2>1 DEF CreatePurchase, TypeOK
  <2>3. \A c1 \in Contracts : row'[c1] = row[c1] /\ cur'[c1] = cur[c1]
    BY <1>0, <2>2, RowsAssumption
  <2>4. \A e \in Enquiries : row'[e] = row[e] /\ cur'[e] = cur[e]
    BY <1>0, <2>2, RowsAssumption
  <2>5. Missing' = Missing
    BY <2>3, <2>4 DEF Missing
  <2>6. ActiveContractsReferenced'
    BY <2>3, <2>4 DEF SerialInv, ActiveContractsReferenced
  <2>7. ASSUME NEW v \in Workers, pc[v] # "idle"
        PROVE  Pending(v)'
    <3>1. Pending(v)
      BY <2>7 DEF SerialInv
    <3>2. \A c1 \in Missing : cur'[c1] = cur[c1]
      BY <2>3 DEF Missing
    <3> QED
      BY <2>2, <2>3, <2>5, <3>1, <3>2 DEF Pending, Heads
  <2> QED
    BY <2>2, <2>6, <2>7 DEF SerialInv, OneBusy
<1> QED
  BY <1>1, <1>2, <1>3, <1>4, <1>5 DEF Request

\* What a request misses after it has written one contract or linked rows.
LEMMA MissingAfter ==
  ASSUME NEW S \in SUBSET Rows,
         \A r \in Rows \ S : cur'[r] = cur[r],
         S \intersect Enquiries = {}
  PROVE  Missing' \subseteq Missing \union S
<1> SUFFICES ASSUME NEW c \in Missing', c \notin S
             PROVE  c \in Missing
  OBVIOUS
<1>1. c \in Rows /\ cur'[c] = cur[c] /\ cur[c].parent \in Enquiries
  BY DEF Missing, Rows
<1>2. cur[c].parent \in Rows \ S
  BY <1>1 DEF Rows
<1> QED
  BY <1>1, <1>2 DEF Missing

\* The end of a transaction that misses nothing, or is rolled back.
LEMMA EndSerial ==
  ASSUME Inv, SerialInv, NEW w \in Workers, pc[w] # "idle", Commit(w) \/ Rollback(w)
  PROVE  SerialInv'
<1>0. TypeOK
  BY DEF Inv
<1>1. Release(w)
  BY DEF Commit, Rollback
<1>2. \A v \in Workers \ {w} : pc[v] = "idle"
  BY DEF SerialInv, OneBusy
<1>3. /\ pc'[w] = "idle" /\ \A r \in Rows : lock'[w][r] = 0
      /\ \A v \in Workers \ {w} : pc'[v] = pc[v] /\ lock'[v] = lock[v]
  BY <1>0, <1>1 DEF Release, Goto, TypeOK, NoLock
<1>4. \A v \in Workers : pc'[v] = "idle" /\ \A r \in Rows : lock'[v][r] = 0
  BY <1>2, <1>3 DEF SerialInv
<1>5. ActiveContractsReferenced'
  <2>1. CASE Rollback(w)
    BY <2>1 DEF Rollback, SerialInv, ActiveContractsReferenced
  <2>2. CASE Commit(w)
    <3>1. \A r \in Rows : row'[r] = cur[r]
      BY <1>0, <1>2, <2>2, SerialView DEF Commit, NoKeyUpdate, TypeOK
    <3>2. Missing = {}
      BY <2>2 DEF Commit, SerialInv, Pending
    <3> QED
      BY <3>1, <3>2 DEF ActiveContractsReferenced, Missing, Rows
  <2> QED
    BY <2>1, <2>2
<1> QED
  BY <1>4, <1>5 DEF SerialInv, OneBusy

\* A statement of the running transaction.
LEMMA ProceedSerial ==
  ASSUME Inv, Inv', LiveInv, SerialInv, NEW w \in Workers, pc[w] # "idle", Proceed(w) \/ Crash(w)
  PROVE  SerialInv'
<1> DEFINE j == job[w]
<1>0. /\ TypeOK /\ TypeOK' /\ ControlOf(w) /\ ControlOf(w)' /\ j \in Jobs /\ JobOf(w) /\ Hierarchy
      /\ Pending(w) /\ Contracts \subseteq Rows /\ Enquiries \subseteq Rows
  BY DEF Inv, Control, TypeOK, LiveInv, SerialInv, Rows
<1>00. ASSUME NEW label \in Labels, Goto(w, label)
       PROVE  pc'[w] = label /\ \A v \in Workers \ {w} : pc'[v] = pc[v]
  BY <1>0, <1>00, OneWorker
<1>01. ASSUME Forget(w)
       PROVE  job'[w].row = j.row /\ job'[w].cont = "commit"
  <2> DEFINE rest == [NoJob EXCEPT !.row = j.row]
  <2>1. rest.row = j.row /\ rest.cont = "commit"
    BY DEF NoJob
  <2> HIDE DEF rest
  <2> QED
    BY <1>0, <1>01, <2>1 DEF Forget, TypeOK, rest
<1>02. \A r \in Rows : View(w, r) = cur[r]
  <2>1. \A v \in Workers \ {w} : pc[v] = "idle"
    BY DEF SerialInv, OneBusy
  <2> QED
    BY <2>1, SerialView
<1>1. ASSUME SetEnquiryStatus(w)
      PROVE  SerialInv'
  <2>1. /\ WriteStep(w) /\ row' = row /\ job' = job /\ pc[w] = "enquiry"
        /\ j.row \in Enquiries /\ j.root = j.row /\ Missing = {} /\ j.cont = "commit"
    BY <1>0, <1>1, SetEnquiryStatusWrites DEF SetEnquiryStatus, ControlOf, Pending, JobOf
  <2>2. PICK label \in {"root", "commit"} :
          Goto(w, label) /\ (label = "commit" => j.status # "CONFIRMED")
    BY <1>1 DEF SetEnquiryStatus
  <2>3. pc'[w] = label /\ \A v \in Workers \ {w} : pc'[v] = pc[v]
    BY <1>00, <2>2 DEF Labels
  <2>4. cur'[j.row].status = j.status /\ \A r \in Rows : r # j.row => cur'[r] = cur[r]
    BY <1>0, <1>1, <2>1 DEF SetEnquiryStatus, TypeOK, RowRec
  <2>5. ASSUME NEW c \in Missing'
        PROVE  cur'[c].parent = j.root /\ j.status = "CONFIRMED"
    <3>1. c \in Contracts /\ cur'[c] = cur[c]
      BY <1>0, <2>1, <2>4, RowsAssumption DEF Missing
    <3>2. CASE cur[c].parent = j.row
      BY <2>1, <2>4, <3>1, <3>2 DEF Missing
    <3>3. CASE cur[c].parent # j.row
      <4>1. c \in Missing
        BY <1>0, <2>4, <3>1, <3>3 DEF Missing
      <4> QED
        BY <2>1, <4>1
    <3> QED
      BY <3>2, <3>3
  <2>6. Pending(w)'
    BY <2>1, <2>2, <2>3, <2>5 DEF Pending, Heads
  <2> QED
    BY <2>1, <2>3, <2>6, SerialStep DEF WriteStep, Granted
<1>2. ASSUME InsertContract(w)
      PROVE  SerialInv'
  <2>1. /\ WriteStep(w) /\ row' = row /\ pc[w] = "insert" /\ j.row \in Contracts /\ Missing = {}
        /\ Forget(w)
    BY <1>0, <1>2, InsertContractWrites DEF InsertContract, JobOf, Pending
  <2>2. PICK label \in {"ensure", "commit"} :
          Goto(w, label) /\ (label = "commit" => j.status # "Active")
    BY <1>2 DEF InsertContract
  <2>3. pc'[w] = label /\ \A v \in Workers \ {w} : pc'[v] = pc[v]
    BY <1>00, <2>2 DEF Labels
  <2>4. cur'[j.row].status = j.status /\ \A r \in Rows : r # j.row => cur'[r] = cur[r]
    BY <1>0, <1>2, <2>1 DEF InsertContract, TypeOK
  <2>5. Missing' \subseteq {j.row}
    <3>1. {j.row} \in SUBSET Rows /\ {j.row} \intersect Enquiries = {}
      BY <1>0, <2>1, RowsAssumption
    <3> QED
      BY <2>1, <2>4, <3>1, MissingAfter
  <2>6. j.status # "Active" => Missing' = {}
    BY <2>4, <2>5 DEF Missing
  <2>7. job'[w].row = j.row /\ job'[w].cont = "commit"
    BY <1>01, <2>1
  <2>8. Pending(w)'
    BY <2>2, <2>3, <2>5, <2>6, <2>7 DEF Pending, Heads
  <2> QED
    BY <2>1, <2>3, <2>8, SerialStep DEF WriteStep, Granted
<1>3. ASSUME Ensure(w)
      PROVE  SerialInv'
  <2> DEFINE up(r) == IF View(w, r).parent = None THEN r ELSE View(w, r).parent
             root == up(up(j.row))
             live == View(w, root).status = Live(root)
  <2>1. j.row \in Rows /\ pc[w] = "ensure" /\ Missing \subseteq {j.row}
    BY <1>0, <1>3 DEF ControlOf, Ensure, Pending
  <2>2. ASSUME NEW c \in Missing
        PROVE  cur[c].parent = root /\ live
    <3>1. c = j.row /\ c \in Contracts /\ cur[c].parent \in Enquiries
          /\ cur[cur[c].parent].status = "CONFIRMED"
      BY <2>1 DEF Missing
    <3>2. PICK e \in Enquiries : e = cur[c].parent
      BY <3>1
    <3>3. e \in Rows /\ e # None /\ cur[e].parent = None
      BY <1>0, <3>2, RowsAssumption DEF Hierarchy, Above
    <3>4. up(j.row) = e /\ up(e) = e
      BY <1>02, <2>1, <3>1, <3>2, <3>3
    <3> QED
      BY <1>02, <3>1, <3>2, <3>3, <3>4 DEF Live
  <2> HIDE DEF up, root, live
  <2>3. /\ job' = [job EXCEPT ![w] = IF live THEN [j EXCEPT !.root = root]
                                             ELSE [j EXCEPT !.cont = "commit"]]
        /\ Goto(w, IF live THEN "root" ELSE j.cont)
        /\ UNCHANGED <<row, cur, lock>>
    BY <1>3 DEF Ensure, root, up, live
  <2>4. /\ job'[w].row = j.row /\ job'[w].was = j.was
        /\ live => job'[w].root = root /\ job'[w].cont = j.cont
        /\ ~live => job'[w].cont = "commit"
    BY <1>0, <2>3 DEF TypeOK, Jobs
  <2>5. PICK label \in {"root", "header", "commit"} :
          /\ Goto(w, label)
          /\ label = "root" => live
          /\ label # "root" => ~live /\ j.cont = label
    BY <1>0, <2>3 DEF Jobs
  <2>6. pc'[w] = label /\ \A v \in Workers \ {w} : pc'[v] = pc[v]
    BY <1>00, <2>5 DEF Labels
  <2>7. Missing' = Missing
    BY <2>3 DEF Missing
  <2>8. Pending(w)'
    BY <1>0, <2>1, <2>2, <2>3, <2>4, <2>5, <2>6, <2>7 DEF Pending, Heads
  <2> QED
    BY <2>3, <2>6, <2>8, SerialStep
<1>4. ASSUME UpdateHeader(w)
      PROVE  SerialInv'
  <2>1. /\ WriteStep(w) /\ row' = row /\ pc[w] = "header" /\ j.row \in Rows /\ Missing = {}
        /\ Forget(w) /\ j.row \notin Enquiries
        /\ j.row \in Contracts => cur[j.row].status = j.was.status
    BY <1>0, <1>4, UpdateHeaderWrites DEF UpdateHeader, JobOf, Pending, ControlOf, Heads
  <2>2. PICK label \in {"ensure", "commit"} :
          /\ Goto(w, label)
          /\ label = "commit" /\ j.row \in Contracts
               => "Active" # (IF j.status = Keep THEN j.was.status ELSE j.status)
    BY <1>4 DEF UpdateHeader
  <2>3. pc'[w] = label /\ \A v \in Workers \ {w} : pc'[v] = pc[v]
    BY <1>00, <2>2 DEF Labels
  <2>4. cur'[j.row] = HeaderRow(w) /\ \A r \in Rows : r # j.row => cur'[r] = cur[r]
    BY <1>0, <1>4, <2>1 DEF UpdateHeader, TypeOK
  <2>5. Missing' \subseteq {j.row}
    <3>1. {j.row} \in SUBSET Rows /\ {j.row} \intersect Enquiries = {}
      BY <2>1
    <3> QED
      BY <2>1, <2>4, <3>1, MissingAfter
  <2>6. label = "commit" => Missing' = {}
    <3> SUFFICES ASSUME label = "commit", j.row \in Missing'
                 PROVE  FALSE
      BY <2>5
    <3>1. j.row \in Contracts /\ HeaderRow(w).status = "Active"
      BY <2>4 DEF Missing
    <3>2. HeaderRow(w).status = IF j.status \in {Keep, j.was.status} THEN cur[j.row].status ELSE j.status
      BY DEF HeaderRow
    <3> QED
      BY <2>1, <2>2, <3>1, <3>2
  <2>7. job'[w].row = j.row /\ job'[w].cont = "commit"
    BY <1>01, <2>1
  <2>8. Pending(w)'
    BY <2>2, <2>3, <2>5, <2>6, <2>7 DEF Pending, Heads
  <2> QED
    BY <2>1, <2>3, <2>8, SerialStep DEF WriteStep, Granted
<1>5. ASSUME LockRoot(w)
      PROVE  SerialInv'
  <2>1. WriteStep(w) /\ cur' = cur /\ row' = row /\ pc[w] = "root"
    BY <1>5, LockRootWrites DEF LockRoot
  <2>2. PICK label \in {"allocate", "propagate"} : Goto(w, label)
    BY <1>5 DEF LockRoot
  <2>3. pc'[w] = label /\ \A v \in Workers \ {w} : pc'[v] = pc[v]
    BY <1>00, <2>2 DEF Labels
  <2>4. job' = [job EXCEPT ![w] = [j EXCEPT !.todo = {j.root}]]
    BY <1>5 DEF LockRoot
  <2>5. /\ job'[w].row = j.row /\ job'[w].was = j.was /\ job'[w].cont = j.cont
        /\ job'[w].root = j.root /\ job'[w].todo = {j.root}
    BY <1>0, <2>4 DEF TypeOK, Jobs
  <2>6. Missing' = Missing
    BY <2>1 DEF Missing
  <2>7. Pending(w)'
    BY <1>0, <2>1, <2>2, <2>3, <2>5, <2>6 DEF Pending, Heads
  <2> QED
    BY <2>1, <2>3, <2>7, SerialStep DEF WriteStep, Granted
<1>6. ASSUME AllocateReference(w)
      PROVE  SerialInv'
  <2>1. WriteStep(w) /\ UNCHANGED <<row, job, lock>> /\ pc[w] = "allocate" /\ j.root \in Rows
    BY <1>0, <1>6, AllocateReferenceWrites DEF AllocateReference, ControlOf
  <2>2. Goto(w, "propagate")
    BY <1>6 DEF AllocateReference
  <2>3. pc'[w] = "propagate" /\ \A v \in Workers \ {w} : pc'[v] = pc[v]
    BY <1>00, <2>2 DEF Labels
  <2>4. \A r \in Rows : /\ cur'[r].parent = cur[r].parent /\ cur'[r].status = cur[r].status
                        /\ cur'[r].bt = None => cur[r].bt = None
    <3>1. cur[j.root] \in RowRec
      BY <1>0, <2>1 DEF TypeOK
    <3>2. AllocatedRow(w).parent = cur[j.root].parent /\ AllocatedRow(w).status = cur[j.root].status
      BY <3>1 DEF AllocatedRow, RowRec
    <3>3. cur[j.root].bt = None
      BY <1>0, <2>1 DEF ControlOf
    <3> QED
      BY <1>0, <1>6, <2>1, <3>2, <3>3 DEF AllocateReference, TypeOK
  <2>5. Missing' \subseteq Missing
    BY <1>0, <2>4 DEF Missing
  <2>6. \A c \in Missing : cur'[c].parent = cur[c].parent
    BY <1>0, <2>4 DEF Missing
  <2>7. \A c \in Contracts : cur'[c].status = cur[c].status
    BY <1>0, <2>4
  <2>8. Pending(w)'
    BY <1>0, <2>1, <2>3, <2>5, <2>6, <2>7 DEF Pending, Heads
  <2> QED
    BY <2>1, <2>3, <2>8, SerialStep
<1>7. ASSUME NEW x \in j.todo, CheckRelated(w, x)
      PROVE  SerialInv'
  <2>1. /\ UNCHANGED <<row, cur, lock>> /\ Goto(w, "link")
        /\ job' = [job EXCEPT ![w] = [j EXCEPT !.at = x]] /\ pc[w] = "propagate"
    BY <1>7 DEF CheckRelated
  <2>2. pc'[w] = "link" /\ \A v \in Workers \ {w} : pc'[v] = pc[v]
    BY <1>00, <2>1 DEF Labels
  <2>3. /\ job'[w].row = j.row /\ job'[w].was = j.was /\ job'[w].cont = j.cont
        /\ job'[w].root = j.root /\ job'[w].todo = j.todo
    BY <1>0, <2>1 DEF TypeOK, Jobs
  <2>4. Missing' = Missing
    BY <2>1 DEF Missing
  <2>5. Pending(w)'
    BY <1>0, <2>1, <2>2, <2>3, <2>4 DEF Pending, Heads
  <2> QED
    BY <2>1, <2>2, <2>5, SerialStep
<1>8. ASSUME LinkRelated(w)
      PROVE  SerialInv'
  <2> DEFINE todo == Remaining(w)
             rest == [NoJob EXCEPT !.row = j.row, !.status = j.status,
                                   !.parent = j.parent, !.was = j.was]
  <2>1. /\ WriteStep(w) /\ row' = row /\ pc[w] = "link"
        /\ Reference(w) # None
        /\ Missing = {} \/ j.root \in j.todo
        /\ \A c \in Missing : cur[c].parent = j.root
    BY <1>0, <1>8, LinkRelatedWrites DEF LinkRelated, ControlOf, Reference, Pending
  <2>2. \/ todo # {} /\ job' = [job EXCEPT ![w] = [j EXCEPT !.todo = todo]] /\ Goto(w, "propagate")
        \/ todo = {} /\ job' = [job EXCEPT ![w] = rest] /\ Goto(w, j.cont)
    BY <1>8 DEF LinkRelated
  <2>3. j.todo \ {j.at} \subseteq todo
    BY DEF Remaining
  <2> HIDE DEF todo
  <2>4. rest.row = j.row /\ rest.was = j.was /\ rest.cont = "commit"
    BY DEF NoJob
  <2> HIDE DEF rest
  <2>5. \A r \in Rows : /\ cur'[r].parent = cur[r].parent /\ cur'[r].status = cur[r].status
                        /\ cur'[r].bt = None => cur[r].bt = None /\ r \notin Targets(w)
    <3>1. \A r \in Rows : IF r \in Targets(w) THEN cur'[r] = Linked(w, r) ELSE cur'[r] = cur[r]
      BY <1>8 DEF LinkRelated
    <3>2. \A r \in Rows : /\ Linked(w, r).parent = cur[r].parent
                          /\ Linked(w, r).status = cur[r].status /\ Linked(w, r).bt = Reference(w)
      BY <1>0 DEF Linked, TypeOK, RowRec
    <3> QED
      BY <2>1, <3>1, <3>2
  <2>6. Missing' \subseteq Missing
    BY <1>0, <2>5 DEF Missing
  <2>7. (\A c \in Missing : cur'[c].parent = cur[c].parent)
        /\ \A c \in Contracts : cur'[c].status = cur[c].status
    BY <1>0, <2>5 DEF Missing
  <2>8. ASSUME j.at = j.root
        PROVE  Missing' = {}
    <3> SUFFICES ASSUME NEW c \in Missing'
                 PROVE  FALSE
      OBVIOUS
    <3>1. c \in Rows /\ cur'[c].bt = None /\ c \in Missing
      BY <1>0, <2>6 DEF Missing
    <3>2. cur[c].bt = None /\ View(w, c).parent = j.at
      BY <1>02, <2>1, <2>8, <3>1 DEF Missing
    <3>3. c \in Targets(w)
      BY <3>1, <3>2 DEF Targets, Children
    <3> QED
      BY <2>5, <3>1, <3>3
  <2>9. Missing' = {} \/ j.root \in todo
    BY <2>1, <2>3, <2>6, <2>8
  <2>10. ASSUME todo # {}, job' = [job EXCEPT ![w] = [j EXCEPT !.todo = todo]], Goto(w, "propagate")
         PROVE  SerialInv'
    <3>1. pc'[w] = "propagate" /\ \A v \in Workers \ {w} : pc'[v] = pc[v]
      BY <1>00, <2>10 DEF Labels
    <3>2. /\ job'[w].row = j.row /\ job'[w].was = j.was /\ job'[w].cont = j.cont
          /\ job'[w].root = j.root /\ job'[w].todo = todo
      BY <1>0, <2>10 DEF TypeOK, Jobs
    <3>3. Pending(w)'
      BY <1>0, <2>1, <2>6, <2>7, <2>9, <3>1, <3>2 DEF Pending, Heads
    <3> QED
      BY <2>1, <3>1, <3>3, SerialStep DEF WriteStep, Granted
  <2>11. ASSUME todo = {}, job' = [job EXCEPT ![w] = rest], Goto(w, j.cont)
         PROVE  SerialInv'
    <3>1. j.cont \in {"header", "commit"} /\ j.cont \in Labels
      BY <1>0 DEF Jobs, Labels
    <3>2. pc'[w] = j.cont /\ \A v \in Workers \ {w} : pc'[v] = pc[v]
      BY <1>00, <2>11, <3>1
    <3>3. job'[w].row = j.row /\ job'[w].was = j.was
      BY <1>0, <2>4, <2>11 DEF TypeOK
    <3>4. Missing' = {}
      BY <2>9, <2>11
    <3>5. Pending(w)'
      BY <1>0, <2>1, <2>7, <3>1, <3>2, <3>3, <3>4 DEF Pending, Heads
    <3>6. pc'[w] # "idle"
      BY <3>1, <3>2
    <3> QED
      BY <2>1, <3>2, <3>5, <3>6, SerialStep DEF WriteStep, Granted
  <2> QED
    BY <2>2, <2>10, <2>11
<1>9. CASE Commit(w) \/ Throw(w) \/ DeadlockVictim(w) \/ Crash(w)
  BY <1>9, EndSerial DEF Throw, DeadlockVictim, Crash
<1> QED
  BY <1>1, <1>2, <1>3, <1>4, <1>5, <1>6, <1>7, <1>8, <1>9 DEF Proceed

\* The history variable changes nothing.
THEOREM HistoryInvariance == MCSpec => [](Inv /\ LiveInv /\ (raced \/ SerialInv))
<1>1. ASSUME MCInit
      PROVE  Inv /\ LiveInv /\ SerialInv
  <2>1. Init /\ Inv /\ LiveInv
    BY <1>1, InitInv, InitLive DEF MCInit
  <2>2. \A w \in Workers : pc[w] = "idle" /\ \A r \in Rows : lock[w][r] = 0
    BY <2>1 DEF Init, NoLock
  <2>3. ActiveContractsReferenced
    BY <2>1, RowsAssumption DEF Init, ActiveContractsReferenced, AbsentRow, Rows
  <2> QED
    BY <2>1, <2>2, <2>3 DEF SerialInv, OneBusy
<1>2. ASSUME Inv, LiveInv, raced \/ SerialInv, [MCNext]_<<vars, raced>>
      PROVE  Inv' /\ LiveInv' /\ (raced \/ SerialInv)'
  <2>1. [Next]_vars /\ Inv' /\ LiveInv'
    <3>1. [Next]_vars
      BY <1>2 DEF MCNext
    <3> QED
      BY <1>2, <3>1, StepInv, StepLive
  <2>2. CASE UNCHANGED <<vars, raced>>
    <3>1. UNCHANGED <<row, cur, lock, pc, job>> /\ raced' = raced
      BY <2>2 DEF vars
    <3>2. Missing' = Missing /\ ActiveContractsReferenced' = ActiveContractsReferenced
      BY <3>1 DEF Missing, ActiveContractsReferenced
    <3>3. ASSUME SerialInv
          PROVE  SerialInv'
      BY <3>1, <3>2, <3>3 DEF SerialInv, OneBusy, Pending, Heads
    <3> QED
      BY <1>2, <2>1, <3>1, <3>3
  <2>3. CASE MCNext
    <3> SUFFICES ASSUME ~raced'
                 PROVE  SerialInv'
      BY <2>1
    <3>1. SerialInv /\ OneBusy' /\ Next
      BY <1>2, <2>3 DEF MCNext, OneBusy
    <3>2. PICK w \in Workers : Request(w) \/ Proceed(w) \/ Crash(w)
      BY <3>1 DEF Next
    <3>3. CASE Request(w)
      BY <1>2, <3>1, <3>3, RequestSerial
    <3>4. CASE Proceed(w) \/ Crash(w)
      <4>1. pc[w] # "idle"
        BY <3>4 DEF Proceed, Crash, SetEnquiryStatus, InsertContract, Ensure, UpdateHeader, LockRoot,
           AllocateReference, CheckRelated, LinkRelated, Commit, Throw, DeadlockVictim
      <4> QED
        BY <1>2, <2>1, <3>1, <3>4, <4>1, ProceedSerial
    <3> QED
      BY <3>2, <3>3, <3>4
  <2> QED
    BY <1>2, <2>2, <2>3
<1>3. MCInit => Inv /\ LiveInv /\ (raced \/ SerialInv)
  BY <1>1
<1>4. Inv /\ LiveInv /\ (raced \/ SerialInv) /\ [MCNext]_<<vars, raced>>
        => (Inv /\ LiveInv /\ (raced \/ SerialInv))'
  BY <1>2
<1> QED
  BY <1>3, <1>4, PTL DEF MCSpec

\* Requests that run one at a time leave no active contract of a confirmed enquiry without
\* a reference (ensureForSalesContract after every header that makes a contract active,
\* propagateEnquiry when the enquiry is confirmed).
THEOREM ReferencedOneAtATime == MCSpec => []ReferencedSerially
<1>1. raced \/ SerialInv => ReferencedSerially
  BY DEF SerialInv, ReferencedSerially
<1> QED
  BY <1>1, HistoryInvariance, PTL

=============================================================================
