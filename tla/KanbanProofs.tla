---------------------------- MODULE KanbanProofs ----------------------------
(***************************************************************************)
(* Theorems about Kanban for every set of projects, tasks, views, limits   *)
(* and every bound on the bucket ids.                                      *)
(***************************************************************************)
EXTENDS Kanban, TLAPS, WellFoundedInduction

-----------------------------------------------------------------------------
(* The leftmost bucket *)

\* A nonempty set of naturals has a least element.
LEMMA LeastNatural ==
    ASSUME NEW S, S \subseteq Nat, S # {}
    PROVE  \E x \in S : \A y \in S : x <= y
<1>1. IsWellFoundedOn(OpToRel(<, Nat), Nat)
  BY NatLessThanWellFounded
<1>2. \E x \in S : \A y \in S : ~(<<y, x>> \in OpToRel(<, Nat))
  BY <1>1, WFMin
<1>3. ASSUME NEW x \in S, NEW y \in S, ~(<<y, x>> \in OpToRel(<, Nat))
      PROVE  x <= y
  <2>1. x \in Nat /\ y \in Nat
    OBVIOUS
  <2>2. ~(y < x)
    BY <1>3, <2>1 DEF OpToRel
  <2> QED
    BY <2>1, <2>2
<1> QED
  BY <1>2, <1>3

\* A view with buckets has a leftmost one: getDefaultBucketID finds a bucket.
LEMMA LeftmostExists ==
    ASSUME NEW d \in Database, NEW v \in ViewIds, BucketsOf(d, v) # {}
    PROVE  \E b \in Buckets : IsLeftmost(d, v, b)
<1> DEFINE B == BucketsOf(d, v)
           P == {d.bucket[b].pos : b \in B}
<1>1. B \subseteq Buckets /\ Buckets \subseteq Nat
  BY ConstantsAssumption DEF BucketsOf, Buckets
<1>2. \A b \in B : d.bucket[b].pos \in Nat
  BY <1>1 DEF Database, BucketRec
<1>3. P \subseteq Nat /\ P # {}
  BY <1>2
<1>4. PICK p \in P : \A q \in P : p <= q
  <2> HIDE DEF P
  <2> QED
    BY <1>3, LeastNatural
<1> DEFINE L == {b \in B : d.bucket[b].pos = p}
<1>5. L \subseteq Nat /\ L # {}
  BY <1>1, <1>4
<1>6. PICK b \in L : \A c \in L : b <= c
  <2> HIDE DEF L
  <2> QED
    BY <1>5, LeastNatural
<1>7. b \in B /\ d.bucket[b].pos = p
  BY <1>6
<1>8. ASSUME NEW c \in B
      PROVE  \/ d.bucket[b].pos < d.bucket[c].pos
             \/ d.bucket[b].pos = d.bucket[c].pos /\ b <= c
  <2>1. p <= d.bucket[c].pos
    BY <1>4, <1>8
  <2>2. d.bucket[c].pos \in Nat /\ p \in Nat
    BY <1>2, <1>3, <1>4, <1>8
  <2>3. CASE d.bucket[c].pos = p
    BY <1>6, <1>7, <1>8, <2>3
  <2> QED
    BY <1>7, <2>1, <2>2, <2>3
<1> QED
  BY <1>1, <1>7, <1>8 DEF IsLeftmost

\* What getDefaultBucketID returns: the setting, a bucket of the view, or none
\* when the view has no bucket.
LEMMA DefaultOrValue ==
    ASSUME NEW d \in Database, NEW v \in ViewIds, NEW default \in BucketIds
    PROVE  /\ DefaultOr(d, v, default) \in BucketIds
           /\ default # NoBucket => DefaultOr(d, v, default) = default
           /\ default = NoBucket /\ BucketsOf(d, v) # {} =>
                 DefaultOr(d, v, default) \in BucketsOf(d, v)
           /\ default = NoBucket /\ BucketsOf(d, v) = {} =>
                 DefaultOr(d, v, default) = NoBucket
<1>1. CASE default # NoBucket
  BY <1>1 DEF DefaultOr
<1>2. CASE default = NoBucket /\ BucketsOf(d, v) = {}
  BY <1>2 DEF DefaultOr, BucketIds
<1>3. CASE default = NoBucket /\ BucketsOf(d, v) # {}
  <2>1. \E b \in Buckets : IsLeftmost(d, v, b)
    BY <1>3, LeftmostExists
  <2>2. DefaultOr(d, v, default) = CHOOSE b \in Buckets : IsLeftmost(d, v, b)
    BY <1>3 DEF DefaultOr
  <2>3. IsLeftmost(d, v, DefaultOr(d, v, default))
        /\ DefaultOr(d, v, default) \in Buckets
    BY <2>1, <2>2
  <2> QED
    BY <1>3, <2>3 DEF IsLeftmost, BucketIds
<1> QED
  BY <1>1, <1>2, <1>3

-----------------------------------------------------------------------------
(* The operators on the database keep its type *)

\* Writing a table of the right type leaves the others as they are.
LEMMA TaskTable ==
    ASSUME NEW d \in Database, NEW f \in [TaskIds -> TaskRec]
    PROVE  /\ WithTasks(d, f) \in Database
           /\ WithTasks(d, f).task = f /\ WithTasks(d, f).view = d.view
           /\ WithTasks(d, f).bucket = d.bucket /\ WithTasks(d, f).row = d.row
           /\ WithTasks(d, f).next = d.next
BY DEF Database, WithTasks

LEMMA ViewTable ==
    ASSUME NEW d \in Database, NEW f \in [ViewIds -> ViewRec]
    PROVE  /\ WithViews(d, f) \in Database
           /\ WithViews(d, f).task = d.task /\ WithViews(d, f).view = f
           /\ WithViews(d, f).bucket = d.bucket /\ WithViews(d, f).row = d.row
           /\ WithViews(d, f).next = d.next
BY DEF Database, WithViews

LEMMA BucketTable ==
    ASSUME NEW d \in Database, NEW f \in [Buckets -> BucketRec]
    PROVE  /\ WithBuckets(d, f) \in Database
           /\ WithBuckets(d, f).task = d.task /\ WithBuckets(d, f).view = d.view
           /\ WithBuckets(d, f).bucket = f /\ WithBuckets(d, f).row = d.row
           /\ WithBuckets(d, f).next = d.next
BY DEF Database, WithBuckets

LEMMA RowTable ==
    ASSUME NEW d \in Database, NEW f \in [TaskIds -> [ViewIds -> BucketIds]]
    PROVE  /\ WithRows(d, f) \in Database
           /\ WithRows(d, f).task = d.task /\ WithRows(d, f).view = d.view
           /\ WithRows(d, f).bucket = d.bucket /\ WithRows(d, f).row = f
           /\ WithRows(d, f).next = d.next
BY DEF Database, WithRows

LEMMA NextId ==
    ASSUME NEW d \in Database, NEW n \in 1..(MaxBucket + 1)
    PROVE  /\ WithNext(d, n) \in Database
           /\ WithNext(d, n).task = d.task /\ WithNext(d, n).view = d.view
           /\ WithNext(d, n).bucket = d.bucket /\ WithNext(d, n).row = d.row
           /\ WithNext(d, n).next = n
BY DEF Database, WithNext

\* What is in the tables.
LEMMA Tables ==
    ASSUME NEW d \in Database
    PROVE  /\ d.task \in [TaskIds -> TaskRec]
           /\ d.view \in [ViewIds -> ViewRec]
           /\ d.bucket \in [Buckets -> BucketRec]
           /\ d.row \in [TaskIds -> [ViewIds -> BucketIds]]
           /\ d.next \in 1..(MaxBucket + 1)
           /\ \A v \in ViewIds : /\ d.view[v].default \in BucketIds
                                 /\ d.view[v].doneBucket \in BucketIds
                                 /\ d.view[v].project \in Projects
                                 /\ d.view[v].mode \in Modes
                                 /\ d.view[v].filtered \in BOOLEAN
           /\ \A t \in TaskIds : /\ d.task[t].done \in BOOLEAN
                                 /\ d.task[t].repeating \in BOOLEAN
                                 /\ d.task[t].project \in Projects
<1>1. /\ d.task \in [TaskIds -> TaskRec]
      /\ d.view \in [ViewIds -> ViewRec]
      /\ d.bucket \in [Buckets -> BucketRec]
      /\ d.row \in [TaskIds -> [ViewIds -> BucketIds]]
      /\ d.next \in 1..(MaxBucket + 1)
  BY DEF Database
<1>2. \A v \in ViewIds : d.view[v] \in ViewRec
  BY <1>1
<1>3. \A t \in TaskIds : d.task[t] \in TaskRec
  BY <1>1
<1> QED
  BY <1>1, <1>2, <1>3 DEF ViewRec, TaskRec

LEMMA UpdateTaskBucketType ==
    ASSUME NEW d \in Database, NEW t \in TaskIds, NEW v \in ViewIds,
           NEW b \in BucketIds
    PROVE  updateTaskBucket(d, t, v, b) \in Database
<1>1. PutDone(d, t, v, b) \in BOOLEAN
  BY DEF PutDone
<1>2. PutTarget(d, t, v, b) \in BucketIds
  BY Tables DEF PutTarget
<1>3. PutRow(d, t, v, b) \in [ViewIds -> BucketIds]
  BY <1>2, Tables DEF PutRow
<1>4. [d.task EXCEPT ![t].done = PutDone(d, t, v, b)] \in [TaskIds -> TaskRec]
  BY <1>1, Tables DEF TaskRec
<1>5. [d.row EXCEPT ![t] = PutRow(d, t, v, b)] \in [TaskIds -> [ViewIds -> BucketIds]]
  BY <1>3, Tables
<1>6. WithTasks(d, [d.task EXCEPT ![t].done = PutDone(d, t, v, b)]) \in Database
  BY <1>4, TaskTable
<1> QED
  BY <1>5, <1>6, RowTable DEF updateTaskBucket

LEMMA WithIdsType ==
    ASSUME NEW d \in Database, NEW v \in ViewIds,
           NEW default \in BucketIds, NEW doneBucket \in BucketIds
    PROVE  WithIds(d, v, default, doneBucket) \in Database
<1>1. [d.view EXCEPT ![v] = [@ EXCEPT !.default = default, !.doneBucket = doneBucket]]
         \in [ViewIds -> ViewRec]
  BY DEF Database, ViewRec
<1> QED
  BY <1>1, ViewTable DEF WithIds

LEMMA WithDefaultBucketsType ==
    ASSUME NEW d \in Database, NEW v \in ViewIds, CanSeed(d)
    PROVE  WithDefaultBuckets(d, v) \in Database
<1>1. /\ d.next \in Nat /\ MaxBucket \in Nat
      /\ d.next \in BucketIds /\ d.next + 2 \in BucketIds
      /\ d.next + 3 \in 1..(MaxBucket + 1)
  BY ConstantsAssumption, Tables DEF CanSeed, Buckets, BucketIds
<1>2. SeededBuckets(d, v) \in [Buckets -> BucketRec]
  <2>1. ASSUME NEW b \in Buckets, b \in d.next .. (d.next + 2)
        PROVE  [view |-> v, live |-> TRUE, limit |-> 0, pos |-> 100 * (b - d.next + 1)]
                  \in BucketRec
    <3>1. 100 * (b - d.next + 1) \in Nat
      BY <1>1, <2>1
    <3> QED
      BY <3>1, ConstantsAssumption DEF BucketRec
  <2>2. \A b \in Buckets : d.bucket[b] \in BucketRec
    BY Tables
  <2> QED
    BY <2>1, <2>2 DEF SeededBuckets
<1>3. WithBuckets(d, SeededBuckets(d, v)) \in Database
  BY <1>2, BucketTable
<1>4. WithNext(WithBuckets(d, SeededBuckets(d, v)), d.next + 3) \in Database
  BY <1>1, <1>3, NextId
<1> QED
  BY <1>1, <1>4, WithIdsType DEF WithDefaultBuckets

LEMMA WithTasksAddedType ==
    ASSUME NEW d \in Database, NEW v \in ViewIds, NEW b \in BucketIds
    PROVE  WithTasksAdded(d, v, b) \in Database
<1>1. \A t \in TaskIds, u \in ViewIds : d.row[t][u] \in BucketIds
  BY Tables
<1> QED
  BY <1>1, RowTable DEF WithTasksAdded

LEMMA ExistingBucketIDType ==
    ASSUME NEW d, NEW v, NEW b
    PROVE  existingBucketID(d, v, b) \in BucketIds
BY DEF existingBucketID, BucketsOf, BucketIds

LEMMA WithViewSavedType ==
    ASSUME NEW d \in Database, NEW v \in ViewIds, NEW mode \in Modes,
           NEW filtered \in BOOLEAN, NEW default, NEW doneBucket
    PROVE  WithViewSaved(d, v, mode, filtered, default, doneBucket) \in Database
<1>1. [d.view EXCEPT ![v] = [@ EXCEPT !.mode = mode, !.filtered = filtered]]
         \in [ViewIds -> ViewRec]
  BY DEF Database, ViewRec
<1>2. WithKind(d, v, mode, filtered) \in Database
  BY <1>1, ViewTable DEF WithKind
<1> QED
  BY <1>2, ExistingBucketIDType, WithIdsType DEF WithViewSaved

LEMMA WithIdsHealedType ==
    ASSUME NEW d \in Database, NEW o \in Database, NEW v \in ViewIds
    PROVE  WithIdsHealed(d, o, v) \in Database
<1>1. /\ KeptBucketID(d, v, d.view[v].default, o.view[v].default) \in BucketIds
      /\ KeptBucketID(d, v, d.view[v].doneBucket, o.view[v].doneBucket) \in BucketIds
  BY Tables, ExistingBucketIDType DEF KeptBucketID
<1>2. DefaultOr(d, v, KeptBucketID(d, v, d.view[v].default, o.view[v].default))
         \in BucketIds
  BY <1>1, DefaultOrValue
<1> QED
  BY <1>1, <1>2, WithIdsType DEF WithIdsHealed

LEMMA WithKanbanSyncedType ==
    ASSUME NEW d \in Database, NEW o \in Database, NEW v \in ViewIds,
           BucketsOf(d, v) = {} => CanSeed(d)
    PROVE  WithKanbanSynced(d, o, v) \in Database
<1> DEFINE s == IF BucketsOf(d, v) # {} THEN WithIdsHealed(d, o, v)
                ELSE WithDefaultBuckets(d, v)
<1>1. s \in Database
  BY WithIdsHealedType, WithDefaultBucketsType
<1>2. s.view[v].default \in BucketIds
  <2> HIDE DEF s
  <2> QED
    BY <1>1, Tables
<1>3. WithTasksAdded(s, v, s.view[v].default) \in Database
  <2> HIDE DEF s
  <2> QED
    BY <1>1, <1>2, WithTasksAddedType
<1> QED
  BY <1>3 DEF WithKanbanSynced

-----------------------------------------------------------------------------
(* Every action keeps the type invariant *)

LEMMA CommitType ==
    ASSUME TypeOK, NEW d \in Database, CommitNow(d), configs' \in 0..MaxConfig
    PROVE  TypeOK'
BY DEF TypeOK, CommitNow

LEMMA ConfigsType ==
    ASSUME TypeOK
    PROVE  /\ Handler => configs' \in 0..MaxConfig
           /\ ConfigHandler => configs' \in 0..MaxConfig
BY ConstantsAssumption DEF TypeOK, Handler, ConfigHandler

LEMMA CreateViewType ==
    ASSUME TypeOK, NEW v \in ViewIds, NEW p \in Projects, NEW mode \in Modes,
           NEW filtered \in BOOLEAN, CreateView(v, p, mode, filtered)
    PROVE  TypeOK'
<1> DEFINE new == [status |-> "live", project |-> p, mode |-> mode,
                   filtered |-> filtered, default |-> NoBucket, doneBucket |-> NoBucket]
           d == WithViews(db, [db.view EXCEPT ![v] = new])
           s == WithDefaultBuckets(d, v)
<1>1. db \in Database /\ configs' \in 0..MaxConfig
  BY ConfigsType DEF TypeOK, CreateView
<1>2. new \in ViewRec
  BY DEF ViewRec, Statuses, BucketIds
<1>3. [db.view EXCEPT ![v] = new] \in [ViewIds -> ViewRec]
  <2> HIDE DEF new
  <2> QED
    BY <1>1, <1>2, Tables
<1>4. d \in Database /\ d.next = db.next
  <2> HIDE DEF new
  <2> QED
    BY <1>1, <1>3, ViewTable
<1>5. CASE mode = "manual"
  <2>1. CanSeed(d) /\ CommitNow(WithTasksAdded(s, v, s.view[v].default))
    BY <1>4, <1>5 DEF CreateView, CanSeed
  <2> HIDE DEF d
  <2>2. s \in Database
    BY <1>4, <2>1, WithDefaultBucketsType
  <2> HIDE DEF s
  <2>3. WithTasksAdded(s, v, s.view[v].default) \in Database
    BY <2>2, Tables, WithTasksAddedType
  <2> QED
    BY <1>1, <2>1, <2>3, CommitType
<1>6. CASE mode # "manual"
  <2>1. CommitNow(d)
    BY <1>6 DEF CreateView
  <2> QED
    BY <1>1, <1>4, <2>1, CommitType
<1> QED
  BY <1>5, <1>6

LEMMA UpdateViewType ==
    ASSUME TypeOK, NEW v \in ViewIds, NEW mode \in Modes,
           NEW filtered \in BOOLEAN,
           NEW default \in BucketIds, NEW doneBucket \in BucketIds,
           UpdateView(v, mode, filtered, default, doneBucket)
    PROVE  TypeOK'
<1> DEFINE d == WithViewSaved(db, v, mode, filtered, default, doneBucket)
<1>1. db \in Database /\ configs' \in 0..MaxConfig
  BY ConfigsType DEF TypeOK, UpdateView
<1>2. d \in Database
  BY <1>1, WithViewSavedType
<1>3. CASE mode = "manual" /\ db.view[v].mode # "manual"
  <2>1. /\ BucketsOf(d, v) = {} => CanSeed(d)
        /\ CommitNow(WithKanbanSynced(d, db, v))
    BY <1>3 DEF UpdateView
  <2>2. WithKanbanSynced(d, db, v) \in Database
    <3> HIDE DEF d
    <3> QED
      BY <1>1, <1>2, <2>1, WithKanbanSyncedType
  <2> QED
    BY <1>1, <2>1, <2>2, CommitType
<1>4. CASE ~(mode = "manual" /\ db.view[v].mode # "manual")
  <2>1. CommitNow(d)
    BY <1>4 DEF UpdateView
  <2> QED
    BY <1>1, <1>2, <2>1, CommitType
<1> QED
  BY <1>3, <1>4

LEMMA DeleteViewType ==
    ASSUME TypeOK, NEW v \in ViewIds, DeleteView(v)
    PROVE  TypeOK'
<1>1. db \in Database /\ configs' \in 0..MaxConfig
  BY ConfigsType DEF TypeOK, DeleteView
<1>2. [db.view EXCEPT ![v].status = "gone"] \in [ViewIds -> ViewRec]
  BY <1>1 DEF Database, ViewRec, Statuses
<1>3. [t \in TaskIds |-> [db.row[t] EXCEPT ![v] = NoBucket]]
         \in [TaskIds -> [ViewIds -> BucketIds]]
  <2>1. NoBucket \in BucketIds
    BY DEF BucketIds
  <2> QED
    BY <1>1, <2>1, Tables
<1>4. WithRows(WithViews(db, [db.view EXCEPT ![v].status = "gone"]),
               [t \in TaskIds |-> [db.row[t] EXCEPT ![v] = NoBucket]]) \in Database
  BY <1>1, <1>2, <1>3, ViewTable, RowTable
<1> QED
  BY <1>1, <1>4, CommitType DEF DeleteView

LEMMA CreateBucketType ==
    ASSUME TypeOK, NEW v \in ViewIds, NEW limit \in Limits, NEW pos \in Positions,
           CreateBucket(v, limit, pos)
    PROVE  TypeOK'
<1> DEFINE n == db.next
           new == [view |-> v, live |-> TRUE, limit |-> limit,
                   pos |-> IF pos = 0 THEN db.next * 65536 ELSE pos]
<1>1. db \in Database /\ configs' \in 0..MaxConfig
  BY ConfigsType DEF TypeOK, CreateBucket
<1>2. n \in Buckets /\ n \in Nat /\ n + 1 \in 1..(MaxBucket + 1)
  BY <1>1, Tables, ConstantsAssumption DEF CreateBucket, Buckets
<1>3. new \in BucketRec
  <2>1. (IF pos = 0 THEN db.next * 65536 ELSE pos) \in Nat
    BY <1>2, ConstantsAssumption
  <2> QED
    BY <2>1 DEF BucketRec
<1>4. [db.bucket EXCEPT ![n] = new] \in [Buckets -> BucketRec]
  <2> HIDE DEF n, new
  <2> QED
    BY <1>1, <1>2, <1>3, Tables
<1>5. WithNext(WithBuckets(db, [db.bucket EXCEPT ![n] = new]), n + 1) \in Database
  <2> HIDE DEF n, new
  <2> QED
    BY <1>1, <1>2, <1>4, BucketTable, NextId
<1>6. CommitNow(WithNext(WithBuckets(db, [db.bucket EXCEPT ![n] = new]), n + 1))
  BY DEF CreateBucket
<1> QED
  BY <1>1, <1>5, <1>6, CommitType

LEMMA UpdateBucketType ==
    ASSUME TypeOK, NEW b \in Buckets, NEW limit \in Limits,
           NEW pos \in Positions \cup {db.bucket[b].pos},
           UpdateBucket(b, limit, pos)
    PROVE  TypeOK'
<1>1. db \in Database /\ configs' \in 0..MaxConfig
  BY ConfigsType DEF TypeOK, UpdateBucket
<1>2. pos \in Nat
  BY <1>1, ConstantsAssumption DEF Database, BucketRec
<1>3. [db.bucket EXCEPT ![b] = [@ EXCEPT !.limit = limit, !.pos = pos]]
         \in [Buckets -> BucketRec]
  BY <1>1, <1>2 DEF Database, BucketRec
<1>4. WithBuckets(db, [db.bucket EXCEPT ![b] = [@ EXCEPT !.limit = limit, !.pos = pos]])
         \in Database
  BY <1>1, <1>3, BucketTable
<1> QED
  BY <1>1, <1>4, CommitType DEF UpdateBucket

LEMMA DeleteBucketType ==
    ASSUME TypeOK, NEW b \in Buckets, NEW v \in ViewIds, DeleteBucket(b, v)
    PROVE  TypeOK'
<1> DEFINE default == db.view[v].default
           doneBucket == db.view[v].doneBucket
           cleared == b \in {default, doneBucket}
           newDefault == IF default = b THEN NoBucket ELSE default
           newDone == IF doneBucket = b THEN NoBucket ELSE doneBucket
           d == IF cleared
                THEN WithViewSaved(db, v, db.view[v].mode, db.view[v].filtered,
                                   newDefault, newDone)
                ELSE db
           from == IF cleared THEN existingBucketID(db, v, newDefault) ELSE default
           target == DefaultOr(db, v, from)
           rows == [t \in TaskIds |-> [u \in ViewIds |->
                       IF db.row[t][u] = b THEN target ELSE db.row[t][u]]]
<1>1. db \in Database /\ configs' \in 0..MaxConfig
  BY ConfigsType DEF TypeOK, DeleteBucket
<1>2. d \in Database
  BY <1>1, Tables, WithViewSavedType
<1>3. from \in BucketIds
  BY <1>1, Tables, ExistingBucketIDType
<1>4. target \in BucketIds
  <2> HIDE DEF from
  <2> QED
    BY <1>1, <1>3, DefaultOrValue
<1>5. rows \in [TaskIds -> [ViewIds -> BucketIds]]
  <2> HIDE DEF target
  <2> QED
    BY <1>1, <1>4, Tables
<1>6. CommitNow(WithRows(WithBuckets(d, [d.bucket EXCEPT ![b].live = FALSE]), rows))
  BY DEF DeleteBucket
<1>7. WithRows(WithBuckets(d, [d.bucket EXCEPT ![b].live = FALSE]), rows) \in Database
  <2> HIDE DEF d, rows
  <2>1. [d.bucket EXCEPT ![b].live = FALSE] \in [Buckets -> BucketRec]
    BY <1>2 DEF Database, BucketRec
  <2> QED
    BY <1>2, <1>5, <2>1, BucketTable, RowTable
<1> QED
  BY <1>1, <1>6, <1>7, CommitType

LEMMA MoveTaskType ==
    ASSUME TypeOK, NEW t \in TaskIds, NEW b \in Buckets, MoveTask(t, b)
    PROVE  TypeOK'
<1> DEFINE v == db.bucket[b].view
<1>1. db \in Database /\ configs' \in 0..MaxConfig
  BY ConfigsType DEF TypeOK, MoveTask
<1>2. v \in ViewIds
  BY DEF MoveTask
<1>3. updateTaskBucket(db, t, v, b) \in Database
  BY <1>1, <1>2, UpdateTaskBucketType DEF BucketIds
<1> QED
  BY <1>1, <1>3, CommitType DEF MoveTask

LEMMA NoTaskType ==
    /\ NoTask \in TaskRec
    /\ [NoTask EXCEPT !.status = "gone"] \in TaskRec
    /\ AnyProject \in Projects
<1>1. AnyProject \in Projects
  BY ConstantsAssumption DEF AnyProject
<1>2. NoTask \in TaskRec
  BY <1>1 DEF NoTask, TaskRec, Statuses
<1>3. [NoTask EXCEPT !.status = "gone"] \in TaskRec
  BY <1>2 DEF TaskRec, Statuses
<1> QED
  BY <1>1, <1>2, <1>3

LEMMA EmptyRow ==
    ASSUME NEW d \in Database, NEW t \in TaskIds
    PROVE  [d.row EXCEPT ![t] = [v \in ViewIds |-> NoBucket]]
              \in [TaskIds -> [ViewIds -> BucketIds]]
<1>1. NoBucket \in BucketIds
  BY DEF BucketIds
<1> QED
  BY <1>1, Tables

LEMMA DeleteTaskType ==
    ASSUME TypeOK, NEW t \in TaskIds, DeleteTask(t)
    PROVE  TypeOK'
<1>1. db \in Database /\ configs' \in 0..MaxConfig
  BY ConfigsType DEF TypeOK, DeleteTask
<1>2. [db.task EXCEPT ![t] = [NoTask EXCEPT !.status = "gone"]] \in [TaskIds -> TaskRec]
  BY <1>1, Tables, NoTaskType
<1>3. WithRows(
          WithTasks(db, [db.task EXCEPT ![t] = [NoTask EXCEPT !.status = "gone"]]),
          [db.row EXCEPT ![t] = [v \in ViewIds |-> NoBucket]]) \in Database
  BY <1>1, <1>2, EmptyRow, TaskTable, RowTable
<1> QED
  BY <1>1, <1>3, CommitType DEF DeleteTask

LEMMA NewTaskType ==
    ASSUME NEW p \in Projects, NEW done \in BOOLEAN, NEW repeating \in BOOLEAN
    PROVE  NewTask(p, done, repeating) \in TaskRec
BY DEF NewTask, TaskRec, Statuses

LEMMA CreateTaskType ==
    ASSUME TypeOK, NEW t \in TaskIds, NEW p \in Projects, NEW done \in BOOLEAN,
           NEW repeating \in BOOLEAN, NEW b \in BucketIds,
           CreateTask(t, p, done, repeating, b)
    PROVE  TypeOK'
<1> DEFINE r == [v \in ViewIds |-> IF v \in ManualViews(db, p)
                                   THEN CreationRow(v, done, b) ELSE NoBucket]
           f == [db.task EXCEPT ![t] = NewTask(p, done, repeating)]
<1>1. db \in Database /\ configs' \in 0..MaxConfig
  BY ConfigsType DEF TypeOK, CreateTask
<1>2. f \in [TaskIds -> TaskRec]
  BY <1>1, Tables, NewTaskType
<1>3. ASSUME NEW v \in ViewIds
      PROVE  CreationRow(v, done, b) \in BucketIds
  <2>1. getDefaultBucketID(db, v) \in BucketIds
    BY <1>1, Tables, DefaultOrValue DEF getDefaultBucketID
  <2> QED
    BY <1>1, <2>1, Tables DEF CreationRow
<1>4. r \in [ViewIds -> BucketIds]
  BY <1>3 DEF BucketIds
<1>5. [db.row EXCEPT ![t] = r] \in [TaskIds -> [ViewIds -> BucketIds]]
  <2> HIDE DEF r
  <2> QED
    BY <1>1, <1>4, Tables
<1>6. WithRows(WithTasks(db, f), [db.row EXCEPT ![t] = r]) \in Database
  <2> HIDE DEF r, f
  <2> QED
    BY <1>1, <1>2, <1>5, TaskTable, RowTable
<1> QED
  BY <1>1, <1>6, CommitType DEF CreateTask

LEMMA CreateDoneTaskType ==
    ASSUME TypeOK, NEW t \in TaskIds, NEW p \in Projects,
           NEW repeating \in BOOLEAN, NEW b \in Buckets,
           CreateDoneTask(t, p, repeating, b)
    PROVE  TypeOK'
<1> DEFINE new == NewTask(p, TRUE, repeating)
           want == [cols |-> {}, done |-> FALSE, repeating |-> FALSE, project |-> p]
<1>1. db \in Database /\ configs \in 0..MaxConfig
  BY DEF TypeOK
<1>2. new \in TaskRec
  BY NewTaskType
<1>3. w' \in Database
  <2>1. w' = WithTasks(db, [db.task EXCEPT ![t] = new])
    BY DEF CreateDoneTask
  <2> HIDE DEF new
  <2>2. [db.task EXCEPT ![t] = new] \in [TaskIds -> TaskRec]
    BY <1>1, <1>2, Tables
  <2> QED
    BY <1>1, <2>1, <2>2, TaskTable
<1>4. want \in Payload
  BY DEF Payload, Columns
<1>5. LiveViews(db, p) \in SUBSET ViewIds
  BY DEF LiveViews
<1>6. tx' \in Transaction
  <2>1. tx' = [kind |-> "create", task |-> t, rest |-> {}, todo |-> LiveViews(db, p),
               new |-> new, want |-> want]
    BY DEF CreateDoneTask
  <2> HIDE DEF new, want
  <2> QED
    BY <1>2, <1>4, <1>5, <2>1 DEF Transaction
<1> QED
  BY <1>1, <1>3, <1>6 DEF TypeOK, CreateDoneTask, Handler

LEMMA StartType ==
    ASSUME NEW d \in Database, NEW t \in TaskIds, NEW rest \in SUBSET TaskIds,
           NEW want \in Payload
    PROVE  /\ StartTx(d, t, rest, want) \in Transaction
           /\ StartDb(d, t, want) \in Database
<1> DEFINE new == Wanted(d, t, want)
           kind == UpdateKind(d.task[t], new)
           todo == IF kind = "plain" THEN {} ELSE ManualViews(d, new.project)
<1>1. d.task[t] \in TaskRec
  BY Tables
<1>2. new \in TaskRec
  <2>1. /\ (IF "done" \in want.cols THEN want.done ELSE d.task[t].done) \in BOOLEAN
        /\ (IF "repeat_after" \in want.cols THEN want.repeating
            ELSE d.task[t].repeating) \in BOOLEAN
        /\ (IF "project_id" \in want.cols THEN want.project
            ELSE d.task[t].project) \in Projects
    BY <1>1 DEF TaskRec, Payload
  <2>2. d.task[t].status \in Statuses
    BY <1>1 DEF TaskRec
  <2> QED
    BY <1>1, <2>1, <2>2 DEF Wanted, TaskRec
<1>3. kind \in {"create", "move", "done", "reopen", "plain"}
  BY DEF UpdateKind
<1>4. todo \in SUBSET ViewIds
  BY DEF ManualViews, LiveViews
<1>5. StartTx(d, t, rest, want) \in Transaction
  <2>1. StartTx(d, t, rest, want) =
           [kind |-> kind, task |-> t, rest |-> rest, want |-> want, new |-> new,
            todo |-> todo]
    BY DEF StartTx
  <2> HIDE DEF new, kind, todo
  <2> QED
    BY <1>2, <1>3, <1>4, <2>1 DEF Transaction
<1>6. StartDb(d, t, want) \in Database
  BY EmptyRow, RowTable DEF StartDb
<1> QED
  BY <1>5, <1>6


LEMMA UpdateType ==
    ASSUME TypeOK, NEW t \in TaskIds, NEW rest \in SUBSET TaskIds,
           NEW want \in Payload, Start(t, rest, want)
    PROVE  TypeOK'
<1>1. db \in Database /\ configs \in 0..MaxConfig
  BY DEF TypeOK
<1> QED
  BY <1>1, StartType DEF TypeOK, Start, Handler

LEMMA UpdateTaskType ==
    ASSUME TypeOK, NEW t \in TaskIds, NEW done \in BOOLEAN,
           NEW repeating \in BOOLEAN, NEW p \in Projects,
           UpdateTask(t, done, repeating, p)
    PROVE  TypeOK'
<1>1. [cols |-> Columns, done |-> done, repeating |-> repeating, project |-> p]
         \in Payload
  BY DEF Payload
<1> QED
  BY <1>1, UpdateType DEF UpdateTask

LEMMA BulkUpdateType ==
    ASSUME TypeOK, NEW t \in TaskIds, NEW rest \in SUBSET TaskIds,
           NEW cols \in BulkColumns, NEW done \in BOOLEAN,
           NEW repeating \in BOOLEAN, NEW p \in Projects,
           BulkUpdate(t, rest, cols, done, repeating, p)
    PROVE  TypeOK'
<1>1. [cols |-> cols, done |-> done, repeating |-> repeating, project |-> p]
         \in Payload
  BY ConstantsAssumption DEF Payload, Columns
<1> QED
  BY <1>1, UpdateType DEF BulkUpdate

\* The parts of the open transaction.
LEMMA OpenTransaction ==
    ASSUME TypeOK, ~Idle
    PROVE  /\ tx \in Transaction
           /\ tx.task \in TaskIds /\ tx.rest \in SUBSET TaskIds
           /\ tx.want \in Payload /\ tx.todo \in SUBSET ViewIds
           /\ tx.new \in TaskRec
BY DEF TypeOK, Idle, Transaction

LEMMA LoopTargetType ==
    ASSUME TypeOK, NEW v \in ViewIds
    PROVE  LoopTarget(v) \in BucketIds
<1>1. w \in Database
  BY DEF TypeOK
<1>2. getDefaultBucketID(w, v) \in BucketIds
  BY <1>1, Tables, DefaultOrValue DEF getDefaultBucketID
<1> QED
  BY <1>1, <1>2, Tables DEF LoopTarget

LEMMA PlaceInViewType ==
    ASSUME TypeOK, NEW v \in ViewIds, PlaceInView(v)
    PROVE  TypeOK'
<1>1. w \in Database /\ db \in Database /\ configs \in 0..MaxConfig
  BY DEF TypeOK
<1>2. ~Idle
  BY DEF PlaceInView
<1>3. tx.task \in TaskIds
  BY <1>2, OpenTransaction
<1>4. w' \in Database
  <2>1. w' = w \/ w' = updateTaskBucket(w, tx.task, v, LoopTarget(v))
    BY DEF PlaceInView
  <2> QED
    BY <1>1, <1>3, <2>1, LoopTargetType, UpdateTaskBucketType
<1>5. tx' \in Transaction
  <2>1. tx \in Transaction /\ tx' = [tx EXCEPT !.todo = @ \ {v}]
    BY <1>2, OpenTransaction DEF PlaceInView
  <2> QED
    BY <2>1 DEF Transaction
<1> QED
  BY <1>1, <1>4, <1>5 DEF TypeOK, PlaceInView

LEMMA RollbackType ==
    ASSUME TypeOK, NEW v \in ViewIds, Rollback(v)
    PROVE  TypeOK'
BY DEF TypeOK, Rollback

LEMMA SavedType ==
    ASSUME TypeOK, ~Idle
    PROVE  Saved(tx.task) \in Database
<1> DEFINE done == IF "done" \in tx.want.cols THEN FinalDone(tx.task)
                   ELSE w.task[tx.task].done
<1>1. w \in Database
  BY DEF TypeOK
<1>2. tx.task \in TaskIds /\ tx.new \in TaskRec
  BY OpenTransaction
<1>3. done \in BOOLEAN
  BY <1>1, <1>2, Tables DEF FinalDone
<1>4. [tx.new EXCEPT !.done = done] \in TaskRec
  <2> HIDE DEF done
  <2> QED
    BY <1>2, <1>3 DEF TaskRec
<1>5. [w.task EXCEPT ![tx.task] = [tx.new EXCEPT !.done = done]]
         \in [TaskIds -> TaskRec]
  <2> HIDE DEF done
  <2> QED
    BY <1>1, <1>2, <1>4, Tables
<1> QED
  BY <1>1, <1>5, TaskTable DEF Saved

LEMMA FinishTaskType ==
    ASSUME TypeOK, FinishTask
    PROVE  TypeOK'
<1>1. w \in Database /\ configs' \in 0..MaxConfig
  BY DEF TypeOK, FinishTask
<1>2. ~Idle
  BY DEF FinishTask
<1>3. CommitNow(w) \/ CommitNow(Saved(tx.task))
  BY DEF FinishTask
<1> QED
  BY <1>1, <1>2, <1>3, SavedType, CommitType

LEMMA NextTaskType ==
    ASSUME TypeOK, NEW t \in TaskIds, NextTask(t)
    PROVE  TypeOK'
<1>1. ~Idle
  BY DEF NextTask
<1>2. tx.want \in Payload /\ tx.rest \ {t} \in SUBSET TaskIds
  BY <1>1, OpenTransaction
<1>3. Saved(tx.task) \in Database
  BY <1>1, SavedType
<1>4. /\ tx' = StartTx(Saved(tx.task), t, tx.rest \ {t}, tx.want)
      /\ w' = StartDb(Saved(tx.task), t, tx.want)
  BY DEF NextTask
<1>5. tx' \in Transaction /\ w' \in Database
  BY <1>2, <1>3, <1>4, StartType
<1> QED
  BY <1>5 DEF TypeOK, NextTask

-----------------------------------------------------------------------------
(* Type correctness *)

LEMMA InitType ==
    ASSUME Init
    PROVE  TypeOK
<1> DEFINE tasks == [t \in TaskIds |-> NoTask]
           views == [v \in ViewIds |->
                        [status |-> "none", project |-> AnyProject, mode |-> "list",
                         filtered |-> FALSE, default |-> NoBucket, doneBucket |-> NoBucket]]
           buckets == [b \in Buckets |->
                          [view |-> NoView, live |-> FALSE, limit |-> 0, pos |-> 0]]
           rows == [t \in TaskIds |-> [v \in ViewIds |-> NoBucket]]
<1>1. tasks \in [TaskIds -> TaskRec]
  BY NoTaskType
<1>2. views \in [ViewIds -> ViewRec]
  BY NoTaskType DEF ViewRec, Statuses, Modes, BucketIds
<1>3. buckets \in [Buckets -> BucketRec]
  BY ConstantsAssumption DEF BucketRec
<1>4. rows \in [TaskIds -> [ViewIds -> BucketIds]]
  BY DEF BucketIds
<1>5. db = [task |-> tasks, view |-> views, bucket |-> buckets, row |-> rows,
            next |-> 1]
  BY DEF Init
<1>6. db \in Database
  <2> HIDE DEF tasks, views, buckets, rows
  <2> QED
    BY <1>1, <1>2, <1>3, <1>4, <1>5, ConstantsAssumption DEF Database
<1> QED
  BY <1>6, ConstantsAssumption DEF Init, TypeOK

LEMMA NextType ==
    ASSUME TypeOK, Next
    PROVE  TypeOK'
<1>1. CASE \E v \in ViewIds, p \in Projects, mode \in Modes, filtered \in BOOLEAN :
              CreateView(v, p, mode, filtered)
  BY <1>1, CreateViewType
<1>2. CASE \E v \in ViewIds, mode \in Modes, filtered \in BOOLEAN,
              default, doneBucket \in BucketIds :
                 UpdateView(v, mode, filtered, default, doneBucket)
  BY <1>2, UpdateViewType
<1>3. CASE \E v \in ViewIds : DeleteView(v) \/ PlaceInView(v) \/ Rollback(v)
  BY <1>3, DeleteViewType, PlaceInViewType, RollbackType
<1>4. CASE \E v \in ViewIds, limit \in Limits, pos \in Positions :
              CreateBucket(v, limit, pos)
  BY <1>4, CreateBucketType
<1>5. CASE \E b \in Buckets :
              \E limit \in Limits, pos \in Positions \cup {db.bucket[b].pos} :
                 UpdateBucket(b, limit, pos)
  BY <1>5, UpdateBucketType
<1>6. CASE \E b \in Buckets : \/ \E v \in ViewIds : DeleteBucket(b, v)
                              \/ \E t \in TaskIds : MoveTask(t, b)
  BY <1>6, DeleteBucketType, MoveTaskType
<1>7. CASE \E t \in TaskIds : DeleteTask(t) \/ NextTask(t)
  BY <1>7, DeleteTaskType, NextTaskType
<1>8. CASE \E t \in TaskIds, p \in Projects, done, repeating \in BOOLEAN, b \in BucketIds :
              CreateTask(t, p, done, repeating, b)
  BY <1>8, CreateTaskType
<1>9. CASE \E t \in TaskIds, p \in Projects, repeating \in BOOLEAN, b \in Buckets :
              CreateDoneTask(t, p, repeating, b)
  BY <1>9, CreateDoneTaskType
<1>10. CASE \E t \in TaskIds, done, repeating \in BOOLEAN, p \in Projects :
              UpdateTask(t, done, repeating, p)
  BY <1>10, UpdateTaskType
<1>11. CASE \E t \in TaskIds, done, repeating \in BOOLEAN, p \in Projects,
              rest \in SUBSET TaskIds, cols \in BulkColumns :
                 BulkUpdate(t, rest, cols, done, repeating, p)
  BY <1>11, BulkUpdateType
<1>12. CASE FinishTask
  BY <1>12, FinishTaskType
<1> QED
  BY <1>1, <1>2, <1>3, <1>4, <1>5, <1>6, <1>7, <1>8, <1>9, <1>10, <1>11, <1>12
     DEF Next

\* The database, the transaction's copy of it and the transaction have values of
\* their types, whatever the handlers are asked to do.
THEOREM TypeCorrect == Spec => []TypeOK
<1>1. Init => TypeOK
  BY InitType
<1>2. TypeOK /\ [Next]_vars => TypeOK'
  <2> SUFFICES ASSUME TypeOK, [Next]_vars PROVE TypeOK'
    OBVIOUS
  <2>1. CASE Next
    BY <2>1, NextType
  <2>2. CASE UNCHANGED vars
    BY <2>2 DEF TypeOK, vars
  <2> QED
    BY <2>1, <2>2
<1> QED
  BY <1>1, <1>2, PTL DEF Spec
=============================================================================
