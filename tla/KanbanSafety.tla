---------------------------- MODULE KanbanSafety ----------------------------
(***************************************************************************)
(* The boards of Kanban for any tasks, views, projects and limits, as long *)
(* as buckets are deleted by the path of their own view (~OtherPaths).     *)
(*                                                                         *)
(* They stay sound: the rows of a task are in buckets of their own view,   *)
(* the settings of a kanban name existing buckets, and a manual kanban has *)
(* one.  The inductive invariant is BoardsSound.                           *)
(*                                                                         *)
(* If tasks are only moved within their own project as well                *)
(* (~OtherProjects), rows are in views of the task's own project, and the  *)
(* boards stay faithful: between two committed databases tasks keep their    *)
(* places, reach the done buckets, stay there or are opened again, and     *)
(* limits are kept (Kept).  A transaction writes in many steps and commits *)
(* in one, so BoardsFaithful relates what it has written to the database   *)
(* it started from.                                                        *)
(***************************************************************************)
EXTENDS KanbanProofs, FiniteSetTheorems

-----------------------------------------------------------------------------
(* Settled through the operators on the database *)

\* Settled speaks of views, buckets, rows and the next id: the tasks may change.
LEMMA SettledTasks ==
    ASSUME NEW d \in Database, Settled(d), NEW f \in [TaskIds -> TaskRec]
    PROVE  Settled(WithTasks(d, f))
BY TaskTable
   DEF Settled, RowsOwn, SettingsOwn, FreshUnused, SettingsExist, OwnBucket, BucketsOf

\* Rows may be rewritten as long as each names a bucket of its own view.
LEMMA SettledRows ==
    ASSUME NEW d \in Database, Settled(d),
           NEW f \in [TaskIds -> [ViewIds -> BucketIds]],
           \A t \in TaskIds, v \in ViewIds : OwnBucket(d, v, f[t][v])
    PROVE  Settled(WithRows(d, f))
BY RowTable
   DEF Settled, RowsOwn, SettingsOwn, FreshUnused, SettingsExist, OwnBucket, BucketsOf

\* What WithIds writes, and what it leaves.
LEMMA WithIdsEffect ==
    ASSUME NEW d \in Database, NEW v \in ViewIds,
           NEW x \in BucketIds, NEW y \in BucketIds
    PROVE  LET e == WithIds(d, v, x, y)
           IN /\ e \in Database
              /\ e.task = d.task /\ e.bucket = d.bucket
              /\ e.row = d.row /\ e.next = d.next
              /\ e.view[v].default = x /\ e.view[v].doneBucket = y
              /\ e.view[v].status = d.view[v].status
              /\ e.view[v].project = d.view[v].project
              /\ e.view[v].mode = d.view[v].mode
              /\ \A u \in ViewIds \ {v} : e.view[u] = d.view[u]
<1> DEFINE r == [d.view[v] EXCEPT !.default = x, !.doneBucket = y]
           f == [d.view EXCEPT ![v] = r]
<1>1. d.view \in [ViewIds -> ViewRec] /\ d.view[v] \in ViewRec
  BY Tables
<1>2. /\ r \in ViewRec /\ r.default = x /\ r.doneBucket = y
      /\ r.status = d.view[v].status /\ r.project = d.view[v].project
      /\ r.mode = d.view[v].mode
  BY <1>1 DEF ViewRec
<1>3. f \in [ViewIds -> ViewRec] /\ f[v] = r
      /\ \A u \in ViewIds \ {v} : f[u] = d.view[u]
  <2> HIDE DEF r
  <2> QED
    BY <1>1, <1>2
<1>4. WithIds(d, v, x, y) = WithViews(d, f)
  BY DEF WithIds
<1> QED
  <2> HIDE DEF r, f
  <2> QED
    BY <1>2, <1>3, <1>4, ViewTable

\* Existing buckets of the view are sound settings.
LEMMA SettledIds ==
    ASSUME NEW d \in Database, Settled(d), NEW v \in ViewIds,
           NEW x \in BucketsOf(d, v) \cup {NoBucket},
           NEW y \in BucketsOf(d, v) \cup {NoBucket}
    PROVE  Settled(WithIds(d, v, x, y))
<1>1. x \in BucketIds /\ y \in BucketIds
  BY DEF BucketsOf, BucketIds
<1> DEFINE e == WithIds(d, v, x, y)
<1>2. /\ e.bucket = d.bucket /\ e.row = d.row /\ e.next = d.next
      /\ e.view[v].default = x /\ e.view[v].doneBucket = y
      /\ \A u \in ViewIds \ {v} : e.view[u] = d.view[u]
  BY <1>1, WithIdsEffect
<1> HIDE DEF e
<1>3. \A u : BucketsOf(e, u) = BucketsOf(d, u)
  BY <1>2 DEF BucketsOf
<1>4. OwnBucket(d, v, x) /\ OwnBucket(d, v, y)
  BY DEF OwnBucket, BucketsOf
<1>5. RowsOwn(e) /\ FreshUnused(e)
  BY <1>2 DEF Settled, RowsOwn, FreshUnused, OwnBucket
<1>6. SettingsOwn(e)
  BY <1>2, <1>4 DEF Settled, SettingsOwn, OwnBucket
<1>7. SettingsExist(e)
  BY <1>2, <1>3 DEF Settled, SettingsExist
<1>8. Settled(e)
  BY <1>5, <1>6, <1>7 DEF Settled
<1> QED
  BY <1>8 DEF e

\* The default bucket is a bucket that was made for the view.
LEMMA DefaultOwn ==
    ASSUME NEW d \in Database, NEW v \in ViewIds,
           NEW default \in BucketIds, OwnBucket(d, v, default)
    PROVE  /\ OwnBucket(d, v, DefaultOr(d, v, default))
           /\ default \in BucketsOf(d, v) \cup {NoBucket} =>
                 DefaultOr(d, v, default) \in BucketsOf(d, v) \cup {NoBucket}
BY DefaultOrValue DEF OwnBucket, BucketsOf

\* No two buckets of a view are leftmost, and one that is remains so when another
\* bucket goes.
LEMMA LeftmostRemains ==
    ASSUME NEW o \in Database, NEW d \in Database, NEW v \in ViewIds,
           BucketsOf(d, v) \subseteq BucketsOf(o, v),
           \A b \in BucketsOf(d, v) : d.bucket[b] = o.bucket[b],
           DefaultOr(o, v, NoBucket) \in BucketsOf(d, v)
    PROVE  DefaultOr(d, v, NoBucket) = DefaultOr(o, v, NoBucket)
<1>1. BucketsOf(d, v) # {} /\ BucketsOf(o, v) # {}
  OBVIOUS
<1>2. PICK b \in Buckets : IsLeftmost(o, v, b)
  BY <1>1, LeftmostExists
<1>3. PICK c \in Buckets : IsLeftmost(d, v, c)
  BY <1>1, LeftmostExists
<1> DEFINE x == DefaultOr(o, v, NoBucket)
           y == DefaultOr(d, v, NoBucket)
<1>4. IsLeftmost(o, v, x)
  BY <1>1, <1>2 DEF DefaultOr
<1>5. IsLeftmost(d, v, y)
  BY <1>1, <1>3 DEF DefaultOr
<1> HIDE DEF x, y
<1>6. x \in BucketsOf(d, v) /\ y \in BucketsOf(d, v) /\ y \in BucketsOf(o, v)
  BY <1>5 DEF IsLeftmost, x
<1>7. /\ x \in Nat /\ y \in Nat
      /\ d.bucket[x].pos \in Nat /\ d.bucket[y].pos \in Nat
  <2>1. x \in Buckets /\ y \in Buckets
    BY <1>6 DEF BucketsOf
  <2>2. d.bucket[x] \in BucketRec /\ d.bucket[y] \in BucketRec
    BY <2>1, Tables
  <2> QED
    BY <2>1, <2>2, ConstantsAssumption DEF Buckets, BucketRec
<1>8. /\ \/ d.bucket[x].pos < d.bucket[y].pos
         \/ d.bucket[x].pos = d.bucket[y].pos /\ x <= y
      /\ \/ d.bucket[y].pos < d.bucket[x].pos
         \/ d.bucket[y].pos = d.bucket[x].pos /\ y <= x
  BY <1>4, <1>5, <1>6 DEF IsLeftmost
<1>9. x = y
  BY <1>7, <1>8
<1> QED
  BY <1>9 DEF x, y

\* A bucket the task may be put into: updateTaskBucket mixes no boards.
LEMMA SettledPut ==
    ASSUME NEW d \in Database, Settled(d), NEW t \in TaskIds, NEW v \in ViewIds,
           NEW b \in BucketIds, CanPut(d, t, v, b)
    PROVE  Settled(updateTaskBucket(d, t, v, b))
<1>1. OwnBucket(d, v, b)
  BY DEF CanPut, Settled, RowsOwn, OwnBucket, BucketsOf
<1>2. OwnBucket(d, v, PutTarget(d, t, v, b))
  BY <1>1 DEF PutTarget, Settled, RowsOwn, SettingsOwn
<1>3. \A u \in ViewIds : OwnBucket(d, u, PutRow(d, t, v, b)[u])
  BY <1>2 DEF PutRow, Settled, RowsOwn, SettingsOwn
<1>4. PutTarget(d, t, v, b) \in BucketIds
  BY Tables DEF PutTarget
<1>5. PutRow(d, t, v, b) \in [ViewIds -> BucketIds]
  BY <1>4, Tables DEF PutRow
<1> DEFINE f == [d.task EXCEPT ![t].done = PutDone(d, t, v, b)]
           g == [d.row EXCEPT ![t] = PutRow(d, t, v, b)]
<1>6. f \in [TaskIds -> TaskRec]
  <2>1. PutDone(d, t, v, b) \in BOOLEAN
    BY DEF PutDone
  <2> QED
    BY <2>1, Tables DEF TaskRec
<1>7. g \in [TaskIds -> [ViewIds -> BucketIds]]
  BY <1>5, Tables
<1>8. \A s \in TaskIds, u \in ViewIds : OwnBucket(d, u, g[s][u])
  BY <1>3, Tables DEF Settled, RowsOwn
<1> HIDE DEF f, g
<1>9. WithTasks(d, f) \in Database /\ Settled(WithTasks(d, f))
      /\ WithTasks(d, f).bucket = d.bucket
  BY <1>6, TaskTable, SettledTasks
<1>10. \A s \in TaskIds, u \in ViewIds : OwnBucket(WithTasks(d, f), u, g[s][u])
  BY <1>8, <1>9 DEF OwnBucket
<1>11. Settled(WithRows(WithTasks(d, f), g))
  BY <1>7, <1>9, <1>10, SettledRows
<1> QED
  BY <1>11 DEF updateTaskBucket, f, g

\* What createDefaultKanbanBuckets does: three new buckets for view v, which
\* names two of them; nothing else changes.
LEMMA SeedEffect ==
    ASSUME NEW d \in Database, FreshUnused(d), NEW v \in ViewIds, CanSeed(d)
    PROVE  LET e == WithDefaultBuckets(d, v)
           IN /\ e \in Database /\ e.task = d.task /\ e.row = d.row
              /\ \A u \in ViewIds : /\ e.view[u].status = d.view[u].status
                                    /\ e.view[u].project = d.view[u].project
                                    /\ e.view[u].mode = d.view[u].mode
              /\ \A u \in ViewIds \ {v} : e.view[u] = d.view[u]
              /\ \A b \in Buckets : d.bucket[b].view # NoView =>
                    e.bucket[b] = d.bucket[b]
              /\ \A b \in Buckets : d.bucket[b].live => e.bucket[b] = d.bucket[b]
              /\ FreshUnused(e)
              /\ {e.view[v].default, e.view[v].doneBucket} \subseteq BucketsOf(e, v)
<1> DEFINE n == d.next
           s == SeededBuckets(d, v)
           m == WithBuckets(d, s)
           k == WithNext(m, n + 3)
           e == WithDefaultBuckets(d, v)
<1>1. /\ n \in Nat /\ n \in Buckets /\ n + 2 \in Buckets
      /\ n \in BucketIds /\ n + 2 \in BucketIds
      /\ n + 3 \in 1..(MaxBucket + 1)
  BY ConstantsAssumption, Tables DEF CanSeed, Buckets, BucketIds
<1>2. Buckets \subseteq Nat
  BY ConstantsAssumption DEF Buckets
<1>3. s \in [Buckets -> BucketRec]
  <2>1. ASSUME NEW b \in Buckets, b \in n .. (n + 2)
        PROVE  [view |-> v, live |-> TRUE, limit |-> 0, pos |-> 100 * (b - n + 1)]
                  \in BucketRec
    <3>1. 100 * (b - n + 1) \in Nat
      BY <1>1, <2>1
    <3> QED
      BY <3>1, ConstantsAssumption DEF BucketRec
  <2>2. \A b \in Buckets : d.bucket[b] \in BucketRec
    BY Tables
  <2> QED
    BY <2>1, <2>2 DEF SeededBuckets
<1>4. /\ \A b \in Buckets : b \in n .. (n + 2) => s[b].view = v /\ s[b].live
      /\ \A b \in Buckets : b \notin n .. (n + 2) => s[b] = d.bucket[b]
  BY DEF SeededBuckets
<1> HIDE DEF s
<1>5. /\ m \in Database /\ m.task = d.task /\ m.view = d.view /\ m.row = d.row
      /\ m.bucket = s
  BY <1>3, BucketTable
<1> HIDE DEF m
<1>6. /\ k \in Database /\ k.task = d.task /\ k.view = d.view /\ k.row = d.row
      /\ k.bucket = s /\ k.next = n + 3
  BY <1>1, <1>5, NextId
<1> HIDE DEF k
<1>7. e = WithIds(k, v, n, n + 2)
  BY DEF WithDefaultBuckets, k, m, s
<1> HIDE DEF e
<1>8. /\ e \in Database /\ e.task = d.task /\ e.row = d.row
      /\ e.bucket = s /\ e.next = n + 3
      /\ e.view[v].default = n /\ e.view[v].doneBucket = n + 2
      /\ e.view[v].status = d.view[v].status
      /\ e.view[v].project = d.view[v].project
      /\ e.view[v].mode = d.view[v].mode
      /\ \A u \in ViewIds \ {v} : e.view[u] = d.view[u]
  <2> DEFINE y == n + 2
  <2>1. n \in BucketIds /\ y \in BucketIds /\ e = WithIds(k, v, n, y)
    BY <1>1, <1>7
  <2> HIDE DEF n, y
  <2>2. /\ e \in Database /\ e.task = k.task /\ e.bucket = k.bucket
        /\ e.row = k.row /\ e.next = k.next
        /\ e.view[v].default = n /\ e.view[v].doneBucket = y
        /\ e.view[v].status = k.view[v].status
        /\ e.view[v].project = k.view[v].project
        /\ e.view[v].mode = k.view[v].mode
        /\ \A u \in ViewIds \ {v} : e.view[u] = k.view[u]
    <3>1. k \in Database
      BY <1>6
    <3> QED
      BY <2>1, <3>1, WithIdsEffect
  <2> QED
    BY <1>6, <2>2 DEF y
<1>9. ASSUME NEW b \in Buckets, d.bucket[b].view # NoView \/ d.bucket[b].live
      PROVE  e.bucket[b] = d.bucket[b]
  <2>1. ~(b >= n)
    BY <1>9 DEF FreshUnused
  <2>2. b \notin n .. (n + 2)
    BY <1>1, <1>2, <2>1
  <2> QED
    BY <1>4, <1>8, <2>2
<1>10. FreshUnused(e)
  <2> SUFFICES ASSUME NEW b \in Buckets, b >= n + 3
               PROVE  e.bucket[b].view = NoView /\ ~e.bucket[b].live
    BY <1>8 DEF FreshUnused
  <2>1. b >= n /\ b \notin n .. (n + 2)
    BY <1>1, <1>2
  <2> QED
    BY <1>4, <1>8, <2>1 DEF FreshUnused
<1>11. {n, n + 2} \subseteq BucketsOf(e, v)
  <2>1. n \in n .. (n + 2) /\ n + 2 \in n .. (n + 2)
    BY <1>1
  <2> QED
    BY <1>1, <1>4, <1>8, <2>1 DEF BucketsOf
<1>12. \A u \in ViewIds : /\ e.view[u].status = d.view[u].status
                          /\ e.view[u].project = d.view[u].project
                          /\ e.view[u].mode = d.view[u].mode
  BY <1>8
<1>13. {e.view[v].default, e.view[v].doneBucket} \subseteq BucketsOf(e, v)
  BY <1>8, <1>11
<1> QED
  BY <1>8, <1>9, <1>10, <1>12, <1>13 DEF e

LEMMA SettledSeed ==
    ASSUME NEW d \in Database, Settled(d), NEW v \in ViewIds, CanSeed(d)
    PROVE  Settled(WithDefaultBuckets(d, v))
<1> DEFINE e == WithDefaultBuckets(d, v)
<1>1. FreshUnused(d)
  BY DEF Settled
<1>2. /\ e \in Database /\ e.row = d.row
      /\ \A u \in ViewIds \ {v} : e.view[u] = d.view[u]
      /\ \A b \in Buckets : d.bucket[b].view # NoView => e.bucket[b] = d.bucket[b]
      /\ FreshUnused(e)
      /\ {e.view[v].default, e.view[v].doneBucket} \subseteq BucketsOf(e, v)
  BY <1>1, SeedEffect
<1> HIDE DEF e
<1>3. ASSUME NEW u \in ViewIds, NEW b \in BucketIds, OwnBucket(d, u, b)
      PROVE  OwnBucket(e, u, b)
  <2>1. b \in Buckets /\ d.bucket[b].view = u => e.bucket[b] = d.bucket[b]
    BY <1>2, ConstantsAssumption
  <2> QED
    BY <1>3, <2>1 DEF OwnBucket, BucketIds
<1>4. RowsOwn(e)
  <2>1. \A t \in TaskIds, u \in ViewIds : d.row[t][u] \in BucketIds
    BY Tables
  <2> QED
    BY <1>2, <1>3, <2>1 DEF Settled, RowsOwn
<1>5. OwnBucket(e, v, e.view[v].default) /\ OwnBucket(e, v, e.view[v].doneBucket)
  BY <1>2 DEF OwnBucket, BucketsOf
<1>6. SettingsOwn(e)
  <2>1. \A u \in ViewIds : /\ d.view[u].default \in BucketIds
                           /\ d.view[u].doneBucket \in BucketIds
    BY Tables
  <2> QED
    BY <1>2, <1>3, <1>5, <2>1 DEF Settled, SettingsOwn
<1>7. \A u \in ViewIds : BucketsOf(d, u) \subseteq BucketsOf(e, u)
  BY <1>2, ConstantsAssumption DEF BucketsOf
<1>8. SettingsExist(e)
  BY <1>2, <1>7 DEF Settled, SettingsExist
<1>9. Settled(e)
  BY <1>2, <1>4, <1>6, <1>8 DEF Settled
<1> QED
  BY <1>9 DEF e

\* Tasks without a row get a bucket that was made for the view.
LEMMA AddedEffect ==
    ASSUME NEW d \in Database, NEW v \in ViewIds, NEW b \in BucketIds,
           NEW e, e = WithTasksAdded(d, v, b)
    PROVE  /\ e \in Database /\ e.task = d.task /\ e.view = d.view
           /\ e.bucket = d.bucket /\ e.next = d.next
           /\ \A t \in TaskIds, u \in ViewIds :
                 \/ e.row[t][u] = d.row[t][u]
                 \/ /\ u = v /\ e.row[t][u] = b /\ d.row[t][u] = NoBucket
                    /\ t \in LiveTasks(d) /\ d.task[t].project = d.view[v].project
<1> DEFINE f == [t \in TaskIds |-> [u \in ViewIds |->
                   IF /\ u = v
                      /\ t \in LiveTasks(d)
                      /\ d.task[t].project = d.view[v].project
                      /\ d.row[t][v] = NoBucket
                   THEN b ELSE d.row[t][u]]]
<1>1. \A t \in TaskIds, u \in ViewIds : d.row[t][u] \in BucketIds
  BY Tables
<1>2. f \in [TaskIds -> [ViewIds -> BucketIds]]
  BY <1>1
<1>3. \A t \in TaskIds, u \in ViewIds :
         \/ f[t][u] = d.row[t][u]
         \/ /\ u = v /\ f[t][u] = b /\ d.row[t][u] = NoBucket
            /\ t \in LiveTasks(d) /\ d.task[t].project = d.view[v].project
  OBVIOUS
<1>4. WithTasksAdded(d, v, b) = WithRows(d, f)
  BY DEF WithTasksAdded
<1> HIDE DEF f
<1> QED
  BY <1>2, <1>3, <1>4, RowTable

LEMMA SettledAdded ==
    ASSUME NEW d \in Database, Settled(d), NEW v \in ViewIds,
           NEW b \in BucketIds, OwnBucket(d, v, b)
    PROVE  Settled(WithTasksAdded(d, v, b))
<1> DEFINE e == WithTasksAdded(d, v, b)
<1>1. /\ e.view = d.view /\ e.bucket = d.bucket /\ e.next = d.next
      /\ \A t \in TaskIds, u \in ViewIds :
            \/ e.row[t][u] = d.row[t][u]
            \/ u = v /\ e.row[t][u] = b
  BY AddedEffect
<1> HIDE DEF e
<1>2. RowsOwn(e)
  BY <1>1 DEF Settled, RowsOwn, OwnBucket
<1>3. SettingsOwn(e) /\ FreshUnused(e) /\ SettingsExist(e)
  BY <1>1 DEF Settled, SettingsOwn, FreshUnused, SettingsExist, OwnBucket, BucketsOf
<1>4. Settled(e)
  BY <1>2, <1>3 DEF Settled
<1> QED
  BY <1>4 DEF e

\* What the save of ProjectView.Update writes.
LEMMA SavedEffect ==
    ASSUME NEW d \in Database, NEW v \in ViewIds, NEW mode \in Modes,
           NEW x \in BucketIds, NEW y \in BucketIds, NEW filtered \in BOOLEAN
    PROVE  LET e == WithViewSaved(d, v, mode, filtered, x, y)
           IN /\ e \in Database /\ e.task = d.task /\ e.bucket = d.bucket
              /\ e.row = d.row /\ e.next = d.next
              /\ e.view[v].status = d.view[v].status
              /\ e.view[v].project = d.view[v].project
              /\ e.view[v].mode = mode
              /\ mode = "list" => /\ e.view[v].default = d.view[v].default
                                  /\ e.view[v].doneBucket = d.view[v].doneBucket
              /\ mode # "list" =>
                    /\ e.view[v].default = existingBucketID(d, v, x)
                    /\ e.view[v].doneBucket = existingBucketID(d, v, y)
              /\ \A u \in ViewIds \ {v} : e.view[u] = d.view[u]
<1> DEFINE r == [d.view[v] EXCEPT !.mode = mode, !.filtered = filtered]
           f == [d.view EXCEPT ![v] = r]
           m == WithKind(d, v, mode, filtered)
           x1 == existingBucketID(d, v, x)
           y1 == existingBucketID(d, v, y)
           e == WithViewSaved(d, v, mode, filtered, x, y)
<1>1. d.view \in [ViewIds -> ViewRec] /\ d.view[v] \in ViewRec
  BY Tables
<1>2. /\ r \in ViewRec /\ r.default = d.view[v].default
      /\ r.doneBucket = d.view[v].doneBucket
      /\ r.status = d.view[v].status /\ r.project = d.view[v].project
      /\ r.mode = mode
  BY <1>1 DEF ViewRec
<1>3. f \in [ViewIds -> ViewRec] /\ f[v] = r
      /\ \A u \in ViewIds \ {v} : f[u] = d.view[u]
  <2> HIDE DEF r
  <2> QED
    BY <1>1, <1>2
<1>4. m = WithViews(d, f)
  BY DEF WithKind
<1>5. e = IF mode = "list" THEN m ELSE WithIds(m, v, x1, y1)
  BY DEF WithViewSaved
<1> HIDE DEF r, f, m, e
<1>6. /\ m \in Database /\ m.task = d.task /\ m.view = f
      /\ m.bucket = d.bucket /\ m.row = d.row /\ m.next = d.next
  BY <1>3, <1>4, ViewTable
<1>7. x1 \in BucketIds /\ y1 \in BucketIds
  BY ExistingBucketIDType
<1>8. CASE mode = "list"
  BY <1>2, <1>3, <1>5, <1>6, <1>8 DEF e
<1>9. CASE mode # "list"
  <2> HIDE DEF x1, y1
  <2>1. m \in Database /\ e = WithIds(m, v, x1, y1)
    BY <1>5, <1>6, <1>9
  <2>2. /\ e \in Database /\ e.task = m.task /\ e.bucket = m.bucket
        /\ e.row = m.row /\ e.next = m.next
        /\ e.view[v].default = x1 /\ e.view[v].doneBucket = y1
        /\ e.view[v].status = m.view[v].status
        /\ e.view[v].project = m.view[v].project
        /\ e.view[v].mode = m.view[v].mode
        /\ \A u \in ViewIds \ {v} : e.view[u] = m.view[u]
    <3>1. m \in Database
      BY <2>1
    <3>2. x1 \in BucketIds
      BY <1>7
    <3>3. y1 \in BucketIds
      BY <1>7
    <3> DEFINE g == WithIds(m, v, x1, y1)
    <3>4. /\ g \in Database /\ g.task = m.task /\ g.bucket = m.bucket
          /\ g.row = m.row /\ g.next = m.next
          /\ g.view[v].default = x1 /\ g.view[v].doneBucket = y1
          /\ g.view[v].status = m.view[v].status
          /\ g.view[v].project = m.view[v].project
          /\ g.view[v].mode = m.view[v].mode
          /\ \A u \in ViewIds \ {v} : g.view[u] = m.view[u]
      BY <3>1, <3>2, <3>3, WithIdsEffect
    <3>5. e = g
      BY <2>1
    <3> HIDE DEF g
    <3> QED
      BY <3>4, <3>5
  <2> QED
    BY <1>2, <1>3, <1>6, <1>9, <2>2 DEF e, x1, y1
<1> QED
  BY <1>8, <1>9

\* The save of a view in a form to cite where its arguments are expressions.
LEMMA ViewSaved ==
    ASSUME NEW d \in Database, NEW v \in ViewIds, NEW mode \in Modes,
           NEW x \in BucketIds, NEW y \in BucketIds, NEW filtered \in BOOLEAN,
           NEW e, e = WithViewSaved(d, v, mode, filtered, x, y)
    PROVE  /\ e \in Database /\ e.task = d.task /\ e.bucket = d.bucket
           /\ e.row = d.row /\ e.next = d.next
           /\ e.view[v].status = d.view[v].status
           /\ e.view[v].project = d.view[v].project
           /\ e.view[v].mode = mode
           /\ mode = "list" => /\ e.view[v].default = d.view[v].default
                               /\ e.view[v].doneBucket = d.view[v].doneBucket
           /\ mode # "list" =>
                 /\ e.view[v].default = existingBucketID(d, v, x)
                 /\ e.view[v].doneBucket = existingBucketID(d, v, y)
           /\ \A u \in ViewIds \ {v} : e.view[u] = d.view[u]
BY SavedEffect

LEMMA SettledSaved ==
    ASSUME NEW d \in Database, Settled(d), NEW v \in ViewIds, NEW mode \in Modes,
           NEW x \in BucketIds, NEW y \in BucketIds, NEW filtered \in BOOLEAN
    PROVE  Settled(WithViewSaved(d, v, mode, filtered, x, y))
<1> DEFINE e == WithViewSaved(d, v, mode, filtered, x, y)
<1>1. /\ e.bucket = d.bucket /\ e.row = d.row /\ e.next = d.next
      /\ e.view[v].mode = mode
      /\ mode = "list" => /\ e.view[v].default = d.view[v].default
                          /\ e.view[v].doneBucket = d.view[v].doneBucket
      /\ mode # "list" =>
            /\ e.view[v].default = existingBucketID(d, v, x)
            /\ e.view[v].doneBucket = existingBucketID(d, v, y)
      /\ \A u \in ViewIds \ {v} : e.view[u] = d.view[u]
  BY SavedEffect
<1> HIDE DEF e
<1>2. \A z : existingBucketID(d, v, z) \in BucketsOf(d, v) \cup {NoBucket}
  BY DEF existingBucketID
<1>3. \A u : BucketsOf(e, u) = BucketsOf(d, u)
  BY <1>1 DEF BucketsOf
<1>4. RowsOwn(e) /\ FreshUnused(e)
  BY <1>1 DEF Settled, RowsOwn, FreshUnused, OwnBucket
<1>5. \A z \in BucketsOf(d, v) \cup {NoBucket} : OwnBucket(d, v, z)
  BY DEF OwnBucket, BucketsOf
<1>6. SettingsOwn(e)
  BY <1>1, <1>2, <1>5 DEF Settled, SettingsOwn, OwnBucket
<1>7. SettingsExist(e)
  BY <1>1, <1>2, <1>3 DEF Settled, SettingsExist
<1>8. Settled(e)
  BY <1>4, <1>6, <1>7 DEF Settled
<1> QED
  BY <1>8 DEF e

\* healBucketIDs picks existing buckets of the view.
LEMMA HealedIds ==
    ASSUME NEW d \in Database, NEW o \in Database, NEW v \in ViewIds,
           {d.view[v].default, d.view[v].doneBucket}
              \subseteq BucketsOf(d, v) \cup {NoBucket}
    PROVE  \E x, y \in BucketsOf(d, v) \cup {NoBucket} :
              WithIdsHealed(d, o, v) = WithIds(d, v, x, y)
<1> DEFINE kept == KeptBucketID(d, v, d.view[v].default, o.view[v].default)
           x == DefaultOr(d, v, kept)
           y == KeptBucketID(d, v, d.view[v].doneBucket, o.view[v].doneBucket)
<1>1. /\ kept \in BucketsOf(d, v) \cup {NoBucket}
      /\ y \in BucketsOf(d, v) \cup {NoBucket}
  BY DEF KeptBucketID, existingBucketID
<1>2. kept \in BucketIds /\ OwnBucket(d, v, kept)
  BY <1>1 DEF OwnBucket, BucketsOf, BucketIds
<1>3. x \in BucketsOf(d, v) \cup {NoBucket}
  <2> HIDE DEF kept
  <2> QED
    BY <1>1, <1>2, DefaultOwn
<1> QED
  BY <1>1, <1>3 DEF WithIdsHealed

-----------------------------------------------------------------------------
(* Sound through the operators on the database *)

\* Every manual kanban but v has a bucket.
HasBucketsBut(d, v) ==
    \A u \in ViewIds \ {v} :
       d.view[u].status = "live" /\ d.view[u].mode = "manual" => BucketsOf(d, u) # {}

\* New buckets make every other view as sound as it was, and v has buckets.
LEMMA SoundSeed ==
    ASSUME NEW d \in Database, NEW v \in ViewIds, Settled(d), RowsFollow(d),
           HasBucketsBut(d, v), CanSeed(d)
    PROVE  /\ Sound(WithDefaultBuckets(d, v))
           /\ OwnBucket(WithDefaultBuckets(d, v), v,
                        WithDefaultBuckets(d, v).view[v].default)
<1> DEFINE e == WithDefaultBuckets(d, v)
<1>1. FreshUnused(d)
  BY DEF Settled
<1>2. /\ e \in Database /\ e.task = d.task /\ e.row = d.row
      /\ \A u \in ViewIds : /\ e.view[u].status = d.view[u].status
                            /\ e.view[u].project = d.view[u].project
                            /\ e.view[u].mode = d.view[u].mode
      /\ \A b \in Buckets : d.bucket[b].live => e.bucket[b] = d.bucket[b]
      /\ {e.view[v].default, e.view[v].doneBucket} \subseteq BucketsOf(e, v)
  BY <1>1, SeedEffect
<1>3. Settled(e)
  BY SettledSeed
<1> HIDE DEF e
<1>4. \A u : BucketsOf(d, u) \subseteq BucketsOf(e, u)
  BY <1>2 DEF BucketsOf
<1>5. HasBuckets(e)
  BY <1>2, <1>4 DEF HasBuckets, HasBucketsBut
<1>6. RowsFollow(e)
  BY <1>2 DEF RowsFollow, RowsAreIn, LiveTasks, LiveViews
<1>7. OwnBucket(e, v, e.view[v].default)
  BY <1>2 DEF OwnBucket, BucketsOf
<1> QED
  BY <1>3, <1>5, <1>6, <1>7 DEF e, Sound

\* Adding the tasks of the project to one of its live views.
LEMMA SoundAdded ==
    ASSUME NEW d \in Database, NEW v \in ViewIds, NEW b \in BucketIds,
           Sound(d), OwnBucket(d, v, b), d.view[v].status = "live"
    PROVE  Sound(WithTasksAdded(d, v, b))
<1> DEFINE e == WithTasksAdded(d, v, b)
<1>1. /\ e.task = d.task /\ e.view = d.view /\ e.bucket = d.bucket
      /\ \A t \in TaskIds, u \in ViewIds :
            \/ e.row[t][u] = d.row[t][u]
            \/ /\ u = v /\ t \in LiveTasks(d)
               /\ d.task[t].project = d.view[v].project
  BY AddedEffect
<1>2. Settled(e)
  BY SettledAdded DEF Sound
<1> HIDE DEF e
<1>3. HasBuckets(e)
  BY <1>1 DEF Sound, HasBuckets, BucketsOf
<1>4. RowsFollow(e)
  BY <1>1 DEF Sound, RowsFollow, RowsAreIn, LiveTasks, LiveViews
<1> QED
  BY <1>2, <1>3, <1>4 DEF e, Sound

\* A view that became a manual kanban gets sound settings, buckets and rows.
LEMMA SoundSynced ==
    ASSUME NEW d \in Database, NEW o \in Database, NEW v \in ViewIds,
           Settled(d), RowsFollow(d), HasBucketsBut(d, v),
           d.view[v].status = "live", d.view[v].mode = "manual",
           BucketsOf(d, v) = {} => CanSeed(d)
    PROVE  Sound(WithKanbanSynced(d, o, v))
<1> DEFINE s == IF BucketsOf(d, v) # {} THEN WithIdsHealed(d, o, v)
                ELSE WithDefaultBuckets(d, v)
<1>1. s \in Database
  BY WithIdsHealedType, WithDefaultBucketsType
<1>2. Sound(s) /\ OwnBucket(s, v, s.view[v].default) /\ s.view[v].status = "live"
  <2>1. CASE BucketsOf(d, v) = {}
    <3>1. s = WithDefaultBuckets(d, v) /\ CanSeed(d)
      BY <2>1
    <3>2. FreshUnused(d)
      BY DEF Settled
    <3> QED
      BY <3>1, <3>2, SoundSeed, SeedEffect
  <2>2. CASE BucketsOf(d, v) # {}
    <3>1. {d.view[v].default, d.view[v].doneBucket}
             \subseteq BucketsOf(d, v) \cup {NoBucket}
      BY DEF Settled, SettingsExist
    <3>2. PICK x \in BucketsOf(d, v) \cup {NoBucket},
               y \in BucketsOf(d, v) \cup {NoBucket} :
                  WithIdsHealed(d, o, v) = WithIds(d, v, x, y)
      BY <3>1, HealedIds
    <3>3. s = WithIds(d, v, x, y)
      BY <2>2, <3>2
    <3> HIDE DEF s
    <3>4. x \in BucketIds /\ y \in BucketIds
      BY DEF BucketsOf, BucketIds
    <3>5. /\ s.task = d.task /\ s.bucket = d.bucket /\ s.row = d.row
          /\ s.view[v].default = x
          /\ s.view[v].status = d.view[v].status
          /\ s.view[v].project = d.view[v].project
          /\ s.view[v].mode = d.view[v].mode
          /\ \A u \in ViewIds \ {v} : s.view[u] = d.view[u]
      BY <3>3, <3>4, WithIdsEffect
    <3>6. Settled(s)
      BY <3>3, SettledIds
    <3>7. HasBuckets(s)
      BY <2>2, <3>5 DEF HasBuckets, HasBucketsBut, BucketsOf
    <3>8. RowsFollow(s)
      BY <3>5 DEF RowsFollow, RowsAreIn, LiveTasks, LiveViews
    <3>9. OwnBucket(s, v, x)
      BY <3>5 DEF OwnBucket, BucketsOf
    <3> QED
      BY <3>5, <3>6, <3>7, <3>8, <3>9 DEF Sound
  <2> QED
    BY <2>1, <2>2
<1> HIDE DEF s
<1>3. s.view[v].default \in BucketIds
  BY <1>1, Tables
<1>4. Sound(WithTasksAdded(s, v, s.view[v].default))
  BY <1>1, <1>2, <1>3, SoundAdded
<1> QED
  BY <1>4 DEF s, WithKanbanSynced

\* updateTaskBucket writes the row of the task in views of the same project and
\* whether the task is done.
LEMMA PutEffect ==
    ASSUME NEW d \in Database, NEW t \in TaskIds, NEW v \in ViewIds,
           NEW b \in BucketIds
    PROVE  LET e == updateTaskBucket(d, t, v, b)
           IN /\ e.view = d.view /\ e.bucket = d.bucket
              /\ \A s \in TaskIds : /\ e.task[s].status = d.task[s].status
                                    /\ e.task[s].project = d.task[s].project
              /\ \A s \in TaskIds \ {t} : e.row[s] = d.row[s]
              /\ \A u \in ViewIds :
                    \/ e.row[t][u] = d.row[t][u]
                    \/ u = v
                    \/ u \in LiveViews(d, d.view[v].project)
<1> DEFINE f == [d.task EXCEPT ![t].done = PutDone(d, t, v, b)]
           g == [d.row EXCEPT ![t] = PutRow(d, t, v, b)]
           e == updateTaskBucket(d, t, v, b)
<1>1. CASE d.row[t][v] = b
  BY <1>1 DEF updateTaskBucket
<1>2. CASE d.row[t][v] # b
  <2>1. PutDone(d, t, v, b) \in BOOLEAN
    BY DEF PutDone
  <2>2. /\ f \in [TaskIds -> TaskRec]
        /\ \A s \in TaskIds : /\ f[s].status = d.task[s].status
                              /\ f[s].project = d.task[s].project
    <3>1. d.task \in [TaskIds -> TaskRec]
      BY Tables
    <3> QED
      BY <2>1, <3>1 DEF TaskRec
  <2>3. PutTarget(d, t, v, b) \in BucketIds
    BY Tables DEF PutTarget
  <2>4. PutRow(d, t, v, b) \in [ViewIds -> BucketIds]
    BY <2>3, Tables DEF PutRow
  <2>5. \A u \in ViewIds : \/ PutRow(d, t, v, b)[u] = d.row[t][u]
                           \/ u = v
                           \/ u \in LiveViews(d, d.view[v].project)
    BY DEF PutRow, OtherDoneViews, ManualViews
  <2>6. /\ g \in [TaskIds -> [ViewIds -> BucketIds]]
        /\ g[t] = PutRow(d, t, v, b)
        /\ \A s \in TaskIds \ {t} : g[s] = d.row[s]
    BY <2>4, Tables
  <2>7. e = WithRows(WithTasks(d, f), g)
    BY <1>2 DEF updateTaskBucket
  <2> HIDE DEF f, g, e
  <2>8. /\ WithTasks(d, f) \in Database /\ WithTasks(d, f).task = f
        /\ WithTasks(d, f).view = d.view /\ WithTasks(d, f).bucket = d.bucket
    BY <2>2, TaskTable
  <2>9. e.view = d.view /\ e.bucket = d.bucket /\ e.task = f /\ e.row = g
    BY <2>6, <2>7, <2>8, RowTable
  <2> QED
    BY <2>2, <2>5, <2>6, <2>9 DEF e
<1> QED
  BY <1>1, <1>2

\* Moving a task on a board of its own project, or of any if that is asked for.
LEMMA SoundPut ==
    ASSUME NEW d \in Database, NEW t \in TaskIds, NEW v \in ViewIds,
           NEW b \in BucketIds, CanPut(d, t, v, b),
           Settled(d), HasBuckets(d), t \in LiveTasks(d),
           v \in LiveViews(d, d.view[v].project), RowsAreIn(d, t, d.view[v].project)
    PROVE  LET e == updateTaskBucket(d, t, v, b)
           IN /\ Settled(e) /\ HasBuckets(e) /\ e.view = d.view
              /\ \A s \in TaskIds : /\ e.task[s].status = d.task[s].status
                                    /\ e.task[s].project = d.task[s].project
              /\ \A s \in TaskIds \ {t} : \A p : RowsAreIn(d, s, p) => RowsAreIn(e, s, p)
              /\ RowsAreIn(e, t, d.view[v].project)
<1> DEFINE e == updateTaskBucket(d, t, v, b)
<1>1. /\ e.view = d.view /\ e.bucket = d.bucket
      /\ \A s \in TaskIds : /\ e.task[s].status = d.task[s].status
                            /\ e.task[s].project = d.task[s].project
      /\ \A s \in TaskIds \ {t} : e.row[s] = d.row[s]
      /\ \A u \in ViewIds :
            \/ e.row[t][u] = d.row[t][u]
            \/ u = v
            \/ u \in LiveViews(d, d.view[v].project)
  BY PutEffect
<1>2. Settled(e)
  BY SettledPut
<1> HIDE DEF e
<1>3. HasBuckets(e)
  BY <1>1 DEF HasBuckets, BucketsOf
<1>4. \A s \in TaskIds \ {t} : \A p : RowsAreIn(d, s, p) => RowsAreIn(e, s, p)
  BY <1>1 DEF RowsAreIn, LiveTasks, LiveViews
<1>5. RowsAreIn(e, t, d.view[v].project)
  BY <1>1 DEF RowsAreIn, LiveTasks, LiveViews
<1> QED
  BY <1>1, <1>2, <1>3, <1>4, <1>5 DEF e

-----------------------------------------------------------------------------
(* Every action keeps the boards sound: views and buckets *)

LEMMA CommitSound ==
    ASSUME NEW d, Sound(d), CommitNow(d)
    PROVE  BoardsSound'
BY DEF BoardsSound, CommitNow, Idle, Sound, Settled, HasBuckets, RowsFollow,
       RowsOwn, SettingsOwn, FreshUnused, SettingsExist, RowsAreIn, OwnBucket,
       BucketsOf, LiveTasks, LiveViews

LEMMA CreateViewSound ==
    ASSUME TypeOK, BoardsSound, NEW v \in ViewIds, NEW p \in Projects,
           NEW mode \in Modes, NEW filtered \in BOOLEAN,
           CreateView(v, p, mode, filtered)
    PROVE  BoardsSound'
<1> DEFINE new == [status |-> "live", project |-> p, mode |-> mode,
                   filtered |-> filtered, default |-> NoBucket, doneBucket |-> NoBucket]
           f == [db.view EXCEPT ![v] = new]
           d == WithViews(db, f)
           s == WithDefaultBuckets(d, v)
<1>1. db \in Database /\ Sound(db) /\ db.view[v].status = "none"
  BY DEF TypeOK, BoardsSound, CreateView
<1>2. new \in ViewRec
  BY DEF ViewRec, Statuses, BucketIds
<1>3. f \in [ViewIds -> ViewRec] /\ f[v] = new
      /\ \A u \in ViewIds \ {v} : f[u] = db.view[u]
  <2> HIDE DEF new
  <2> QED
    BY <1>1, <1>2, Tables
<1>4. /\ new.status = "live" /\ new.mode = mode
      /\ new.default = NoBucket /\ new.doneBucket = NoBucket
  OBVIOUS
<1> HIDE DEF new, f
<1>5. /\ d \in Database /\ d.view = f /\ d.task = db.task
      /\ d.bucket = db.bucket /\ d.row = db.row /\ d.next = db.next
  BY <1>1, <1>3, ViewTable
<1>6. CommitNow(d) \/ (mode = "manual" /\ CanSeed(d)
         /\ CommitNow(WithTasksAdded(s, v, s.view[v].default)))
  BY DEF CreateView, d, s, f, new
<1>7. mode # "manual" => CommitNow(d)
  BY DEF CreateView, d, s, f, new
<1>8. mode = "manual" => CanSeed(d) /\ CommitNow(WithTasksAdded(s, v, s.view[v].default))
  BY DEF CreateView, d, s, f, new
<1> HIDE DEF d
<1>9. \A u : BucketsOf(d, u) = BucketsOf(db, u)
  BY <1>5 DEF BucketsOf
<1>10. Settled(d)
  BY <1>1, <1>3, <1>4, <1>5, <1>9
     DEF Sound, Settled, RowsOwn, SettingsOwn, FreshUnused, SettingsExist, OwnBucket
<1>11. HasBucketsBut(d, v)
  BY <1>1, <1>3, <1>5, <1>9 DEF Sound, HasBuckets, HasBucketsBut
<1>12. RowsFollow(d)
  BY <1>1, <1>3, <1>5 DEF Sound, RowsFollow, RowsAreIn, LiveTasks, LiveViews
<1>13. CASE mode # "manual"
  <2>1. HasBuckets(d)
    BY <1>3, <1>4, <1>5, <1>11, <1>13 DEF HasBuckets, HasBucketsBut
  <2> QED
    BY <1>7, <1>10, <1>12, <1>13, <2>1, CommitSound DEF Sound
<1>14. CASE mode = "manual"
  <2>1. CanSeed(d) /\ FreshUnused(d)
    BY <1>8, <1>10, <1>14 DEF Settled
  <2>2. s \in Database /\ s.view[v].status = "live"
    BY <1>3, <1>4, <1>5, <2>1, SeedEffect
  <2>3. Sound(s) /\ OwnBucket(s, v, s.view[v].default)
    BY <1>5, <1>10, <1>11, <1>12, <2>1, SoundSeed
  <2> HIDE DEF s
  <2>4. s.view[v].default \in BucketIds
    BY <2>2, Tables
  <2>5. Sound(WithTasksAdded(s, v, s.view[v].default))
    BY <2>2, <2>3, <2>4, SoundAdded
  <2> QED
    BY <1>8, <1>14, <2>5, CommitSound
<1> QED
  BY <1>13, <1>14

LEMMA UpdateViewSound ==
    ASSUME TypeOK, BoardsSound, NEW v \in ViewIds, NEW mode \in Modes,
           NEW filtered \in BOOLEAN,
           NEW default \in BucketIds, NEW doneBucket \in BucketIds,
           UpdateView(v, mode, filtered, default, doneBucket)
    PROVE  BoardsSound'
<1> DEFINE d == WithViewSaved(db, v, mode, filtered, default, doneBucket)
<1>1. db \in Database /\ Sound(db) /\ Settled(db) /\ db.view[v].status = "live"
  BY DEF TypeOK, BoardsSound, UpdateView, Sound
<1>2. /\ d \in Database /\ d.task = db.task /\ d.bucket = db.bucket
      /\ d.row = db.row
      /\ d.view[v].status = db.view[v].status
      /\ d.view[v].project = db.view[v].project
      /\ d.view[v].mode = mode
      /\ \A u \in ViewIds \ {v} : d.view[u] = db.view[u]
  BY <1>1, SavedEffect
<1>3. Settled(d)
  BY <1>1, SettledSaved
<1>4. CASE mode = "manual" /\ db.view[v].mode # "manual"
  <2>1. /\ BucketsOf(d, v) = {} => CanSeed(d)
        /\ CommitNow(WithKanbanSynced(d, db, v))
    BY <1>4 DEF UpdateView
  <2> HIDE DEF d
  <2>2. HasBucketsBut(d, v)
    BY <1>1, <1>2 DEF Sound, HasBuckets, HasBucketsBut, BucketsOf
  <2>3. RowsFollow(d)
    BY <1>1, <1>2 DEF Sound, RowsFollow, RowsAreIn, LiveTasks, LiveViews
  <2>4. Sound(WithKanbanSynced(d, db, v))
    BY <1>1, <1>2, <1>3, <1>4, <2>1, <2>2, <2>3, SoundSynced
  <2> QED
    BY <2>1, <2>4, CommitSound
<1>5. CASE ~(mode = "manual" /\ db.view[v].mode # "manual")
  <2>1. CommitNow(d)
    BY <1>5 DEF UpdateView
  <2> HIDE DEF d
  <2>2. HasBuckets(d)
    BY <1>1, <1>2, <1>5 DEF Sound, HasBuckets, BucketsOf
  <2>3. RowsFollow(d)
    BY <1>1, <1>2 DEF Sound, RowsFollow, RowsAreIn, LiveTasks, LiveViews
  <2> QED
    BY <1>3, <2>1, <2>2, <2>3, CommitSound DEF Sound
<1> QED
  BY <1>4, <1>5

LEMMA DeleteViewSound ==
    ASSUME TypeOK, BoardsSound, NEW v \in ViewIds, DeleteView(v)
    PROVE  BoardsSound'
<1> DEFINE f == [db.view EXCEPT ![v].status = "gone"]
           g == [t \in TaskIds |-> [db.row[t] EXCEPT ![v] = NoBucket]]
           d == WithRows(WithViews(db, f), g)
<1>1. db \in Database /\ Sound(db) /\ CommitNow(d)
  BY DEF TypeOK, BoardsSound, DeleteView
<1>2. /\ f \in [ViewIds -> ViewRec] /\ f[v].status = "gone"
      /\ f[v].default = db.view[v].default
      /\ f[v].doneBucket = db.view[v].doneBucket
      /\ \A u \in ViewIds \ {v} : f[u] = db.view[u]
  <2>1. db.view \in [ViewIds -> ViewRec]
    BY <1>1, Tables
  <2> QED
    BY <2>1 DEF ViewRec, Statuses
<1>3. /\ g \in [TaskIds -> [ViewIds -> BucketIds]]
      /\ \A t \in TaskIds, u \in ViewIds :
            g[t][u] = IF u = v THEN NoBucket ELSE db.row[t][u]
  <2>1. NoBucket \in BucketIds
    BY DEF BucketIds
  <2> QED
    BY <1>1, <2>1, Tables
<1> HIDE DEF f, g
<1>4. /\ WithViews(db, f) \in Database /\ WithViews(db, f).view = f
      /\ WithViews(db, f).task = db.task /\ WithViews(db, f).bucket = db.bucket
      /\ WithViews(db, f).next = db.next
  BY <1>1, <1>2, ViewTable
<1>5. /\ d.view = f /\ d.task = db.task /\ d.bucket = db.bucket
      /\ d.row = g /\ d.next = db.next
  BY <1>3, <1>4, RowTable
<1> HIDE DEF d
<1>6. \A u : BucketsOf(d, u) = BucketsOf(db, u)
  BY <1>5 DEF BucketsOf
<1>7. RowsOwn(d)
  BY <1>1, <1>3, <1>5 DEF Sound, Settled, RowsOwn, OwnBucket
<1>8. SettingsOwn(d) /\ FreshUnused(d)
  BY <1>1, <1>2, <1>5 DEF Sound, Settled, SettingsOwn, FreshUnused, OwnBucket
<1>9. SettingsExist(d)
  BY <1>1, <1>2, <1>5, <1>6 DEF Sound, Settled, SettingsExist
<1>10. HasBuckets(d)
  BY <1>1, <1>2, <1>5, <1>6 DEF Sound, HasBuckets
<1>11. RowsFollow(d)
  BY <1>1, <1>2, <1>3, <1>5 DEF Sound, RowsFollow, RowsAreIn, LiveTasks, LiveViews
<1> QED
  BY <1>1, <1>7, <1>8, <1>9, <1>10, <1>11, CommitSound DEF Sound, Settled

\* A change of the buckets that keeps the buckets in use.
LEMMA BucketsChanged ==
    ASSUME NEW d \in Database, Sound(d), NEW e,
           e.task = d.task, e.view = d.view, e.row = d.row,
           \A b \in Buckets : d.bucket[b].view # NoView \/ d.bucket[b].live =>
              /\ e.bucket[b].view = d.bucket[b].view
              /\ e.bucket[b].live = d.bucket[b].live,
           FreshUnused(e)
    PROVE  Sound(e)
<1>1. ASSUME NEW u \in ViewIds, NEW b \in BucketIds, OwnBucket(d, u, b)
      PROVE  OwnBucket(e, u, b)
  <2>1. u # NoView
    BY ConstantsAssumption
  <2> QED
    BY <1>1, <2>1 DEF OwnBucket, BucketIds
<1>2. \A u \in ViewIds : BucketsOf(d, u) \subseteq BucketsOf(e, u)
  BY ConstantsAssumption DEF BucketsOf
<1>3. RowsOwn(e)
  <2>1. \A t \in TaskIds, u \in ViewIds : d.row[t][u] \in BucketIds
    BY Tables
  <2> QED
    BY <1>1, <2>1 DEF Sound, Settled, RowsOwn
<1>4. SettingsOwn(e)
  BY <1>1, Tables DEF Sound, Settled, SettingsOwn
<1>5. SettingsExist(e) /\ HasBuckets(e)
  BY <1>2 DEF Sound, Settled, SettingsExist, HasBuckets
<1>6. RowsFollow(e)
  BY DEF Sound, RowsFollow, RowsAreIn, LiveTasks, LiveViews
<1> QED
  BY <1>3, <1>4, <1>5, <1>6 DEF Sound, Settled

LEMMA CreateBucketSound ==
    ASSUME TypeOK, BoardsSound, NEW v \in ViewIds, NEW limit \in Limits,
           NEW pos \in Positions, CreateBucket(v, limit, pos)
    PROVE  BoardsSound'
<1> DEFINE n == db.next
           new == [view |-> v, live |-> TRUE, limit |-> limit,
                   pos |-> IF pos = 0 THEN db.next * 65536 ELSE pos]
           f == [db.bucket EXCEPT ![n] = new]
           d == WithNext(WithBuckets(db, f), n + 1)
<1>1. db \in Database /\ Sound(db) /\ CommitNow(d)
  BY DEF TypeOK, BoardsSound, CreateBucket
<1>2. n \in Buckets /\ n \in Nat /\ n + 1 \in 1..(MaxBucket + 1) /\ Buckets \subseteq Nat
  BY <1>1, Tables, ConstantsAssumption DEF CreateBucket, Buckets
<1>3. new \in BucketRec
  <2>1. (IF pos = 0 THEN db.next * 65536 ELSE pos) \in Nat
    BY <1>2, ConstantsAssumption
  <2> QED
    BY <2>1 DEF BucketRec
<1> HIDE DEF new
<1>4. f \in [Buckets -> BucketRec] /\ \A b \in Buckets \ {n} : f[b] = db.bucket[b]
  BY <1>1, <1>2, <1>3, Tables
<1> HIDE DEF f
<1>5. /\ WithBuckets(db, f) \in Database /\ WithBuckets(db, f).view = db.view
      /\ WithBuckets(db, f).task = db.task /\ WithBuckets(db, f).row = db.row
      /\ WithBuckets(db, f).bucket = f
  BY <1>1, <1>4, BucketTable
<1> DEFINE n1 == n + 1
<1>6. /\ d.view = db.view /\ d.task = db.task /\ d.row = db.row
      /\ d.bucket = f /\ d.next = n1
  <2>1. n1 \in 1..(MaxBucket + 1) /\ d = WithNext(WithBuckets(db, f), n1)
    BY <1>2
  <2> HIDE DEF n1, d
  <2> QED
    BY <1>5, <2>1, NextId
<1> HIDE DEF d
<1>7. FreshUnused(db)
  BY <1>1 DEF Sound, Settled
<1>8. ASSUME NEW b \in Buckets, db.bucket[b].view # NoView \/ db.bucket[b].live
      PROVE  f[b] = db.bucket[b]
  BY <1>2, <1>4, <1>7, <1>8 DEF FreshUnused
<1>9. FreshUnused(d)
  BY <1>2, <1>4, <1>6, <1>7 DEF FreshUnused
<1>10. Sound(d)
  BY <1>1, <1>6, <1>8, <1>9, BucketsChanged
<1> QED
  BY <1>1, <1>10, CommitSound

LEMMA UpdateBucketSound ==
    ASSUME TypeOK, BoardsSound, NEW b \in Buckets, NEW limit \in Limits,
           NEW pos \in Positions \cup {db.bucket[b].pos},
           UpdateBucket(b, limit, pos)
    PROVE  BoardsSound'
<1> DEFINE new == [db.bucket[b] EXCEPT !.limit = limit, !.pos = pos]
           f == [db.bucket EXCEPT ![b] = new]
           d == WithBuckets(db, f)
<1>1. db \in Database /\ Sound(db)
  BY DEF TypeOK, BoardsSound
<1>2. db.bucket \in [Buckets -> BucketRec] /\ db.bucket[b] \in BucketRec
  BY <1>1, Tables
<1>3. CommitNow(d)
  BY DEF UpdateBucket
<1>4. pos \in Nat
  BY <1>2, ConstantsAssumption DEF BucketRec
<1>5. /\ new \in BucketRec /\ new.view = db.bucket[b].view
      /\ new.live = db.bucket[b].live
  BY <1>2, <1>4 DEF BucketRec
<1> HIDE DEF new
<1>6. /\ f \in [Buckets -> BucketRec]
      /\ \A c \in Buckets : /\ f[c].view = db.bucket[c].view
                            /\ f[c].live = db.bucket[c].live
  BY <1>2, <1>5
<1> HIDE DEF f
<1>7. /\ d.view = db.view /\ d.task = db.task /\ d.row = db.row
      /\ d.bucket = f /\ d.next = db.next
  BY <1>1, <1>6, BucketTable
<1> HIDE DEF d
<1>8. FreshUnused(d)
  BY <1>1, <1>6, <1>7 DEF Sound, Settled, FreshUnused
<1>9. Sound(d)
  BY <1>1, <1>6, <1>7, <1>8, BucketsChanged
<1> QED
  BY <1>3, <1>9, CommitSound

\* A bucket may only go when its view has another one.
LEMMA AnotherBucket ==
    ASSUME NEW v \in ViewIds, NEW b \in BucketsOf(db, v), BucketRemovable(v)
    PROVE  \E c \in BucketsOf(db, v) : c # b
<1> SUFFICES ASSUME BucketsOf(db, v) = {b} PROVE FALSE
  OBVIOUS
<1>1. Cardinality({b}) = 1
  BY FS_Singleton
<1> QED
  BY <1>1 DEF BucketRemovable

\* What the deletion of bucket b of view v makes of database o: the settings of
\* the view let go of b first, and its tasks go to the bucket `from` names, which
\* was made for the same view, or else to the leftmost one.
BucketDeleted(o, e, b, v, from) ==
    /\ b \in BucketsOf(o, v)
    /\ e.task = o.task /\ e.next = o.next
    /\ \A u \in ViewIds \ {v} : e.view[u] = o.view[u]
    /\ e.view[v].status = o.view[v].status
    /\ e.view[v].project = o.view[v].project
    /\ e.view[v].mode = o.view[v].mode
    /\ e.view[v].default \in {o.view[v].default, NoBucket}
    /\ e.view[v].doneBucket \in {o.view[v].doneBucket, NoBucket}
    /\ e.view[v].mode # "list" =>
          e.view[v].default = from /\ e.view[v].doneBucket # b
    /\ from # b /\ from \in {o.view[v].default, NoBucket}
    /\ ~e.bucket[b].live
    /\ \A x \in Buckets \ {b} : e.bucket[x] = o.bucket[x]
    /\ \A x \in Buckets : e.bucket[x].view = o.bucket[x].view
    /\ \A t \in TaskIds, u \in ViewIds :
          e.row[t][u] = IF o.row[t][u] = b THEN DefaultOr(o, v, from)
                        ELSE o.row[t][u]

\* A bucket that is deleted by the path of its own view is a bucket of it.
LEMMA OwnPath ==
    ASSUME NEW b \in Buckets, NEW v \in ViewIds, v = db.bucket[b].view,
           DeleteBucket(b, v)
    PROVE  b \in BucketsOf(db, v)
BY DEF DeleteBucket, BucketReachable, BucketsOf

LEMMA DeleteBucketWrites ==
    ASSUME TypeOK, BoardsSound, NEW b \in Buckets, NEW v \in ViewIds,
           b \in BucketsOf(db, v), DeleteBucket(b, v)
    PROVE  \E e \in Database, from \in BucketIds :
              CommitNow(e) /\ BucketDeleted(db, e, b, v, from)
<1> DEFINE default == db.view[v].default
           doneBucket == db.view[v].doneBucket
           cleared == b \in {default, doneBucket}
           newDefault == IF default = b THEN NoBucket ELSE default
           newDone == IF doneBucket = b THEN NoBucket ELSE doneBucket
           d == IF cleared
                THEN WithViewSaved(db, v, db.view[v].mode, db.view[v].filtered,
                                   newDefault, newDone)
                ELSE db
           from == IF cleared THEN existingBucketID(db, v, newDefault) ELSE default
           target == DefaultOr(db, v, from)
           rows == [t \in TaskIds |-> [u \in ViewIds |->
                       IF db.row[t][u] = b THEN target ELSE db.row[t][u]]]
           f == [d.bucket EXCEPT ![b].live = FALSE]
           e == WithRows(WithBuckets(d, f), rows)
<1>1. /\ db \in Database /\ Settled(db) /\ CommitNow(e)
      /\ b \in BucketsOf(db, v) /\ b # NoBucket
  <2>1. b # NoBucket
    BY ConstantsAssumption DEF Buckets, NoBucket
  <2>2. db \in Database /\ Settled(db)
    BY DEF TypeOK, BoardsSound, Sound
  <2>3. CommitNow(e)
    BY DEF DeleteBucket
  <2> QED
    BY <2>1, <2>2, <2>3
<1>2. default \in BucketIds /\ doneBucket \in BucketIds /\ db.view[v].mode \in Modes
  BY <1>1, Tables
<1>3. /\ newDefault \in BucketIds /\ newDone \in BucketIds
      /\ newDefault \in {default, NoBucket} \ {b}
      /\ newDone \in {doneBucket, NoBucket} \ {b}
  BY <1>1, <1>2 DEF BucketIds
<1>4. /\ from \in BucketIds
      /\ from \in {default, NoBucket} \ {b}
  BY <1>1, <1>2, <1>3, ExistingBucketIDType DEF existingBucketID
<1>5. target \in BucketIds
  <2> HIDE DEF from
  <2> QED
    BY <1>1, <1>4, DefaultOrValue
<1>6. /\ d \in Database /\ d.task = db.task /\ d.bucket = db.bucket
      /\ d.row = db.row /\ d.next = db.next
      /\ d.view[v].status = db.view[v].status
      /\ d.view[v].project = db.view[v].project
      /\ d.view[v].mode = db.view[v].mode
      /\ d.view[v].mode = "list" => /\ d.view[v].default = default
                                    /\ d.view[v].doneBucket = doneBucket
      /\ d.view[v].mode # "list" =>
            /\ d.view[v].default = from
            /\ d.view[v].doneBucket \in {doneBucket, NoBucket} \ {b}
      /\ \A u \in ViewIds \ {v} : d.view[u] = db.view[u]
  <2>1. CASE cleared
    <3>1. d = WithViewSaved(db, v, db.view[v].mode, db.view[v].filtered,
                            newDefault, newDone)
          /\ from = existingBucketID(db, v, newDefault)
      BY <2>1
    <3> HIDE DEF newDefault, newDone, d, rows, f, e, target, from, cleared
    <3>2. existingBucketID(db, v, newDone) \in {doneBucket, NoBucket} \ {b}
      BY <1>1, <1>3 DEF existingBucketID
    <3>3. /\ db \in Database /\ db.view[v].mode \in Modes
          /\ db.view[v].filtered \in BOOLEAN
      BY <1>1, <1>2, Tables
    <3>4. newDefault \in BucketIds /\ newDone \in BucketIds
      BY <1>3
    <3>5. /\ d \in Database /\ d.task = db.task /\ d.bucket = db.bucket
          /\ d.row = db.row /\ d.next = db.next
          /\ d.view[v].status = db.view[v].status
          /\ d.view[v].project = db.view[v].project
          /\ d.view[v].mode = db.view[v].mode
          /\ db.view[v].mode = "list" =>
                /\ d.view[v].default = db.view[v].default
                /\ d.view[v].doneBucket = db.view[v].doneBucket
          /\ db.view[v].mode # "list" =>
                /\ d.view[v].default = existingBucketID(db, v, newDefault)
                /\ d.view[v].doneBucket = existingBucketID(db, v, newDone)
          /\ \A u \in ViewIds \ {v} : d.view[u] = db.view[u]
      BY <3>1, <3>3, <3>4, ViewSaved
    <3> QED
      BY <3>1, <3>2, <3>5
  <2>2. CASE ~cleared
    BY <1>1, <2>2
  <2> QED
    BY <2>1, <2>2
<1> HIDE DEF d, target
<1>7. /\ rows \in [TaskIds -> [ViewIds -> BucketIds]]
      /\ \A t \in TaskIds, u \in ViewIds :
            rows[t][u] = IF db.row[t][u] = b THEN target ELSE db.row[t][u]
  BY <1>1, <1>5, Tables
<1>8. /\ f \in [Buckets -> BucketRec]
      /\ ~f[b].live
      /\ \A x \in Buckets \ {b} : f[x] = db.bucket[x]
      /\ \A x \in Buckets : f[x].view = db.bucket[x].view
  <2>1. d.bucket \in [Buckets -> BucketRec]
    BY <1>6, Tables
  <2> QED
    BY <1>6, <2>1 DEF BucketRec
<1> HIDE DEF f, rows
<1>9. /\ WithBuckets(d, f) \in Database /\ WithBuckets(d, f).view = d.view
      /\ WithBuckets(d, f).task = db.task /\ WithBuckets(d, f).bucket = f
      /\ WithBuckets(d, f).next = db.next
  BY <1>6, <1>8, BucketTable
<1>10. /\ e \in Database /\ e.view = d.view /\ e.task = db.task /\ e.bucket = f
       /\ e.row = rows /\ e.next = db.next
  BY <1>7, <1>9, RowTable
<1> HIDE DEF e
<1>11. /\ e.view[v].default \in {default, NoBucket}
       /\ e.view[v].doneBucket \in {doneBucket, NoBucket}
  BY <1>4, <1>6, <1>10
<1>12. \A t \in TaskIds, u \in ViewIds :
          e.row[t][u] = IF db.row[t][u] = b THEN DefaultOr(db, v, from)
                        ELSE db.row[t][u]
  BY <1>7, <1>10 DEF target
<1> HIDE DEF from
<1>13. BucketDeleted(db, e, b, v, from)
  BY <1>1, <1>4, <1>6, <1>8, <1>10, <1>11, <1>12 DEF BucketDeleted
<1> QED
  BY <1>1, <1>4, <1>10, <1>13

LEMMA DeleteBucketSound ==
    ASSUME TypeOK, BoardsSound, NEW b \in Buckets, NEW v \in ViewIds,
           b \in BucketsOf(db, v), DeleteBucket(b, v)
    PROVE  BoardsSound'
<1>1. PICK e \in Database, from \in BucketIds :
         CommitNow(e) /\ BucketDeleted(db, e, b, v, from)
  BY DeleteBucketWrites
<1> USE DEF BucketDeleted
<1>2. /\ db \in Database /\ Sound(db) /\ Settled(db)
      /\ OwnBucket(db, v, db.view[v].default) /\ OwnBucket(db, v, from)
  BY <1>1 DEF TypeOK, BoardsSound, Sound, Settled, SettingsOwn, OwnBucket
<1>3. PICK c \in BucketsOf(db, v) : c # b
  BY <1>1, AnotherBucket DEF DeleteBucket
<1> DEFINE target == DefaultOr(db, v, from)
<1>4. target \in BucketIds /\ OwnBucket(db, v, target)
  BY <1>2, DefaultOrValue, DefaultOwn
<1>5. \A t \in TaskIds, u \in ViewIds :
         e.row[t][u] = IF db.row[t][u] = b THEN target ELSE db.row[t][u]
  BY <1>1
<1> HIDE DEF target
<1>6. RowsOwn(e)
  <2> SUFFICES ASSUME NEW t \in TaskIds, NEW u \in ViewIds
               PROVE  OwnBucket(e, u, e.row[t][u])
    BY DEF RowsOwn
  <2>1. OwnBucket(db, u, db.row[t][u]) /\ db.row[t][u] \in BucketIds
    BY <1>2, Tables DEF Settled, RowsOwn
  <2>2. db.row[t][u] = b => u = v
    BY <1>1, <2>1, ConstantsAssumption DEF OwnBucket, BucketsOf, Buckets, NoBucket
  <2>3. OwnBucket(db, u, e.row[t][u]) /\ e.row[t][u] \in BucketIds
    BY <1>4, <1>5, <2>1, <2>2
  <2> QED
    BY <1>1, <2>3 DEF OwnBucket, BucketIds
<1>7. SettingsOwn(e)
  <2>1. \A u \in ViewIds : db.view[u].default \in BucketIds
                           /\ db.view[u].doneBucket \in BucketIds
    BY <1>2, Tables
  <2>2. ASSUME NEW u \in ViewIds, NEW x \in BucketIds, OwnBucket(db, u, x)
        PROVE  OwnBucket(e, u, x)
    BY <1>1, <2>2 DEF OwnBucket, BucketIds
  <2>3. \A u : OwnBucket(e, u, NoBucket)
    BY DEF OwnBucket
  <2> QED
    BY <1>1, <1>2, <2>1, <2>2, <2>3 DEF Settled, SettingsOwn
<1>8. FreshUnused(e)
  BY <1>1, <1>2 DEF Settled, FreshUnused
<1>9. ASSUME NEW u \in ViewIds
      PROVE  BucketsOf(e, u) = BucketsOf(db, u) \ {b}
  BY <1>1 DEF BucketsOf
<1>10. \A u \in ViewIds \ {v} : b \notin BucketsOf(db, u)
  BY <1>1 DEF BucketsOf
<1>11. SettingsExist(e)
  BY <1>1, <1>2, <1>9, <1>10 DEF Settled, SettingsExist
<1>12. HasBuckets(e)
  BY <1>1, <1>2, <1>3, <1>9, <1>10 DEF Sound, HasBuckets
<1>13. RowsFollow(e)
  <2>1. \A t \in TaskIds, u \in ViewIds :
           e.row[t][u] # NoBucket => db.row[t][u] # NoBucket
    BY <1>1, ConstantsAssumption DEF Buckets, NoBucket
  <2> QED
    BY <1>1, <1>2, <2>1 DEF Sound, RowsFollow, RowsAreIn, LiveTasks, LiveViews
<1> QED
  BY <1>1, <1>6, <1>7, <1>8, <1>11, <1>12, <1>13, CommitSound DEF Sound, Settled

-----------------------------------------------------------------------------
(* Every action keeps the boards sound: tasks *)

LEMMA MoveTaskSound ==
    ASSUME TypeOK, BoardsSound, NEW t \in TaskIds, NEW b \in Buckets,
           OtherProjects \/ OwnProject(t, b), MoveTask(t, b)
    PROVE  BoardsSound'
<1> DEFINE v == db.bucket[b].view
           e == updateTaskBucket(db, t, v, b)
<1>1. /\ db \in Database /\ Sound(db) /\ CommitNow(e)
      /\ v \in ViewIds /\ db.view[v].status = "live"
      /\ t \in LiveTasks(db)
      /\ OtherProjects \/ db.task[t].project = db.view[v].project
      /\ CanPut(db, t, v, b)
  BY DEF TypeOK, BoardsSound, MoveTask, OwnProject
<1>2. b \in BucketIds
  BY DEF BucketIds
<1>3. /\ Settled(db) /\ HasBuckets(db) /\ RowsAreIn(db, t, db.view[v].project)
      /\ v \in LiveViews(db, db.view[v].project)
  BY <1>1 DEF Sound, RowsFollow, RowsAreIn, LiveViews
<1> HIDE DEF v
<1>4. /\ Settled(e) /\ HasBuckets(e) /\ e.view = db.view
      /\ \A s \in TaskIds : /\ e.task[s].status = db.task[s].status
                            /\ e.task[s].project = db.task[s].project
      /\ \A s \in TaskIds \ {t} : \A p : RowsAreIn(db, s, p) => RowsAreIn(e, s, p)
      /\ RowsAreIn(e, t, db.view[v].project)
  BY <1>1, <1>2, <1>3, SoundPut
<1> HIDE DEF e
<1>5. RowsAreIn(e, t, e.task[t].project)
  <2>1. CASE db.task[t].project = db.view[v].project
    BY <1>4, <2>1
  <2>2. CASE OtherProjects
    BY <1>4, <2>2 DEF RowsAreIn
  <2> QED
    BY <1>1, <2>1, <2>2
<1>6. RowsFollow(e)
  BY <1>1, <1>4, <1>5 DEF Sound, RowsFollow
<1> QED
  BY <1>1, <1>4, <1>6, CommitSound DEF Sound

\* One task gets new columns and rows, in buckets of its project's views or in
\* none at all.
LEMMA TaskWritten ==
    ASSUME NEW d \in Database, Sound(d), NEW t \in TaskIds, NEW new \in TaskRec,
           NEW r \in [ViewIds -> BucketIds],
           \A v \in ViewIds : OwnBucket(d, v, r[v]),
           \A v \in ViewIds : r[v] # NoBucket =>
              new.status = "live" /\ v \in LiveViews(d, new.project)
    PROVE  Sound(WithRows(WithTasks(d, [d.task EXCEPT ![t] = new]),
                          [d.row EXCEPT ![t] = r]))
<1> DEFINE f == [d.task EXCEPT ![t] = new]
           g == [d.row EXCEPT ![t] = r]
           m == WithTasks(d, f)
           e == WithRows(m, g)
<1>1. /\ f \in [TaskIds -> TaskRec] /\ f[t] = new
      /\ \A s \in TaskIds \ {t} : f[s] = d.task[s]
  BY Tables
<1>2. /\ g \in [TaskIds -> [ViewIds -> BucketIds]] /\ g[t] = r
      /\ \A s \in TaskIds \ {t} : g[s] = d.row[s]
  BY Tables
<1> HIDE DEF f, g
<1>3. /\ m \in Database /\ m.task = f /\ m.view = d.view /\ m.bucket = d.bucket
  BY <1>1, TaskTable
<1>4. Settled(m)
  BY <1>1, SettledTasks DEF Sound
<1> HIDE DEF m
<1>5. /\ e.task = f /\ e.view = d.view /\ e.bucket = d.bucket /\ e.row = g
  BY <1>2, <1>3, RowTable
<1>6. \A s \in TaskIds, v \in ViewIds : OwnBucket(m, v, g[s][v])
  BY <1>2, <1>3 DEF Sound, Settled, RowsOwn, OwnBucket
<1>7. Settled(e)
  BY <1>2, <1>3, <1>4, <1>6, SettledRows
<1> HIDE DEF e
<1>8. HasBuckets(e)
  BY <1>5 DEF Sound, HasBuckets, BucketsOf
<1>9. RowsFollow(e)
  BY <1>1, <1>2, <1>5 DEF Sound, RowsFollow, RowsAreIn, LiveTasks, LiveViews
<1> QED
  BY <1>7, <1>8, <1>9 DEF Sound, e, m, f, g

LEMMA DeleteTaskSound ==
    ASSUME TypeOK, BoardsSound, NEW t \in TaskIds, DeleteTask(t)
    PROVE  BoardsSound'
<1> DEFINE new == [NoTask EXCEPT !.status = "gone"]
           r == [v \in ViewIds |-> NoBucket]
           e == WithRows(WithTasks(db, [db.task EXCEPT ![t] = new]),
                         [db.row EXCEPT ![t] = r])
<1>1. db \in Database /\ Sound(db) /\ CommitNow(e)
  BY DEF TypeOK, BoardsSound, DeleteTask
<1>2. new \in TaskRec
  BY NoTaskType
<1>3. r \in [ViewIds -> BucketIds] /\ \A v \in ViewIds : r[v] = NoBucket
  BY DEF BucketIds
<1> HIDE DEF new, r
<1>4. \A v \in ViewIds : OwnBucket(db, v, r[v])
  BY <1>3 DEF OwnBucket
<1>5. Sound(e)
  BY <1>1, <1>2, <1>3, <1>4, TaskWritten
<1> QED
  BY <1>1, <1>5, CommitSound

LEMMA CreateTaskSound ==
    ASSUME TypeOK, BoardsSound, NEW t \in TaskIds, NEW p \in Projects,
           NEW done \in BOOLEAN, NEW repeating \in BOOLEAN,
           NEW b \in BucketIds, CreateTask(t, p, done, repeating, b)
    PROVE  BoardsSound'
<1> DEFINE new == NewTask(p, done, repeating)
           r == [v \in ViewIds |-> IF v \in ManualViews(db, p)
                                   THEN CreationRow(v, done, b) ELSE NoBucket]
           e == WithRows(WithTasks(db, [db.task EXCEPT ![t] = new]),
                         [db.row EXCEPT ![t] = r])
<1>1. db \in Database /\ Sound(db) /\ Settled(db) /\ CommitNow(e)
  BY DEF TypeOK, BoardsSound, Sound, CreateTask
<1>2. new \in TaskRec /\ new.status = "live" /\ new.project = p
  BY NewTaskType DEF NewTask
<1>3. ASSUME NEW v \in ViewIds
      PROVE  CreationRow(v, done, b) \in BucketIds /\ OwnBucket(db, v, CreationRow(v, done, b))
  <2>1. db.view[v].default \in BucketIds /\ db.view[v].doneBucket \in BucketIds
    BY <1>1, Tables
  <2>2. OwnBucket(db, v, db.view[v].default) /\ OwnBucket(db, v, db.view[v].doneBucket)
    BY <1>1 DEF Settled, SettingsOwn
  <2>3. getDefaultBucketID(db, v) \in BucketIds
        /\ OwnBucket(db, v, getDefaultBucketID(db, v))
    BY <1>1, <2>1, <2>2, DefaultOrValue, DefaultOwn DEF getDefaultBucketID
  <2>4. b # NoBucket /\ db.bucket[b].view = v => OwnBucket(db, v, b)
    BY DEF OwnBucket
  <2> QED
    BY <2>1, <2>2, <2>3, <2>4 DEF CreationRow
<1>4. /\ r \in [ViewIds -> BucketIds]
      /\ \A v \in ViewIds : OwnBucket(db, v, r[v])
      /\ \A v \in ViewIds : r[v] # NoBucket => v \in LiveViews(db, p)
  <2>1. NoBucket \in BucketIds /\ \A v : OwnBucket(db, v, NoBucket)
    BY DEF BucketIds, OwnBucket
  <2> QED
    BY <1>3, <2>1 DEF ManualViews
<1> HIDE DEF new, r
<1>5. Sound(e)
  BY <1>1, <1>2, <1>4, TaskWritten
<1> QED
  BY <1>1, <1>5, CommitSound

\* Nothing is known of a task before it is created: it has no rows.
LEMMA CreateDoneTaskSound ==
    ASSUME TypeOK, BoardsSound, NEW t \in TaskIds, NEW p \in Projects,
           NEW repeating \in BOOLEAN, NEW b \in Buckets,
           CreateDoneTask(t, p, repeating, b)
    PROVE  BoardsSound'
<1> DEFINE new == NewTask(p, TRUE, repeating)
           f == [db.task EXCEPT ![t] = new]
           want == [cols |-> {}, done |-> FALSE, repeating |-> FALSE, project |-> p]
<1>1. /\ db \in Database /\ Sound(db) /\ Settled(db) /\ db' = db
      /\ db.task[t].status = "none" /\ w' = WithTasks(db, f)
      /\ tx' = [kind |-> "create", task |-> t, rest |-> {}, todo |-> LiveViews(db, p),
                new |-> new, want |-> want]
  BY DEF TypeOK, BoardsSound, Sound, CreateDoneTask
<1>2. new \in TaskRec /\ new.status = "live" /\ new.project = p
  BY NewTaskType DEF NewTask
<1>3. /\ tx'.kind = "create" /\ tx'.task = t /\ tx'.rest = {}
      /\ tx'.todo = LiveViews(db, p) /\ tx'.new = new
  BY <1>1
<1>4. ~Idle'
  <2>1. TypeOK'
    BY CreateDoneTaskType
  <2>2. tx' # NoTx
    <3>1. LiveViews(db, p) \in SUBSET ViewIds
      BY DEF LiveViews
    <3>2. want \in Payload
      BY DEF Payload, Columns
    <3> HIDE DEF want, new
    <3>3. tx' \in Transaction
      BY <1>1, <1>2, <3>1, <3>2 DEF Transaction
    <3> QED
      BY <3>3, NoTxAssumption
  <2> QED
    BY <2>2 DEF Idle
<1> HIDE DEF new
<1>5. /\ f \in [TaskIds -> TaskRec] /\ f[t] = new
      /\ \A s \in TaskIds \ {t} : f[s] = db.task[s]
  BY <1>1, <1>2, Tables
<1> HIDE DEF f, want
<1>6. /\ w'.task = f /\ w'.view = db.view /\ w'.bucket = db.bucket /\ w'.row = db.row
  BY <1>1, <1>5, TaskTable
<1>7. Settled(w)'
  <2>1. Settled(WithTasks(db, f))
    BY <1>1, <1>5, SettledTasks
  <2> QED
    BY <1>1, <2>1 DEF Settled, RowsOwn, SettingsOwn, FreshUnused, SettingsExist,
                      OwnBucket, BucketsOf
<1>8. HasBuckets(w)'
  BY <1>1, <1>6 DEF Sound, HasBuckets, BucketsOf
<1>9. \A v \in ViewIds : db.row[t][v] = NoBucket
  BY <1>1 DEF Sound, RowsFollow, RowsAreIn, LiveTasks
<1>10. \A s \in TaskIds : RowsAreIn(w, s, Home(s))'
  BY <1>1, <1>2, <1>3, <1>5, <1>6, <1>9
     DEF Sound, RowsFollow, RowsAreIn, LiveTasks, LiveViews, Home
<1>11. TxSound'
  BY <1>2, <1>3, <1>5, <1>6, <1>7, <1>8, <1>10 DEF TxSound, LiveViews, LiveTasks
<1>12. Sound(db)'
  BY <1>1 DEF Sound, Settled, HasBuckets, RowsFollow,
       RowsOwn, SettingsOwn, FreshUnused, SettingsExist, RowsAreIn, OwnBucket,
       BucketsOf, LiveTasks, LiveViews
<1> QED
  BY <1>4, <1>11, <1>12 DEF BoardsSound

-----------------------------------------------------------------------------
(* Every action keeps the boards sound: the loops over the views *)

LEMMA PrimedSound ==
    Sound(db)' <=> Sound(db')
BY DEF Sound, Settled, HasBuckets, RowsFollow,
       RowsOwn, SettingsOwn, FreshUnused, SettingsExist, RowsAreIn, OwnBucket,
       BucketsOf, LiveTasks, LiveViews

\* An update starts from a sound database: the task is on the boards of the
\* project it belongs to afterwards, which is none yet when it moves.
LEMMA StartSound ==
    ASSUME NEW d \in Database, Sound(d), NEW t \in LiveTasks(d),
           NEW rest \in SUBSET LiveTasks(d), NEW want \in Payload,
           w' = StartDb(d, t, want), tx' = StartTx(d, t, rest, want)
    PROVE  ~Idle' /\ TxSound'
<1> DEFINE new == Wanted(d, t, want)
           kind == UpdateKind(d.task[t], new)
           none == [v \in ViewIds |-> NoBucket]
           g == [d.row EXCEPT ![t] = none]
<1>1. t \in TaskIds /\ rest \in SUBSET TaskIds
  BY DEF LiveTasks
<1>2. ~Idle'
  <2>1. StartTx(d, t, rest, want) \in Transaction
    BY <1>1, StartType
  <2> QED
    BY <2>1, NoTxAssumption DEF Idle
<1>3. new.status = "live"
  <2>1. d.task[t] \in TaskRec /\ d.task[t].status = "live"
    BY <1>1, Tables DEF LiveTasks
  <2> QED
    BY <2>1 DEF Wanted, TaskRec
<1>4. /\ kind # "create"
      /\ kind # "move" => new.project = d.task[t].project
  BY DEF UpdateKind
<1>5. /\ tx'.task = t /\ tx'.rest = rest /\ tx'.new = new /\ tx'.kind = kind
      /\ tx'.todo \subseteq LiveViews(d, new.project)
  BY DEF StartTx, ManualViews
<1> HIDE DEF new
<1>6. /\ g \in [TaskIds -> [ViewIds -> BucketIds]]
      /\ \A v \in ViewIds : g[t][v] = NoBucket
      /\ \A s \in TaskIds \ {t} : g[s] = d.row[s]
  <2>1. none \in [ViewIds -> BucketIds]
    BY DEF BucketIds
  <2> QED
    BY <1>1, <2>1, Tables
<1>7. w' = IF kind = "move" THEN WithRows(d, g) ELSE d
  BY DEF StartDb, new
<1> HIDE DEF kind, g
<1>8. /\ w'.view = d.view /\ w'.bucket = d.bucket /\ w'.task = d.task
      /\ \A s \in TaskIds \ {t} : w'.row[s] = d.row[s]
      /\ kind = "move" => \A v \in ViewIds : w'.row[t][v] = NoBucket
      /\ kind # "move" => w'.row[t] = d.row[t]
      /\ w'.next = d.next
  <2>1. CASE kind = "move"
    BY <1>6, <1>7, <2>1, RowTable
  <2>2. CASE kind # "move"
    BY <1>7, <2>2
  <2> QED
    BY <2>1, <2>2
<1>9. Settled(w)'
  <2>1. \A s \in TaskIds, v \in ViewIds : OwnBucket(d, v, w'.row[s][v])
    BY <1>1, <1>8 DEF Sound, Settled, RowsOwn, OwnBucket
  <2> QED
    BY <1>8, <2>1 DEF Sound, Settled, RowsOwn, SettingsOwn, FreshUnused,
                      SettingsExist, OwnBucket, BucketsOf
<1>10. HasBuckets(w)'
  BY <1>8 DEF Sound, HasBuckets, BucketsOf
<1>11. \A s \in TaskIds : RowsAreIn(w, s, Home(s))'
  <2> SUFFICES ASSUME NEW s \in TaskIds PROVE RowsAreIn(w, s, Home(s))'
    OBVIOUS
  <2>1. RowsAreIn(d, s, d.task[s].project)
    BY DEF Sound, RowsFollow
  <2>2. CASE s # t
    BY <1>5, <1>8, <2>1, <2>2 DEF RowsAreIn, LiveTasks, LiveViews, Home
  <2>3. CASE s = t
    BY <1>4, <1>5, <1>8, <2>1, <2>3 DEF RowsAreIn, LiveTasks, LiveViews, Home
  <2> QED
    BY <2>2, <2>3
<1>12. TxSound'
  BY <1>3, <1>4, <1>5, <1>8, <1>9, <1>10, <1>11 DEF TxSound, LiveViews, LiveTasks
<1> QED
  BY <1>2, <1>12

LEMMA UpdateSound ==
    ASSUME TypeOK, BoardsSound, NEW t \in TaskIds, NEW rest \in SUBSET TaskIds,
           NEW want \in Payload, Start(t, rest, want)
    PROVE  BoardsSound'
<1>1. /\ db \in Database /\ Sound(db) /\ db' = db
      /\ t \in LiveTasks(db) /\ rest \in SUBSET LiveTasks(db)
      /\ w' = StartDb(db, t, want) /\ tx' = StartTx(db, t, rest, want)
  BY DEF TypeOK, BoardsSound, Start
<1>2. ~Idle' /\ TxSound'
  BY <1>1, StartSound
<1>3. Sound(db)'
  BY <1>1, PrimedSound
<1> QED
  BY <1>2, <1>3 DEF BoardsSound

LEMMA UpdateTaskSound ==
    ASSUME TypeOK, BoardsSound, NEW t \in TaskIds, NEW done \in BOOLEAN,
           NEW repeating \in BOOLEAN, NEW p \in Projects,
           UpdateTask(t, done, repeating, p)
    PROVE  BoardsSound'
<1>1. [cols |-> Columns, done |-> done, repeating |-> repeating, project |-> p]
         \in Payload
  BY DEF Payload
<1> QED
  BY <1>1, UpdateSound DEF UpdateTask

LEMMA BulkUpdateSound ==
    ASSUME TypeOK, BoardsSound, NEW t \in TaskIds, NEW rest \in SUBSET TaskIds,
           NEW cols \in BulkColumns, NEW done \in BOOLEAN,
           NEW repeating \in BOOLEAN, NEW p \in Projects,
           BulkUpdate(t, rest, cols, done, repeating, p)
    PROVE  BoardsSound'
<1>1. [cols |-> cols, done |-> done, repeating |-> repeating, project |-> p]
         \in Payload
  BY ConstantsAssumption DEF Payload, Columns
<1> QED
  BY <1>1, UpdateSound DEF BulkUpdate

LEMMA PlaceInViewSound ==
    ASSUME TypeOK, BoardsSound, NEW v \in ViewIds, PlaceInView(v)
    PROVE  BoardsSound'
<1> DEFINE t == tx.task
           p == tx.new.project
           b == LoopTarget(v)
           e == updateTaskBucket(w, t, v, b)
<1>1. /\ w \in Database /\ Sound(db) /\ ~Idle /\ TxSound /\ db' = db
      /\ v \in tx.todo
      /\ tx' = [tx EXCEPT !.todo = @ \ {v}]
      /\ w' = w \/ (CanPut(w, t, v, b) /\ w' = e)
  BY DEF TypeOK, BoardsSound, PlaceInView
<1>2. /\ tx' \in Transaction
      /\ tx'.kind = tx.kind /\ tx'.task = t /\ tx'.rest = tx.rest
      /\ tx'.new = tx.new /\ tx'.todo = tx.todo \ {v}
  <2>1. tx \in Transaction
    BY <1>1, OpenTransaction
  <2> QED
    BY <1>1, <2>1 DEF Transaction
<1>3. ~Idle'
  BY <1>2, NoTxAssumption DEF Idle
<1>4. /\ Settled(w) /\ HasBuckets(w) /\ v \in LiveViews(w, p)
      /\ t \in LiveTasks(w) /\ t \in TaskIds /\ RowsAreIn(w, t, p)
      /\ w.view[v].project = p
  BY <1>1, OpenTransaction DEF TxSound, LiveViews, Home
<1>5. b \in BucketIds
  BY LoopTargetType
<1>6. /\ Settled(w') /\ HasBuckets(w') /\ w'.view = w.view
      /\ \A s \in TaskIds : /\ w'.task[s].status = w.task[s].status
                            /\ w'.task[s].project = w.task[s].project
      /\ \A s \in TaskIds \ {t} : \A q : RowsAreIn(w, s, q) => RowsAreIn(w', s, q)
      /\ RowsAreIn(w', t, p)
  <2>1. CASE w' = w
    BY <1>4, <2>1
  <2>2. CASE CanPut(w, t, v, b) /\ w' = e
    <3> HIDE DEF t, p, b, e
    <3>1. LET x == updateTaskBucket(w, t, v, b)
          IN /\ Settled(x) /\ HasBuckets(x) /\ x.view = w.view
             /\ \A s \in TaskIds : /\ x.task[s].status = w.task[s].status
                                   /\ x.task[s].project = w.task[s].project
             /\ \A s \in TaskIds \ {t} : \A q : RowsAreIn(w, s, q) => RowsAreIn(x, s, q)
             /\ RowsAreIn(x, t, p)
      BY <1>1, <1>4, <1>5, <2>2, SoundPut DEF LiveViews
    <3>2. w' = updateTaskBucket(w, t, v, b)
      BY <2>2 DEF e
    <3> QED
      BY <3>1, <3>2
  <2> QED
    BY <1>1, <2>1, <2>2
<1>7. \A s \in TaskIds : RowsAreIn(w', s, Home(s)')
  BY <1>1, <1>2, <1>4, <1>6 DEF TxSound, Home
<1>8. TxSound'
  <2>1. Settled(w)' /\ HasBuckets(w)'
    BY <1>6 DEF Settled, HasBuckets, RowsOwn, SettingsOwn, FreshUnused,
                SettingsExist, OwnBucket, BucketsOf
  <2>2. \A s \in TaskIds : RowsAreIn(w, s, Home(s))'
    BY <1>7 DEF RowsAreIn, LiveTasks, LiveViews
  <2>3. /\ tx'.todo \subseteq LiveViews(w', tx'.new.project)
        /\ {tx'.task} \cup tx'.rest \subseteq LiveTasks(w')
    BY <1>1, <1>2, <1>6 DEF TxSound, LiveViews, LiveTasks
  <2>4. tx'.kind = "create" => w'.task[tx'.task].project = tx'.new.project
    BY <1>1, <1>2, <1>4, <1>6 DEF TxSound
  <2> QED
    BY <1>1, <1>2, <2>1, <2>2, <2>3, <2>4 DEF TxSound, LiveViews, LiveTasks
<1>9. Sound(db)'
  BY <1>1, PrimedSound
<1> QED
  BY <1>3, <1>8, <1>9 DEF BoardsSound

LEMMA RollbackSound ==
    ASSUME BoardsSound, NEW v \in ViewIds, Rollback(v)
    PROVE  BoardsSound'
<1>1. Sound(db) /\ db' = db /\ w' = db /\ Idle'
  BY DEF BoardsSound, Rollback, Idle
<1> QED
  BY <1>1, PrimedSound DEF BoardsSound

\* What is saved at the end belongs to the project whose boards the task is on.
LEMMA SavedSound ==
    ASSUME TypeOK, BoardsSound, ~Idle
    PROVE  Sound(Saved(tx.task)) /\ LiveTasks(w) \subseteq LiveTasks(Saved(tx.task))
<1> DEFINE t == tx.task
           done == IF "done" \in tx.want.cols THEN FinalDone(t) ELSE w.task[t].done
           new == [tx.new EXCEPT !.done = done]
           f == [w.task EXCEPT ![t] = new]
           e == WithTasks(w, f)
<1>1. w \in Database /\ TxSound /\ t \in TaskIds /\ tx.new \in TaskRec
  BY OpenTransaction DEF TypeOK, BoardsSound
<1>2. done \in BOOLEAN
  BY <1>1, Tables DEF FinalDone, TaskRec
<1> HIDE DEF done
<1>3. new \in TaskRec /\ new.status = tx.new.status /\ new.project = tx.new.project
  BY <1>1, <1>2 DEF TaskRec
<1> HIDE DEF new
<1>4. /\ f \in [TaskIds -> TaskRec] /\ f[t] = new
      /\ \A s \in TaskIds \ {t} : f[s] = w.task[s]
  BY <1>1, <1>3, Tables
<1>5. Saved(tx.task) = e
  BY DEF Saved, f, new, done
<1> HIDE DEF f, t
<1>6. e.task = f /\ e.view = w.view /\ e.bucket = w.bucket /\ e.row = w.row
  BY <1>1, <1>4, TaskTable
<1>7. Settled(e)
  BY <1>1, <1>4, SettledTasks DEF TxSound
<1> HIDE DEF e
<1>8. HasBuckets(e)
  BY <1>1, <1>6 DEF TxSound, HasBuckets, BucketsOf
<1>9. RowsFollow(e)
  BY <1>1, <1>3, <1>4, <1>6
     DEF TxSound, RowsFollow, RowsAreIn, LiveTasks, LiveViews, Home, t
<1>10. LiveTasks(w) \subseteq LiveTasks(e)
  BY <1>1, <1>3, <1>4, <1>6 DEF TxSound, LiveTasks
<1> QED
  BY <1>5, <1>7, <1>8, <1>9, <1>10 DEF Sound

LEMMA FinishTaskSound ==
    ASSUME TypeOK, BoardsSound, FinishTask
    PROVE  BoardsSound'
<1>1. ~Idle /\ TxSound
  BY DEF FinishTask, BoardsSound
<1>2. CASE tx.kind = "create"
  <2>1. CommitNow(w)
    BY <1>2 DEF FinishTask
  <2>2. RowsFollow(w)
    BY <1>1, <1>2 DEF TxSound, RowsFollow, Home
  <2> QED
    BY <1>1, <2>1, <2>2, CommitSound DEF TxSound, Sound
<1>3. CASE tx.kind # "create"
  <2>1. CommitNow(Saved(tx.task))
    BY <1>3 DEF FinishTask
  <2> QED
    BY <1>1, <2>1, SavedSound, CommitSound
<1> QED
  BY <1>2, <1>3

LEMMA NextTaskSound ==
    ASSUME TypeOK, BoardsSound, NEW t \in TaskIds, NextTask(t)
    PROVE  BoardsSound'
<1> DEFINE d == Saved(tx.task)
<1>1. /\ Sound(db) /\ db' = db /\ ~Idle /\ TxSound /\ t \in tx.rest
      /\ tx' = StartTx(d, t, tx.rest \ {t}, tx.want)
      /\ w' = StartDb(d, t, tx.want)
  BY DEF BoardsSound, NextTask
<1>2. d \in Database /\ Sound(d) /\ LiveTasks(w) \subseteq LiveTasks(d)
  BY <1>1, SavedType, SavedSound
<1>3. tx.want \in Payload
  BY <1>1, OpenTransaction
<1> HIDE DEF d
<1>4. t \in LiveTasks(d) /\ tx.rest \ {t} \in SUBSET LiveTasks(d)
  BY <1>1, <1>2 DEF TxSound
<1>5. ~Idle' /\ TxSound'
  <2> DEFINE rest == tx.rest \ {t}
             want == tx.want
  <2>1. /\ rest \in SUBSET LiveTasks(d) /\ want \in Payload
        /\ tx' = StartTx(d, t, rest, want) /\ w' = StartDb(d, t, want)
    BY <1>1, <1>3, <1>4
  <2> HIDE DEF rest, want
  <2> QED
    BY <1>2, <1>4, <2>1, StartSound
<1>6. Sound(db)'
  BY <1>1, PrimedSound
<1> QED
  BY <1>5, <1>6 DEF BoardsSound

-----------------------------------------------------------------------------
(* The boards stay sound *)

LEMMA InitSound ==
    ASSUME Init
    PROVE  BoardsSound
<1>1. /\ Idle /\ w = db
      /\ \A t \in TaskIds, v \in ViewIds : db.row[t][v] = NoBucket
      /\ \A v \in ViewIds : /\ db.view[v].status = "none"
                            /\ db.view[v].default = NoBucket
                            /\ db.view[v].doneBucket = NoBucket
      /\ \A b \in Buckets : db.bucket[b].view = NoView /\ ~db.bucket[b].live
  BY DEF Init, Idle
<1>2. Settled(db)
  BY <1>1 DEF Settled, RowsOwn, SettingsOwn, FreshUnused, SettingsExist, OwnBucket
<1>3. HasBuckets(db) /\ RowsFollow(db)
  BY <1>1 DEF HasBuckets, RowsFollow, RowsAreIn
<1> QED
  BY <1>1, <1>2, <1>3 DEF BoardsSound, Sound

LEMMA NextSound ==
    ASSUME TypeOK, BoardsSound, OtherPaths = FALSE, Next
    PROVE  BoardsSound'
<1>1. CASE \E v \in ViewIds, p \in Projects, mode \in Modes, filtered \in BOOLEAN :
              CreateView(v, p, mode, filtered)
  BY <1>1, CreateViewSound
<1>2. CASE \E v \in ViewIds, mode \in Modes, filtered \in BOOLEAN,
              default, doneBucket \in BucketIds :
                 UpdateView(v, mode, filtered, default, doneBucket)
  BY <1>2, UpdateViewSound
<1>3. CASE \E v \in ViewIds : DeleteView(v) \/ PlaceInView(v) \/ Rollback(v)
  BY <1>3, DeleteViewSound, PlaceInViewSound, RollbackSound
<1>4. CASE \E v \in ViewIds, limit \in Limits, pos \in Positions :
              CreateBucket(v, limit, pos)
  BY <1>4, CreateBucketSound
<1>5. CASE \E b \in Buckets :
              \E limit \in Limits, pos \in Positions \cup {db.bucket[b].pos} :
                 UpdateBucket(b, limit, pos)
  BY <1>5, UpdateBucketSound
<1>6. CASE \E b \in Buckets :
              \/ \E v \in ViewIds :
                    (OtherPaths \/ v = db.bucket[b].view) /\ DeleteBucket(b, v)
              \/ \E t \in TaskIds : (OtherProjects \/ OwnProject(t, b)) /\ MoveTask(t, b)
  BY <1>6, OwnPath, DeleteBucketSound, MoveTaskSound
<1>7. CASE \E t \in TaskIds : DeleteTask(t) \/ NextTask(t)
  BY <1>7, DeleteTaskSound, NextTaskSound
<1>8. CASE \E t \in TaskIds, p \in Projects, done, repeating \in BOOLEAN, b \in BucketIds :
              CreateTask(t, p, done, repeating, b)
  BY <1>8, CreateTaskSound
<1>9. CASE \E t \in TaskIds, p \in Projects, repeating \in BOOLEAN, b \in Buckets :
              CreateDoneTask(t, p, repeating, b)
  BY <1>9, CreateDoneTaskSound
<1>10. CASE \E t \in TaskIds, done, repeating \in BOOLEAN, p \in Projects :
              UpdateTask(t, done, repeating, p)
  BY <1>10, UpdateTaskSound
<1>11. CASE \E t \in TaskIds, done, repeating \in BOOLEAN, p \in Projects,
              rest \in SUBSET TaskIds, cols \in BulkColumns :
                 BulkUpdate(t, rest, cols, done, repeating, p)
  BY <1>11, BulkUpdateSound
<1>12. CASE FinishTask
  BY <1>12, FinishTaskSound
<1> QED
  BY <1>1, <1>2, <1>3, <1>4, <1>5, <1>6, <1>7, <1>8, <1>9, <1>10, <1>11, <1>12
     DEF Next

\* As long as buckets are deleted by the path of their own view, the boards stay
\* sound, in the committed database and inside the open transaction.  Tasks may be
\* moved to any bucket.
THEOREM BoardsStaySound ==
    ASSUME OtherPaths = FALSE
    PROVE  Spec => []BoardsSound
<1>1. Init => BoardsSound
  BY InitSound
<1>2. TypeOK /\ BoardsSound /\ [Next]_vars => BoardsSound'
  <2> SUFFICES ASSUME TypeOK, BoardsSound, [Next]_vars PROVE BoardsSound'
    OBVIOUS
  <2>1. CASE Next
    BY <2>1, NextSound
  <2>2. CASE UNCHANGED vars
    <3>1. db' = db /\ w' = w /\ tx' = tx
      BY <2>2 DEF vars
    <3> QED
      BY <3>1 DEF BoardsSound, TxSound, Idle, Sound, Settled, HasBuckets,
         RowsFollow, RowsOwn, SettingsOwn, FreshUnused, SettingsExist, RowsAreIn,
         OwnBucket, BucketsOf, LiveTasks, LiveViews, Home
  <2> QED
    BY <2>1, <2>2
<1> QED
  BY <1>1, <1>2, TypeCorrect, PTL DEF Spec

\* As long as buckets are deleted by the path of their own view, no row puts a task
\* into a bucket of another view, even where tasks are moved between projects.  A
\* deletion by another view's path moves the rows to that view's bucket.
THEOREM RowsStayInView ==
    ASSUME OtherPaths = FALSE
    PROVE  Spec => []RowsInView
<1>1. BoardsSound => RowsInView
  BY DEF BoardsSound, Sound, Settled, RowsInView
<1> QED
  BY <1>1, BoardsStaySound, PTL

\* Rows follow their task: none is left in a view that is gone or in a view of a
\* project the task has left.  Nobody may have moved a task to a bucket of another
\* project: TaskBucket.Update accepts that, and it is such a row itself.
THEOREM RowsStayWithTask ==
    ASSUME OtherPaths = FALSE, OtherProjects = FALSE
    PROVE  Spec => []RowsFollowTask
<1>1. BoardsSound => RowsFollowTask
  BY DEF BoardsSound, Sound, RowsFollow, RowsAreIn, RowsFollowTask, LiveViews
<1> QED
  BY <1>1, BoardsStaySound, PTL

\* As long as buckets are deleted by the path of their own view, the default and the
\* done bucket of a kanban view exist: only that view is told of the deletion.
THEOREM SettingsStayValid ==
    ASSUME OtherPaths = FALSE
    PROVE  Spec => []BucketSettingsExist
<1>1. BoardsSound => BucketSettingsExist
  BY DEF BoardsSound, Sound, Settled, BucketSettingsExist
<1> QED
  BY <1>1, BoardsStaySound, PTL

\* As long as buckets are deleted by the path of their own view, a manual kanban is
\* not left without a bucket: the buckets are counted in the view of the path.
THEOREM BoardsKeepBuckets ==
    ASSUME OtherPaths = FALSE
    PROVE  Spec => []BoardsHaveBuckets
<1>1. BoardsSound => BoardsHaveBuckets
  BY DEF BoardsSound, Sound, BoardsHaveBuckets
<1> QED
  BY <1>1, BoardsStaySound, PTL

-----------------------------------------------------------------------------
(* What a step of the committed database may do *)

Kept(o, d) ==
    /\ \A t \in TaskIds : TaskKept(o, d, t)
    /\ \A b \in Buckets : KeepsLimit(o, d, b)

\* A bucket that no task is put into stays within its limit.
LEMMA FewerTasks ==
    ASSUME NEW o, NEW d, NEW b \in Buckets, TasksIn(d, b) \subseteq TasksIn(o, b)
    PROVE  KeepsLimit(o, d, b)
<1>1. IsFiniteSet(TasksIn(o, b)) /\ IsFiniteSet(TaskIds)
  <2>1. TasksIn(o, b) \in SUBSET TaskIds
    BY DEF TasksIn
  <2> QED
    BY <2>1, ConstantsAssumption, FS_Subset
<1>2. TasksIn(d, b) \in SUBSET TasksIn(o, b)
  OBVIOUS
<1>3. /\ Cardinality(TasksIn(o, b)) \in Nat
      /\ Cardinality(TasksIn(d, b)) \in Nat
      /\ Cardinality(TasksIn(d, b)) <= Cardinality(TasksIn(o, b))
  BY <1>1, <1>2, FS_Subset, FS_CardinalityType
<1> QED
  BY <1>3 DEF KeepsLimit

\* One task more keeps the limit of a bucket that had room, unless its view has a
\* filter.
LEMMA OneTaskMore ==
    ASSUME NEW o \in Database, NEW d, NEW b \in Buckets, NEW t \in TaskIds,
           TasksIn(d, b) \subseteq TasksIn(o, b) \cup {t},
           d.view = o.view, d.bucket[b] = o.bucket[b],
           Ordinary(o, b) => HasRoom(o, o.bucket[b].view, b)
    PROVE  KeepsLimit(o, d, b)
<1> DEFINE n == Cardinality(TasksIn(o, b))
           m == Cardinality(TasksIn(d, b))
<1>1. IsFiniteSet(TasksIn(o, b)) /\ TasksIn(d, b) \in SUBSET (TasksIn(o, b) \cup {t})
  <2>1. TasksIn(o, b) \in SUBSET TaskIds
    BY DEF TasksIn
  <2> QED
    BY <2>1, ConstantsAssumption, FS_Subset
<1>2. /\ IsFiniteSet(TasksIn(o, b) \cup {t})
      /\ Cardinality(TasksIn(o, b) \cup {t}) \in {n, n + 1}
  BY <1>1, FS_AddElement
<1>3. n \in Nat /\ m \in Nat /\ m <= Cardinality(TasksIn(o, b) \cup {t})
  BY <1>1, <1>2, FS_Subset, FS_CardinalityType
<1>4. m <= n + 1
  BY <1>2, <1>3
<1>5. o.bucket[b].limit \in Nat
  <2>1. o.bucket[b] \in BucketRec
    BY Tables
  <2> QED
    BY <2>1, ConstantsAssumption DEF BucketRec
<1>6. CASE Full(o, b)
  BY <1>6 DEF KeepsLimit, HasRoom
<1>7. CASE ~Full(o, b)
  <2>1. o.bucket[b].limit > 0 => n < o.bucket[b].limit
    BY <1>3, <1>5, <1>7 DEF Full
  <2> QED
    BY <1>3, <1>4, <1>5, <2>1 DEF KeepsLimit
<1> QED
  BY <1>6, <1>7

\* A task none of whose columns changes, as long as its rows do not go.
LEMMA RowsKept ==
    ASSUME NEW o, NEW d, NEW t \in TaskIds, d.task[t] = o.task[t],
           \A v \in ViewIds :
              o.row[t][v] # NoBucket /\ v \in ManualViews(d, o.view[v].project)
                 => d.row[t][v] # NoBucket,
           \A v \in ViewIds :
              SameBoard(o, d, v) /\ o.row[t][v] = o.view[v].doneBucket
                 => d.row[t][v] = o.row[t][v]
    PROVE  TaskKept(o, d, t)
BY DEF TaskKept, KeepsPlace, ReachesDoneBuckets, StaysInDoneBuckets, Reopens, SameProject

LEMMA SameKept ==
    ASSUME NEW o, NEW d, NEW t \in TaskIds, Untouched(o, d, t)
    PROVE  TaskKept(o, d, t)
BY RowsKept DEF Untouched

\* The views, the columns and the rows of a task are all that counts.
LEMMA KeptAgrees ==
    ASSUME NEW o, NEW d, NEW e, NEW t \in TaskIds, TaskKept(o, d, t),
           e.view = d.view, e.task[t] = d.task[t], e.row[t] = d.row[t]
    PROVE  TaskKept(o, e, t)
BY DEF TaskKept, KeepsPlace, ReachesDoneBuckets, StaysInDoneBuckets, Reopens,
       SameProject, SameBoard, ManualViews, LiveViews, LiveTasks

\* Handlers that leave the columns of tasks alone and move none into a bucket
\* which is neither a default nor a done bucket.
LEMMA TasksAlone ==
    ASSUME NEW o, NEW d, d.task = o.task,
           \A t \in TaskIds, v \in ViewIds :
              o.row[t][v] # NoBucket /\ v \in ManualViews(d, o.view[v].project)
                 => d.row[t][v] # NoBucket,
           \A t \in TaskIds, v \in ViewIds :
              SameBoard(o, d, v) /\ o.row[t][v] = o.view[v].doneBucket
                 => d.row[t][v] = o.row[t][v],
           \A b \in Buckets : Ordinary(o, b) /\ Ordinary(d, b)
                 => TasksIn(d, b) \subseteq TasksIn(o, b)
    PROVE  Kept(o, d)
<1>1. \A t \in TaskIds : TaskKept(o, d, t)
  BY RowsKept
<1>2. ASSUME NEW b \in Buckets
      PROVE  KeepsLimit(o, d, b)
  <2>1. CASE Ordinary(o, b) /\ Ordinary(d, b)
    BY <2>1, FewerTasks
  <2>2. CASE ~(Ordinary(o, b) /\ Ordinary(d, b))
    BY <2>2 DEF KeepsLimit
  <2> QED
    BY <2>1, <2>2
<1> QED
  BY <1>1, <1>2 DEF Kept

LEMMA NothingChanged ==
    ASSUME NEW d
    PROVE  Kept(d, d)
BY TasksAlone

-----------------------------------------------------------------------------
(* updateTaskBucket *)

\* Exactly what it writes, when the task is not in the bucket already.
LEMMA PutWrites ==
    ASSUME NEW d \in Database, NEW t \in TaskIds, NEW v \in ViewIds,
           NEW b \in BucketIds, d.row[t][v] # b,
           NEW e, e = updateTaskBucket(d, t, v, b)
    PROVE  /\ e \in Database /\ e.view = d.view /\ e.bucket = d.bucket
           /\ SameButDone(d.task[t], e.task[t])
           /\ e.task[t].done = PutDone(d, t, v, b)
           /\ \A u \in ViewIds : e.row[t][u] = PutRow(d, t, v, b)[u]
           /\ \A s \in TaskIds \ {t} : Untouched(d, e, s)
<1> DEFINE f == [d.task EXCEPT ![t].done = PutDone(d, t, v, b)]
           g == [d.row EXCEPT ![t] = PutRow(d, t, v, b)]
<1>1. PutDone(d, t, v, b) \in BOOLEAN
  BY DEF PutDone
<1>2. d.task \in [TaskIds -> TaskRec] /\ d.task[t] \in TaskRec
  BY Tables
<1>3. /\ f \in [TaskIds -> TaskRec]
      /\ SameButDone(d.task[t], f[t])
      /\ f[t].done = PutDone(d, t, v, b)
      /\ \A s \in TaskIds \ {t} : f[s] = d.task[s]
  BY <1>1, <1>2 DEF TaskRec, SameButDone
<1>4. PutTarget(d, t, v, b) \in BucketIds
  BY Tables DEF PutTarget
<1>5. PutRow(d, t, v, b) \in [ViewIds -> BucketIds]
  BY <1>4, Tables DEF PutRow
<1>6. /\ g \in [TaskIds -> [ViewIds -> BucketIds]]
      /\ g[t] = PutRow(d, t, v, b)
      /\ \A s \in TaskIds \ {t} : g[s] = d.row[s]
  BY <1>5, Tables
<1>7. e = WithRows(WithTasks(d, f), g)
  BY DEF updateTaskBucket
<1>8. e \in Database
  BY UpdateTaskBucketType
<1> HIDE DEF f, g
<1>9. /\ WithTasks(d, f) \in Database /\ WithTasks(d, f).task = f
      /\ WithTasks(d, f).view = d.view /\ WithTasks(d, f).bucket = d.bucket
  BY <1>3, TaskTable
<1>10. e.view = d.view /\ e.bucket = d.bucket /\ e.task = f /\ e.row = g
  BY <1>6, <1>7, <1>9, RowTable
<1>11. \A s \in TaskIds \ {t} : Untouched(d, e, s)
  BY <1>3, <1>6, <1>10 DEF Untouched
<1> QED
  BY <1>3, <1>6, <1>8, <1>10, <1>11

\* The rows it writes: the one asked for or, for a repeating task that is done,
\* the default bucket or none; the done buckets of other boards of the project.
LEMMA PutRows ==
    ASSUME NEW d \in Database, NEW t \in TaskIds, NEW v \in ViewIds,
           NEW b \in BucketIds
    PROVE  \A u \in ViewIds :
              \/ PutRow(d, t, v, b)[u] = d.row[t][u]
              \/ u = v /\ PutRow(d, t, v, b)[u] = b
              \/ /\ u = v /\ d.view[u].default # NoBucket
                 /\ PutRow(d, t, v, b)[u] = d.view[u].default
              \/ /\ u # v /\ u \in ManualViews(d, d.view[v].project)
                 /\ d.view[u].doneBucket # NoBucket
                 /\ PutRow(d, t, v, b)[u] = d.view[u].doneBucket
BY DEF PutRow, PutTarget, OtherDoneViews

\* A default or done bucket of any view is not ordinary.
LEMMA NotOrdinary ==
    ASSUME NEW d \in Database, SettingsOwn(d), NEW u \in ViewIds,
           NEW c \in Buckets, Ordinary(d, c)
    PROVE  c \notin {d.view[u].default, d.view[u].doneBucket, getDefaultBucketID(d, u)}
<1>1. c # NoBucket
  BY ConstantsAssumption DEF Buckets, NoBucket
<1>2. /\ d.view[u].default \in BucketIds
      /\ OwnBucket(d, u, d.view[u].default) /\ OwnBucket(d, u, d.view[u].doneBucket)
  BY Tables DEF SettingsOwn
<1>3. OwnBucket(d, u, getDefaultBucketID(d, u))
  BY <1>2, DefaultOwn DEF getDefaultBucketID
<1>4. c = d.view[u].default => getDefaultBucketID(d, u) = c
  BY <1>1 DEF getDefaultBucketID, DefaultOr
<1> QED
  BY <1>1, <1>2, <1>3, <1>4 DEF Ordinary, OwnBucket

\* No bucket but the one asked for gains a task, default and done buckets aside.
LEMMA PutFills ==
    ASSUME NEW d \in Database, NEW t \in TaskIds, NEW v \in ViewIds,
           NEW b \in BucketIds, SettingsOwn(d),
           NEW e, e = updateTaskBucket(d, t, v, b),
           NEW c \in Buckets, Ordinary(d, c), c # b
    PROVE  TasksIn(e, c) \subseteq TasksIn(d, c)
<1>1. CASE d.row[t][v] = b
  BY <1>1 DEF updateTaskBucket
<1>2. CASE d.row[t][v] # b
  <2>1. /\ \A u \in ViewIds : e.row[t][u] = PutRow(d, t, v, b)[u]
        /\ \A s \in TaskIds \ {t} : Untouched(d, e, s)
    BY <1>2, PutWrites
  <2>2. \A u \in ViewIds : c \notin {d.view[u].default, d.view[u].doneBucket}
    BY NotOrdinary
  <2>3. \A u \in ViewIds : PutRow(d, t, v, b)[u] = c => d.row[t][u] = c
    BY <2>2, PutRows
  <2>4. \A s \in TaskIds, u \in ViewIds : e.row[s][u] = c => d.row[s][u] = c
    BY <2>1, <2>3 DEF Untouched
  <2> QED
    BY <2>4 DEF TasksIn
<1> QED
  BY <1>1, <1>2

-----------------------------------------------------------------------------
(* Changes of views and buckets *)

\* Tasks that are added to a view get its default bucket.
LEMMA AddedKept ==
    ASSUME NEW o, NEW s \in Database, NEW v \in ViewIds, NEW e,
           s.task = o.task, s.row = o.row,
           OwnBucket(s, v, s.view[v].default),
           e = WithTasksAdded(s, v, s.view[v].default)
    PROVE  Kept(o, e)
<1>1. s.view[v].default \in BucketIds
  BY Tables
<1>2. /\ e.task = o.task /\ e.view = s.view /\ e.bucket = s.bucket
      /\ \A t \in TaskIds, u \in ViewIds :
            \/ e.row[t][u] = o.row[t][u]
            \/ o.row[t][u] = NoBucket /\ u = v /\ e.row[t][u] = s.view[v].default
  BY <1>1, AddedEffect
<1>3. ASSUME NEW b \in Buckets, Ordinary(e, b)
      PROVE  TasksIn(e, b) \subseteq TasksIn(o, b)
  <2>1. b # NoBucket
    BY ConstantsAssumption DEF Buckets, NoBucket
  <2>2. b # s.view[v].default
    <3> SUFFICES ASSUME b = s.view[v].default PROVE FALSE
      OBVIOUS
    <3>1. e.bucket[b].view = v /\ e.view[v].default = b
      BY <1>2, <2>1 DEF OwnBucket
    <3>2. getDefaultBucketID(e, v) = b
      BY <2>1, <3>1 DEF getDefaultBucketID, DefaultOr
    <3> QED
      BY <1>3, <3>1, <3>2 DEF Ordinary
  <2> QED
    BY <1>2, <2>2 DEF TasksIn
<1>4. \A t \in TaskIds, u \in ViewIds :
         o.row[t][u] # NoBucket => e.row[t][u] = o.row[t][u]
  BY <1>2
<1>5. \A t \in TaskIds, u \in ViewIds :
         SameBoard(o, e, u) /\ o.row[t][u] = o.view[u].doneBucket
            => e.row[t][u] = o.row[t][u]
  BY <1>4 DEF SameBoard
<1> QED
  BY <1>2, <1>3, <1>4, <1>5, TasksAlone

\* Neither tasks nor rows change, or no task is put into another bucket.
LEMMA RowsAlone ==
    ASSUME NEW o, NEW d, d.task = o.task, d.row = o.row
    PROVE  Kept(o, d)
BY TasksAlone DEF TasksIn

LEMMA CreateViewKept ==
    ASSUME TypeOK, BoardsSound, NEW v \in ViewIds, NEW p \in Projects,
           NEW mode \in Modes, NEW filtered \in BOOLEAN,
           CreateView(v, p, mode, filtered)
    PROVE  Kept(db, db')
<1> DEFINE new == [status |-> "live", project |-> p, mode |-> mode,
                   filtered |-> filtered, default |-> NoBucket, doneBucket |-> NoBucket]
           f == [db.view EXCEPT ![v] = new]
           d == WithViews(db, f)
           s == WithDefaultBuckets(d, v)
<1>1. db \in Database /\ Settled(db)
  BY DEF TypeOK, BoardsSound, Sound
<1>2. new \in ViewRec
  BY DEF ViewRec, Statuses, BucketIds
<1>3. f \in [ViewIds -> ViewRec]
  <2> HIDE DEF new
  <2> QED
    BY <1>1, <1>2, Tables
<1>4. mode # "manual" => db' = d
  BY DEF CreateView, CommitNow
<1>5. mode = "manual" => CanSeed(d) /\ db' = WithTasksAdded(s, v, s.view[v].default)
  BY DEF CreateView, CommitNow
<1> HIDE DEF f
<1>6. /\ d \in Database /\ d.task = db.task /\ d.row = db.row
      /\ d.bucket = db.bucket /\ d.next = db.next
  BY <1>1, <1>3, ViewTable
<1> HIDE DEF d
<1>7. FreshUnused(d)
  BY <1>1, <1>6 DEF Settled, FreshUnused
<1>8. CASE mode # "manual"
  BY <1>4, <1>6, <1>8, RowsAlone
<1>9. CASE mode = "manual"
  <2>1. /\ s \in Database /\ s.task = db.task /\ s.row = db.row
        /\ s.view[v].default \in BucketsOf(s, v)
    BY <1>5, <1>6, <1>7, <1>9, SeedEffect
  <2> HIDE DEF s
  <2>2. OwnBucket(s, v, s.view[v].default)
    BY <2>1 DEF OwnBucket, BucketsOf
  <2> QED
    BY <1>5, <1>9, <2>1, <2>2, AddedKept
<1> QED
  BY <1>8, <1>9

\* Healing the settings of a view touches no task.
LEMMA HealedAlone ==
    ASSUME NEW d \in Database, NEW o \in Database, NEW v \in ViewIds,
           {d.view[v].default, d.view[v].doneBucket}
              \subseteq BucketsOf(d, v) \cup {NoBucket},
           NEW s, s = WithIdsHealed(d, o, v)
    PROVE  /\ s \in Database /\ s.task = d.task /\ s.row = d.row
           /\ OwnBucket(s, v, s.view[v].default)
<1>1. PICK x \in BucketsOf(d, v) \cup {NoBucket},
           y \in BucketsOf(d, v) \cup {NoBucket} :
              WithIdsHealed(d, o, v) = WithIds(d, v, x, y)
  BY HealedIds
<1>2. x \in BucketIds /\ y \in BucketIds /\ s = WithIds(d, v, x, y)
  BY <1>1 DEF BucketsOf, BucketIds
<1>3. /\ s \in Database /\ s.task = d.task /\ s.row = d.row
      /\ s.bucket = d.bucket /\ s.view[v].default = x
  BY <1>2, WithIdsEffect
<1> QED
  BY <1>3 DEF OwnBucket, BucketsOf

LEMMA UpdateViewKept ==
    ASSUME TypeOK, BoardsSound, NEW v \in ViewIds, NEW mode \in Modes,
           NEW filtered \in BOOLEAN,
           NEW default \in BucketIds, NEW doneBucket \in BucketIds,
           UpdateView(v, mode, filtered, default, doneBucket)
    PROVE  Kept(db, db')
<1> DEFINE d == WithViewSaved(db, v, mode, filtered, default, doneBucket)
<1>1. db \in Database /\ Sound(db) /\ Settled(db) /\ db.view[v].status = "live"
  BY DEF TypeOK, BoardsSound, UpdateView, Sound
<1>2. /\ d \in Database /\ d.task = db.task /\ d.row = db.row
      /\ d.bucket = db.bucket
      /\ d.view[v].status = db.view[v].status
      /\ d.view[v].mode = mode
  BY <1>1, SavedEffect
<1>3. Settled(d)
  BY <1>1, SettledSaved
<1>4. CASE mode = "manual" /\ db.view[v].mode # "manual"
  <2> DEFINE s == IF BucketsOf(d, v) # {} THEN WithIdsHealed(d, db, v)
                  ELSE WithDefaultBuckets(d, v)
  <2>1. /\ BucketsOf(d, v) = {} => CanSeed(d)
        /\ db' = WithTasksAdded(s, v, s.view[v].default)
    BY <1>4 DEF UpdateView, CommitNow, WithKanbanSynced
  <2> HIDE DEF d
  <2>2. /\ s \in Database /\ s.task = db.task /\ s.row = db.row
        /\ OwnBucket(s, v, s.view[v].default)
    <3>1. CASE BucketsOf(d, v) = {}
      <4>1. s = WithDefaultBuckets(d, v) /\ CanSeed(d) /\ FreshUnused(d)
        BY <1>3, <2>1, <3>1 DEF Settled
      <4> HIDE DEF s
      <4>2. /\ s \in Database /\ s.task = d.task /\ s.row = d.row
            /\ s.view[v].default \in BucketsOf(s, v)
        BY <1>2, <4>1, SeedEffect
      <4> QED
        BY <1>2, <4>2 DEF OwnBucket, BucketsOf
    <3>2. CASE BucketsOf(d, v) # {}
      <4>1. {d.view[v].default, d.view[v].doneBucket}
               \subseteq BucketsOf(d, v) \cup {NoBucket}
        BY <1>1, <1>2, <1>3, <1>4 DEF Settled, SettingsExist
      <4>2. s = WithIdsHealed(d, db, v)
        BY <3>2
      <4> HIDE DEF s
      <4>3. /\ s \in Database /\ s.task = d.task /\ s.row = d.row
            /\ OwnBucket(s, v, s.view[v].default)
        BY <1>1, <1>2, <4>1, <4>2, HealedAlone
      <4> QED
        BY <1>2, <4>3
    <3> QED
      BY <3>1, <3>2
  <2> HIDE DEF s
  <2> QED
    BY <2>1, <2>2, AddedKept
<1>5. CASE ~(mode = "manual" /\ db.view[v].mode # "manual")
  <2>1. db' = d
    BY <1>5 DEF UpdateView, CommitNow
  <2> QED
    BY <1>2, <2>1, RowsAlone
<1> QED
  BY <1>4, <1>5

LEMMA DeleteViewKept ==
    ASSUME TypeOK, NEW v \in ViewIds, DeleteView(v)
    PROVE  Kept(db, db')
<1> DEFINE f == [db.view EXCEPT ![v].status = "gone"]
           g == [t \in TaskIds |-> [db.row[t] EXCEPT ![v] = NoBucket]]
           d == WithRows(WithViews(db, f), g)
<1>1. db \in Database /\ db' = d /\ db.view[v].status = "live"
  BY DEF TypeOK, DeleteView, CommitNow
<1>2. f \in [ViewIds -> ViewRec] /\ f[v].status = "gone"
  <2>1. db.view \in [ViewIds -> ViewRec]
    BY <1>1, Tables
  <2> QED
    BY <2>1 DEF ViewRec, Statuses
<1>3. /\ g \in [TaskIds -> [ViewIds -> BucketIds]]
      /\ \A t \in TaskIds, u \in ViewIds :
            g[t][u] = IF u = v THEN NoBucket ELSE db.row[t][u]
  <2>1. NoBucket \in BucketIds
    BY DEF BucketIds
  <2> QED
    BY <1>1, <2>1, Tables
<1> HIDE DEF f, g
<1>4. WithViews(db, f) \in Database /\ WithViews(db, f).view = f
      /\ WithViews(db, f).task = db.task
  BY <1>1, <1>2, ViewTable
<1>5. d.view = f /\ d.task = db.task /\ d.row = g
  BY <1>3, <1>4, RowTable
<1> HIDE DEF d
<1>6. \A t \in TaskIds, u \in ViewIds :
         u \in ManualViews(d, db.view[u].project) \/ SameBoard(db, d, u)
            => d.row[t][u] = db.row[t][u]
  BY <1>1, <1>2, <1>3, <1>5 DEF ManualViews, LiveViews, SameBoard
<1>7. \A b \in Buckets : TasksIn(d, b) \subseteq TasksIn(db, b)
  BY <1>3, <1>5, ConstantsAssumption DEF TasksIn, Buckets, NoBucket
<1>8. Kept(db, d)
  BY <1>5, <1>6, <1>7, TasksAlone
<1> QED
  BY <1>1, <1>8

LEMMA CreateBucketKept ==
    ASSUME TypeOK, NEW v \in ViewIds, NEW limit \in Limits,
           NEW pos \in Positions, CreateBucket(v, limit, pos)
    PROVE  Kept(db, db')
<1>1. db'.task = db.task /\ db'.row = db.row
  BY DEF TypeOK, Database, CreateBucket, CommitNow, WithNext, WithBuckets
<1> QED
  BY <1>1, RowsAlone

LEMMA UpdateBucketKept ==
    ASSUME TypeOK, NEW b \in Buckets, NEW limit, NEW pos, UpdateBucket(b, limit, pos)
    PROVE  Kept(db, db')
<1>1. db'.task = db.task /\ db'.row = db.row
  BY DEF TypeOK, Database, UpdateBucket, CommitNow, WithBuckets
<1> QED
  BY <1>1, RowsAlone

LEMMA DeleteBucketKept ==
    ASSUME TypeOK, BoardsSound, NEW b \in Buckets, NEW v \in ViewIds,
           b \in BucketsOf(db, v), DeleteBucket(b, v)
    PROVE  Kept(db, db')
<1>1. PICK e \in Database, from \in BucketIds :
         CommitNow(e) /\ BucketDeleted(db, e, b, v, from)
  BY DeleteBucketWrites
<1> USE DEF BucketDeleted
<1>2. db \in Database /\ Settled(db) /\ db' = e
  BY <1>1 DEF TypeOK, BoardsSound, Sound, CommitNow
<1> DEFINE target == DefaultOr(db, v, from)
<1>3. \/ target \in BucketsOf(db, v)
      \/ target = from /\ from # NoBucket
  <2>1. /\ from # NoBucket => target = from
        /\ from = NoBucket /\ BucketsOf(db, v) # {} => target \in BucketsOf(db, v)
    BY <1>2, DefaultOrValue
  <2>2. BucketsOf(db, v) # {}
    BY <1>1
  <2> HIDE DEF target
  <2> QED
    BY <2>1, <2>2
<1>4. target # NoBucket /\ b # NoBucket
  <2>1. \A x \in Buckets : x # NoBucket
    BY ConstantsAssumption DEF Buckets, NoBucket
  <2>2. \A x \in BucketsOf(db, v) : x \in Buckets
    BY DEF BucketsOf
  <2> HIDE DEF target
  <2> QED
    BY <1>3, <2>1, <2>2
<1>5. db.bucket[target].view = v
  BY <1>1, <1>2, <1>3, <1>4 DEF Settled, SettingsOwn, OwnBucket, BucketsOf
<1>6. ASSUME NEW t \in TaskIds, NEW u \in ViewIds, db.row[t][u] = b
      PROVE  u = v
  BY <1>1, <1>2, <1>4, <1>6 DEF Settled, RowsOwn, OwnBucket, BucketsOf
<1> HIDE DEF target
<1>7. \A t \in TaskIds, u \in ViewIds :
         db.row[t][u] # NoBucket => e.row[t][u] # NoBucket
  BY <1>1, <1>4 DEF target
<1>8. ASSUME NEW t \in TaskIds, NEW u \in ViewIds, SameBoard(db, e, u),
             db.row[t][u] = db.view[u].doneBucket
      PROVE  e.row[t][u] = db.row[t][u]
  <2> SUFFICES ASSUME db.row[t][u] = b PROVE FALSE
    BY <1>1
  <2>1. u = v
    BY <1>6
  <2> QED
    BY <1>1, <1>8, <2>1 DEF SameBoard
\* The default of a kanban is the same after the deletion, b aside.
<1>9. ASSUME NEW c \in Buckets, Ordinary(db, c), Ordinary(e, c)
      PROVE  c # target
  <2> SUFFICES ASSUME c = target PROVE FALSE
    OBVIOUS
  <2>1. e.bucket[c].live /\ c # b /\ e.bucket[c].view = v
    BY <1>1, <1>5, <1>9 DEF Ordinary
  <2>2. e.view[v].default = from
    BY <1>1, <1>9, <2>1 DEF Ordinary
  <2>3. CASE from # NoBucket
    <3>1. target = from /\ db.view[v].default = from
      BY <1>1, <2>3 DEF target, DefaultOr
    <3>2. getDefaultBucketID(db, v) = c
      BY <2>3, <3>1 DEF getDefaultBucketID, DefaultOr
    <3> QED
      BY <1>5, <1>9, <3>2 DEF Ordinary
  <2>4. CASE from = NoBucket
    <3>1. target \in BucketsOf(e, v)
      BY <2>1 DEF BucketsOf
    <3>2. /\ BucketsOf(e, v) \subseteq BucketsOf(db, v)
          /\ \A x \in BucketsOf(e, v) : e.bucket[x] = db.bucket[x]
      BY <1>1 DEF BucketsOf
    <3>3. DefaultOr(e, v, NoBucket) = DefaultOr(db, v, NoBucket)
      BY <1>2, <2>4, <3>1, <3>2, LeftmostRemains DEF target
    <3>4. getDefaultBucketID(e, v) = c
      BY <2>2, <2>4, <3>3 DEF getDefaultBucketID, target
    <3> QED
      BY <1>9, <2>1, <3>4 DEF Ordinary
  <2> QED
    BY <2>3, <2>4
<1>10. \A c \in Buckets : Ordinary(db, c) /\ Ordinary(e, c)
          => TasksIn(e, c) \subseteq TasksIn(db, c)
  BY <1>1, <1>9 DEF TasksIn, target
<1>11. Kept(db, e)
  BY <1>1, <1>7, <1>8, <1>10, TasksAlone
<1> QED
  BY <1>2, <1>11

-----------------------------------------------------------------------------
(* Changes of tasks *)

\* Moving a task on a board of its own project keeps it.
LEMMA PutKept ==
    ASSUME NEW d \in Database, NEW t \in TaskIds, NEW v \in ViewIds,
           NEW b \in Buckets, SettingsOwn(d), CanPut(d, t, v, b),
           d.task[t].project = d.view[v].project,
           NEW e, e = updateTaskBucket(d, t, v, b)
    PROVE  Kept(d, e)
<1>1. CASE d.row[t][v] = b
  BY <1>1, NothingChanged DEF updateTaskBucket
<1>2. CASE d.row[t][v] # b
  <2>1. b \in BucketIds /\ b # NoBucket
    BY ConstantsAssumption DEF BucketIds, Buckets, NoBucket
  <2> DEFINE row == PutRow(d, t, v, b)
             done == PutDone(d, t, v, b)
  <2>2. /\ e.view = d.view /\ e.bucket = d.bucket
        /\ SameButDone(d.task[t], e.task[t])
        /\ e.task[t].done = done
        /\ \A u \in ViewIds : e.row[t][u] = row[u]
        /\ \A s \in TaskIds \ {t} : Untouched(d, e, s)
    BY <1>2, <2>1, PutWrites
  <2>3. KeepsPlace(d, e, t)
    BY <2>1, <2>2, PutRows DEF KeepsPlace
  <2>4. ReachesDoneBuckets(d, e, t)
    <3> SUFFICES ASSUME ~d.task[t].done, done, ~d.task[t].repeating,
                        NEW u \in LiveViews(d, d.task[t].project), SameBoard(d, e, u)
                 PROVE  row[u] = d.view[u].doneBucket
      BY <2>2 DEF ReachesDoneBuckets, SameButDone, LiveViews
    <3>1. IntoDone(d, t, v, b)
      BY DEF PutDone
    <3>2. u # v => u \in OtherDoneViews(d, t, v, b)
      BY <3>1 DEF OtherDoneViews, ManualViews, SameBoard
    <3> QED
      BY <3>1, <3>2 DEF PutRow, PutTarget, IntoDone, LiveViews
  <2>5. StaysInDoneBuckets(d, e, t)
    <3> SUFFICES ASSUME NEW u \in ViewIds, SameBoard(d, e, u),
                        d.row[t][u] = d.view[u].doneBucket, d.task[t].done, done
                 PROVE  row[u] = d.view[u].doneBucket
      BY <2>2 DEF StaysInDoneBuckets
    <3>1. u # v
      BY <1>2 DEF PutDone, IntoDone, OutOfDone, SameBoard
    <3> QED
      BY <3>1 DEF PutRow, OtherDoneViews, IntoDone
  <2>6. Reopens(d, e, t)
    BY <2>2 DEF Reopens, PutDone
  <2>7. \A s \in TaskIds : TaskKept(d, e, s)
    BY <2>2, <2>3, <2>4, <2>5, <2>6, SameKept DEF TaskKept
  <2>8. KeepsLimit(d, e, b)
    <3>1. TasksIn(e, b) \subseteq TasksIn(d, b) \cup {t}
      BY <2>2 DEF TasksIn, Untouched
    <3>2. HasRoom(d, d.bucket[b].view, b) /\ e.bucket[b] = d.bucket[b]
      BY <1>2, <2>2 DEF CanPut, BucketsOf
    <3> QED
      BY <2>2, <3>1, <3>2, OneTaskMore
  <2>9. ASSUME NEW c \in Buckets, c # b
        PROVE  KeepsLimit(d, e, c)
    <3>1. CASE Ordinary(d, c)
      BY <2>1, <2>9, <3>1, PutFills, FewerTasks
    <3>2. CASE ~Ordinary(d, c)
      BY <3>2 DEF KeepsLimit
    <3> QED
      BY <3>1, <3>2
  <2> QED
    BY <2>7, <2>8, <2>9 DEF Kept
<1> QED
  BY <1>1, <1>2

LEMMA MoveTaskKept ==
    ASSUME TypeOK, BoardsSound, NEW t \in TaskIds, NEW b \in Buckets,
           OwnProject(t, b), MoveTask(t, b)
    PROVE  Kept(db, db')
<1> DEFINE v == db.bucket[b].view
<1>1. /\ db \in Database /\ SettingsOwn(db)
      /\ v \in ViewIds /\ db.task[t].project = db.view[v].project
      /\ CanPut(db, t, v, b)
      /\ db' = updateTaskBucket(db, t, v, b)
  BY DEF TypeOK, BoardsSound, Sound, Settled, MoveTask, CommitNow, OwnProject
<1> HIDE DEF v
<1> QED
  BY <1>1, PutKept

\* One task gets new columns and rows.
LEMMA TaskRewritten ==
    ASSUME NEW d \in Database, NEW t \in TaskIds, NEW new \in TaskRec,
           NEW r \in [ViewIds -> BucketIds], NEW e,
           e = WithRows(WithTasks(d, [d.task EXCEPT ![t] = new]),
                        [d.row EXCEPT ![t] = r])
    PROVE  /\ e.task[t] = new /\ e.row[t] = r
           /\ e.view = d.view /\ e.bucket = d.bucket
           /\ \A s \in TaskIds \ {t} : Untouched(d, e, s)
<1> DEFINE f == [d.task EXCEPT ![t] = new]
           g == [d.row EXCEPT ![t] = r]
           m == WithTasks(d, f)
<1>1. /\ f \in [TaskIds -> TaskRec] /\ f[t] = new
      /\ \A s \in TaskIds \ {t} : f[s] = d.task[s]
  BY Tables
<1>2. /\ g \in [TaskIds -> [ViewIds -> BucketIds]] /\ g[t] = r
      /\ \A s \in TaskIds \ {t} : g[s] = d.row[s]
  BY Tables
<1>3. e = WithRows(m, g)
  OBVIOUS
<1> HIDE DEF f, g
<1>4. /\ m \in Database /\ m.task = f /\ m.view = d.view /\ m.bucket = d.bucket
  BY <1>1, TaskTable
<1> HIDE DEF m
<1>5. /\ e.task = f /\ e.view = d.view /\ e.bucket = d.bucket /\ e.row = g
  BY <1>2, <1>3, <1>4, RowTable
<1> QED
  BY <1>1, <1>2, <1>5 DEF Untouched

LEMMA DeleteTaskKept ==
    ASSUME TypeOK, NEW t \in TaskIds, DeleteTask(t)
    PROVE  Kept(db, db')
<1> DEFINE new == [NoTask EXCEPT !.status = "gone"]
           r == [v \in ViewIds |-> NoBucket]
<1>1. /\ db \in Database
      /\ db' = WithRows(WithTasks(db, [db.task EXCEPT ![t] = new]),
                        [db.row EXCEPT ![t] = r])
  BY DEF TypeOK, DeleteTask, CommitNow
<1>2. new \in TaskRec /\ new.status = "gone" /\ ~new.done
  BY NoTaskType DEF NoTask
<1>3. r \in [ViewIds -> BucketIds] /\ \A v \in ViewIds : r[v] = NoBucket
  BY DEF BucketIds
<1> HIDE DEF new, r
<1>4. /\ db'.task[t] = new /\ db'.row[t] = r
      /\ \A s \in TaskIds \ {t} : Untouched(db, db', s)
  BY <1>1, <1>2, <1>3, TaskRewritten
<1>5. TaskKept(db, db', t)
  BY <1>2, <1>4
     DEF TaskKept, KeepsPlace, ReachesDoneBuckets, StaysInDoneBuckets, Reopens,
         SameProject, LiveTasks
<1>6. \A b \in Buckets : TasksIn(db', b) \subseteq TasksIn(db, b)
  <2>1. \A b \in Buckets : b # NoBucket
    BY ConstantsAssumption DEF Buckets, NoBucket
  <2> QED
    BY <1>3, <1>4, <2>1 DEF TasksIn, Untouched
<1> QED
  BY <1>4, <1>5, <1>6, SameKept, FewerTasks DEF Kept

LEMMA CreateTaskKept ==
    ASSUME TypeOK, BoardsSound, NEW t \in TaskIds, NEW p \in Projects,
           NEW done \in BOOLEAN, NEW repeating \in BOOLEAN,
           NEW b \in BucketIds, CreateTask(t, p, done, repeating, b)
    PROVE  Kept(db, db')
<1> DEFINE new == NewTask(p, done, repeating)
           r == [v \in ViewIds |-> IF v \in ManualViews(db, p)
                                   THEN CreationRow(v, done, b) ELSE NoBucket]
<1>1. /\ db \in Database /\ SettingsOwn(db) /\ RowsFollow(db)
      /\ db.task[t].status = "none" /\ BucketAccepted(b, p)
      /\ db' = WithRows(WithTasks(db, [db.task EXCEPT ![t] = new]),
                        [db.row EXCEPT ![t] = r])
  BY DEF TypeOK, BoardsSound, Sound, Settled, CreateTask, CommitNow
<1>2. new \in TaskRec /\ new.project = p /\ new.done = done
  BY NewTaskType DEF NewTask
<1>3. ASSUME NEW v \in ViewIds
      PROVE  CreationRow(v, done, b) \in BucketIds
  BY <1>1, Tables, DefaultOrValue DEF CreationRow, getDefaultBucketID
<1>4. r \in [ViewIds -> BucketIds]
  BY <1>3 DEF BucketIds
<1> HIDE DEF new
<1>5. /\ db'.task[t] = new /\ db'.row[t] = r
      /\ db'.view = db.view /\ db'.bucket = db.bucket
      /\ \A s \in TaskIds \ {t} : Untouched(db, db', s)
  <2> HIDE DEF r
  <2> QED
    BY <1>1, <1>2, <1>4, TaskRewritten
\* The task is new: it had no row.
<1>6. \A v \in ViewIds : db.row[t][v] = NoBucket
  BY <1>1 DEF RowsFollow, RowsAreIn, LiveTasks
<1>7. TaskKept(db, db', t)
  <2>1. KeepsPlace(db, db', t) /\ StaysInDoneBuckets(db, db', t)
    BY <1>6 DEF KeepsPlace, StaysInDoneBuckets, SameBoard
  <2>2. Reopens(db, db', t)
    BY <1>1 DEF Reopens, LiveTasks
  <2>3. ReachesDoneBuckets(db, db', t)
    <3> SUFFICES ASSUME done, NEW v \in LiveViews(db, p), SameBoard(db, db', v)
                 PROVE  r[v] = db.view[v].doneBucket
      BY <1>2, <1>5 DEF ReachesDoneBuckets, LiveViews
    <3>1. v \in ManualViews(db, p) /\ v \in ViewIds
      BY DEF ManualViews, LiveViews, SameBoard
    <3> QED
      BY <3>1 DEF CreationRow, SameBoard
  <2> QED
    BY <2>1, <2>2, <2>3 DEF TaskKept
<1>8. ASSUME NEW c \in Buckets, Ordinary(db, c)
      PROVE  KeepsLimit(db, db', c)
  <2>1. \A v \in ViewIds : c \notin {db.view[v].default, db.view[v].doneBucket,
                                     getDefaultBucketID(db, v)}
    BY <1>1, <1>8, NotOrdinary
  <2>2. c # NoBucket
    BY ConstantsAssumption DEF Buckets, NoBucket
  <2>3. CASE c = b
    <3>1. TasksIn(db', c) \subseteq TasksIn(db, c) \cup {t}
      BY <1>5 DEF TasksIn, Untouched
    <3>2. HasRoom(db, db.bucket[c].view, c)
      BY <1>1, <2>2, <2>3 DEF BucketAccepted
    <3> QED
      BY <1>1, <1>5, <3>1, <3>2, OneTaskMore
  <2>4. CASE c # b
    <3>1. \A v \in ViewIds : r[v] # c
      BY <2>1, <2>2, <2>4 DEF CreationRow
    <3>2. TasksIn(db', c) \subseteq TasksIn(db, c)
      BY <1>5, <3>1 DEF TasksIn, Untouched
    <3> QED
      BY <3>2, FewerTasks
  <2> QED
    BY <2>3, <2>4
<1> QED
  BY <1>5, <1>7, <1>8, SameKept DEF Kept, KeepsLimit

-----------------------------------------------------------------------------
(* What a transaction has written may be committed, the task at hand aside *)

LEMMA PrimedFaithful ==
    Faithful(db, w, tx)' <=> Faithful(db', w', tx')
BY DEF Faithful, Carried, Creating, Updating, TaskKept, Untouched, SameButDone,
       InDoneBuckets, KeepsPlace, ReachesDoneBuckets, StaysInDoneBuckets, Reopens,
       SameProject, SameBoard, Ordinary, Wanted, UpdateKind, TasksIn,
       getDefaultBucketID, DefaultOr, IsLeftmost, BucketsOf, ManualViews,
       LiveViews, LiveTasks

\* Ordinary speaks of views and buckets only.
LEMMA OrdinaryAgrees ==
    ASSUME NEW o \in Database, NEW d \in Database,
           d.view = o.view, d.bucket = o.bucket, NEW b
    PROVE  Ordinary(d, b) <=> Ordinary(o, b)
<1>1. \A v : BucketsOf(d, v) = BucketsOf(o, v)
  BY DEF BucketsOf
<1>2. ASSUME NEW v \in ViewIds
      PROVE  DefaultOr(d, v, NoBucket) = DefaultOr(o, v, NoBucket)
  <2>1. CASE BucketsOf(o, v) = {}
    BY <1>1, <2>1 DEF DefaultOr
  <2>2. CASE BucketsOf(o, v) # {}
    <3>1. DefaultOr(o, v, NoBucket) \in BucketsOf(d, v)
      BY <1>1, <2>2, DefaultOrValue DEF BucketIds
    <3> QED
      BY <1>1, <3>1, LeftmostRemains
  <2> QED
    BY <2>1, <2>2
<1>3. \A v \in ViewIds : getDefaultBucketID(d, v) = getDefaultBucketID(o, v)
  <2> SUFFICES ASSUME NEW v \in ViewIds
               PROVE  getDefaultBucketID(d, v) = getDefaultBucketID(o, v)
    OBVIOUS
  <2>1. CASE o.view[v].default = NoBucket
    BY <1>2, <2>1 DEF getDefaultBucketID
  <2>2. CASE o.view[v].default # NoBucket
    BY <2>2 DEF getDefaultBucketID, DefaultOr
  <2> QED
    BY <2>1, <2>2
<1> QED
  BY <1>3 DEF Ordinary

\* Writes to the tasks in `open` that fill no ordinary bucket.
LEMMA CarriedOn ==
    ASSUME NEW o \in Database, NEW d \in Database, NEW e, NEW open,
           Carried(o, d, open),
           e.view = d.view, e.bucket = d.bucket,
           \A s \in TaskIds \ open : Untouched(d, e, s),
           \A b \in Buckets : Ordinary(d, b) => TasksIn(e, b) \subseteq TasksIn(d, b)
    PROVE  Carried(o, e, open)
<1>1. \A s \in TaskIds \ open : TaskKept(o, e, s)
  <2> SUFFICES ASSUME NEW s \in TaskIds \ open PROVE TaskKept(o, e, s)
    OBVIOUS
  <2>1. TaskKept(o, d, s) /\ e.task[s] = d.task[s] /\ e.row[s] = d.row[s]
    BY DEF Carried, Untouched
  <2> QED
    BY <2>1, KeptAgrees
<1>2. \A b \in Buckets : Ordinary(o, b) => Ordinary(d, b)
  BY OrdinaryAgrees DEF Carried
<1> QED
  BY <1>1, <1>2 DEF Carried

\* A task the transaction comes to: only the rows of one that moves are gone.
LEMMA StartFaithful ==
    ASSUME NEW o \in Database, NEW d \in Database, NEW t \in TaskIds,
           NEW rest \in SUBSET TaskIds, t \notin rest, NEW want \in Payload,
           Carried(o, d, {t} \cup rest),
           \A s \in {t} \cup rest : Untouched(o, d, s),
           NEW e, e = StartDb(d, t, want), NEW x, x = StartTx(d, t, rest, want)
    PROVE  Faithful(o, e, x)
<1> DEFINE new == Wanted(d, t, want)
           kind == UpdateKind(d.task[t], new)
           none == [v \in ViewIds |-> NoBucket]
           g == [d.row EXCEPT ![t] = none]
<1>1. /\ x.task = t /\ x.rest = rest /\ x.new = new /\ x.kind = kind
      /\ x.want = want
      /\ x.todo = IF kind = "plain" THEN {} ELSE ManualViews(d, new.project)
  BY DEF StartTx
<1>2. new = Wanted(o, t, want) /\ kind = UpdateKind(o.task[t], new) /\ kind # "create"
  BY DEF Untouched, Wanted, UpdateKind
<1> HIDE DEF new
<1>3. e = IF kind = "move" THEN WithRows(d, g) ELSE d
  BY DEF StartDb, new
<1>4. /\ g \in [TaskIds -> [ViewIds -> BucketIds]]
      /\ \A v \in ViewIds : g[t][v] = NoBucket
      /\ \A s \in TaskIds \ {t} : g[s] = d.row[s]
  <2>1. none \in [ViewIds -> BucketIds]
    BY DEF BucketIds
  <2> QED
    BY <2>1, Tables
<1> HIDE DEF kind, g
<1>5. /\ e.view = d.view /\ e.bucket = d.bucket /\ e.task = d.task
      /\ \A s \in TaskIds \ {t} : e.row[s] = d.row[s]
      /\ kind # "move" => e.row[t] = d.row[t]
      /\ \A v \in ViewIds : e.row[t][v] \in {d.row[t][v], NoBucket}
  <2>1. CASE kind = "move"
    BY <1>3, <1>4, <2>1, RowTable
  <2>2. CASE kind # "move"
    BY <1>3, <2>2
  <2> QED
    BY <2>1, <2>2
<1>6. \A b \in Buckets : TasksIn(e, b) \subseteq TasksIn(d, b)
  <2>1. \A b \in Buckets : b # NoBucket
    BY ConstantsAssumption DEF Buckets, NoBucket
  <2> QED
    BY <1>5, <2>1 DEF TasksIn
<1>7. \A s \in TaskIds \ {t} : Untouched(d, e, s)
  BY <1>5 DEF Untouched
<1>8. Carried(o, e, {t} \cup rest)
  BY <1>5, <1>6, <1>7, CarriedOn
<1>9. \A s \in rest : Untouched(o, e, s)
  BY <1>7 DEF Untouched
<1>10. Updating(o, e, x)
  <2>1. ManualViews(e, new.project) = ManualViews(d, new.project)
    BY <1>5 DEF ManualViews, LiveViews
  <2>2. e.task[t] = o.task[t] /\ kind # "move" => e.row[t] = o.row[t]
    BY <1>5 DEF Untouched
  <2> QED
    BY <1>1, <1>2, <1>5, <2>1, <2>2
       DEF Updating, SameButDone, Untouched, InDoneBuckets
<1> QED
  BY <1>1, <1>2, <1>8, <1>9, <1>10 DEF Faithful

LEMMA UpdateFaithful ==
    ASSUME TypeOK, BoardsSound, NEW t \in TaskIds, NEW rest \in SUBSET TaskIds,
           NEW want \in Payload, t \notin rest, Start(t, rest, want)
    PROVE  db' = db /\ Faithful(db, w, tx)'
<1>1. /\ db \in Database /\ db' = db
      /\ w' = StartDb(db, t, want) /\ tx' = StartTx(db, t, rest, want)
  BY DEF TypeOK, Start
<1>2. Carried(db, db, {t} \cup rest)
  BY SameKept DEF Carried, Untouched
<1>3. Faithful(db, w', tx')
  BY <1>1, <1>2, StartFaithful DEF Untouched
<1> QED
  BY <1>1, <1>3, PrimedFaithful

LEMMA UpdateTaskFaithful ==
    ASSUME TypeOK, BoardsSound, NEW t \in TaskIds, NEW done \in BOOLEAN,
           NEW repeating \in BOOLEAN, NEW p \in Projects,
           UpdateTask(t, done, repeating, p)
    PROVE  db' = db /\ Faithful(db, w, tx)'
<1> DEFINE want == [cols |-> Columns, done |-> done, repeating |-> repeating,
                    project |-> p]
<1>1. want \in Payload /\ Start(t, {}, want)
  BY DEF UpdateTask, Payload
<1> HIDE DEF want
<1> QED
  BY <1>1, UpdateFaithful

LEMMA BulkUpdateFaithful ==
    ASSUME TypeOK, BoardsSound, NEW t \in TaskIds, NEW rest \in SUBSET TaskIds,
           NEW cols \in BulkColumns, NEW done \in BOOLEAN,
           NEW repeating \in BOOLEAN, NEW p \in Projects,
           BulkUpdate(t, rest, cols, done, repeating, p)
    PROVE  db' = db /\ Faithful(db, w, tx)'
<1> DEFINE want == [cols |-> cols, done |-> done, repeating |-> repeating,
                    project |-> p]
<1>1. want \in Payload /\ Start(t, rest, want) /\ t \notin rest
  BY ConstantsAssumption DEF BulkUpdate, Payload, Columns
<1> HIDE DEF want
<1> QED
  BY <1>1, UpdateFaithful

\* The new task is on no board yet.
LEMMA CreateDoneTaskFaithful ==
    ASSUME TypeOK, BoardsSound, NEW t \in TaskIds, NEW p \in Projects,
           NEW repeating \in BOOLEAN, NEW b \in Buckets,
           CreateDoneTask(t, p, repeating, b)
    PROVE  db' = db /\ Faithful(db, w, tx)'
<1> DEFINE new == NewTask(p, TRUE, repeating)
           f == [db.task EXCEPT ![t] = new]
<1>1. /\ db \in Database /\ db' = db
      /\ db.task[t].status = "none" /\ w' = WithTasks(db, f)
      /\ tx'.kind = "create" /\ tx'.task = t /\ tx'.rest = {}
      /\ tx'.todo = LiveViews(db, p) /\ tx'.new = new
  BY DEF TypeOK, CreateDoneTask
<1>2. new \in TaskRec /\ new.project = p /\ new.done
  BY NewTaskType DEF NewTask
<1> HIDE DEF new
<1>3. /\ f \in [TaskIds -> TaskRec] /\ f[t] = new
      /\ \A s \in TaskIds \ {t} : f[s] = db.task[s]
  BY <1>1, <1>2, Tables
<1> HIDE DEF f
<1>4. /\ w'.task = f /\ w'.view = db.view /\ w'.bucket = db.bucket /\ w'.row = db.row
  BY <1>1, <1>3, TaskTable
<1>5. \A s \in TaskIds \ {t} : Untouched(db, w', s)
  BY <1>3, <1>4 DEF Untouched
<1>6. Carried(db, w', {t})
  BY <1>4, <1>5, SameKept DEF Carried, TasksIn
<1>7. Creating(db, w', tx')
  BY <1>1, <1>2, <1>3, <1>4 DEF Creating, InDoneBuckets, ManualViews, LiveViews
<1> QED
  BY <1>1, <1>6, <1>7, PrimedFaithful DEF Faithful

\* The bucket the loops ask for is the done bucket of the view or its default.
LEMMA LoopTargetValue ==
    ASSUME TypeOK, BoardsSound, ~Idle, NEW v \in ViewIds
    PROVE  /\ LoopTarget(v) \in BucketIds
           /\ \/ LoopTarget(v) = w.view[v].doneBucket
              \/ LoopTarget(v) = getDefaultBucketID(w, v)
           /\ v \in ManualViews(w, tx.new.project) => LoopTarget(v) # NoBucket
<1>1. w \in Database /\ HasBuckets(w)
  BY DEF TypeOK, BoardsSound, TxSound
<1>2. w.view[v].default \in BucketIds
  BY <1>1, Tables
<1>3. v \in ManualViews(w, tx.new.project) => getDefaultBucketID(w, v) # NoBucket
  <2> SUFFICES ASSUME v \in ManualViews(w, tx.new.project)
               PROVE  getDefaultBucketID(w, v) # NoBucket
    OBVIOUS
  <2>1. BucketsOf(w, v) # {}
    BY <1>1 DEF HasBuckets, ManualViews, LiveViews
  <2>2. /\ w.view[v].default = NoBucket =>
              getDefaultBucketID(w, v) \in BucketsOf(w, v)
        /\ w.view[v].default # NoBucket =>
              getDefaultBucketID(w, v) = w.view[v].default
    BY <1>1, <1>2, <2>1, DefaultOrValue DEF getDefaultBucketID
  <2>3. \A b \in BucketsOf(w, v) : b # NoBucket
    BY ConstantsAssumption DEF BucketsOf, Buckets, NoBucket
  <2> QED
    BY <2>2, <2>3
<1> QED
  BY <1>3, LoopTargetType DEF LoopTarget

\* One view of the loop is through: transaction y goes on from transaction x.
Visited(x, y, v) ==
    /\ y.kind = x.kind /\ y.task = x.task /\ y.rest = x.rest
    /\ y.want = x.want /\ y.new = x.new /\ y.todo = x.todo \ {v}

LEMMA BothDone ==
    ASSUME NEW r \in TaskRec, NEW s \in TaskRec, SameButDone(r, s), r.done, s.done
    PROVE  s = r
<1>1. r.done = TRUE /\ s.done = TRUE
  BY DEF TaskRec
<1>2. /\ r = [status |-> r.status, project |-> r.project, done |-> TRUE,
              repeating |-> r.repeating]
      /\ s = [status |-> s.status, project |-> s.project, done |-> TRUE,
              repeating |-> s.repeating]
  BY <1>1 DEF TaskRec
<1> QED
  BY <1>2 DEF SameButDone

LEMMA PlacedCreating ==
    ASSUME NEW o, NEW d \in Database, NEW x \in Transaction, NEW y,
           NEW v \in ViewIds, NEW b \in BucketIds,
           Visited(x, y, v), Creating(o, d, x),
           b = d.view[v].doneBucket, d.row[x.task][v] # b,
           NEW e, e = updateTaskBucket(d, x.task, v, b)
    PROVE  Creating(o, e, y)
<1> DEFINE t == x.task
<1>1. t \in TaskIds /\ d.task[t].done
  BY DEF Transaction, Creating
<1>2. /\ e \in Database /\ e.view = d.view
      /\ SameButDone(d.task[t], e.task[t])
      /\ e.task[t].done = PutDone(d, t, v, b)
      /\ \A u \in ViewIds : e.row[t][u] = PutRow(d, t, v, b)[u]
  BY <1>1, PutWrites
<1> HIDE DEF t
<1>3. /\ PutDone(d, t, v, b)
      /\ \A u \in ViewIds : PutRow(d, t, v, b)[u] = IF u = v THEN b ELSE d.row[t][u]
  BY <1>1 DEF PutDone, OutOfDone, IntoDone, PutRow, PutTarget, OtherDoneViews
<1>4. e.task[t] = d.task[t]
  <2>1. e.task[t] \in TaskRec /\ d.task[t] \in TaskRec
    BY <1>1, <1>2, Tables
  <2>2. e.task[t].done /\ SameButDone(d.task[t], e.task[t])
    BY <1>2, <1>3
  <2> QED
    BY <1>1, <2>1, <2>2, BothDone
<1>5. ManualViews(e, x.new.project) = ManualViews(d, x.new.project)
  BY <1>2 DEF ManualViews, LiveViews
<1> QED
  BY <1>2, <1>3, <1>4, <1>5 DEF Creating, InDoneBuckets, Visited, ManualViews, LiveViews, t

\* A board the loop leaves alone, or that has the task in the bucket already.
LEMMA SkippedCreating ==
    ASSUME NEW o, NEW d, NEW x, NEW y, NEW v \in ViewIds,
           Visited(x, y, v), Creating(o, d, x),
           d.view[v].doneBucket # NoBucket => d.row[x.task][v] = d.view[v].doneBucket
    PROVE  Creating(o, d, y)
BY DEF Creating, InDoneBuckets, Visited

LEMMA SkippedUpdating ==
    ASSUME NEW o, NEW d, NEW x, NEW y, NEW v \in ViewIds,
           Visited(x, y, v), Updating(o, d, x), v \in x.todo,
           x.new.done /\ d.view[v].doneBucket # NoBucket =>
              d.row[x.task][v] = d.view[v].doneBucket \/ x.kind = "reopen"
    PROVE  Updating(o, d, y)
BY DEF Updating, InDoneBuckets, Visited, Untouched

LEMMA PlacedUpdating ==
    ASSUME NEW o, NEW d \in Database, NEW x \in Transaction, NEW y,
           NEW v \in ViewIds, NEW b \in BucketIds,
           Visited(x, y, v), Updating(o, d, x), v \in x.todo, b # NoBucket,
           d.row[x.task][v] # b,
           x.kind # "reopen" /\ x.new.done /\ d.view[v].doneBucket # NoBucket =>
              b = d.view[v].doneBucket,
           NEW e, e = updateTaskBucket(d, x.task, v, b)
    PROVE  Updating(o, e, y)
<1> DEFINE t == x.task
           old == o.task[t]
           p == x.new.project
           row == PutRow(d, t, v, b)
           done == PutDone(d, t, v, b)
<1>1. t \in TaskIds
  BY DEF Transaction
<1>2. /\ e \in Database /\ e.view = d.view
      /\ SameButDone(d.task[t], e.task[t])
      /\ e.task[t].done = done
      /\ \A u \in ViewIds : e.row[t][u] = row[u]
  BY <1>1, PutWrites
<1>3. ManualViews(e, p) = ManualViews(d, p)
  BY <1>2 DEF ManualViews, LiveViews
<1>4. /\ SameButDone(old, d.task[t])
      /\ v \in ManualViews(d, p) /\ d.view[v].project = p
      /\ x.kind # "plain"
  BY DEF Updating, ManualViews, LiveViews
<1>5. SameButDone(old, e.task[t])
  BY <1>2, <1>4 DEF SameButDone
<1>6. old.repeating /\ ~old.done => ~done
  BY <1>4 DEF Updating, PutDone, SameButDone
\* No row goes.
<1>7. \A u \in ViewIds : d.row[t][u] # NoBucket => row[u] # NoBucket
  BY PutRows, <1>1
\* A task that is not repeating goes to b, and to all done buckets with b.
<1>8. ASSUME ~old.repeating
      PROVE  /\ row[v] = b
             /\ \A u \in ViewIds \ {v} :
                   row[u] = IF /\ IntoDone(d, t, v, b) /\ u \in ManualViews(d, p)
                               /\ d.view[u].doneBucket # NoBucket
                            THEN d.view[u].doneBucket ELSE d.row[t][u]
  BY <1>4, <1>8 DEF PutRow, PutTarget, OtherDoneViews, SameButDone
<1> HIDE DEF row, done
<1>9. ASSUME x.kind \in {"done", "move"}, ~old.repeating, ~old.done, x.new.done
      PROVE  InDoneBuckets(e, t, ManualViews(d, p) \ (x.todo \ {v}))
  <2>1. InDoneBuckets(d, t, ManualViews(d, p) \ x.todo)
    BY <1>9 DEF Updating
  <2>2. d.view[v].doneBucket # NoBucket => b = d.view[v].doneBucket
    BY <1>9
  <2> QED
    BY <1>2, <1>8, <1>9, <2>1, <2>2 DEF InDoneBuckets, ManualViews, LiveViews
<1>10. ASSUME x.kind = "move", ~old.repeating, ~old.done, ~x.new.done, done
       PROVE  InDoneBuckets(e, t, ManualViews(d, p))
  <2>1. CASE d.task[t].done
    <3>1. InDoneBuckets(d, t, ManualViews(d, p)) /\ ~IntoDone(d, t, v, b)
      BY <1>10, <2>1 DEF Updating, IntoDone
    <3>2. d.view[v].doneBucket = NoBucket
      BY <1>4, <1>10, <2>1, <3>1 DEF InDoneBuckets, PutDone, OutOfDone, done
    <3> QED
      BY <1>2, <1>8, <1>10, <3>1, <3>2 DEF InDoneBuckets, ManualViews, LiveViews
  <2>2. CASE ~d.task[t].done
    <3>1. IntoDone(d, t, v, b) /\ b = d.view[v].doneBucket
      BY <1>10, <2>2 DEF PutDone, IntoDone, done
    <3> QED
      BY <1>2, <1>8, <1>10, <3>1 DEF InDoneBuckets, ManualViews, LiveViews
  <2> QED
    BY <2>1, <2>2
<1>11. /\ y.new = Wanted(o, t, y.want) /\ y.kind = UpdateKind(old, y.new)
       /\ y.todo \subseteq ManualViews(d, p)
  BY DEF Updating, Visited
<1>12. x.kind \in {"done", "reopen"} =>
          \A u \in ViewIds : o.row[t][u] # NoBucket => e.row[t][u] # NoBucket
  BY <1>2, <1>7 DEF Updating
<1>13. y.kind = x.kind /\ y.task = t /\ y.new = x.new /\ y.todo = x.todo \ {v}
  BY DEF Visited
<1> HIDE DEF t, old, p
<1> QED
  BY <1>2, <1>3, <1>4, <1>5, <1>6, <1>9, <1>10, <1>11, <1>12, <1>13
     DEF Updating, old, p

LEMMA PlaceInViewFaithful ==
    ASSUME TypeOK, BoardsFaithful, NEW v \in ViewIds, PlaceInView(v)
    PROVE  db' = db /\ Faithful(db, w, tx)'
<1> DEFINE t == tx.task
           b == LoopTarget(v)
           open == {tx.task} \cup tx.rest
<1>1. /\ db \in Database /\ w \in Database /\ tx \in Transaction
      /\ BoardsSound /\ Faithful(db, w, tx) /\ v \in tx.todo /\ db' = db /\ ~Idle
      /\ SettingsOwn(w)
  BY DEF TypeOK, BoardsFaithful, BoardsSound, PlaceInView, Idle, TxSound, Settled
<1>2. t \in TaskIds /\ t \in open
  BY <1>1 DEF Transaction
<1>3. /\ b \in BucketIds
      /\ b = w.view[v].doneBucket \/ b = getDefaultBucketID(w, v)
      /\ v \in ManualViews(w, tx.new.project) => b # NoBucket
  BY <1>1, LoopTargetValue
<1>4. Visited(tx, tx', v)
  <2>1. tx' = [tx EXCEPT !.todo = @ \ {v}]
    BY DEF PlaceInView
  <2> QED
    BY <1>1, <2>1 DEF Visited, Transaction
<1> HIDE DEF b
<1>5. Carried(db, w, open) /\ open = {tx'.task} \cup tx'.rest
  BY <1>1, <1>4 DEF Faithful, Visited
\* The view is left alone, or the task is in its bucket.
<1>6. CASE SkipsView(v) \/ w.row[t][v] = b
  <2>1. w' = w
    BY <1>6 DEF PlaceInView, updateTaskBucket, b
  <2>2. tx.new.done /\ w.view[v].doneBucket # NoBucket =>
           w.row[t][v] = w.view[v].doneBucket \/ tx.kind = "reopen"
    BY <1>6 DEF SkipsView, LoopTarget, b
  <2>3. CASE tx.kind = "create"
    <3>1. Creating(db, w, tx)
      BY <1>1, <2>3 DEF Faithful
    <3>2. w.view[v].doneBucket # NoBucket => w.row[t][v] = w.view[v].doneBucket
      BY <2>2, <2>3, <3>1 DEF Creating
    <3>3. Creating(db, w, tx')
      BY <1>4, <3>1, <3>2, SkippedCreating
    <3> QED
      BY <1>1, <1>4, <1>5, <2>1, <2>3, <3>3, PrimedFaithful DEF Faithful, Visited
  <2>4. CASE tx.kind # "create"
    <3>1. Updating(db, w, tx)
      BY <1>1, <2>4 DEF Faithful
    <3>2. Updating(db, w, tx')
      BY <1>1, <1>4, <2>2, <3>1, SkippedUpdating
    <3> QED
      BY <1>1, <1>4, <1>5, <2>1, <2>4, <3>2, PrimedFaithful DEF Faithful, Visited
  <2> QED
    BY <2>3, <2>4
<1>7. CASE ~SkipsView(v) /\ w.row[t][v] # b
  <2>1. w' = updateTaskBucket(w, t, v, b)
    BY <1>7 DEF PlaceInView, b
  <2>2. /\ w'.view = w.view /\ w'.bucket = w.bucket
        /\ \A s \in TaskIds \ {t} : Untouched(w, w', s)
    BY <1>1, <1>2, <1>3, <1>7, <2>1, PutWrites
  <2>3. ASSUME NEW c \in Buckets, Ordinary(w, c)
        PROVE  TasksIn(w', c) \subseteq TasksIn(w, c)
    <3>1. c # b
      BY <1>1, <1>3, <2>3, NotOrdinary
    <3> QED
      BY <1>1, <1>2, <1>3, <2>1, <2>3, <3>1, PutFills
  <2>4. Carried(db, w', open)
    BY <1>1, <1>2, <1>5, <2>2, <2>3, CarriedOn
  <2>5. \A s \in tx.rest : Untouched(db, w', s)
    BY <1>1, <2>2 DEF Faithful, Untouched, Transaction
  <2>6. CASE tx.kind = "create"
    <3>1. Creating(db, w, tx)
      BY <1>1, <2>6 DEF Faithful
    <3>2. b = w.view[v].doneBucket
      BY <1>7, <2>6, <3>1 DEF Creating, SkipsView, LoopTarget, b
    <3>3. Creating(db, w', tx')
      BY <1>1, <1>3, <1>4, <1>7, <2>1, <3>1, <3>2, PlacedCreating
    <3> QED
      BY <1>1, <1>4, <1>5, <2>4, <2>5, <2>6, <3>3, PrimedFaithful DEF Faithful, Visited
  <2>7. CASE tx.kind # "create"
    <3>1. Updating(db, w, tx)
      BY <1>1, <2>7 DEF Faithful
    <3>2. b # NoBucket
      BY <1>1, <1>3, <3>1 DEF Updating
    <3>3. tx.kind # "reopen" /\ tx.new.done /\ w.view[v].doneBucket # NoBucket =>
             b = w.view[v].doneBucket
      BY DEF LoopTarget, b
    <3>4. Updating(db, w', tx')
      BY <1>1, <1>3, <1>4, <1>7, <2>1, <3>1, <3>2, <3>3, PlacedUpdating
    <3> QED
      BY <1>1, <1>4, <1>5, <2>4, <2>5, <2>7, <3>4, PrimedFaithful DEF Faithful, Visited
  <2> QED
    BY <2>6, <2>7
<1> QED
  BY <1>6, <1>7

\* The columns written at the end: one task, its rows as the loop left them.
LEMMA SavedWrites ==
    ASSUME TypeOK, ~Idle, NEW e, e = Saved(tx.task)
    PROVE  /\ e.view = w.view /\ e.bucket = w.bucket /\ e.row = w.row
           /\ \A s \in TaskIds \ {tx.task} : Untouched(w, e, s)
           /\ SameButDone(tx.new, e.task[tx.task])
           /\ e.task[tx.task].done = IF "done" \in tx.want.cols THEN FinalDone(tx.task)
                                     ELSE w.task[tx.task].done
<1> DEFINE t == tx.task
           done == IF "done" \in tx.want.cols THEN FinalDone(t) ELSE w.task[t].done
           new == [tx.new EXCEPT !.done = done]
           f == [w.task EXCEPT ![t] = new]
<1>1. w \in Database /\ t \in TaskIds /\ tx.new \in TaskRec
  BY OpenTransaction DEF TypeOK
<1>2. done \in BOOLEAN
  BY <1>1, Tables DEF FinalDone, TaskRec
<1> HIDE DEF done
<1>3. new \in TaskRec /\ SameButDone(tx.new, new) /\ new.done = done
  BY <1>1, <1>2 DEF TaskRec, SameButDone
<1> HIDE DEF new
<1>4. /\ f \in [TaskIds -> TaskRec] /\ f[t] = new
      /\ \A s \in TaskIds \ {t} : f[s] = w.task[s]
  BY <1>1, <1>3, Tables
<1>5. e = WithTasks(w, f)
  BY DEF Saved, f, new, done
<1> HIDE DEF f, t
<1>6. e.task = f /\ e.view = w.view /\ e.bucket = w.bucket /\ e.row = w.row
  BY <1>1, <1>4, <1>5, TaskTable
<1> QED
  BY <1>3, <1>4, <1>6 DEF Untouched, t, done

\* With the last view of its loop an update has kept its task.
LEMMA SavedKept ==
    ASSUME TypeOK, ~Idle, Updating(db, w, tx), tx.todo = {},
           NEW e, e = Saved(tx.task)
    PROVE  TaskKept(db, e, tx.task)
<1> DEFINE t == tx.task
           old == db.task[t]
           new == tx.new
           boards == ManualViews(w, new.project)
           once == ~old.repeating /\ ~old.done
           written == "done" \in tx.want.cols
<1>1. /\ db \in Database /\ t \in TaskIds /\ old \in TaskRec
  BY OpenTransaction, Tables DEF TypeOK
<1>2. /\ e.view = w.view /\ e.row = w.row
      /\ SameButDone(new, e.task[t])
      /\ e.task[t].done = IF written THEN FinalDone(t) ELSE w.task[t].done
  BY SavedWrites
<1>3. /\ new.status = old.status
      /\ ~written => new.done = old.done
  BY <1>1 DEF Updating, Wanted, TaskRec
<1>4. /\ new.project # old.project => tx.kind = "move"
      /\ new.project = old.project /\ ~new.repeating /\ new.done # old.done =>
            tx.kind = "done"
      /\ new.project = old.project /\ new.repeating /\ ~old.done /\ new.done =>
            tx.kind = "reopen"
      /\ new.project = old.project => tx.kind # "move"
      /\ tx.kind = "done" => new.done # old.done
      /\ tx.kind = "reopen" => ~old.done /\ new.done
      /\ tx.kind \in {"move", "done", "reopen", "plain"}
  BY DEF Updating, UpdateKind
<1>5. /\ tx.kind = "plain" => Untouched(db, w, t)
      /\ tx.kind \in {"done", "reopen"} =>
            \A v \in ViewIds : db.row[t][v] # NoBucket => w.row[t][v] # NoBucket
      /\ tx.kind \in {"done", "move"} /\ once /\ new.done => InDoneBuckets(w, t, boards)
      /\ tx.kind = "move" /\ once /\ ~new.done /\ w.task[t].done =>
            InDoneBuckets(w, t, boards)
      /\ old.repeating /\ ~old.done => ~w.task[t].done
  BY DEF Updating, InDoneBuckets
<1> HIDE DEF t, old, new, boards, written
<1>6. KeepsPlace(db, e, t)
  BY <1>2, <1>4, <1>5 DEF KeepsPlace, SameProject, SameButDone, Untouched, old, new
<1>7. ReachesDoneBuckets(db, e, t)
  <2> SUFFICES ASSUME once, e.task[t].done, ~new.repeating,
                      NEW v \in LiveViews(e, new.project), SameBoard(db, e, v)
               PROVE  e.row[t][v] = db.view[v].doneBucket
    BY <1>2 DEF ReachesDoneBuckets, SameButDone, old
  <2>1. InDoneBuckets(w, t, boards)
    <3>1. CASE written
      <4>1. new.done
        BY <1>2, <3>1 DEF FinalDone, new
      <4> QED
        BY <1>4, <1>5, <4>1
    <3>2. CASE ~written
      <4>1. ~new.done /\ w.task[t].done
        BY <1>2, <1>3, <3>2
      <4>2. tx.kind # "plain"
        BY <1>5, <4>1 DEF Untouched, old
      <4> QED
        BY <1>3, <1>4, <1>5, <3>2, <4>1, <4>2
    <3> QED
      BY <3>1, <3>2
  <2>2. v \in boards
    BY <1>2 DEF boards, ManualViews, LiveViews, SameBoard
  <2>3. e.view[v] = db.view[v] /\ db.view[v].doneBucket # NoBucket
    BY DEF SameBoard
  <2> QED
    BY <1>2, <2>1, <2>2, <2>3 DEF InDoneBuckets
<1>8. StaysInDoneBuckets(db, e, t)
  <2> SUFFICES ASSUME NEW v \in ViewIds, db.row[t][v] = db.view[v].doneBucket,
                      old.done, e.task[t].done, new.project = old.project
               PROVE  e.row[t][v] = db.view[v].doneBucket
    BY <1>2 DEF StaysInDoneBuckets, SameProject, SameButDone, old, new
  <2>1. tx.kind # "done"
    <3>1. written => new.done
      BY <1>2 DEF FinalDone, new
    <3> QED
      BY <1>3, <1>4, <3>1
  <2>2. Untouched(db, w, t)
    BY <1>4, <1>5, <2>1
  <2> QED
    BY <1>2, <2>2 DEF Untouched
<1>9. Reopens(db, e, t)
  <2> SUFFICES ASSUME old.repeating, ~old.done PROVE ~e.task[t].done
    BY DEF Reopens, old
  <2>1. ~FinalDone(t)
    BY DEF FinalDone, old
  <2> QED
    BY <1>2, <1>5, <2>1
<1> QED
  BY <1>6, <1>7, <1>8, <1>9 DEF TaskKept, t

\* With the last view of its loop a creation has its task in every done bucket.
LEMMA CreatedKept ==
    ASSUME NEW o, NEW d, NEW x, RowsFollow(o), x.task \in TaskIds,
           Creating(o, d, x), x.todo = {}
    PROVE  TaskKept(o, d, x.task)
<1> DEFINE t == x.task
<1>1. t \notin LiveTasks(o) /\ \A v \in ViewIds : o.row[t][v] = NoBucket
  BY DEF Creating, RowsFollow, RowsAreIn, LiveTasks
<1>2. KeepsPlace(o, d, t) /\ StaysInDoneBuckets(o, d, t) /\ Reopens(o, d, t)
  BY <1>1 DEF KeepsPlace, StaysInDoneBuckets, SameBoard, Reopens
<1>3. ReachesDoneBuckets(o, d, t)
  BY DEF ReachesDoneBuckets, Creating, InDoneBuckets, SameBoard, ManualViews, LiveViews
<1> QED
  BY <1>2, <1>3 DEF TaskKept

\* The task at hand is through: what is written is as good as the tasks to come.
LEMMA SavedCarried ==
    ASSUME TypeOK, BoardsFaithful, ~Idle, tx.kind # "create", tx.todo = {},
           NEW e, e = Saved(tx.task)
    PROVE  /\ Carried(db, e, tx.rest)
           /\ \A s \in tx.rest : Untouched(db, e, s)
<1>1. /\ db \in Database /\ w \in Database /\ tx.rest \subseteq TaskIds
      /\ Faithful(db, w, tx)
  BY OpenTransaction DEF TypeOK, BoardsFaithful
<1>2. /\ Carried(db, w, {tx.task} \cup tx.rest) /\ Updating(db, w, tx)
      /\ tx.task \notin tx.rest /\ \A s \in tx.rest : Untouched(db, w, s)
  BY <1>1 DEF Faithful
<1>3. /\ e.view = w.view /\ e.bucket = w.bucket /\ e.row = w.row
      /\ \A s \in TaskIds \ {tx.task} : Untouched(w, e, s)
  BY SavedWrites
<1>4. Carried(db, e, {tx.task} \cup tx.rest)
  BY <1>1, <1>2, <1>3, CarriedOn DEF TasksIn
<1>5. TaskKept(db, e, tx.task)
  BY <1>2, SavedKept
<1>6. Carried(db, e, tx.rest)
  BY <1>4, <1>5 DEF Carried
<1> QED
  BY <1>1, <1>2, <1>3, <1>6 DEF Untouched

LEMMA FinishTaskKept ==
    ASSUME TypeOK, BoardsFaithful, FinishTask
    PROVE  Kept(db, db') /\ Idle'
<1>1. /\ ~Idle /\ tx.todo = {} /\ tx.rest = {} /\ Idle'
      /\ db' = IF tx.kind = "create" THEN w ELSE Saved(tx.task)
  BY DEF FinishTask, CommitNow, Idle
<1>2. Faithful(db, w, tx) /\ Sound(db) /\ tx.task \in TaskIds
  BY <1>1, OpenTransaction DEF BoardsFaithful, BoardsSound
<1>3. Carried(db, db', {})
  <2>1. CASE tx.kind = "create"
    <3>1. Carried(db, w, {tx.task}) /\ Creating(db, w, tx)
      BY <1>1, <1>2, <2>1 DEF Faithful
    <3>2. TaskKept(db, w, tx.task)
      BY <1>1, <1>2, <3>1, CreatedKept DEF Sound
    <3> QED
      BY <1>1, <2>1, <3>1, <3>2 DEF Carried
  <2>2. CASE tx.kind # "create"
    BY <1>1, <2>2, SavedCarried
  <2> QED
    BY <2>1, <2>2
<1>4. \A b \in Buckets : KeepsLimit(db, db', b)
  <2> SUFFICES ASSUME NEW b \in Buckets PROVE KeepsLimit(db, db', b)
    OBVIOUS
  <2>1. CASE Ordinary(db, b)
    BY <1>3, <2>1, FewerTasks DEF Carried
  <2>2. CASE ~Ordinary(db, b)
    BY <2>2 DEF KeepsLimit
  <2> QED
    BY <2>1, <2>2
<1> QED
  BY <1>1, <1>3, <1>4 DEF Kept, Carried

LEMMA NextTaskFaithful ==
    ASSUME TypeOK, BoardsFaithful, NEW t \in TaskIds, NextTask(t)
    PROVE  db' = db /\ Faithful(db, w, tx)'
<1> DEFINE d == Saved(tx.task)
           rest == tx.rest \ {t}
           want == tx.want
<1>1. /\ ~Idle /\ tx.todo = {} /\ t \in tx.rest /\ db' = db
      /\ w' = StartDb(d, t, want) /\ tx' = StartTx(d, t, rest, want)
  BY DEF NextTask
<1>2. /\ db \in Database /\ d \in Database /\ want \in Payload
      /\ rest \in SUBSET TaskIds /\ tx.rest = {t} \cup rest
  BY <1>1, OpenTransaction, SavedType DEF TypeOK
<1>3. tx.kind # "create"
  BY <1>1 DEF BoardsFaithful, Faithful, Creating
<1>4. Carried(db, d, {t} \cup rest) /\ \A s \in {t} \cup rest : Untouched(db, d, s)
  BY <1>1, <1>2, <1>3, SavedCarried
<1> HIDE DEF d, want
<1>5. t \notin rest
  OBVIOUS
<1> HIDE DEF rest
<1>6. Faithful(db, w', tx')
  BY <1>1, <1>2, <1>4, <1>5, StartFaithful
<1> QED
  BY <1>1, <1>6, PrimedFaithful

-----------------------------------------------------------------------------
(* The boards stay faithful *)

\* A handler of one step commits at once; the others leave db alone.
LEMMA IdleFaithful ==
    ASSUME BoardsSound', Idle'
    PROVE  BoardsFaithful'
BY DEF BoardsFaithful

LEMMA NextFaithful ==
    ASSUME TypeOK, BoardsFaithful, OtherPaths = FALSE, OtherProjects = FALSE, Next
    PROVE  Kept(db, db') /\ BoardsFaithful'
<1>1. BoardsSound /\ BoardsSound' /\ ~OtherPaths /\ ~OtherProjects
  BY NextSound DEF BoardsFaithful
<1>2. db' = db /\ Faithful(db, w, tx)' => Kept(db, db') /\ BoardsFaithful'
  <2> SUFFICES ASSUME db' = db, Faithful(db, w, tx)'
               PROVE  Kept(db, db') /\ BoardsFaithful'
    OBVIOUS
  <2>1. BoardsFaithful'
    BY <1>1 DEF BoardsFaithful
  <2> QED
    BY <2>1, NothingChanged
<1>3. Kept(db, db') /\ Idle' => Kept(db, db') /\ BoardsFaithful'
  BY <1>1, IdleFaithful
<1>4. CASE \E v \in ViewIds, p \in Projects, mode \in Modes, filtered \in BOOLEAN :
              CreateView(v, p, mode, filtered)
  <2>1. Idle'
    BY <1>4 DEF CreateView, CommitNow, Idle
  <2> QED
    BY <1>1, <1>3, <1>4, <2>1, CreateViewKept
<1>5. CASE \E v \in ViewIds, mode \in Modes, filtered \in BOOLEAN,
              default, doneBucket \in BucketIds :
                 UpdateView(v, mode, filtered, default, doneBucket)
  <2>1. Idle'
    BY <1>5 DEF UpdateView, CommitNow, Idle
  <2> QED
    BY <1>1, <1>3, <1>5, <2>1, UpdateViewKept
<1>6. CASE \E v \in ViewIds : DeleteView(v)
  <2>1. Idle'
    BY <1>6 DEF DeleteView, CommitNow, Idle
  <2> QED
    BY <1>1, <1>3, <1>6, <2>1, DeleteViewKept
<1>7. CASE \E v \in ViewIds : PlaceInView(v)
  BY <1>2, <1>7, PlaceInViewFaithful
<1>8. CASE \E v \in ViewIds : Rollback(v)
  <2>1. Idle' /\ db' = db
    BY <1>8 DEF Rollback, Idle
  <2> QED
    BY <1>3, <2>1, NothingChanged
<1>9. CASE \E v \in ViewIds, limit \in Limits, pos \in Positions :
              CreateBucket(v, limit, pos)
  <2>1. Idle'
    BY <1>9 DEF CreateBucket, CommitNow, Idle
  <2> QED
    BY <1>3, <1>9, <2>1, CreateBucketKept
<1>10. CASE \E b \in Buckets :
              \E limit \in Limits, pos \in Positions \cup {db.bucket[b].pos} :
                 UpdateBucket(b, limit, pos)
  <2>1. Idle'
    BY <1>10 DEF UpdateBucket, CommitNow, Idle
  <2> QED
    BY <1>3, <1>10, <2>1, UpdateBucketKept
<1>11. CASE \E b \in Buckets, v \in ViewIds :
               v = db.bucket[b].view /\ DeleteBucket(b, v)
  <2>1. Idle'
    BY <1>11 DEF DeleteBucket, CommitNow, Idle
  <2> QED
    BY <1>1, <1>3, <1>11, <2>1, OwnPath, DeleteBucketKept
<1>12. CASE \E b \in Buckets, t \in TaskIds : OwnProject(t, b) /\ MoveTask(t, b)
  <2>1. Idle'
    BY <1>12 DEF MoveTask, CommitNow, Idle
  <2> QED
    BY <1>1, <1>3, <1>12, <2>1, MoveTaskKept
<1>13. CASE \E t \in TaskIds : DeleteTask(t)
  <2>1. Idle'
    BY <1>13 DEF DeleteTask, CommitNow, Idle
  <2> QED
    BY <1>3, <1>13, <2>1, DeleteTaskKept
<1>14. CASE \E t \in TaskIds, p \in Projects, done, repeating \in BOOLEAN,
               b \in BucketIds : CreateTask(t, p, done, repeating, b)
  <2>1. Idle'
    BY <1>14 DEF CreateTask, CommitNow, Idle
  <2> QED
    BY <1>1, <1>3, <1>14, <2>1, CreateTaskKept
<1>15. CASE \E t \in TaskIds, p \in Projects, repeating \in BOOLEAN, b \in Buckets :
              CreateDoneTask(t, p, repeating, b)
  BY <1>1, <1>2, <1>15, CreateDoneTaskFaithful
<1>16. CASE \E t \in TaskIds, done, repeating \in BOOLEAN, p \in Projects :
              UpdateTask(t, done, repeating, p)
  BY <1>1, <1>2, <1>16, UpdateTaskFaithful
<1>17. CASE \E t \in TaskIds, done, repeating \in BOOLEAN, p \in Projects,
               rest \in SUBSET TaskIds, cols \in BulkColumns :
                  BulkUpdate(t, rest, cols, done, repeating, p)
  BY <1>1, <1>2, <1>17, BulkUpdateFaithful
<1>18. CASE \E t \in TaskIds : NextTask(t)
  BY <1>2, <1>18, NextTaskFaithful
<1>19. CASE FinishTask
  BY <1>3, <1>19, FinishTaskKept
<1> QED
  BY <1>4, <1>5, <1>6, <1>7, <1>8, <1>9, <1>10, <1>11, <1>12, <1>13, <1>14, <1>15,
     <1>1, <1>16, <1>17, <1>18, <1>19 DEF Next

\* With requests as the user interface sends them (neither OtherPaths nor
\* OtherProjects, here and in the theorems that follow): whatever transaction is
\* open, what it has written so far breaks none of the action properties, the task
\* at hand aside.
THEOREM BoardsStayFaithful ==
    ASSUME OtherPaths = FALSE, OtherProjects = FALSE
    PROVE  Spec => []BoardsFaithful
<1>1. Init => BoardsFaithful
  BY InitSound DEF BoardsFaithful, Init, Idle
<1>2. TypeOK /\ BoardsFaithful /\ BoardsSound' /\ [Next]_vars => BoardsFaithful'
  <2> SUFFICES ASSUME TypeOK, BoardsFaithful, BoardsSound', [Next]_vars
               PROVE  BoardsFaithful'
    OBVIOUS
  <2>1. CASE Next
    BY <2>1, NextFaithful
  <2>2. CASE UNCHANGED vars
    <3>1. db' = db /\ w' = w /\ tx' = tx
      BY <2>2 DEF vars
    <3>2. Faithful(db, w, tx) => Faithful(db, w, tx)'
      BY <3>1, PrimedFaithful
    <3> QED
      BY <3>1, <3>2 DEF BoardsFaithful, Idle
  <2> QED
    BY <2>1, <2>2
<1> QED
  BY <1>1, <1>2, TypeCorrect, BoardsStaySound, PTL DEF Spec

\* What the five action properties say of one step.
LEMMA StepKept ==
    ASSUME TypeOK, BoardsFaithful, OtherPaths = FALSE, OtherProjects = FALSE,
           [Next]_vars
    PROVE  Kept(db, db')
<1>1. CASE Next
  BY <1>1, NextFaithful
<1>2. CASE UNCHANGED vars
  BY <1>2, NothingChanged DEF vars
<1> QED
  BY <1>1, <1>2

\* A task that stays in its project never falls off one of its manual kanbans,
\* whatever is moved, saved, deleted or rolled back.
THEOREM TasksKeepTheirPlace ==
    ASSUME OtherPaths = FALSE, OtherProjects = FALSE
    PROVE  Spec => KeepsItsPlace
<1>1. TypeOK /\ BoardsFaithful /\ [Next]_vars =>
         [\A t \in TaskIds : KeepsPlace(db, db', t)]_vars
  BY StepKept DEF Kept, TaskKept
<1> QED
  BY <1>1, TypeCorrect, BoardsStayFaithful, PTL DEF Spec, KeepsItsPlace

\* However a task that does not repeat becomes done, by a move, an update, a bulk
\* update or its creation, every board of its project has it in the done bucket.
THEOREM DoneTasksReachEveryBoard ==
    ASSUME OtherPaths = FALSE, OtherProjects = FALSE
    PROVE  Spec => DoneReachesEveryBoard
<1>1. TypeOK /\ BoardsFaithful /\ [Next]_vars =>
         [\A t \in TaskIds : ReachesDoneBuckets(db, db', t)]_vars
  BY StepKept DEF Kept, TaskKept
<1> QED
  BY <1>1, TypeCorrect, BoardsStayFaithful, PTL DEF Spec, DoneReachesEveryBoard

\* A done task stays in the done bucket of a board until it is opened, moved to
\* another project or the board is changed.
THEOREM DoneTasksStay ==
    ASSUME OtherPaths = FALSE, OtherProjects = FALSE
    PROVE  Spec => DoneStaysInDoneBucket
<1>1. TypeOK /\ BoardsFaithful /\ [Next]_vars =>
         [\A t \in TaskIds : StaysInDoneBuckets(db, db', t)]_vars
  BY StepKept DEF Kept, TaskKept
<1> QED
  BY <1>1, TypeCorrect, BoardsStayFaithful, PTL DEF Spec, DoneStaysInDoneBucket

\* No request leaves a task done that was open and repeating.
THEOREM RepeatingTasksStayOpen ==
    ASSUME OtherPaths = FALSE, OtherProjects = FALSE
    PROVE  Spec => RepeatingTasksReopen
<1>1. TypeOK /\ BoardsFaithful /\ [Next]_vars =>
         [\A t \in TaskIds : Reopens(db, db', t)]_vars
  BY StepKept DEF Kept, TaskKept
<1> QED
  BY <1>1, TypeCorrect, BoardsStayFaithful, PTL DEF Spec, RepeatingTasksReopen

\* A bucket which is neither a default, the leftmost nor a done bucket takes no task
\* beyond its limit, unless its view has a filter.
THEOREM LimitsKept ==
    ASSUME OtherPaths = FALSE, OtherProjects = FALSE
    PROVE  Spec => OrdinaryBucketsKeepLimit
<1>1. TypeOK /\ BoardsFaithful /\ [Next]_vars =>
         [\A b \in Buckets : KeepsLimit(db, db', b)]_vars
  BY StepKept DEF Kept
<1> QED
  BY <1>1, TypeCorrect, BoardsStayFaithful, PTL DEF Spec, OrdinaryBucketsKeepLimit
=============================================================================
