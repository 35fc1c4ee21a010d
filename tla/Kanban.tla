------------------------------- MODULE Kanban -------------------------------
(***************************************************************************)
(* The kanban boards of a project: tasks, project views, buckets and the   *)
(* task_buckets rows that put a task into one bucket per view.             *)
(*                                                                         *)
(* A handler runs in one database transaction.  Handlers that touch one    *)
(* row set are a single step.  Creating a task in a done bucket and        *)
(* updating tasks loop over the views of a project and call                *)
(* updateTaskBucket for each one: there every iteration is a step of its   *)
(* own on the transaction's copy `w`, the copy becomes `db` at the commit  *)
(* and is dropped on the first error.  The properties speak about `db`.    *)
(***************************************************************************)
EXTENDS Integers, FiniteSets

CONSTANTS
    Projects,       \* ids of projects, all of them ordinary (no saved filter)
    TaskIds,        \* ids of tasks, used once each
    ViewIds,        \* ids of project views, used once each
    MaxBucket,      \* bound: bucket ids 1..MaxBucket are handed out in order
    Limits,         \* bucket limits a user may set; 0 is "no limit"
    Positions,      \* bucket positions a user may send; 0 is "not given"
    BulkColumns,    \* the sets of columns bulk updates are offered with
    MaxConfig,      \* bound on later changes of views and buckets in one behaviour
    OtherPaths,     \* whether a bucket is also deleted by another view's path
    OtherProjects,  \* whether a task is also moved to a bucket of another project
    NoView,         \* the view of a bucket id which was never handed out
    NoTx            \* no transaction is open

ASSUME ConstantsAssumption ==
    /\ MaxBucket \in Nat
    /\ MaxConfig \in Nat
    /\ Limits \subseteq Nat /\ 0 \in Limits
    /\ Positions \subseteq Nat
    /\ BulkColumns \subseteq SUBSET {"done", "repeat_after", "project_id"}
    /\ Projects # {}
    /\ OtherPaths \in BOOLEAN /\ OtherProjects \in BOOLEAN
    /\ NoView \notin ViewIds
    /\ IsFiniteSet(TaskIds)

VARIABLES
    db,     \* the committed database
    w,      \* the database as the open transaction sees it; db when none is
    tx,     \* the open transaction, or NoTx
    configs \* how many times views and buckets were changed, creating views aside

vars == <<db, w, tx, configs>>

Buckets == 1..MaxBucket
NoBucket == 0           \* the zero value of a bucket id: no row, or no such setting
BucketIds == Buckets \cup {NoBucket}
Modes == {"manual", "filter", "list"}   \* "list": every kind that is not kanban
Statuses == {"none", "live", "gone"}    \* "gone": deleted, softly for a task

TaskRec == [status : Statuses, project : Projects,
            done : BOOLEAN, repeating : BOOLEAN]
ViewRec == [status : Statuses, project : Projects, mode : Modes,
            filtered : BOOLEAN,   \* the view shows the tasks of a filter only
            default : BucketIds, doneBucket : BucketIds]
BucketRec == [view : ViewIds \cup {NoView}, live : BOOLEAN,
              limit : Limits, pos : Nat]
Database == [task : [TaskIds -> TaskRec],
             view : [ViewIds -> ViewRec],
             bucket : [Buckets -> BucketRec],
             row : [TaskIds -> [ViewIds -> BucketIds]],
             next : 1..(MaxBucket + 1)]

\* What a request sends: the columns to write and their values.
Columns == {"done", "repeat_after", "project_id"}
Payload == [cols : SUBSET Columns, done : BOOLEAN,
            repeating : BOOLEAN, project : Projects]
AnyProject == CHOOSE p \in Projects : TRUE
Transaction == [kind : {"create", "move", "done", "reopen", "plain"},
                task : TaskIds, rest : SUBSET TaskIds, want : Payload,
                todo : SUBSET ViewIds, new : TaskRec]

ASSUME NoTxAssumption == NoTx \notin Transaction

-----------------------------------------------------------------------------
(* Reading the database *)

LiveTasks(d) == {t \in TaskIds : d.task[t].status = "live"}
LiveViews(d, p) ==
    {v \in ViewIds : d.view[v].status = "live" /\ d.view[v].project = p}
ManualViews(d, p) == {v \in LiveViews(d, p) : d.view[v].mode = "manual"}
BucketsOf(d, v) == {b \in Buckets : d.bucket[b].live /\ d.bucket[b].view = v}
TasksIn(d, b) == {t \in TaskIds : \E v \in ViewIds : d.row[t][v] = b}

IsLeftmost(d, v, b) ==
    /\ b \in BucketsOf(d, v)
    /\ \A c \in BucketsOf(d, v) :
          \/ d.bucket[b].pos < d.bucket[c].pos
          \/ d.bucket[b].pos = d.bucket[c].pos /\ b <= c

\* getDefaultBucketID with the view's default_bucket_id passed in
DefaultOr(d, v, default) ==
    IF default # NoBucket THEN default
    ELSE IF BucketsOf(d, v) = {} THEN NoBucket
    ELSE CHOOSE b \in Buckets : IsLeftmost(d, v, b)

getDefaultBucketID(d, v) == DefaultOr(d, v, d.view[v].default)

\* Mutated: one task too many is let in.
FullWhenExceeded(d, b) ==
    /\ d.bucket[b].limit > 0
    /\ Cardinality(TasksIn(d, b)) > d.bucket[b].limit

\* The rows of the bucket leave no room for one more task.
Full(d, b) ==
    /\ d.bucket[b].limit > 0
    /\ Cardinality(TasksIn(d, b)) >= d.bucket[b].limit

\* checkBucketLimit may accept one more task.  In a view with a filter it counts
\* the tasks the filter lets through, which may be any number of the rows.
HasRoom(d, v, b) == d.view[v].filtered \/ ~Full(d, b)

(* Writing tables of the database *)

WithTasks(d, f) == [d EXCEPT !.task = f]
WithViews(d, f) == [d EXCEPT !.view = f]
WithBuckets(d, f) == [d EXCEPT !.bucket = f]
WithRows(d, f) == [d EXCEPT !.row = f]
WithNext(d, n) == [d EXCEPT !.next = n]

-----------------------------------------------------------------------------
(* updateTaskBucket: put task t into bucket b of view v *)

CanPut(d, t, v, b) ==
    \/ d.row[t][v] = b
    \/ /\ b \in BucketsOf(d, v)
       /\ HasRoom(d, v, b)

\* With a filter the count decides, so both may hold.
CanRefuse(d, t, v, b) ==
    /\ d.row[t][v] # b
    /\ b \notin BucketsOf(d, v) \/ Full(d, b)

IntoDone(d, t, v, b) ==
    /\ b # NoBucket
    /\ d.view[v].doneBucket = b
    /\ ~d.task[t].done

\* Mutated: a task moved out of the done bucket stays done.
NeverOutOfDone(d, t, v, b) == FALSE

OutOfDone(d, t, v, b) ==
    /\ d.view[v].doneBucket # NoBucket
    /\ d.row[t][v] = d.view[v].doneBucket
    /\ b # d.view[v].doneBucket
    /\ d.task[t].done

\* Mutated: without a default bucket the repeating task goes nowhere.
DefaultTarget(d, t, v, b) ==
    IF IntoDone(d, t, v, b) /\ d.task[t].repeating THEN d.view[v].default ELSE b

\* A repeating task does not stay in the done bucket: it is done for this time
\* and goes back to the default bucket, or stays where it was.
PutTarget(d, t, v, b) ==
    IF IntoDone(d, t, v, b) /\ d.task[t].repeating
    THEN IF d.view[v].default # NoBucket THEN d.view[v].default ELSE d.row[t][v]
    ELSE b

PutDone(d, t, v, b) ==
    \/ d.task[t].done /\ ~OutOfDone(d, t, v, b)
    \/ IntoDone(d, t, v, b) /\ ~d.task[t].repeating

\* Mutated: only the board of the move is kept in step.
NoOtherDoneViews(d, t, v, b) == {}

\* The other boards of the view's project whose done bucket receives the task.
OtherDoneViews(d, t, v, b) ==
    IF IntoDone(d, t, v, b) /\ ~d.task[t].repeating
    THEN {u \in ManualViews(d, d.view[v].project) \ {v} :
             d.view[u].doneBucket # NoBucket}
    ELSE {}

PutRow(d, t, v, b) ==
    [u \in ViewIds |->
        IF u = v THEN PutTarget(d, t, v, b)
        ELSE IF u \in OtherDoneViews(d, t, v, b) THEN d.view[u].doneBucket
        ELSE d.row[t][u]]

\* Mutated: the other boards get the bucket of this move.
SameBucketEverywhere(d, t, v, b) ==
    IF d.row[t][v] = b
    THEN d
    ELSE WithRows(WithTasks(d, [d.task EXCEPT ![t].done = PutDone(d, t, v, b)]),
                  [d.row EXCEPT ![t] = [u \in ViewIds |->
                      IF u = v THEN PutTarget(d, t, v, b)
                      ELSE IF u \in OtherDoneViews(d, t, v, b) THEN b
                      ELSE d.row[t][u]]])

updateTaskBucket(d, t, v, b) ==
    IF d.row[t][v] = b
    THEN d
    ELSE WithRows(WithTasks(d, [d.task EXCEPT ![t].done = PutDone(d, t, v, b)]),
                  [d.row EXCEPT ![t] = PutRow(d, t, v, b)])

-----------------------------------------------------------------------------
(* Creating and saving views *)

\* To-Do, Doing and Done of createDefaultKanbanBuckets: three fresh ids, the
\* first becomes the default bucket and the last one the done bucket.
CanSeed(d) == d.next + 2 \in Buckets

SeededBuckets(d, v) ==
    [b \in Buckets |->
        IF b \in d.next .. (d.next + 2)
        THEN [view |-> v, live |-> TRUE, limit |-> 0, pos |-> 100 * (b - d.next + 1)]
        ELSE d.bucket[b]]

WithIds(d, v, default, doneBucket) ==
    WithViews(d, [d.view EXCEPT ![v] = [@ EXCEPT !.default = default,
                                                 !.doneBucket = doneBucket]])

WithDefaultBuckets(d, v) ==
    WithIds(WithNext(WithBuckets(d, SeededBuckets(d, v)), d.next + 3),
            v, d.next, d.next + 2)

\* Mutated: deleted tasks come back.
WithDeletedTasksAdded(d, v, b) ==
    WithRows(d, [t \in TaskIds |-> [u \in ViewIds |->
       IF /\ u = v
          /\ d.task[t].project = d.view[v].project
          /\ d.row[t][v] = NoBucket
       THEN b ELSE d.row[t][u]]])

\* addTasksToView: tasks of the project without a row in the view get bucket b
WithTasksAdded(d, v, b) ==
    WithRows(d, [t \in TaskIds |-> [u \in ViewIds |->
       IF /\ u = v
          /\ t \in LiveTasks(d)
          /\ d.task[t].project = d.view[v].project
          /\ d.row[t][v] = NoBucket
       THEN b ELSE d.row[t][u]]])

WithKind(d, v, mode, filtered) ==
    WithViews(d, [d.view EXCEPT ![v] = [@ EXCEPT !.mode = mode, !.filtered = filtered]])

\* existingBucketID, and resolveBucketID for an id of this view: a bucket which
\* is gone becomes "none".
existingBucketID(d, v, b) == IF b \in BucketsOf(d, v) THEN b ELSE NoBucket

\* ProjectView.Update up to the save.  A view that is no kanban keeps the bucket
\* ids it has stored.
WithViewSaved(d, v, mode, filtered, default, doneBucket) ==
    IF mode = "list" THEN WithKind(d, v, mode, filtered)
    ELSE WithIds(WithKind(d, v, mode, filtered), v, existingBucketID(d, v, default),
                 existingBucketID(d, v, doneBucket))

\* Mutated: the previous ids are restored unseen.
WithIdsRestored(d, o, v) ==
    WithIds(d, v,
            IF d.view[v].default # NoBucket THEN d.view[v].default
            ELSE o.view[v].default,
            IF d.view[v].doneBucket # NoBucket THEN d.view[v].doneBucket
            ELSE o.view[v].doneBucket)

\* healBucketIDs, o being the database before the save
KeptBucketID(d, v, id, previous) ==
    IF id # NoBucket THEN id ELSE existingBucketID(d, v, previous)

WithIdsHealed(d, o, v) ==
    WithIds(d, v,
            DefaultOr(d, v, KeptBucketID(d, v, d.view[v].default, o.view[v].default)),
            KeptBucketID(d, v, d.view[v].doneBucket, o.view[v].doneBucket))

\* syncManualKanbanBuckets for a view which just became a manual kanban
WithKanbanSynced(d, o, v) ==
    LET s == IF BucketsOf(d, v) # {} THEN WithIdsHealed(d, o, v)
             ELSE WithDefaultBuckets(d, v)
    IN WithTasksAdded(s, v, s.view[v].default)

-----------------------------------------------------------------------------
(* Transactions *)

NoTask == [status |-> "none", project |-> AnyProject,
           done |-> FALSE, repeating |-> FALSE]

Init ==
    /\ db = [task |-> [t \in TaskIds |-> NoTask],
             view |-> [v \in ViewIds |->
                 [status |-> "none", project |-> AnyProject, mode |-> "list",
                  filtered |-> FALSE, default |-> NoBucket, doneBucket |-> NoBucket]],
             bucket |-> [b \in Buckets |->
                 [view |-> NoView, live |-> FALSE, limit |-> 0, pos |-> 0]],
             row |-> [t \in TaskIds |-> [v \in ViewIds |-> NoBucket]],
             next |-> 1]
    /\ w = db
    /\ tx = NoTx
    /\ configs = 0

Idle == tx = NoTx

\* The whole handler in one step.
CommitNow(d) ==
    /\ db' = d
    /\ w' = d
    /\ tx' = NoTx

Handler == Idle /\ UNCHANGED configs
ConfigHandler == Idle /\ configs < MaxConfig /\ configs' = configs + 1

(* Views and buckets *)

CreateView(v, p, mode, filtered) ==
    LET d == WithViews(db, [db.view EXCEPT ![v] =
                 [status |-> "live", project |-> p, mode |-> mode,
                  filtered |-> filtered, default |-> NoBucket, doneBucket |-> NoBucket]])
    IN /\ Handler
       /\ db.view[v].status = "none"
       /\ IF mode = "manual"
          THEN /\ CanSeed(d)
               /\ LET s == WithDefaultBuckets(d, v)
                  IN CommitNow(WithTasksAdded(s, v, s.view[v].default))
          ELSE CommitNow(d)

\* An id of a bucket which is gone is taken as "none", an id of another view's
\* bucket is refused: neither adds an outcome to the ids offered here.
UpdateView(v, mode, filtered, default, doneBucket) ==
    LET d == WithViewSaved(db, v, mode, filtered, default, doneBucket)
        becameManual == mode = "manual" /\ db.view[v].mode # "manual"
    IN /\ ConfigHandler
       /\ db.view[v].status = "live"
       /\ {default, doneBucket} \subseteq BucketsOf(db, v) \cup {NoBucket}
       /\ becameManual /\ BucketsOf(d, v) = {} => CanSeed(d)
       /\ CommitNow(IF becameManual THEN WithKanbanSynced(d, db, v) ELSE d)

\* The buckets stay behind.
DeleteView(v) ==
    /\ ConfigHandler
    /\ db.view[v].status = "live"
    /\ CommitNow(WithRows(WithViews(db, [db.view EXCEPT ![v].status = "gone"]),
                          [t \in TaskIds |-> [db.row[t] EXCEPT ![v] = NoBucket]]))

CreateBucket(v, limit, pos) ==
    /\ ConfigHandler
    /\ db.view[v].status = "live"
    /\ db.next \in Buckets
    /\ CommitNow(WithNext(
          WithBuckets(db, [db.bucket EXCEPT ![db.next] =
             [view |-> v, live |-> TRUE, limit |-> limit,
              pos |-> IF pos = 0 THEN db.next * 65536 ELSE pos]]),
          db.next + 1))

\* canDoBucket compares the projects of the view in the request's path and of the
\* bucket's own view, not the views.
BucketReachable(b, pathView) ==
    /\ db.bucket[b].live
    /\ db.bucket[b].view \in ViewIds
    /\ db.view[db.bucket[b].view].status = "live"
    /\ db.view[pathView].status = "live"
    /\ db.view[pathView].project = db.view[db.bucket[b].view].project

UpdateBucket(b, limit, pos) ==
    /\ ConfigHandler
    /\ BucketReachable(b, db.bucket[b].view)
    /\ CommitNow(WithBuckets(db, [db.bucket EXCEPT
          ![b] = [@ EXCEPT !.limit = limit, !.pos = pos]]))

\* Mutated: the last bucket may go as well.
AnyBucketRemovable(v) == Cardinality(BucketsOf(db, v)) >= 1

BucketRemovable(v) == Cardinality(BucketsOf(db, v)) > 1

\* The bucket that takes over the tasks is looked up before b is removed.  It is
\* looked up, and the buckets are counted, in the view v of the request's path.
DeleteBucket(b, v) ==
    LET default == db.view[v].default
        doneBucket == db.view[v].doneBucket
        cleared == b \in {default, doneBucket}
        newDefault == IF default = b THEN NoBucket ELSE default
        newDone == IF doneBucket = b THEN NoBucket ELSE doneBucket
        d == IF cleared
             THEN WithViewSaved(db, v, db.view[v].mode, db.view[v].filtered,
                                newDefault, newDone)
             ELSE db
        target == DefaultOr(db, v, IF cleared
                                   THEN existingBucketID(db, v, newDefault)
                                   ELSE default)
    IN /\ ConfigHandler
       /\ BucketReachable(b, v)
       /\ BucketRemovable(v)
       /\ CommitNow(WithRows(
             WithBuckets(d, [d.bucket EXCEPT ![b].live = FALSE]),
             [t \in TaskIds |-> [u \in ViewIds |->
                 IF db.row[t][u] = b THEN target ELSE db.row[t][u]]]))

(* Tasks *)

\* TaskBucket.Update.  The task is named in the body: nothing compares its
\* project with the one of the bucket.
MoveTask(t, b) ==
    LET v == db.bucket[b].view
    IN /\ Handler
       /\ t \in LiveTasks(db)
       /\ db.bucket[b].live
       /\ v \in ViewIds /\ db.view[v].status = "live"
       /\ CanPut(db, t, v, b)
       /\ CommitNow(updateTaskBucket(db, t, v, b))

\* Nothing reads the columns of a deleted task again: they are forgotten here.
DeleteTask(t) ==
    /\ Handler
    /\ t \in LiveTasks(db)
    /\ CommitNow(WithRows(
          WithTasks(db, [db.task EXCEPT ![t] = [NoTask EXCEPT !.status = "gone"]]),
          [db.row EXCEPT ![t] = [v \in ViewIds |-> NoBucket]]))

\* resolveProvidedBuckets
BucketAccepted(b, p) ==
    \/ b = NoBucket
    \/ /\ b \in Buckets
       /\ db.bucket[b].live
       /\ db.bucket[b].view \in LiveViews(db, p)
       /\ HasRoom(db, db.bucket[b].view, b)

\* setTasksInBucketInViews, when the task is not created in a done bucket
CreationRow(v, done, b) ==
    IF done /\ db.view[v].doneBucket # NoBucket THEN db.view[v].doneBucket
    ELSE IF b # NoBucket /\ db.bucket[b].view = v THEN b
    ELSE getDefaultBucketID(db, v)

CreatedInDone(p, done, b) ==
    /\ ~done
    /\ b # NoBucket
    /\ \E v \in ManualViews(db, p) : db.view[v].doneBucket = b

NewTask(p, done, repeating) ==
    [status |-> "live", project |-> p, done |-> done, repeating |-> repeating]

CreateTask(t, p, done, repeating, b) ==
    /\ Handler
    /\ db.task[t].status = "none"
    /\ BucketAccepted(b, p)
    /\ ~CreatedInDone(p, done, b)
    /\ CommitNow(WithRows(
          WithTasks(db, [db.task EXCEPT ![t] = NewTask(p, done, repeating)]),
          [db.row EXCEPT ![t] = [v \in ViewIds |->
              IF v \in ManualViews(db, p) THEN CreationRow(v, done, b)
              ELSE NoBucket]]))

\* Created in a done bucket the task is done, and only moveTaskToDoneBuckets
\* places it.  Every view of the project is visited, kanban or not.
CreateDoneTask(t, p, repeating, b) ==
    LET new == NewTask(p, TRUE, repeating)
    IN /\ Handler
       /\ db.task[t].status = "none"
       /\ BucketAccepted(b, p)
       /\ CreatedInDone(p, FALSE, b)
       /\ w' = WithTasks(db, [db.task EXCEPT ![t] = new])
       /\ tx' = [kind |-> "create", task |-> t, rest |-> {}, todo |-> LiveViews(db, p),
                 new |-> new,
                 want |-> [cols |-> {}, done |-> FALSE,
                           repeating |-> FALSE, project |-> p]]
       /\ UNCHANGED db

(* Updating one task or several: updateSingleTask for each of them *)

\* What the task is to become: columns which are not written keep their value.
Wanted(d, t, want) ==
    [d.task[t] EXCEPT
       !.done = IF "done" \in want.cols THEN want.done ELSE @,
       !.repeating = IF "repeat_after" \in want.cols THEN want.repeating ELSE @,
       !.project = IF "project_id" \in want.cols THEN want.project ELSE @]

UpdateKind(old, new) ==
    CASE new.project # old.project -> "move"
      [] new.project = old.project /\ ~new.repeating /\ new.done # old.done -> "done"
      [] new.project = old.project /\ new.repeating /\ ~old.done /\ new.done -> "reopen"
      [] OTHER -> "plain"

StartTx(d, t, rest, want) ==
    LET new == Wanted(d, t, want)
        kind == UpdateKind(d.task[t], new)
    IN [kind |-> kind, task |-> t, rest |-> rest, want |-> want, new |-> new,
        todo |-> IF kind = "plain" THEN {} ELSE ManualViews(d, new.project)]

\* Mutated: a move to another project leaves the old rows.
StartWithOldRows(d, t, want) == d

StartDb(d, t, want) ==
    IF UpdateKind(d.task[t], Wanted(d, t, want)) = "move"
    THEN WithRows(d, [d.row EXCEPT ![t] = [v \in ViewIds |-> NoBucket]])
    ELSE d

Start(t, rest, want) ==
    /\ Handler
    /\ {t} \cup rest \subseteq LiveTasks(db)
    /\ tx' = StartTx(db, t, rest, want)
    /\ w' = StartDb(db, t, want)
    /\ UNCHANGED db

\* Task.Update writes every column.
UpdateTask(t, done, repeating, p) ==
    Start(t, {}, [cols |-> Columns, done |-> done,
                  repeating |-> repeating, project |-> p])

\* BulkTask.Update: the first task is t.  A column which is not among `cols` has
\* any value in the request, here always the same.
BulkUpdate(t, rest, cols, done, repeating, p) ==
    /\ t \notin rest
    /\ done => "done" \in cols
    /\ repeating => "repeat_after" \in cols
    /\ "project_id" \notin cols => p = AnyProject
    /\ Start(t, rest, [cols |-> cols, done |-> done,
                       repeating |-> repeating, project |-> p])

\* The loops of the project move, of moveTaskToDoneBuckets and of
\* moveTaskToDefaultBuckets: which views they leave alone ...
SkipsView(v) ==
    LET doneBucket == w.view[v].doneBucket
    IN \/ /\ tx.kind \in {"create", "done"}
          /\ IF tx.new.done THEN doneBucket = NoBucket
             ELSE w.row[tx.task][v] # doneBucket
       \/ /\ tx.kind = "reopen"
          /\ w.view[v].default = NoBucket

\* ... and the bucket they ask for in the others.
LoopTarget(v) ==
    IF /\ tx.kind # "reopen"
       /\ tx.new.done
       /\ w.view[v].doneBucket # NoBucket
    THEN w.view[v].doneBucket
    ELSE getDefaultBucketID(w, v)

PlaceInView(v) ==
    /\ ~Idle
    /\ v \in tx.todo
    /\ SkipsView(v) \/ CanPut(w, tx.task, v, LoopTarget(v))
    /\ w' = IF SkipsView(v) THEN w
            ELSE updateTaskBucket(w, tx.task, v, LoopTarget(v))
    /\ tx' = [tx EXCEPT !.todo = @ \ {v}]
    /\ UNCHANGED <<db, configs>>

\* An error anywhere takes back everything the transaction wrote.
Rollback(v) ==
    /\ ~Idle
    /\ v \in tx.todo
    /\ ~SkipsView(v)
    /\ CanRefuse(w, tx.task, v, LoopTarget(v))
    /\ w' = db
    /\ tx' = NoTx
    /\ UNCHANGED <<db, configs>>

\* Mutated: the repetition does not open the task again.
StaysDone(t) == tx.new.done

\* updateDone: a task which repeated before the update is open again
FinalDone(t) == tx.new.done /\ ~(db.task[t].repeating /\ ~db.task[t].done)

\* The columns written at the end; the loop may have written `done` before.
Saved(t) ==
    WithTasks(w, [w.task EXCEPT ![t] =
       [tx.new EXCEPT !.done = IF "done" \in tx.want.cols THEN FinalDone(t)
                               ELSE w.task[t].done]])

FinishTask ==
    /\ ~Idle
    /\ tx.todo = {}
    /\ tx.rest = {}
    /\ CommitNow(IF tx.kind = "create" THEN w ELSE Saved(tx.task))
    /\ UNCHANGED configs

\* The bulk update goes on with the next task in the same transaction.
NextTask(t) ==
    /\ ~Idle
    /\ tx.todo = {}
    /\ t \in tx.rest
    /\ LET s == Saved(tx.task)
       IN /\ tx' = StartTx(s, t, tx.rest \ {t}, tx.want)
          /\ w' = StartDb(s, t, tx.want)
    /\ UNCHANGED <<db, configs>>

\* The bucket is one of the task's own project.
OwnProject(t, b) ==
    \A v \in ViewIds : db.bucket[b].view = v => db.task[t].project = db.view[v].project

\* The handlers accept the requests of both kinds; OtherPaths and OtherProjects
\* say which are sent.
Next ==
    \/ \E v \in ViewIds :
          \/ \E p \in Projects, mode \in Modes, filtered \in BOOLEAN :
                CreateView(v, p, mode, filtered)
          \/ \E mode \in Modes, filtered \in BOOLEAN, default, doneBucket \in BucketIds :
                UpdateView(v, mode, filtered, default, doneBucket)
          \/ DeleteView(v)
          \/ \E limit \in Limits, pos \in Positions : CreateBucket(v, limit, pos)
          \/ PlaceInView(v)
          \/ Rollback(v)
    \/ \E b \in Buckets :
          \/ \E limit \in Limits, pos \in Positions \cup {db.bucket[b].pos} :
                UpdateBucket(b, limit, pos)
          \/ \E v \in ViewIds :
                (OtherPaths \/ v = db.bucket[b].view) /\ DeleteBucket(b, v)
          \/ \E t \in TaskIds : (OtherProjects \/ OwnProject(t, b)) /\ MoveTask(t, b)
    \/ \E t \in TaskIds :
          \/ DeleteTask(t)
          \/ \E p \in Projects, done, repeating \in BOOLEAN, b \in BucketIds :
                CreateTask(t, p, done, repeating, b)
          \/ \E p \in Projects, repeating \in BOOLEAN, b \in Buckets :
                CreateDoneTask(t, p, repeating, b)
          \/ \E done, repeating \in BOOLEAN, p \in Projects :
                \/ UpdateTask(t, done, repeating, p)
                \/ \E rest \in SUBSET TaskIds, cols \in BulkColumns :
                      BulkUpdate(t, rest, cols, done, repeating, p)
          \/ NextTask(t)
    \/ FinishTask

Spec == Init /\ [][Next]_vars

-----------------------------------------------------------------------------
(* Properties *)

\* Every variable has a value of its type.
TypeOK ==
    /\ db \in Database
    /\ w \in Database
    /\ tx \in Transaction \cup {NoTx}
    /\ configs \in 0..MaxConfig

\* Bucket b was made for view v, or there is no bucket.
OwnBucket(d, v, b) == b # NoBucket => d.bucket[b].view = v

\* The default and the done bucket of a kanban view exist in database d ...
SettingsExist(d) ==
    \A v \in ViewIds :
       d.view[v].status = "live" /\ d.view[v].mode # "list" =>
          {d.view[v].default, d.view[v].doneBucket}
             \subseteq BucketsOf(d, v) \cup {NoBucket}

\* ... and every manual kanban has a bucket.
HasBuckets(d) ==
    \A v \in ViewIds :
       d.view[v].status = "live" /\ d.view[v].mode = "manual" => BucketsOf(d, v) # {}

RowsOwn(d) == \A t \in TaskIds, v \in ViewIds : OwnBucket(d, v, d.row[t][v])

\* Task t only has rows in live views, of project p unless tasks are moved to the
\* buckets of other projects, and none unless it is live.
RowsAreIn(d, t, p) ==
    \A v \in ViewIds :
       d.row[t][v] # NoBucket =>
          /\ t \in LiveTasks(d) /\ d.view[v].status = "live"
          /\ OtherProjects \/ d.view[v].project = p

RowsFollow(d) == \A t \in TaskIds : RowsAreIn(d, t, d.task[t].project)

\* A row puts a task into a bucket that was made for the row's own view: no
\* sequence of moves, deletions and view changes mixes the buckets of two boards.
\* Provided that buckets are deleted by the path of their own view (~OtherPaths):
\* Bucket.Delete moves the tasks to the default bucket of the path's view.
RowsInView == RowsOwn(db)

\* Only a live task has rows, only in live views and only in those of its own
\* project: what a deletion or a move to another project leaves behind would be
\* counted against bucket limits for ever.  kanban_task_bucket.go:112 says that
\* moves check it ("make sure they belong to the same project as the task"); they
\* compare the bucket with the view only, so it holds if nobody asks for a bucket
\* of another project (~OtherProjects).
RowsFollowTask ==
    \A t \in TaskIds, v \in ViewIds :
       db.row[t][v] # NoBucket =>
          t \in LiveTasks(db) /\ v \in LiveViews(db, db.task[t].project)

\* The default and the done bucket of a kanban view are existing buckets of this
\* view, after every deletion of a bucket by the path of its own view (~OtherPaths)
\* and every change of the kind of view.  Another path's view is the one whose
\* settings Bucket.Delete clears.
BucketSettingsExist == SettingsExist(db)

\* A manual kanban has a bucket to put tasks into.  Bucket.Delete counts the buckets
\* of the path's view (kanban.go:377), so again for ~OtherPaths.
BoardsHaveBuckets == HasBuckets(db)

(* Between a database o and a later one d.  What follows holds for the requests of *)
(* the user interface: ~OtherPaths and ~OtherProjects.                             *)

SameBoard(o, d, v) ==
    /\ d.view[v] = o.view[v]
    /\ o.view[v].mode = "manual"
    /\ o.view[v].doneBucket # NoBucket

SameProject(o, d, t) ==
    t \in LiveTasks(d) /\ d.task[t].project = o.task[t].project

KeepsPlace(o, d, t) ==
    \A v \in ViewIds :
       /\ o.row[t][v] # NoBucket
       /\ SameProject(o, d, t)
       /\ v \in ManualViews(d, o.view[v].project)
       => d.row[t][v] # NoBucket

ReachesDoneBuckets(o, d, t) ==
    /\ ~o.task[t].done /\ d.task[t].done
    /\ t \in LiveTasks(d) /\ ~o.task[t].repeating /\ ~d.task[t].repeating
    => \A v \in LiveViews(d, d.task[t].project) :
          SameBoard(o, d, v) => d.row[t][v] = o.view[v].doneBucket

StaysInDoneBuckets(o, d, t) ==
    \A v \in ViewIds :
       /\ SameBoard(o, d, v) /\ o.row[t][v] = o.view[v].doneBucket
       /\ o.task[t].done /\ d.task[t].done
       /\ SameProject(o, d, t)
       => d.row[t][v] = o.view[v].doneBucket

Reopens(o, d, t) ==
    t \in LiveTasks(o) /\ o.task[t].repeating /\ ~o.task[t].done
       => ~d.task[t].done

\* A task never falls off a board: while it stays in its project and the view
\* stays a manual kanban, the task keeps a row there.
KeepsItsPlace == [][\A t \in TaskIds : KeepsPlace(db, db', t)]_vars

\* A task which becomes done and which does not repeat, before or after, is in
\* the done bucket of every board of its project that has one.  (A move into the
\* done bucket of another project closes the task on that project's boards only.)
DoneReachesEveryBoard == [][\A t \in TaskIds : ReachesDoneBuckets(db, db', t)]_vars

\* A task leaves a done bucket only by being opened again, by going to another
\* project, or because the board itself is changed.
DoneStaysInDoneBucket == [][\A t \in TaskIds : StaysInDoneBuckets(db, db', t)]_vars

\* No request on a task makes a repeating task done that was open: each of them
\* opens it again for the next time.
RepeatingTasksReopen == [][\A t \in TaskIds : Reopens(db, db', t)]_vars

\* kanban.go says the deletion of a bucket "dissociates all of its task": no row
\* names a bucket which is gone.
NoRowOfDeletedBucket ==
    \A t \in TaskIds, v \in ViewIds :
       db.row[t][v] # NoBucket => db.bucket[db.row[t][v]].live

\* Buckets of a kanban which are neither its default, the leftmost nor its done
\* bucket only take tasks someone put there.
Ordinary(d, b) ==
    LET v == d.bucket[b].view
    IN /\ d.bucket[b].live
       /\ v \in ViewIds /\ d.view[v].mode # "list"
       /\ b \notin {getDefaultBucketID(d, v), d.view[v].doneBucket}

KeepsLimit(o, d, b) ==
    /\ Ordinary(o, b) /\ Ordinary(d, b)
    /\ ~d.view[d.bucket[b].view].filtered
    /\ d.bucket[b].limit > 0
    /\ Cardinality(TasksIn(d, b)) > Cardinality(TasksIn(o, b))
    => Cardinality(TasksIn(d, b)) <= d.bucket[b].limit

\* No step fills such a bucket beyond its limit, unless its view has a filter: then
\* only the tasks the filter lets through are counted (tasks.go:850).
OrdinaryBucketsKeepLimit == [][\A b \in Buckets : KeepsLimit(db, db', b)]_vars

(* The inductive invariant *)

\* What every handler finds in the tables it reads, in db and in w alike.  Ids
\* stored in a view which is no kanban may be stale, but never another view's;
\* an id which was not handed out yet names no bucket.
SettingsOwn(d) ==
    \A v \in ViewIds : /\ OwnBucket(d, v, d.view[v].default)
                       /\ OwnBucket(d, v, d.view[v].doneBucket)

FreshUnused(d) ==
    \A b \in Buckets : b >= d.next => d.bucket[b].view = NoView /\ ~d.bucket[b].live

Settled(d) == RowsOwn(d) /\ SettingsOwn(d) /\ FreshUnused(d) /\ SettingsExist(d)

Sound(d) == Settled(d) /\ HasBuckets(d) /\ RowsFollow(d)

\* The project whose boards task t is on in w: the one it is moved to while the
\* open transaction handles it.
Home(t) == IF t = tx.task THEN tx.new.project ELSE w.task[t].project

\* What the open transaction has read stays true until it ends.
TxSound ==
    /\ Settled(w) /\ HasBuckets(w)
    /\ \A t \in TaskIds : RowsAreIn(w, t, Home(t))
    /\ tx.todo \subseteq LiveViews(w, tx.new.project)
    /\ {tx.task} \cup tx.rest \subseteq LiveTasks(w)
    /\ tx.new.status = "live"
    /\ tx.kind = "create" => w.task[tx.task].project = tx.new.project

(* What the open transaction x has done in d to the committed database o *)

\* Nothing, to a task it has not come to.
Untouched(o, d, t) == d.task[t] = o.task[t] /\ d.row[t] = o.row[t]

\* What the steps between two committed databases may do, to one it is through with.
TaskKept(o, d, t) ==
    /\ KeepsPlace(o, d, t)
    /\ ReachesDoneBuckets(o, d, t)
    /\ StaysInDoneBuckets(o, d, t)
    /\ Reopens(o, d, t)

SameButDone(r, s) ==
    s.status = r.status /\ s.project = r.project /\ s.repeating = r.repeating

InDoneBuckets(d, t, views) ==
    \A v \in views :
       d.view[v].doneBucket # NoBucket => d.row[t][v] = d.view[v].doneBucket

\* A task that is created: every board the loop has visited has it in the done
\* bucket.
Creating(o, d, x) ==
    /\ x.rest = {}
    /\ o.task[x.task].status = "none"
    /\ x.new.done /\ d.task[x.task] = x.new
    /\ InDoneBuckets(d, x.task, ManualViews(d, x.new.project) \ x.todo)

\* A task that is updated: only its rows and `done` are written before the end.
\* One that becomes done without repeating is in the done buckets visited; one
\* that is moved as it is may become done on the way, then in all of them.
Updating(o, d, x) ==
    LET t == x.task
        old == o.task[t]
        boards == ManualViews(d, x.new.project)
        once == ~old.repeating /\ ~old.done
    IN /\ x.new = Wanted(o, t, x.want) /\ x.kind = UpdateKind(old, x.new)
       /\ SameButDone(old, d.task[t])
       /\ x.todo \subseteq boards
       /\ old.repeating /\ ~old.done => ~d.task[t].done
       /\ x.kind = "plain" => x.todo = {} /\ Untouched(o, d, t)
       /\ x.kind \in {"done", "reopen"} =>
             \A v \in ViewIds : o.row[t][v] # NoBucket => d.row[t][v] # NoBucket
       /\ x.kind \in {"done", "move"} /\ once /\ x.new.done =>
             InDoneBuckets(d, t, boards \ x.todo)
       /\ x.kind = "move" /\ once /\ ~x.new.done /\ d.task[t].done =>
             InDoneBuckets(d, t, boards)

\* The boards are those of o, tasks in `open` aside every task is kept, and a
\* bucket which is neither a default nor a done bucket only loses tasks.
Carried(o, d, open) ==
    /\ d.view = o.view /\ d.bucket = o.bucket
    /\ \A t \in TaskIds \ open : TaskKept(o, d, t)
    /\ \A b \in Buckets : Ordinary(o, b) => TasksIn(d, b) \subseteq TasksIn(o, b)

Faithful(o, d, x) ==
    /\ Carried(o, d, {x.task} \cup x.rest)
    /\ x.task \notin x.rest
    /\ \A t \in x.rest : Untouched(o, d, t)
    /\ IF x.kind = "create" THEN Creating(o, d, x) ELSE Updating(o, d, x)

\* The boards are sound in the committed database and in the open transaction, for
\* ~OtherPaths.
BoardsSound == Sound(db) /\ (IF Idle THEN w = db ELSE TxSound)

\* And what the open transaction has written so far may be committed, the task at
\* hand aside, for ~OtherPaths and ~OtherProjects.
BoardsFaithful == BoardsSound /\ (Idle \/ Faithful(db, w, tx))
=============================================================================
