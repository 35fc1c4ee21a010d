# Vikunja in TLA+

TLA+ models of Vikunja's own core logic, model-checked with TLC. Every safety property the runs check, and
every refinement, is proved with TLAPS as well, for all values of the constants (section 5). Vikunja is a to-do application: a Go server (`pkg/`) over a relational
database (sqlite, postgres or mysql), a web client (`frontend/`), a desktop shell (`desktop/`)
and a command line client (`veans/`). Paths below are relative to the repository.

## 1. The system

### Components

| Component | State | Operations | What is hard | What makes it correct |
|---|---|---|---|---|
| **Kanban boards**: `pkg/models/kanban.go`, `kanban_task_bucket.go`, `project_view.go`, `tasks.go`, `bulk_task.go` | tasks, project views (kind, default bucket, done bucket), buckets (view, limit, position), one `task_buckets` row per task and view | create, update, delete of views, buckets and tasks; moving a task; bulk update; the loops that move a task on every board of its project | one request writes many boards; ids stored in one table name rows of another that may be gone; an error half-way; limits | a row names a bucket of its own view; only live tasks of the view's project have rows; a task never falls off a board; done tasks are in the done buckets |
| **Realtime hub**: `pkg/websocket` | connections (two goroutines, a timer, a bounded send buffer, a context), the lists of connections of every user | upgrade, authenticate, subscribe, publish, leave | goroutines that end each other, a lock with waiting writers, a full buffer, a peer that vanishes | nothing is left in the hub, nobody receives another user's events, every broken connection ends, a slow client stops nobody |
| **Time tracking**: `pkg/models/time_tracking.go` | time entries; an entry without an end is the running timer | create, stop, update, delete | two requests of one user; the clock; entries read by one statement and written by another | at most one running timer, a completed entry stays completed, no negative interval |
| **Request pipeline and outbox**: `pkg/web/handler/core.go`, `pkg/events/events.go`, `pkg/db/db.go` | a transaction and the events queued under it | DoCreate, DoUpdate, DoDelete; DispatchOnCommit, DispatchPending, CleanupPending | a failing statement, a failing commit, a crash after the commit | an event is announced only for a committed change, and each change has its event |
| **Browser sessions**: `frontend/src/helpers/auth.ts`, `fetcher.ts`, `app/session.ts`, `pkg/models/sessions.go`, `pkg/modules/auth/auth.go` | access token in every tab, `localStorage`, the refresh cookie, the session row with the hash of its refresh token | refresh under a web lock, the interceptor's retries, log-in, log-out, storage events of other tabs, rotation | tabs that race for a token that may be spent once, answers after a log-out, requests that wait while the user changes | a refresh token is spent once, nobody is signed in again by a late answer, no request is repeated as somebody else |
| **Editing a task**: `frontend/src/features/task/task-record.ts`, `task-heading.ts`, `task-description.ts`, `task-view.ts` | the task as accepted, a queue of saves, the drafts of two editors, a timer | type, save, flush, leave; labels and assignees by endpoints of their own | every save sends the whole task; answers and publications cross; the user types on | nothing typed is replaced, nothing saved is undone, leaving waits for the description |
| **Realtime client, timer badge, notification list**: `frontend/src/app/realtime.ts`, `features/timer`, `features/notifications` | the socket, its back-off and its subscriptions; the list; the running timer as shown; the transition of the session they were started in | subscribe, reconnect, hydrate, poll, mark and clear, stop | answers older than events, events that overtake each other, a change of the session that is none | what was pushed stays, what was cleared stays so, the badge does not go back, the feed comes back after every disconnect |
| **Navigation**: `frontend/src/app/application.ts`, `workspace.ts`, `routes.ts` | the address, the destination, the key of the content region, the applications of the pages, four counters | navigate, back, dispatch, show a route, sign in and out, go offline | imports, starts and flushes that end in any order, after somebody asked for something else | the page is the address's, no page without a session, the address is the one asked for last, it appears |
| **Positions and view locks**: `pkg/models/task_position.go` | positions per task and view, row locks on views | lock the views of a project, write, recalculate | requests that hold one lock and wait for another | locks are taken up front and in order, so no two requests wait for each other |
| **Task relations**: `pkg/models/task_relation.go` | pairs of inverse rows | create, delete | the cycle check walks the graph, then another statement inserts | inverse rows in pairs, no cycle of subtasks |
| **User deletion and ownership**: `pkg/models/user_delete.go` | users, bots, projects with users, teams and an owner | request, schedule, delete | who takes over; a tree of projects | a project that is left has an owner who exists |
| others | see `PROJECT.json`, "components" | | | |

The other parts (saved filters and search, the project tree and its permissions, labels, comments, attachments,
teams, link shares, reminders, webhooks, importers, CalDAV, schema migrations, routes, configuration, the
views of the web client, desktop and `veans`) are listed in `PROJECT.json` with the reason why they are not modelled.

### How they interact

A request reaches a handler (`pkg/routes`), which runs one of DoCreate, DoUpdate, DoDelete: a database transaction in
which the model's method runs. The method queues events under the transaction; after the commit they are handed to a
message router in the same process, whose listeners write notifications, call webhooks and publish to the realtime hub.
The hub puts the event into the send buffer of every connection of the user that has subscribed to it; the realtime client of the
browser passes it on to the timer badge and to the notifications. In the browser a root application follows the address, the browser session and the network, and starts
the workspace, which starts the application of the page; every request goes through an interceptor that refreshes the session's token when it has expired.
Before an address changes, the page's task is asked to save what is typed. Boards are changed by three families of requests (views and
buckets, moves of tasks, updates of tasks), all through `updateTaskBucket` or the tables it writes.

### Hard behaviours

`PROJECT.json`, "hazards", lists what is hard to test at the line where it bites, with the properties that cover it; those
without a property say why.

## 2. The modules

| Module | What it is |
|---|---|
| `Kanban.tla` | the boards: state, handlers, properties and the inductive invariant |
| `KanbanProofs.tla`, `KanbanSafety.tla` | theorems about it |
| `Realtime.tla` | the websocket hub |
| `Feed.tla` | what the hub promises, implemented by `Realtime` |
| `RealtimeProofs.tla` | theorems about both |
| `Timers.tla` | time entries in concurrent transactions, with their events |
| `TimersProofs.tla` | theorems about it |
| `Outbox.tla` | what the pipeline promises the listeners, implemented by `Timers` |
| `Sessions.tla` | tokens, refreshes, log-ins and log-outs in the tabs of a browser, with the server's sessions |
| `SessionsProofs.tla` | theorems about it |
| `TaskRecord.tla` | the task of a detail view and its queue of saves |
| `TaskRecordProofs.tla` | theorems about it |
| `LiveFeed.tla` | what a tab shows of the pushed events |
| `LiveFeedProofs.tla` | theorems about it |
| `Navigation.tla` | which page a tab shows |
| `NavigationProofs.tla` | theorems about it |
| `MCKanban.tla`, `MCRealtime.tla`, `MCTimers.tla`, `MCNavigation.tla` | symmetry, constraints and values of functions for TLC; the other modules are checked as they are |

Operators that a comment marks "Mutated" are wrong on purpose: each is a plausible bug in the definition that follows it, and no specification uses them. Putting one
in the place of that definition must violate the property `PROJECT.json` pairs it with.

### Kanban

`db` is the committed database: `task`, `view`, `bucket`, `row` (the `task_buckets` table as a function: the bucket of a task in a view, 0 without a row) and
`next`, the next bucket id. A handler is one step on `db`, except where the code loops over views and calls
`updateTaskBucket` for each: moving a task to another project, marking it done or open, creating it in a done bucket. There every view is
a step (`PlaceInView`) on `w`, the transaction's copy, in any order (the code goes by the positions of the views, which the user chooses and the model leaves out);
an error drops the copy (`Rollback`) and the last step commits it (`FinishTask`) or goes on with the next task of a bulk
update (`NextTask`). `updateTaskBucket` is an operator with the code's name: the done bucket closes the task, leaving it opens the task,
a repeating task bounces, the other boards follow.

One transaction runs at a time: the races of board requests with each other depend on the isolation of the database and are not claimed.
Every handler is modelled for every request it accepts. Two kinds of requests are never sent by the user interface, and the handlers do not refuse them: the deletion of a bucket by the path of another
view, and the move of a task to a bucket of another project. `OtherPaths` and `OtherProjects` say whether they are sent; only `Next` reads them, and `RowsAreIn`, the part of the invariant about projects.
A view may be `filtered`: what its filter lets through is not modelled, so in such a view `checkBucketLimit` may accept or refuse whatever the rows are (`HasRoom`, `CanRefuse`).
Left out: saved filters as projects (their boards too), boards whose buckets are filters beyond their being no manual kanban, positions of tasks,
the batch creation of several tasks, permissions.

### Realtime and Feed

A connection has the program counter of `ReadLoop` (its steps in `handleAuth` and in its deferred function apart, because other
goroutines run in between), that of `WriteLoop`, the user, the subscriptions, the send buffer, whether its context is cancelled, the socket and the authentication timer.
`hub` has the list of connections of each user; `pub` tells for the listener of each topic which list it walks and where it is. The
hub's lock is in the guards: `Register` and `Unregister` wait for the listeners that walk (`NoReaders`), and a listener does not
start while a writer waits (`WritersWait`), as Go's `RWMutex` does. The list a listener walks is the hub's own slice, not a copy:
`WalksTheHubsList` says that nobody changes it meanwhile. The websocket library (a cancelled read closes the socket, a write to a lost peer
succeeds until it does not) and the browser are modelled from their use. What the listeners look up before they publish is left out: any
listener publishes for any user at any time.

`Feed` has members, those who left and a box per client. Under the mapping in `Realtime` every step of the hub is a step of the feed or
changes nothing: nothing is put for a client that has not joined or has left, nobody joins twice, nothing is reordered.

### Timers and Outbox

Every request of one user is a few statements: read the running timer or the entry, write the row, insert, commit, announce. Others run in between. `Snapshots` chooses the database: TRUE is
sqlite, where a transaction reads the state of its first statement and one that holds an old state may not write; FALSE is
postgres, where each statement reads what is committed and a written row is locked. A statement may fail (`Fail`), the server
may crash (`Crash`), the clock goes on (`Tick`).

`Outbox` promises that an event is announced only after its commit, that a commit owes an event for every row it changed, which says
what the change was, and that each event owed is handed to the router once, in order, unless the server crashes. An event the router refuses is logged and dropped (`events.go:292-295`): `DispatchPending` and `Announce` stand for
both outcomes, so nothing is claimed of what the listeners hear in the end. `KeepsAnOutbox` is the refinement.

### Sessions

Tabs share `disk` (the token in `localStorage`, and for each tab the storage events it has not heard yet), the cookie `jar` and the web `lock`. `page[t]` is what tab `t`
has in memory: the saved token, the refresh in flight, two kinds of requests (the one of `prepareStart`, and any other), the promise the interceptor's requests share and a log-in under way. `ops` are refreshes
in progress: queued for the lock, sent, answered. A token is a user, a session and a generation; `rows` are the sessions of the server, which replace the
generation at each refresh (`RefreshSession`), and below `dead` the tokens have expired.

The code recognises an outdated refresh by an epoch, and a session that has moved on by `transition`. Both are only ever compared for equality, so
the model keeps whether they still are equal: a refresh is of the current epoch while it is the one in flight, `own` says that the session has not changed since a start or a log-in began.
`Locks` says whether the browser has web locks, `Reliable` whether every answer arrives and every log-out reaches the server. Left out: sessions that the server deletes when it refreshes them, because they have expired or their user
has been disabled (`auth.go:384-397` and `413-425`).

### TaskRecord

`record` is the task as the session has accepted it, `jobs` the chain of promises in `save`, `sent` the whole task under way with the record it was built from. `title` and `text` are
the drafts of the two editors with the flags of their views, `leave` is a navigation that waits for the flush. Four fields are enough to tell the cases apart: two that are saved with the whole task, and
labels and assignees, which have endpoints of their own (`adding`); of them the server takes the assignees from a save as well (`Written`). `accepted` is history. A save may be refused (`Refuse`), or the server may answer that there is
no such task (`NotFound`): `task-description.ts:19` takes the flush for done then, and `leave.lost` tells that what was typed went with it. A title that is left empty is restored (`task-heading.ts:109-114`), which
without a save under way is what `EscapeTitle` does; an empty title during a save is left out.

### LiveFeed

One tab and its server. `conn` goes from opening over auth and subscribing to subscribed; what the server pushes while it is subscribed is in `push` and is received in any order, because the
server's topics are delivered independently. The list has one request (`read`) and one change (`mutation`) under way, the badge a `hydration` and a `stop`. `turned`
is that the session's transition is no longer the one the applications were started in, the comparison each of them makes before it uses anything.

### Navigation

`tasks` are the continuations of promises: of `dispatch` (the import of the workspace and its start), of `showRoute` (the default view, the import of a page, its start), of `commitNavigation` and `closeTask` (the flush). In place of the number of an
epoch, a revision or a navigation a continuation holds whether it is still the newest. An action computes the whole synchronous part of a handler as an operator on the
record `Now` and applies it with `Become`. What follows from a promise that is settled already runs before the next event (`Idle`).
`Impatient` says whether users go on while a task is being saved; asking again for a page that is on its way is always possible. `hasty` is history: the page was asked for again while its module was imported, or, if nothing guards its start, before it ran.
`work.reported` is that an error is shown, whichever: the message of a failed page, the view for 403 and 404, that of a share, or the error view of `dispatch`.
A default address leads to a view: `workspace.ts:808` does nothing for a project without views, which is left out. Pages stand for kinds of pages: a board in the first bundle, restarted for its own route; a page that is
imported; a task, which is flushed.

## 3. What the runs check

| Run | Instance | Shows |
|---|---|---|
| `kanban_boards` | 2 tasks, 2 views, 2 projects, 6 buckets, limits 0 and 1, 3 later changes of the boards, within `Explored` | a task on two boards at once changes project, is done, reopened, deleted: its rows stay in their views and its project, it keeps its place, being done reaches every board and holds; on a board that changes, `BoardsFaithful` (the invariant of the proofs: rows, default and done bucket exist where they should, a board keeps a bucket, and what an open transaction has written may be committed), repeating tasks reopen, ordinary buckets of views without a filter keep their limit |
| `realtime_hub` | 2 connections, 1 user, 1 topic, buffer 1 | what the hub lists is alive, the list a listener walks holds still, the hub serves `Feed`: one connection leaves while a listener is at the other |
| `realtime_loops` | 1 connection, 2 users, 2 topics, buffer 2 | nobody is sent another user's events, both goroutines of a connection end when one does or the peer is lost, listeners never wait for a client |
| `timers` | 2 entries, 2 requests at a time, times 0 to 2, snapshots | one running timer, ended entries stay ended, events as `Outbox` promises, with failing statements and crashes |
| `sessions` | 2 tabs, 2 users, 2 sessions, 2 refreshes at a time, 4 acts, locks, reliable | a cookie is spent once, retries keep their identity, a log-out holds against everything under way, nobody waits for ever |
| `task_record` | 3 values, 4 acts | the record is what was accepted, saves leave other fields alone, leaving waits unless the task is not found, every edit is tried, drafts stay |
| `live_feed` | 2 notifications, 2 entries, 5 acts | pushed notifications stay, acknowledged ones too, the badge keeps up, the connection comes back, the poll replaces it |
| `navigation` | a board with a default view, an imported page, a task; 4 acts | no pages without a session, only the page of the route, arrives where asked, the page appears or its failure is told, unless it was asked for again too early |
| `kanban_deleted_bucket`, `kanban_other_project`, `live_feed_refresh`, `navigation_back` | the smallest instances | findings 1 to 4 |

**Bounds.** Kanban: ids are used once (`TaskIds`, `ViewIds`, buckets `1..MaxBucket`), `MaxConfig` bounds the later changes of views and buckets. Six buckets are two seeded boards;
four are one board and one bucket more, so that a bucket can be deleted and another take over. `Explored` (in `MCKanban`) keeps the run small, in two ways: one task on the boards of both projects, with one later change of the boards of one project; or one board, with
two tasks that do not repeat, limits and filters and one change, with two tasks that may repeat and no change, or with one task and three changes. Two tasks on several boards are not explored together, nor limits with repeating tasks. The proofs lift these bounds for all safety properties, here and in the other models. Realtime has no counter: its state space
is finite by `BufSize` and because a connection id is used once; a buffer of 1 is full after one event, one of 2 shows the order of messages. Two
connections are what it takes for one to leave while a listener is at the other. Timers: ids of entries are used once, `MaxTime` bounds the clock; two requests are what
a race takes, two times are what an order of start and end takes. The models of the browser bound with `MaxActs` what people, clocks and the network do; what
code does by itself is not bounded. In `sessions` four acts are an expiry, two calls that race and a log-out or a log-in; two refreshes at a time are one per tab. In `task_record` three
values are what was there, what is saved and what is typed meanwhile. In `navigation` four acts are, for example: open a task, type and follow a link, sign out, sign in.

**Deadlock** is not checked: behaviours end when the ids, the changes, the acts or the clock are used up, and clients may stop sending. That nothing waits for ever is what the liveness properties of `realtime_loops`, `sessions`, `task_record`,
`live_feed` and `navigation` say.

**Fairness.** Kanban and Timers have none: their properties are about what a step may do. Realtime assumes weak fairness of each goroutine, timer and listener (`WF` of `ReadLoop`, `AuthTimer`, `WriteLoop`,
`PublishForUser`), which Go's scheduler gives, and nothing of the clients. A client that is asked for a message may never send one: `Receives` is not part of `ReadLoop`.
For a peer that is lost, `SF` of a failing ping: the ticker fires for ever, `select` takes a ready case at random, and a lost peer answers no ping; the case is enabled again
each time `WriteLoop` is back at its `select`. The models of the browser assume weak fairness of what tabs, timers and a server that is reached do by themselves (`Progress` in Sessions and TaskRecord, `Continues` in Navigation: a request
is answered or fails in the end; a tab's event loop runs every callback), and never of people, of expiring tokens or of the network. In LiveFeed the answers, the poll, the connection and the receipt of events are each fair on their own, since a poll that goes on must not be the reason why nothing else happens.

## 4. Findings

1. `kanban_deleted_bucket`: deleting the default bucket when it is also the leftmost one leaves its tasks in the deleted bucket. The bucket that takes over is looked up before the deletion.
2. `kanban_other_project`: a task can be moved into a bucket of another project's board. `kanban_task_bucket.go:112` says of the bucket and the task "make sure they belong to the same project"; `updateTaskBucket` compares the bucket with the view, and nothing compares the view with the task.
3. `live_feed_refresh`: after another tab has refreshed the token of the same user, a tab shows no pushed event, does not reconnect and does not poll until it is loaded again. `storageChanged` counts the transition up and restarts nothing.
4. `navigation_back`: who goes back in the history while a link waits for the task's description to be saved ends up at the link. Only another link counts the navigation up; `popstate` does not.

Other behaviour met while modelling. The models have it, no run is kept for it:

- With `OtherPaths`: `Bucket.Delete` counts the buckets, clears the settings and looks up the default bucket in the view of the path, and deletes the bucket that is named, whatever its view. The rows go to a bucket of the other view, a board can lose its last bucket and its settings can name one that is gone.
- With `OtherProjects`, a task that is moved into the done bucket of another project is done without reaching the boards of its own.
- A manual board with a filter counts the filtered tasks only (`tasks.go:850-865`), so its buckets hold any number of rows.
- A request that sets done and a repetition at once leaves a done task outside the done bucket.
- Without `Snapshots` (postgres), two requests leave two running timers. Stopping a timer that starts in the future stores an end before the start.
- Without `Reliable`, a log-out whose request does not reach the server is undone by the cookie at the next load of a page.
- A save of the title sends the assignees as the record has them, and removes one added meanwhile elsewhere.
- Text typed back to what was saved stops the timer, but not a save that is under way: the editor is dirty again, and no timer is set.
- A save of the title that is still queued when the user leaves is dropped; only the description is flushed.
- The badge asks for the running timer before the server has its subscriptions; what is started in between is shown only after the next change.
- A page that is asked for again while its module is imported stays at the loading view: `routeRevision` is counted up, the key is the same, so nothing is started when the import ends (`workspace.ts:845`).
- A page whose start nothing guards, asked for again while it starts: if the start fails, the later dispatch has overtaken the error, which is dropped (`application.ts:345`), and nothing is shown or told. Its key stays, so that asking again does not start it.
- A description whose task is gone is dropped without a word when the user leaves: the 404 is not thrown on (`task-description.ts:19`).
- When the identity changes in another tab, the destination is forgotten without stopping the login page.

## 5. What is proved

About `Kanban`, for any sets of tasks (finite), views and projects, any number of buckets and any limits:

- `KanbanProofs`, `TypeCorrect`: `Spec => []TypeOK`, whatever requests arrive.
- `KanbanSafety`, for requests that delete buckets by the path of their own view (`OtherPaths = FALSE`; without it the claims are false, see section 4), tasks being moved anywhere:
  `BoardsStaySound`: `Spec => []BoardsSound`, and from it `RowsStayInView`, `SettingsStayValid`, `BoardsKeepBuckets`.
- `RowsStayWithTask`, if moreover no task is moved to a bucket of another project (`OtherProjects = FALSE`; without it, finding 2).

`RowsInView` and its companions are not inductive: a step of a transaction reads `w`, not `db`, and a view that is no kanban keeps bucket ids that
may be gone, which come back when its kind changes. `BoardsSound` therefore says of `db` **and** of the open transaction's `w` that they are *settled* (`Settled`: rows and the
settings stored in any view name buckets made for that view, ids not handed out name nothing, settings of kanban views exist) and that manual boards have a bucket;
of `db` that rows follow their task, if nobody moves it to another project's bucket; and of an open transaction (`TxSound`) that rows are on the boards of the task's `Home`, the project it is moving to,
that the views still to be visited are live views of that project and that the tasks still to be handled are live. The proof has a lemma for each operator that makes a new database
(`SettledPut`, `SoundPut`, ...), a step per action and the temporal step at the end.

With both assumptions the five action properties, `TasksKeepTheirPlace`, `DoneTasksReachEveryBoard`, `DoneTasksStay`, `RepeatingTasksStayOpen` and `LimitsKept`, and `BoardsStayFaithful`, which they rest on.
A transaction writes in many steps and commits in one, so what a commit may do follows only from what the transaction has written so far. `BoardsFaithful` adds that to `BoardsSound`: as long as a
transaction is open (`Faithful`), every task but those it has still to do is in `w` as a step may leave it (`Carried`), those it has not begun are as in `db`, and the one at hand is as its kind says. A task that is being created done is in the done buckets
of the boards visited (`Creating`); one that is being updated has kept all fields but `done`, is open if it repeats, keeps its rows if it is not moved, and is in the done buckets of the boards visited once it is done (`Updating`). Ordinary buckets, which are neither
the default nor the done bucket, only lose tasks in a transaction of several steps, because its loops ask for no others; the handlers that fill them, `MoveTask` and the creation in a given bucket, check the limit in the step that commits.
`OrdinaryBucketsKeepLimit` speaks of buckets of kanban views without a filter. A list view keeps its buckets from when it was one, and while it is a list their deletion
(`Bucket.Delete` in `kanban.go`) may move the tasks of the default bucket to the leftmost of them, whatever its limit.

About `Realtime`, for any sets of connections, users and topics and any size of the buffers (`RealtimeProofs`): `TypeCorrect`, `NothingLeftBehind`,
`EventsStayPrivate`, `ListsHoldStill`, and `FeedServed`, the refinement of `Feed`. `RegistrationsLive` says of listed connections that they are alive; to keep it, one must know the converse and who is
listed where. The invariant `Inv` says of each connection by itself (`Good`) that the hub lists it for its user if, and only if, its `ReadLoop` is between `Register` and `Unregister`, that a connection nobody has opened is
as it was at first, and that the events in its buffer are its user's; that no list names a connection twice, so that `Unregister`, which removes one entry, leaves none; and that a listener walks the list the hub has (`Walking`), which
holds because `Register` and `Unregister` wait for it. In the refinement `Register` is `Join`, `Unregister` is `Leave`, `PublishToOne` is `Post`, or a stutter when the client has not subscribed or its
buffer is full, the answers of `ReadLoop` are `Answer`, what `WriteLoop` takes out of the buffer is `Take`, and every other step is a stutter.
`EachEndsTheOther` is what `ConnectionsEnd` needs to be true in every state (`Told`): a goroutine that ends has cancelled the context the other one listens to, before it is gone; a `ReadLoop` that is done has closed the socket; and a client
that is not authenticated has a timer that runs, or no open socket.

About `TaskRecord`, for any set of values and any number of edits (`TaskRecordProofs`): `TypeCorrect`, `RecordStaysAccepted`, `LeavingWaits`, and the action properties
`SavesLeaveTheRest` and `DraftsStayTyped`. The invariant they rest on, `Inv`, has three parts. `Shape` types the variables and describes the queue: at most one save of the description is in it, and it is there
exactly while the description is pending; only saves of the title are cancelled. `Carried` says of the request under way that it is the record it was built from with the first patch of the queue, and that title and
description of the record have not changed since: the queue sends one save at a time, so only other fields can be published meanwhile. This is what the merge needs to be right. `Asked` relates the editor, the queue and who
waits to leave: while somebody waits, and has not typed on, the editor holds what was asked for, and if the flush is its own, so does the save in the queue. `LeavingWaits` follows from it; by itself it is not inductive, because it says nothing before the task is gone. It does not speak of a task the server no longer has (`leave.lost`).

About `Timers`, on a database with snapshots (`Snapshots = TRUE`; without it the claims are false, see section 4), for any set of entries, any number of requests at a
time and any clock (`TimersProofs`): `TypeCorrect`, `OneTimer`, `EndsKept`, and `OutboxKept`, the refinement of `Outbox`. None of them is inductive, because a commit writes what statements read long before.
The invariant `Inv` says of every open transaction how the table it sees relates to the committed one: a transaction that has written is the only one that has (`OneWriter`) and is
not stale, so what it has not written itself it sees as it is committed (`Sees`); each event in its queue tells how one row it has written differs, and each such row has an event (`Queued`);
the only completed entry whose end it moves is the one it edits (`MovesOwnEnd`); what the next statement relies on still holds of what the transaction sees (`Ready`: the row to stop runs, an insert of
a running timer finds none), and it sees at most one running timer. The commit makes what the transaction sees the committed table, and each of the three properties follows from one part. The proof of the refinement maps a commit to a commit of
`Outbox`, each event that is dispatched to an announcement, and every other step to a stutter.

About `Sessions`, for any tabs and users and any number of sessions, refreshes and acts (`SessionsProofs`): `TypeCorrect`, `RetryKeepsIdentityHolds`, the action property `SignedOutHolds`, and `SpentOnceHolds`, which
is about a browser with web locks whose answers arrive, as `CookieSpentOnce` itself says. The invariant `Inv` has three parts. `Client` says what one tab has in memory (`Fit`): a request under way is somebody's, one that is repeated carries a token of theirs, and
a tab that has no token has a refresh in flight only if it is starting. Every operator on a tab at work keeps `Fit`, ends the refreshes it does not continue and puts a storage event into the mail of the other tabs if it writes `localStorage` (`Leads`);
a signed-out tab has no refresh in flight, so nothing that ends later is of its current epoch, and the property follows from one lemma per operator. `Server` says that cookies and answers are of sessions there have been. `Line` is why a cookie is spent once: only the holder of the lock
has left its tab, and the cookie is the newest of its session unless the answer with the next one is on its way to it.
`NobodyIsForgotten` and `TheQueueMoves` are what `NobodyWaitsForever` needs to be true in every state: whoever waits, waits for a promise that is not settled or for a refresh of its own tab that is in progress, and while any refresh
is in progress one of them can go on. They follow from `Waiters` (`Served`, `LockInUse`), which every operator on a tab at work must keep with the refreshes that are left when it is done: a sign-out, a storage event or an answer ends refreshes, and whoever waited for one of these must be let go in the same step.

About `LiveFeed`, for any notifications and entries and any number of acts (`LiveFeedProofs`): `TypeCorrect`, `PushedHolds`, `AcknowledgedHolds` and `BadgeHolds`. They speak of answers that are older than what was pushed or cleared since. The invariant says how old an answer
under way may be. What the tab takes for read or cleared is so on the server (`Known`); an answered list shows nothing that is cleared and nothing read as unread (`Reading`); at most one entry runs on the server, and one
that has ended stays ended (`Timed`); a badge's answer is not an entry the tab has seen ended, and if it differs from the entry shown, that one has ended (`Asking`).
`AnotherAttemptFollows` is what `Reconnects` needs to be true in every state (`Tried`): a tab whose session has not turned, and which has no connection, opens one, is about to notice the end of the last one, or has the reconnect timer running, and only one of these.

About `Navigation`, for any routes and pages and any number of navigations (`NavigationProofs`): `TypeCorrect`, `SignedOutHolds` and `OnlyTheRoutesPageHolds`. A continuation that was superseded may still be waiting, so the invariant speaks of all of them: a workspace that is not stopped, and an
import of it that nothing has overtaken, are of an authenticated user who is online (`Secure`), and of all pages only the one of the content's key is not stopped, with at most one continuation of the route shown last (`Sound`). An address is dispatched only where nothing of the workspace is left of a session or network that is gone (`Ready`). Each operator of a handler keeps this for the record it works on, whatever it does to the rest.

`ArrivesWhereAskedHolds` is about users that wait for a task that is being closed, and do not go back while anything is saved (`Impatient = FALSE`; finding 4 is what happens to others), and about
default addresses that lead to a view, which has no default of its own, and whose page is not one that is flushed (`DefaultsAssumption`). The property speaks of a tab where nothing is under way, so it says nothing of how to get there; the invariant it follows from, `Heading`, has three parts.
*Traced*: at most one dispatch is the newest, at most one errand, the newest navigation that waits for a flush or the task that is being closed, and never both; the page of an errand's flush still runs; whatever shows a page shows the route the workspace has.
*Bound*: the address is the one asked for last, or the view it leads to, unless an errand waits; if that is a navigation, its address is, and if it is a task that is closed by a workspace that runs, the project was asked for.
*Addressed*: the workspace's route, and that of the newest dispatch, is the address. The last is needed when a default view is found: the view that replaces the address is of the route shown, and only because that is the address does it lead to what was asked for.
Errands and default views exclude each other: an errand waits only for the page of the workspace's route, which is not that of a default address, and a default address is shown only by a dispatch, which nobody who waits makes while there is an errand.

Every invariant, action property and refinement that a passing run checks is stated by a theorem. Where the run gives `Snapshots`, `OtherPaths`, `OtherProjects` or `Impatient` the value without which the claim is false, the theorem assumes that value.
Only model-checked, because liveness under fairness is out of reach of the prover: `NobodyWaitsForever`, `Reconnects`, `NotificationsArrive`, `PageAppears`, `EveryEditIsTried`, `ConnectionsEnd`, `ListenersFinish`. Of the first, the second and the sixth
the part that must be true in every state is proved (`NobodyIsForgotten` and `TheQueueMoves`, `AnotherAttemptFollows`, `EachEndsTheOther`): nobody waits for what cannot come. That it does come, because steps that can be taken are taken, is what the runs check.
`ListenersFinish` and `NotificationsArrive` have no such part of their own: a listener that walks and a poll without a connection wait for nobody. `EveryEditIsTried` has none that is true: text that was typed back during a save is dirty without a timer (section 4). No module uses RECURSIVE.

## 6. Not modelled

`PROJECT.json` lists every part with its reason. In short:

- *Data rather than control*: search and filters (a translation into SQL), importers, CalDAV, export, avatars, mail, formatting, the parsing of addresses, the rendering of views, the drag and drop of pages.
- *One statement on one row*: labels, comments, attachments, reactions, most settings.
- *Floating point*: positions of tasks, which are halved between neighbours; TLC has integers.
- *External*: the databases, the message router, the websocket library, Marionette's life cycle of applications. They are modelled where they matter, from how the code uses them.
- *Generated or bundled code*: most of the TypeScript and JavaScript in the repository by lines (the API client under `frontend/src/client/generated`, the bundled documentation viewers under `pkg/routes/api`) is not written by hand and has no behaviour of its own here. Of what remains most describes views; the models are
of the parts that keep state across promises.

## 7. Plan

1. `ViewLocks`: which requests lock which views, when and in which order, with row locks as postgres has them: the rule of `task_position.go:241` against every caller, and whether two requests can wait for each other.
2. `Relations`: the cycle check against reachability over all small graphs, then two requests at a time. `Ownership`: deletion of users and what becomes of their projects.
3. Navigation: tasks opened over a board, and the overlay of project settings. LiveFeed over `Feed` and `Outbox`, in place of its own server.
4. Theorems: the part of `PageAppears` that must be true in every state: when nothing is under way, the page of the address runs, its failure is reported, or it was asked for too early (`hasty`).
