------------------------------- MODULE Timers -------------------------------
(***************************************************************************)
(* The time entries of one user.  A running timer is an entry without an   *)
(* end; starting a timer stops the one that runs.  Every request is a      *)
(* transaction of several statements, which other requests of the user (a  *)
(* second tab, a second click) run between; its events are queued under    *)
(* the transaction and announced after the commit.                         *)
(*                                                                         *)
(* The databases are modelled from how the code uses them: with Snapshots  *)
(* (sqlite) a transaction reads the state at its first statement, there is *)
(* one writer at a time and a transaction whose state is no longer the     *)
(* current one may not write; without (postgres) each statement reads what *)
(* is committed and a written row is locked until the end.                 *)
(***************************************************************************)
EXTENDS Naturals, Sequences, FiniteSets

CONSTANTS
    EntryIds,   \* ids of entries, used once each
    Requests,   \* requests in progress at a time
    MaxTime,    \* bound on the clock
    Snapshots,  \* the isolation of the database
    NoEntry     \* the id of no entry

ASSUME ConstantsAssumption ==
    /\ MaxTime \in Nat \ {0}
    /\ Snapshots \in BOOLEAN
    /\ NoEntry \notin EntryIds

VARIABLES
    entries,    \* the committed table
    req,        \* what every request is doing
    now         \* the server's clock

vars == <<entries, req, now>>

Unset == 0              \* no start is given; an entry without an end runs
Times == 1..MaxTime
Statuses == {"none", "live", "gone"}

Entry == [status : Statuses, start : Times \cup {Unset}, end : Times \cup {Unset}]
NoRow == [status |-> "none", start |-> Unset, end |-> Unset]
Live(start, end) == [status |-> "live", start |-> start, end |-> end]

Table == [EntryIds -> Entry]

Event == [kind : {"created", "updated", "deleted"}, id : EntryIds,
          end : Times \cup {Unset}]

\* pc: the statement that is next.  `table` is the database as the request sees
\* it, `own` the rows it has written, `stale` tells that somebody else committed.
Request == [pc : {"idle", "write", "insert", "commit", "announce"},
            op : {"create", "stop", "update", "delete"},
            id : EntryIds \cup {NoEntry}, row : Entry,
            table : Table, own : SUBSET EntryIds, stale : BOOLEAN,
            queue : Seq(Event)]

Idle(r) == req[r].pc = "idle"
InTransaction(r) == req[r].pc \in {"write", "insert", "commit"}

NoRequest == [pc |-> "idle", op |-> "stop", id |-> NoEntry, row |-> NoRow,
              table |-> [e \in EntryIds |-> NoRow], own |-> {}, stale |-> FALSE,
              queue |-> <<>>]

Init ==
    /\ entries = [e \in EntryIds |-> NoRow]
    /\ req = [r \in Requests |-> NoRequest]
    /\ now = 1

-----------------------------------------------------------------------------
(* Requests: the first statements, which read *)

Running(t) == {e \in EntryIds : t[e].status = "live" /\ t[e].end = Unset}

\* validateTimes
ValidTimes(start, end) == end # Unset => end >= start

Begin(r, op, pc, id, row) ==
    /\ Idle(r)
    /\ req' = [req EXCEPT ![r] = [NoRequest EXCEPT
          !.op = op, !.pc = pc, !.id = id, !.row = row, !.table = entries]]
    /\ UNCHANGED <<entries, now>>

\* Mutated: only a timer that starts now stops the one before.
StopsOnStart(start, end) == end = Unset /\ start = Unset

\* Create stops the running timer when it starts one.
StopsRunning(start, end) == end = Unset

Create(r, start, end) ==
    IF StopsRunning(start, end) /\ Running(entries) # {}
    THEN \E e \in Running(entries) : Begin(r, "create", "write", e, Live(start, end))
    ELSE Begin(r, "create", "insert", NoEntry, Live(start, end))

StopRunningTimer(r) ==
    \E e \in Running(entries) : Begin(r, "stop", "write", e, NoRow)

\* Mutated: a completed entry may lose its end.
NeverReopens(e, end) == FALSE

Reopens(e, end) == entries[e].end # Unset /\ end = Unset

Update(r, e, start, end) ==
    /\ entries[e].status = "live"
    /\ ~Reopens(e, end)
    /\ ValidTimes(start, end)
    /\ Begin(r, "update", "write", e, Live(start, end))

Delete(r, e) ==
    /\ entries[e].status = "live"
    /\ Begin(r, "delete", "write", e, NoRow)

-----------------------------------------------------------------------------
(* Requests: the statements that write *)

\* Row e as request r sees it now.
Current(r, e) ==
    IF Snapshots \/ e \in req[r].own THEN req[r].table[e] ELSE entries[e]

MayWrite(r, e) ==
    \A q \in Requests \ {r} :
       IF Snapshots THEN req[q].own = {} /\ ~req[r].stale ELSE e \notin req[q].own

\* stop() writes the whole row as it was read, with the end set to now.
NewRow(r) ==
    CASE req[r].op \in {"create", "stop"} ->
            [req[r].table[req[r].id] EXCEPT !.end = now]
      [] req[r].op = "update" -> req[r].row
      [] req[r].op = "delete" -> [req[r].table[req[r].id] EXCEPT !.status = "gone"]

RowEvent(r) ==
    [kind |-> IF req[r].op = "delete" THEN "deleted" ELSE "updated",
     id |-> req[r].id, end |-> NewRow(r).end]

\* A row that is gone is not written; only Update, which reads it again, notices.
WriteRow(r) ==
    LET q == req[r]
        e == q.id
        live == Current(r, e).status = "live"
        table == [q.table EXCEPT ![e] = NewRow(r)]
    IN /\ q.pc = "write"
       /\ MayWrite(r, e)
       /\ q.op = "update" => live
       /\ req' = [req EXCEPT ![r] = [q EXCEPT
             !.table = IF live THEN table ELSE q.table,
             !.own = IF live THEN q.own \cup {e} ELSE q.own,
             !.queue = Append(q.queue, RowEvent(r)),
             !.pc = IF q.op = "create" THEN "insert" ELSE "commit"]]
       /\ UNCHANGED <<entries, now>>

Fresh(e) == entries[e].status = "none" /\ \A q \in Requests : e \notin req[q].own

StartOf(r) == IF req[r].row.start = Unset THEN now ELSE req[r].row.start

Insert(r, e) ==
    LET q == req[r]
        created == [kind |-> "created", id |-> e, end |-> q.row.end]
    IN /\ q.pc = "insert"
       /\ Fresh(e)
       /\ MayWrite(r, e)
       /\ ValidTimes(StartOf(r), q.row.end)
       /\ req' = [req EXCEPT ![r] = [q EXCEPT
             !.table = [q.table EXCEPT ![e] = Live(StartOf(r), q.row.end)],
             !.own = q.own \cup {e},
             !.queue = Append(q.queue, created),
             !.pc = "commit"]]
       /\ UNCHANGED <<entries, now>>

\* Mutated: the events of the transaction are announced all the same.
FailAnnounced(r) ==
    /\ InTransaction(r)
    /\ req' = [req EXCEPT ![r].pc = "announce", ![r].own = {}]
    /\ UNCHANGED <<entries, now>>

\* A statement or the commit fails (the times are invalid, the entry is gone, the
\* database is busy or unreachable): rollback and CleanupPending.
Fail(r) ==
    /\ InTransaction(r)
    /\ req' = [req EXCEPT ![r] = NoRequest]
    /\ UNCHANGED <<entries, now>>

Commit(r) ==
    /\ req[r].pc = "commit"
    /\ entries' = [e \in EntryIds |->
          IF e \in req[r].own THEN req[r].table[e] ELSE entries[e]]
    /\ req' = [q \in Requests |->
          IF q = r THEN [NoRequest EXCEPT !.pc = "announce", !.queue = req[r].queue]
          ELSE IF InTransaction(q) /\ Snapshots THEN [req[q] EXCEPT !.stale = TRUE]
          ELSE req[q]]
    /\ UNCHANGED now

\* DispatchPending, one event at a time. An event whose dispatch fails is logged and
\* dropped (events.go:292-295): it leaves the queue as an announced one does.
DispatchPending(r) ==
    /\ req[r].pc = "announce"
    /\ IF req[r].queue = <<>>
       THEN req' = [req EXCEPT ![r] = NoRequest]
       ELSE req' = [req EXCEPT ![r].queue = Tail(@)]
    /\ UNCHANGED <<entries, now>>

Crash ==
    /\ req' = [r \in Requests |-> NoRequest]
    /\ UNCHANGED <<entries, now>>

Tick ==
    /\ now < MaxTime
    /\ now' = now + 1
    /\ UNCHANGED <<entries, req>>

Next ==
    \/ \E r \in Requests :
          \/ \E start, end \in Times \cup {Unset} : Create(r, start, end)
          \/ StopRunningTimer(r)
          \/ \E e \in EntryIds :
                \/ \E start \in Times, end \in Times \cup {Unset} : Update(r, e, start, end)
                \/ Delete(r, e)
                \/ Insert(r, e)
          \/ WriteRow(r) \/ Fail(r) \/ Commit(r) \/ DispatchPending(r)
    \/ Crash
    \/ Tick

Spec == Init /\ [][Next]_vars

-----------------------------------------------------------------------------
(* Properties *)

\* Every variable has a value of its type.
TypeOK ==
    /\ entries \in Table
    /\ req \in [Requests -> Request]
    /\ now \in Times

\* time_tracking.go speaks of a "single-active-timer rule": the user never has two
\* timers running, whatever requests are sent at the same time.
OneRunningTimer == Cardinality(Running(entries)) <= 1

\* The end of a completed entry only changes when the user edits this entry, and
\* only to another end: stopping a timer never reaches an entry that was completed
\* meanwhile, and no edit that was checked earlier makes it run again.
EndedStaysEnded ==
    [][\A e \in EntryIds :
         /\ entries[e].end # Unset
         /\ entries'[e].end # entries[e].end
         => /\ entries'[e].end # Unset
            /\ \E r \in Requests : /\ req[r].pc = "commit" /\ req[r].op = "update"
                                   /\ req[r].id = e /\ req'[r].pc = "announce"]_vars

\* Events are announced after their commit, and a commit owes one for each of its
\* changes, which says what the change was.
Promise == INSTANCE Outbox WITH
    table <- [e \in EntryIds |-> [status |-> entries[e].status, end |-> entries[e].end]],
    owed <- [r \in Requests |-> IF req[r].pc = "announce" THEN req[r].queue ELSE <<>>],
    Events <- Event

KeepsAnOutbox == Promise!Spec
=============================================================================
