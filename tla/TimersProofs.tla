---------------------------- MODULE TimersProofs ----------------------------
(***************************************************************************)
(* What is proved of Timers on a database with snapshots (sqlite), for any *)
(* entries, any number of requests at a time and any clock: at most one    *)
(* timer runs, a completed entry stays completed, and the requests keep    *)
(* the promise of Outbox.                                                  *)
(*                                                                         *)
(* The inductive invariant relates the table a transaction sees to the     *)
(* committed one.  A transaction that has written is the only one that     *)
(* has, and nobody commits before it does: what it has not written itself  *)
(* is as committed (Sees), and each event it has queued says how a row it  *)
(* has written differs (Queued).                                           *)
(***************************************************************************)
EXTENDS Timers, TLAPS, FiniteSetTheorems

AtMostOne(t) == \A e, f \in Running(t) : e = f

\* A row that is not there has no end.
NoGhosts(t) == \A e \in EntryIds : t[e].status = "none" => t[e].end = Unset

Active(q) == q.pc \in {"write", "insert", "commit"}

\* An event tells how a row changes from table t to what q sees.
Tells(ev, q, t) ==
  LET old == t[ev.id] new == q.table[ev.id]
  IN /\ ev.id \in q.own
     /\ ev.kind = "created" => old.status = "none" /\ new.status = "live" /\ new.end = ev.end
     /\ ev.kind = "updated" => old.status = "live" /\ new.status = "live" /\ new.end = ev.end
     /\ ev.kind = "deleted" => old.status = "live" /\ new.status = "gone"

Sees(q, t) ==
  ~q.stale \/ q.own # {} => \A e \in EntryIds \ q.own : q.table[e] = t[e]

Queued(q, t) ==
  /\ \A i \in DOMAIN q.queue : Tells(q.queue[i], q, t)
  /\ \A e \in q.own : \E i \in DOMAIN q.queue : q.queue[i].id = e

\* The only completed entry whose end a transaction moves is the one it edits.
MovesOwnEnd(q, t) ==
  \A e \in q.own :
    t[e].end # Unset =>
      \/ q.table[e].end = t[e].end
      \/ q.op = "update" /\ q.id = e /\ q.table[e].end # Unset

\* What a statement has read and the next one relies on.
Ready(q) ==
  /\ q.pc = "write" =>
       /\ q.own = {} /\ q.id \in EntryIds /\ q.table[q.id].status = "live"
       /\ q.op \in {"create", "stop"} => q.table[q.id].end = Unset
       /\ q.op = "update" => /\ q.row.status = "live"
                             /\ q.row.end = Unset => q.table[q.id].end = Unset
       /\ q.op = "create" => q.row.status = "live" /\ q.row.end = Unset
  /\ q.pc = "insert" => q.op = "create" /\ (q.row.end = Unset => Running(q.table) = {})
  /\ q.pc = "commit" => q.own # {}

Sound(q, t) ==
  /\ ~Active(q) => q.own = {}
  /\ Active(q) =>
       /\ AtMostOne(q.table) /\ Ready(q)
       /\ Sees(q, t) /\ Queued(q, t) /\ MovesOwnEnd(q, t)

OneWriter ==
  \A r, q \in Requests : r # q /\ req[r].own # {} => req[q].own = {}

StaleByOthers == \A r \in Requests : req[r].stale => Requests # {r}

\* The database is sqlite; with postgres the properties are false.
Inv ==
  /\ Snapshots = TRUE
  /\ TypeOK
  /\ NoGhosts(entries) /\ AtMostOne(entries)
  /\ OneWriter /\ StaleByOthers
  /\ \A r \in Requests : Sound(req[r], entries)

-----------------------------------------------------------------------------
(* Types.                                                                  *)

LEMMA ClockTyped == Unset \in Times \cup {Unset} /\ Unset \notin Times /\ 1 \in Times /\ Times \subseteq Nat
  BY ConstantsAssumption DEF Unset, Times

LEMMA NoRequestTyped == NoRequest \in Request
  BY ClockTyped DEF NoRequest, Request, NoRow, Entry, Statuses, Table

LEMMA LiveTyped ==
  ASSUME NEW start \in Times \cup {Unset}, NEW end \in Times \cup {Unset}
  PROVE  Live(start, end) \in Entry
  BY DEF Live, Entry, Statuses

\* What a request is when its transaction begins.
Opened(op, pc, id, row) ==
  [NoRequest EXCEPT !.op = op, !.pc = pc, !.id = id, !.row = row, !.table = entries]

LEMMA OpenedFields ==
  ASSUME TypeOK,
         NEW op \in {"create", "stop", "update", "delete"}, NEW pc \in {"write", "insert"},
         NEW id \in EntryIds \cup {NoEntry}, NEW row \in Entry
  PROVE  /\ Opened(op, pc, id, row) \in Request
         /\ Opened(op, pc, id, row).pc = pc
         /\ Opened(op, pc, id, row).op = op
         /\ Opened(op, pc, id, row).id = id
         /\ Opened(op, pc, id, row).row = row
         /\ Opened(op, pc, id, row).table = entries
         /\ Opened(op, pc, id, row).own = {}
         /\ ~Opened(op, pc, id, row).stale
         /\ Opened(op, pc, id, row).queue = <<>>
<1> DEFINE n == NoRequest
<1>1. n \in Request /\ n.own = {} /\ n.queue = <<>> /\ ~n.stale
  BY NoRequestTyped DEF NoRequest
<1>2. Opened(op, pc, id, row) =
        [n EXCEPT !.op = op, !.pc = pc, !.id = id, !.row = row, !.table = entries]
  BY DEF Opened
<1>3. entries \in Table
  BY DEF TypeOK
<1> HIDE DEF n
<1> QED BY <1>1, <1>2, <1>3 DEF Request

\* A request that begins sees the committed table and has written nothing.
LEMMA BeginKeepsInv ==
  ASSUME Inv, NEW r \in Requests,
         NEW op \in {"create", "stop", "update", "delete"}, NEW pc \in {"write", "insert"},
         NEW id \in EntryIds \cup {NoEntry}, NEW row \in Entry,
         Begin(r, op, pc, id, row),
         Ready(Opened(op, pc, id, row))
  PROVE  Inv'
<1> DEFINE q == Opened(op, pc, id, row)
<1>1. /\ q \in Request /\ q.pc = pc /\ q.table = entries
      /\ q.own = {} /\ q.queue = <<>> /\ ~q.stale
  <2>1. TypeOK
    BY DEF Inv
  <2> QED BY <2>1, OpenedFields
<1>2. Ready(q)
  OBVIOUS
<1>3. req' = [req EXCEPT ![r] = q] /\ entries' = entries /\ now' = now
  BY DEF Begin, Opened
<1> HIDE DEF q
<1>4. TypeOK'
  BY <1>1, <1>3 DEF Inv, TypeOK
<1>5. \A p \in Requests : req'[p] = IF p = r THEN q ELSE req[p]
  BY <1>3 DEF Inv, TypeOK
<1>6. Sound(q, entries)
  BY <1>1, <1>2 DEF Sound, Inv, Sees, Queued, MovesOwnEnd, Active
<1> QED
  BY <1>1, <1>3, <1>4, <1>5, <1>6 DEF Inv, OneWriter, StaleByOthers

-----------------------------------------------------------------------------
(* The statements that read.                                               *)

LEMMA CreateKeepsInv ==
  ASSUME Inv, NEW r \in Requests,
         NEW start \in Times \cup {Unset}, NEW end \in Times \cup {Unset}, Create(r, start, end)
  PROVE  Inv'
<1>1. Live(start, end) \in Entry /\ Live(start, end).status = "live" /\ Live(start, end).end = end
  BY LiveTyped DEF Live
<1>2. ASSUME NEW e \in Running(entries), StopsRunning(start, end),
             Begin(r, "create", "write", e, Live(start, end))
      PROVE  Inv'
  <2>1. e \in EntryIds /\ entries[e].status = "live" /\ entries[e].end = Unset
    BY DEF Running
  <2>2. Ready(Opened("create", "write", e, Live(start, end)))
    BY <1>1, <1>2, <2>1, OpenedFields DEF Ready, StopsRunning, Inv
  <2> QED BY <1>1, <1>2, <2>1, <2>2, BeginKeepsInv
<1>3. ASSUME ~(StopsRunning(start, end) /\ Running(entries) # {}),
             Begin(r, "create", "insert", NoEntry, Live(start, end))
      PROVE  Inv'
  <2>1. Ready(Opened("create", "insert", NoEntry, Live(start, end)))
    <3>1. TypeOK /\ NoEntry \in EntryIds \cup {NoEntry}
      BY DEF Inv
    <3>2. end = Unset => Running(entries) = {}
      BY <1>3 DEF StopsRunning
    <3> DEFINE row == Live(start, end)
               q == Opened("create", "insert", NoEntry, row)
    <3>3. q.pc = "insert" /\ q.op = "create" /\ q.row = row /\ q.table = entries
      BY <1>1, <3>1, OpenedFields
    <3>4. row.end = end
      BY <1>1
    <3> HIDE DEF q, row
    <3>5. Ready(q)
      BY <3>2, <3>3, <3>4 DEF Ready
    <3> QED BY <3>5 DEF q, row
  <2> QED BY <1>1, <1>3, <2>1, BeginKeepsInv
<1> QED BY <1>2, <1>3 DEF Create

LEMMA NoRowTyped == NoRow \in Entry
  BY ClockTyped DEF NoRow, Entry, Statuses

LEMMA StopKeepsInv ==
  ASSUME Inv, NEW r \in Requests, StopRunningTimer(r)
  PROVE  Inv'
<1>1. PICK e \in Running(entries) : Begin(r, "stop", "write", e, NoRow)
  BY DEF StopRunningTimer
<1>2. e \in EntryIds /\ entries[e].status = "live" /\ entries[e].end = Unset
  BY DEF Running
<1>3. Ready(Opened("stop", "write", e, NoRow))
  BY <1>2, NoRowTyped, OpenedFields DEF Ready, Inv
<1> QED BY <1>1, <1>2, <1>3, NoRowTyped, BeginKeepsInv

LEMMA UpdateKeepsInv ==
  ASSUME Inv, NEW r \in Requests, NEW e \in EntryIds,
         NEW start \in Times, NEW end \in Times \cup {Unset}, Update(r, e, start, end)
  PROVE  Inv'
<1>1. Live(start, end) \in Entry /\ Live(start, end).status = "live" /\ Live(start, end).end = end
  BY LiveTyped DEF Live
<1>2. Ready(Opened("update", "write", e, Live(start, end)))
  BY <1>1, OpenedFields DEF Ready, Inv, Update, Reopens
<1> QED BY <1>1, <1>2, BeginKeepsInv DEF Update

LEMMA DeleteKeepsInv ==
  ASSUME Inv, NEW r \in Requests, NEW e \in EntryIds, Delete(r, e)
  PROVE  Inv'
<1>1. Ready(Opened("delete", "write", e, NoRow))
  BY NoRowTyped, OpenedFields DEF Ready, Inv, Delete
<1> QED BY <1>1, NoRowTyped, BeginKeepsInv DEF Delete

-----------------------------------------------------------------------------
(* The statements that write.  Only one request writes at a time, and what *)
(* it has not written it sees as it is committed.                          *)

LEMMA MayWriteAlone ==
  ASSUME Inv, NEW r \in Requests, NEW e \in EntryIds, MayWrite(r, e)
  PROVE  ~req[r].stale /\ \A q \in Requests \ {r} : req[q].own = {}
<1>1. \A q \in Requests \ {r} : req[q].own = {} /\ ~req[r].stale
  BY DEF MayWrite, Inv
<1>2. CASE Requests = {r}
  BY <1>1, <1>2 DEF Inv, StaleByOthers
<1>3. CASE Requests # {r}
  BY <1>1, <1>3
<1> QED BY <1>2, <1>3
-----------------------------------------------------------------------------

\* One request has changed, the committed table has not.
LEMMA OneChanges ==
  ASSUME Inv, NEW r \in Requests, NEW q \in Request,
         req' = [req EXCEPT ![r] = q], entries' = entries, now' \in Times,
         q.stale => req[r].stale, Sound(q, entries),
         q.own # {} => \A p \in Requests \ {r} : req[p].own = {}
  PROVE  Inv'
<1>1. \A p \in Requests : req'[p] = IF p = r THEN q ELSE req[p]
  BY DEF Inv, TypeOK
<1>2. TypeOK'
  BY DEF Inv, TypeOK
<1>3. OneWriter'
  BY <1>1 DEF Inv, OneWriter
<1>4. StaleByOthers'
  BY <1>1 DEF Inv, StaleByOthers
<1> QED
  BY <1>1, <1>2, <1>3, <1>4 DEF Inv

\* Stopping one of at most one running timers leaves none.
LEMMA StoppingLeavesNone ==
  ASSUME NEW t \in Table, NEW e \in EntryIds, NEW row \in Entry, NEW u \in Table,
         AtMostOne(t), t[e].status = "live", u = [t EXCEPT ![e] = row],
         row.status = "live" /\ row.end = Unset => t[e].end = Unset
  PROVE  /\ AtMostOne(u)
         /\ t[e].end = Unset /\ row.end # Unset => Running(u) = {}
<1>1. \A f \in EntryIds : u[f] = IF f = e THEN row ELSE t[f]
  BY DEF Table
<1> QED
  BY <1>1 DEF AtMostOne, Running

LEMMA NewRowTyped ==
  ASSUME Inv, NEW r \in Requests, req[r].pc = "write"
  PROVE  LET q == req[r] row == NewRow(r) IN
         /\ row \in Entry
         /\ q.op \in {"create", "stop"} => row.status = "live" /\ row.end = now /\ now # Unset
         /\ q.op = "update" => row = q.row
         /\ q.op = "delete" => row.status = "gone" /\ row.end = q.table[q.id].end
<1> DEFINE q == req[r]  old == q.table[q.id]
<1>1. q \in Request /\ now \in Times
  BY DEF Inv, TypeOK
<1>2. q.id \in EntryIds /\ old.status = "live"
  BY DEF Inv, Sound, Active, Ready
<1>3. old \in Entry /\ q.row \in Entry /\ q.op \in {"create", "stop", "update", "delete"}
  BY <1>1, <1>2 DEF Request, Table
<1>4. CASE q.op \in {"create", "stop"}
  <2>1. NewRow(r) = [old EXCEPT !.end = now]
    BY <1>4 DEF NewRow
  <2> HIDE DEF old
  <2> QED BY <1>1, <1>2, <1>3, <1>4, <2>1, ClockTyped DEF Entry
<1>5. CASE q.op = "update"
  <2>1. NewRow(r) = q.row
    BY <1>5 DEF NewRow
  <2> QED BY <1>3, <1>5, <2>1
<1>6. CASE q.op = "delete"
  <2>1. NewRow(r) = [old EXCEPT !.status = "gone"]
    BY <1>6 DEF NewRow
  <2> HIDE DEF old
  <2>2. NewRow(r) \in Entry /\ NewRow(r).status = "gone" /\ NewRow(r).end = old.end
    BY <1>3, <2>1 DEF Entry, Statuses
  <2> QED BY <1>6, <2>2 DEF old
<1> QED BY <1>3, <1>4, <1>5, <1>6

LEMMA WriteKeepsInv ==
  ASSUME Inv, NEW r \in Requests, WriteRow(r)
  PROVE  Inv'
<1> DEFINE q == req[r]
           e == q.id
           row == NewRow(r)
           ev == RowEvent(r)
           u == [q.table EXCEPT ![e] = row]
           to == IF q.op = "create" THEN "insert" ELSE "commit"
           p == [q EXCEPT !.table = u, !.own = {e}, !.queue = <<ev>>, !.pc = to]
<1>1. /\ TypeOK /\ q \in Request /\ q.pc = "write" /\ Sound(q, entries)
      /\ MayWrite(r, e)
  BY DEF WriteRow, Inv, TypeOK
<1>2. /\ AtMostOne(q.table) /\ Ready(q) /\ Sees(q, entries) /\ Queued(q, entries)
      /\ q.own = {} /\ e \in EntryIds /\ q.table[e].status = "live"
  BY <1>1 DEF Sound, Active, Ready
<1>3. ~q.stale /\ \A o \in Requests \ {r} : req[o].own = {}
  BY <1>1, <1>2, MayWriteAlone
<1>4. q.queue = <<>> /\ q.table = entries
  <2>1. \A i \in DOMAIN q.queue : FALSE
    BY <1>2 DEF Queued, Tells
  <2>2. q.queue \in Seq(Event) /\ q.table \in Table /\ entries \in Table
    BY <1>1 DEF Request, TypeOK
  <2>3. q.queue = <<>>
    BY <2>1, <2>2
  <2>4. \A f \in EntryIds : q.table[f] = entries[f]
    BY <1>2, <1>3 DEF Sees
  <2> QED BY <2>2, <2>3, <2>4 DEF Table
<1>5. /\ row \in Entry
      /\ q.op \in {"create", "stop"} => row.status = "live" /\ row.end = now /\ now # Unset
      /\ q.op = "update" => row = q.row
      /\ q.op = "delete" => row.status = "gone" /\ row.end = q.table[e].end
      /\ q.op \in {"create", "stop", "update", "delete"}
  BY <1>1, NewRowTyped DEF Inv, Request
<1>6. /\ ev.id = e /\ ev.end = row.end
      /\ ev.kind = IF q.op = "delete" THEN "deleted" ELSE "updated"
      /\ ev \in Event
  BY <1>2, <1>5 DEF RowEvent, Event, Entry
<1>7. req' = [req EXCEPT ![r] = p] /\ entries' = entries /\ now' = now
  <2>1. Current(r, e).status = "live"
    BY <1>2 DEF Current, Inv
  <2>2. q.own \cup {e} = {e} /\ Append(q.queue, ev) = <<ev>>
    BY <1>2, <1>4
  <2>3. req' = [req EXCEPT ![r] = [q EXCEPT
             !.table = u, !.own = q.own \cup {e},
             !.queue = Append(q.queue, ev), !.pc = to]]
    BY <2>1 DEF WriteRow
  <2> QED BY <2>2, <2>3 DEF WriteRow
<1> HIDE DEF row, ev
<1>8. u \in Table /\ \A f \in EntryIds : u[f] = IF f = e THEN row ELSE q.table[f]
  BY <1>1, <1>2, <1>5 DEF Request, Table
<1>9. row.status = "live" /\ row.end = Unset => q.table[e].end = Unset
  BY <1>1, <1>2, <1>5 DEF Ready
<1>10. AtMostOne(u) /\ (q.table[e].end = Unset /\ row.end # Unset => Running(u) = {})
  <2>1. q.table \in Table
    BY <1>1 DEF Request
  <2> QED BY <1>2, <1>5, <1>8, <1>9, <2>1, StoppingLeavesNone
<1>11. /\ p \in Request /\ p.table = u /\ p.own = {e} /\ p.queue = <<ev>> /\ p.pc = to
       /\ p.op = q.op /\ p.id = e /\ p.row = q.row /\ (p.stale <=> q.stale)
  <2>1. to \in {"insert", "commit"} /\ {e} \in SUBSET EntryIds /\ <<ev>> \in Seq(Event)
    BY <1>2, <1>6
  <2> HIDE DEF to, u
  <2> QED BY <1>1, <1>8, <2>1 DEF Request
<1> HIDE DEF u, p
<1>12. Sees(p, entries)
  BY <1>4, <1>8, <1>11 DEF Sees
<1>13. Queued(p, entries)
  <2>1. Tells(ev, p, entries)
    BY <1>1, <1>2, <1>4, <1>5, <1>6, <1>8, <1>11 DEF Tells, Ready
  <2>2. DOMAIN p.queue = {1} /\ p.queue[1] = ev
    BY <1>11
  <2> QED BY <1>6, <1>11, <2>1, <2>2 DEF Queued
<1>14. MovesOwnEnd(p, entries)
  <2>1. entries[e].end # Unset => row.end = entries[e].end \/ (q.op = "update" /\ row.end # Unset)
    BY <1>1, <1>2, <1>4, <1>5 DEF Ready
  <2> QED BY <1>8, <1>2, <1>11, <2>1 DEF MovesOwnEnd
<1>15. Ready(p)
  BY <1>1, <1>2, <1>5, <1>10, <1>11 DEF Ready
<1>16. Sound(p, entries)
  BY <1>10, <1>11, <1>12, <1>13, <1>14, <1>15 DEF Sound, Active
<1> QED
  BY <1>1, <1>3, <1>7, <1>11, <1>16, OneChanges DEF TypeOK

LEMMA InsertKeepsInv ==
  ASSUME Inv, NEW r \in Requests, NEW e \in EntryIds, Insert(r, e)
  PROVE  Inv'
<1> DEFINE q == req[r]
           row == Live(StartOf(r), q.row.end)
           ev == [kind |-> "created", id |-> e, end |-> q.row.end]
           u == [q.table EXCEPT ![e] = row]
           p == [q EXCEPT !.table = u, !.own = q.own \cup {e},
                          !.queue = Append(q.queue, ev), !.pc = "commit"]
<1>1. /\ TypeOK /\ q \in Request /\ q.pc = "insert" /\ Sound(q, entries)
      /\ MayWrite(r, e) /\ entries[e].status = "none" /\ e \notin q.own
  BY DEF Insert, Fresh, Inv, TypeOK
<1>2. /\ AtMostOne(q.table) /\ Ready(q) /\ Sees(q, entries) /\ Queued(q, entries)
      /\ MovesOwnEnd(q, entries)
  BY <1>1 DEF Sound, Active
<1>3. ~q.stale /\ \A o \in Requests \ {r} : req[o].own = {}
  BY <1>1, MayWriteAlone
<1>4. q.table[e] = entries[e] /\ entries[e].end = Unset
  BY <1>1, <1>2, <1>3 DEF Sees, Inv, NoGhosts
<1>5. row \in Entry /\ row.status = "live" /\ row.end = q.row.end
  <2>1. q.row \in Entry /\ now \in Times
    BY <1>1 DEF Request, TypeOK
  <2>2. StartOf(r) \in Times \cup {Unset} /\ q.row.end \in Times \cup {Unset}
    BY <2>1 DEF StartOf, Entry
  <2> QED BY <2>2, LiveTyped DEF Live
<1>6. ev \in Event /\ ev.kind = "created" /\ ev.id = e /\ ev.end = q.row.end
  BY <1>1 DEF Event, Request, Entry
<1>7. req' = [req EXCEPT ![r] = p] /\ entries' = entries /\ now' = now
  BY DEF Insert
<1> HIDE DEF row, ev
<1>8. u \in Table /\ \A f \in EntryIds : u[f] = IF f = e THEN row ELSE q.table[f]
  BY <1>1, <1>5 DEF Request, Table
<1> HIDE DEF u
<1>9. /\ p \in Request /\ p.table = u /\ p.own = q.own \cup {e}
      /\ p.queue = Append(q.queue, ev) /\ p.pc = "commit"
      /\ p.op = q.op /\ p.id = q.id /\ p.row = q.row /\ (p.stale <=> q.stale)
  <2> DEFINE own == q.own \cup {e}  queue == Append(q.queue, ev)
  <2>1. own \in SUBSET EntryIds /\ queue \in Seq(Event)
    BY <1>1, <1>6 DEF Request
  <2>2. p = [q EXCEPT !.table = u, !.own = own, !.queue = queue, !.pc = "commit"]
    OBVIOUS
  <2> HIDE DEF own, queue, p
  <2>3. /\ p \in Request /\ p.table = u /\ p.own = own /\ p.queue = queue /\ p.pc = "commit"
        /\ p.op = q.op /\ p.id = q.id /\ p.row = q.row /\ (p.stale <=> q.stale)
    BY <1>1, <1>8, <2>1, <2>2 DEF Request
  <2> QED BY <2>3 DEF own, queue
<1> HIDE DEF p
<1>10. AtMostOne(u)
  <2>1. CASE row.end = Unset
    <3>1. \A f \in EntryIds : f \notin Running(q.table)
      BY <1>1, <1>2, <1>5, <2>1 DEF Ready, Running
    <3>2. \A f \in Running(u) : f = e
      BY <1>8, <3>1 DEF Running
    <3> QED BY <3>2 DEF AtMostOne
  <2>2. CASE row.end # Unset
    <3>1. Running(u) \subseteq Running(q.table)
      BY <1>8, <2>2 DEF Running
    <3> QED BY <1>2, <3>1 DEF AtMostOne
  <2> QED BY <2>1, <2>2
<1>11. Sees(p, entries)
  BY <1>2, <1>3, <1>8, <1>9 DEF Sees
<1>12. Queued(p, entries)
  <2> DEFINE n == Len(q.queue)
  <2>1. q.queue \in Seq(Event) /\ n \in Nat
    BY <1>1 DEF Request
  <2>2. /\ DOMAIN p.queue = 1..(n + 1)
        /\ \A i \in 1..n : p.queue[i] = q.queue[i]
        /\ p.queue[n + 1] = ev
        /\ DOMAIN q.queue = 1..n
    BY <1>6, <1>9, <2>1
  <2>3. Tells(ev, p, entries)
    BY <1>1, <1>5, <1>6, <1>8, <1>9 DEF Tells
  <2>4. \A i \in 1..n : Tells(q.queue[i], p, entries)
    <3> SUFFICES ASSUME NEW i \in 1..n
                 PROVE  Tells(q.queue[i], p, entries)
      OBVIOUS
    <3>1. Tells(q.queue[i], q, entries)
      BY <1>2, <2>2 DEF Queued
    <3>2. q.queue[i].id # e /\ q.queue[i].id \in q.own /\ q.own \subseteq EntryIds
      BY <1>1, <3>1 DEF Tells, Request
    <3>3. p.table[q.queue[i].id] = q.table[q.queue[i].id]
      BY <1>8, <1>9, <3>2
    <3> QED BY <1>9, <3>1, <3>2, <3>3 DEF Tells
  <2>5. \A f \in p.own : \E i \in DOMAIN p.queue : p.queue[i].id = f
    <3> SUFFICES ASSUME NEW f \in p.own
                 PROVE  \E i \in DOMAIN p.queue : p.queue[i].id = f
      OBVIOUS
    <3>1. CASE f = e
      BY <1>6, <2>1, <2>2, <3>1
    <3>2. CASE f \in q.own
      <4>1. PICK i \in DOMAIN q.queue : q.queue[i].id = f
        BY <1>2, <3>2 DEF Queued
      <4> QED BY <2>1, <2>2, <4>1
    <3> QED BY <1>9, <3>1, <3>2
  <2>6. \A i \in DOMAIN p.queue : Tells(p.queue[i], p, entries)
    <3> SUFFICES ASSUME NEW i \in 1..(n + 1)
                 PROVE  Tells(p.queue[i], p, entries)
      BY <2>2
    <3>1. i \in 1..n \/ i = n + 1
      BY <2>1
    <3> QED BY <2>2, <2>3, <2>4, <3>1
  <2> QED BY <2>5, <2>6 DEF Queued
<1>13. MovesOwnEnd(p, entries)
  <2>1. \A f \in q.own : p.table[f] = q.table[f]
    BY <1>1, <1>8, <1>9 DEF Request
  <2> QED BY <1>2, <1>4, <1>9, <2>1 DEF MovesOwnEnd
<1>14. Ready(p)
  BY <1>9 DEF Ready
<1>15. Sound(p, entries)
  BY <1>9, <1>10, <1>11, <1>12, <1>13, <1>14 DEF Sound, Active
<1> QED
  BY <1>1, <1>3, <1>7, <1>9, <1>15, OneChanges DEF TypeOK

-----------------------------------------------------------------------------
(* The end of a request.                                                   *)

LEMMA NoRequestSound ==
  ASSUME NEW t
  PROVE  Sound(NoRequest, t) /\ ~NoRequest.stale /\ NoRequest.own = {}
  BY DEF Sound, Active, NoRequest

LEMMA FailKeepsInv ==
  ASSUME Inv, NEW r \in Requests, Fail(r)
  PROVE  Inv'
<1>1. req' = [req EXCEPT ![r] = NoRequest] /\ entries' = entries /\ now' \in Times
  BY DEF Fail, Inv, TypeOK
<1>2. NoRequest \in Request /\ Sound(NoRequest, entries) /\ ~NoRequest.stale /\ NoRequest.own = {}
  BY NoRequestTyped, NoRequestSound
<1> DEFINE n == NoRequest
<1> HIDE DEF n
<1>3. /\ n \in Request /\ Sound(n, entries) /\ ~n.stale /\ n.own = {}
      /\ req' = [req EXCEPT ![r] = n]
  BY <1>1, <1>2 DEF n
<1> QED BY <1>1, <1>3, OneChanges

LEMMA DispatchKeepsInv ==
  ASSUME Inv, NEW r \in Requests, DispatchPending(r)
  PROVE  Inv'
<1> DEFINE q == req[r]
<1>1. q \in Request /\ q.pc = "announce" /\ Sound(q, entries) /\ now' \in Times /\ entries' = entries
  BY DEF DispatchPending, Inv, TypeOK
<1>2. CASE q.queue = <<>>
  <2>1. req' = [req EXCEPT ![r] = NoRequest]
    BY <1>2 DEF DispatchPending
  <2> DEFINE n == NoRequest
  <2>2. NoRequest \in Request /\ Sound(NoRequest, entries) /\ ~NoRequest.stale /\ NoRequest.own = {}
    BY NoRequestTyped, NoRequestSound
  <2> HIDE DEF n
  <2>3. /\ n \in Request /\ Sound(n, entries) /\ ~n.stale /\ n.own = {}
        /\ req' = [req EXCEPT ![r] = n]
    BY <2>1, <2>2 DEF n
  <2> QED BY <1>1, <2>3, OneChanges
<1>3. CASE q.queue # <<>>
  <2> DEFINE p == [q EXCEPT !.queue = Tail(q.queue)]
  <2>1. Tail(q.queue) \in Seq(Event)
    BY <1>1, <1>3 DEF Request
  <2>2. p \in Request /\ p.pc = "announce" /\ p.own = q.own /\ (p.stale <=> q.stale)
    BY <1>1, <2>1 DEF Request
  <2>3. req' = [req EXCEPT ![r] = p]
    BY <1>1, <1>3 DEF DispatchPending, Inv, TypeOK, Request
  <2>4. p.own = {}
    BY <1>1, <2>2 DEF Sound, Active
  <2> HIDE DEF p
  <2>5. Sound(p, entries)
    BY <2>2, <2>4 DEF Sound, Active
  <2> QED BY <1>1, <2>2, <2>3, <2>4, <2>5, OneChanges
<1> QED BY <1>2, <1>3

\* What the commit leaves of the others: they have written nothing.
LEMMA CommitFields ==
  ASSUME Inv, NEW r \in Requests, Commit(r)
  PROVE  /\ req[r] \in Request /\ Active(req[r]) /\ Sound(req[r], entries) /\ req[r].own # {}
         /\ entries' = req[r].table /\ now' = now
         /\ req'[r] = [NoRequest EXCEPT !.pc = "announce", !.queue = req[r].queue]
         /\ \A o \in Requests \ {r} :
              /\ req[o].own = {}
              /\ req'[o] = IF InTransaction(o) THEN [req[o] EXCEPT !.stale = TRUE] ELSE req[o]
         /\ req' = [o \in Requests |-> req'[o]]
<1> DEFINE q == req[r]
<1>1. q \in Request /\ q.pc = "commit" /\ Sound(q, entries) /\ entries \in Table
  BY DEF Commit, Inv, TypeOK
<1>2. Active(q) /\ q.own # {} /\ Sees(q, entries)
  BY <1>1 DEF Sound, Active, Ready
<1>3. entries' = q.table
  <2>1. \A e \in EntryIds : (IF e \in q.own THEN q.table[e] ELSE entries[e]) = q.table[e]
    BY <1>2 DEF Sees
  <2>2. q.table = [e \in EntryIds |-> q.table[e]]
    BY <1>1 DEF Request, Table
  <2> QED BY <2>1, <2>2 DEF Commit
<1>4. \A o \in Requests \ {r} : req[o].own = {}
  BY <1>2 DEF Inv, OneWriter
<1> QED BY <1>1, <1>2, <1>3, <1>4 DEF Commit, Inv

LEMMA CommitKeepsInv ==
  ASSUME Inv, NEW r \in Requests, Commit(r)
  PROVE  Inv'
<1> DEFINE q == req[r]
<1>1. /\ q \in Request /\ Active(q) /\ Sound(q, entries) /\ q.own # {}
      /\ entries' = q.table /\ now' = now
      /\ req'[r] = [NoRequest EXCEPT !.pc = "announce", !.queue = q.queue]
      /\ \A o \in Requests \ {r} :
           /\ req[o].own = {}
           /\ req'[o] = IF InTransaction(o) THEN [req[o] EXCEPT !.stale = TRUE] ELSE req[o]
      /\ req' = [o \in Requests |-> req'[o]]
  BY CommitFields
<1>2. /\ req'[r] \in Request /\ req'[r].pc = "announce" /\ req'[r].own = {} /\ ~req'[r].stale
  <2> DEFINE n == NoRequest
  <2>1. n \in Request /\ n.own = {} /\ ~n.stale
    BY NoRequestTyped, NoRequestSound
  <2>2. q.queue \in Seq(Event) /\ req'[r] = [n EXCEPT !.pc = "announce", !.queue = q.queue]
    BY <1>1 DEF Request
  <2> HIDE DEF n
  <2> QED BY <2>1, <2>2 DEF Request
<1>3. ASSUME NEW o \in Requests \ {r}
      PROVE  /\ req'[o] \in Request /\ req'[o].own = {} /\ (req'[o].stale => Requests # {o})
             /\ Sound(req'[o], entries')
  <2> DEFINE a == req[o]
  <2>1. a \in Request /\ Sound(a, entries) /\ a.own = {} /\ (a.stale => Requests # {o})
    BY <1>1 DEF Inv, TypeOK, StaleByOthers
  <2>2. CASE ~InTransaction(o)
    <3>1. req'[o] = a
      BY <1>1, <2>2
    <3> QED BY <2>1, <2>2, <3>1 DEF Sound, Active, InTransaction
  <2>3. CASE InTransaction(o)
    <3> DEFINE b == [a EXCEPT !.stale = TRUE]
    <3>1. req'[o] = b
      BY <1>1, <2>3
    <3>2. /\ b \in Request /\ b.own = {} /\ b.pc = a.pc /\ b.op = a.op /\ b.id = a.id
          /\ b.row = a.row /\ b.table = a.table /\ b.queue = a.queue /\ b.stale
      BY <2>1 DEF Request
    <3> HIDE DEF b
    <3>3. Active(a) /\ a.queue \in Seq(Event)
      BY <2>1, <2>3 DEF Active, InTransaction, Request
    <3>4. AtMostOne(a.table) /\ Ready(a) /\ Queued(a, entries)
      BY <2>1, <3>3 DEF Sound
    <3>5. \A i \in DOMAIN b.queue : FALSE
      BY <2>1, <3>2, <3>4 DEF Queued, Tells
    <3>6. Ready(b)
      BY <3>2, <3>4, <2>1 DEF Ready
    <3>7. Sees(b, entries') /\ Queued(b, entries') /\ MovesOwnEnd(b, entries')
      BY <3>2, <3>5 DEF Sees, Queued, MovesOwnEnd
    <3>8. Sound(b, entries')
      BY <3>2, <3>4, <3>6, <3>7 DEF Sound
    <3> QED BY <3>1, <3>2, <3>8
  <2> QED BY <2>2, <2>3
<1>4. TypeOK'
  <2>1. \A o \in Requests : req'[o] \in Request
    BY <1>2, <1>3
  <2>2. q.table \in Table /\ now \in Times
    BY <1>1 DEF Request, Inv, TypeOK
  <2> QED BY <1>1, <2>1, <2>2 DEF TypeOK
<1>5. AtMostOne(entries')
  BY <1>1 DEF Sound
<1>6. NoGhosts(entries')
  <2> SUFFICES ASSUME NEW e \in EntryIds, q.table[e].status = "none"
               PROVE  q.table[e].end = Unset
    BY <1>1 DEF NoGhosts
  <2>1. Sees(q, entries) /\ Queued(q, entries)
    BY <1>1 DEF Sound
  <2>2. CASE e \notin q.own
    BY <1>1, <2>1, <2>2 DEF Sees, Inv, NoGhosts
  <2>3. CASE e \in q.own
    <3>1. PICK i \in DOMAIN q.queue : q.queue[i].id = e /\ Tells(q.queue[i], q, entries)
      BY <2>1, <2>3 DEF Queued
    <3>2. q.queue[i] \in Event
      BY <1>1, <3>1 DEF Request
    <3> QED BY <3>1, <3>2 DEF Tells, Event
  <2> QED BY <2>2, <2>3
<1>7. OneWriter' /\ StaleByOthers'
  BY <1>2, <1>3 DEF OneWriter, StaleByOthers
<1>8. Sound(req'[r], entries')
  BY <1>2 DEF Sound, Active
<1> QED
  BY <1>3, <1>4, <1>5, <1>6, <1>7, <1>8 DEF Inv

LEMMA CrashKeepsInv ==
  ASSUME Inv, Crash
  PROVE  Inv'
<1>1. req' = [r \in Requests |-> NoRequest] /\ entries' = entries /\ now' = now
  BY DEF Crash
<1>2. \A r \in Requests : req'[r] = NoRequest
  BY <1>1
<1>3. NoRequest \in Request /\ Sound(NoRequest, entries) /\ ~NoRequest.stale /\ NoRequest.own = {}
  BY NoRequestTyped, NoRequestSound
<1>4. TypeOK'
  BY <1>1, <1>3 DEF Inv, TypeOK
<1>5. OneWriter' /\ StaleByOthers'
  BY <1>2, <1>3 DEF OneWriter, StaleByOthers
<1>6. \A r \in Requests : Sound(req[r], entries)'
  BY <1>1, <1>2, <1>3
<1> QED
  BY <1>1, <1>4, <1>5, <1>6 DEF Inv

LEMMA TickKeepsInv ==
  ASSUME Inv, Tick
  PROVE  Inv'
<1>1. now' \in Times
  BY ConstantsAssumption DEF Tick, Inv, TypeOK, Times
<1> QED BY <1>1 DEF Tick, Inv, TypeOK, OneWriter, StaleByOthers

LEMMA InitInv ==
  ASSUME Snapshots = TRUE, Init
  PROVE  Inv
<1>1. \A r \in Requests : req[r] = NoRequest
  BY DEF Init
<1>2. NoRequest \in Request /\ Sound(NoRequest, entries) /\ ~NoRequest.stale /\ NoRequest.own = {}
  BY NoRequestTyped, NoRequestSound
<1>3. TypeOK
  BY <1>2, NoRowTyped, ClockTyped DEF Init, TypeOK, Table
<1>4. NoGhosts(entries) /\ AtMostOne(entries)
  BY DEF Init, NoGhosts, AtMostOne, Running, NoRow
<1> QED
  BY <1>1, <1>2, <1>3, <1>4 DEF Inv, OneWriter, StaleByOthers

LEMMA StutterKeepsInv ==
  ASSUME Inv, UNCHANGED vars
  PROVE  Inv'
  BY DEF Inv, vars, TypeOK, OneWriter, StaleByOthers

LEMMA NextKeepsInv ==
  ASSUME Inv, [Next]_vars
  PROVE  Inv'
<1>1. CASE UNCHANGED vars
  BY <1>1, StutterKeepsInv
<1>2. ASSUME NEW r \in Requests, NEW start \in Times \cup {Unset}, NEW end \in Times \cup {Unset},
             Create(r, start, end)
      PROVE  Inv'
  BY <1>2, CreateKeepsInv
<1>3. ASSUME NEW r \in Requests, NEW e \in EntryIds, NEW start \in Times,
             NEW end \in Times \cup {Unset}, Update(r, e, start, end)
      PROVE  Inv'
  BY <1>3, UpdateKeepsInv
<1>4. ASSUME NEW r \in Requests, NEW e \in EntryIds, Delete(r, e) \/ Insert(r, e)
      PROVE  Inv'
  BY <1>4, DeleteKeepsInv, InsertKeepsInv
<1>5. ASSUME NEW r \in Requests,
             \/ StopRunningTimer(r) \/ WriteRow(r) \/ Fail(r) \/ Commit(r) \/ DispatchPending(r)
      PROVE  Inv'
  BY <1>5, StopKeepsInv, WriteKeepsInv, FailKeepsInv, CommitKeepsInv, DispatchKeepsInv
<1>6. CASE Crash \/ Tick
  BY <1>6, CrashKeepsInv, TickKeepsInv
<1> QED BY <1>1, <1>2, <1>3, <1>4, <1>5, <1>6 DEF Next

-----------------------------------------------------------------------------
(* Theorems.                                                               *)

\* The invariant holds in every reachable state.
THEOREM Invariance ==
  ASSUME Snapshots = TRUE
  PROVE  Spec => []Inv
<1>1. Init => Inv
  BY InitInv
<1>2. Inv /\ [Next]_vars => Inv'
  BY NextKeepsInv
<1> QED BY <1>1, <1>2, PTL DEF Spec

\* The variables have their types: a request only queues events of entries it may
\* have changed, and only writes rows with the times the clock can show.
THEOREM TypeCorrect ==
  ASSUME Snapshots = TRUE
  PROVE  Spec => []TypeOK
<1>1. Inv => TypeOK
  BY DEF Inv
<1> QED BY <1>1, Invariance, PTL

\* time_tracking.go's single-active-timer rule: however many requests look for the
\* running timer, stop it and insert another one between each other's statements,
\* never two entries run.
THEOREM OneTimer ==
  ASSUME Snapshots = TRUE
  PROVE  Spec => []OneRunningTimer
<1>1. Inv => OneRunningTimer
  <2> SUFFICES ASSUME Inv
               PROVE  Cardinality(Running(entries)) <= 1
    BY DEF OneRunningTimer
  <2>1. CASE Running(entries) = {}
    <3>1. Cardinality({}) = 0
      BY FS_EmptySet
    <3> QED BY <2>1, <3>1
  <2>2. CASE Running(entries) # {}
    <3>1. PICK e \in Running(entries) : TRUE
      BY <2>2
    <3>2. Running(entries) = {e}
      BY <3>1 DEF Inv, AtMostOne
    <3>3. Cardinality({e}) = 1
      BY FS_Singleton
    <3> QED BY <3>2, <3>3
  <2> QED BY <2>1, <2>2
<1> QED BY <1>1, Invariance, PTL

\* Which entries a step can change: those the committing request has written.
LEMMA OnlyCommitsWrite ==
  ASSUME Inv, [Next]_vars, entries' # entries
  PROVE  \E r \in Requests : Commit(r)
<1>1. Inv /\ entries' # entries
  OBVIOUS
<1> QED
  BY <1>1 DEF Next, vars, Create, Begin, StopRunningTimer, Update, Delete, WriteRow, Insert,
     Fail, DispatchPending, Crash, Tick

\* A completed entry stays completed: a request that stops the running timer never
\* moves the end of an entry which another one has completed since, and no edit
\* that passed the check against reopening takes the end of an entry away.
THEOREM EndsKept ==
  ASSUME Snapshots = TRUE
  PROVE  Spec => EndedStaysEnded
<1>1. ASSUME Inv, [Next]_vars
      PROVE  [\A e \in EntryIds :
                /\ entries[e].end # Unset
                /\ entries'[e].end # entries[e].end
                => /\ entries'[e].end # Unset
                   /\ \E r \in Requests : /\ req[r].pc = "commit" /\ req[r].op = "update"
                                          /\ req[r].id = e /\ req'[r].pc = "announce"]_vars
  <2> SUFFICES ASSUME NEW e \in EntryIds, entries[e].end # Unset, entries'[e].end # entries[e].end
               PROVE  /\ entries'[e].end # Unset
                      /\ \E r \in Requests : /\ req[r].pc = "commit" /\ req[r].op = "update"
                                             /\ req[r].id = e /\ req'[r].pc = "announce"
    OBVIOUS
  <2>1. PICK r \in Requests : Commit(r)
    BY <1>1, OnlyCommitsWrite
  <2>2. /\ Active(req[r]) /\ Sound(req[r], entries) /\ req[r].own # {}
        /\ entries' = req[r].table
    BY <1>1, <2>1, CommitFields
  <2>3. Sees(req[r], entries) /\ MovesOwnEnd(req[r], entries)
    BY <2>2 DEF Sound
  <2>4. e \in req[r].own
    BY <2>2, <2>3 DEF Sees
  <2>5. req[r].op = "update" /\ req[r].id = e /\ entries'[e].end # Unset
    BY <2>2, <2>3, <2>4 DEF MovesOwnEnd
  <2>6. req[r].pc = "commit" /\ req'[r].pc = "announce"
    BY <2>1 DEF Commit, NoRequest
  <2> QED BY <2>5, <2>6
<1> QED BY <1>1, Invariance, PTL DEF Spec, EndedStaysEnded

-----------------------------------------------------------------------------
(* The promise of Outbox.                                                  *)

Told == [e \in EntryIds |-> [status |-> entries[e].status, end |-> entries[e].end]]
Owed == [r \in Requests |-> IF req[r].pc = "announce" THEN req[r].queue ELSE <<>>]

\* A step that leaves the table and what is owed alone is a stutter of Outbox.
LEMMA Stutters ==
  ASSUME entries' = entries,
         \A r \in Requests :
           (IF req'[r].pc = "announce" THEN req'[r].queue ELSE <<>>)
             = (IF req[r].pc = "announce" THEN req[r].queue ELSE <<>>)
  PROVE  UNCHANGED Promise!vars
  BY DEF Promise!vars

LEMMA CommitPromises ==
  ASSUME Inv, Inv', NEW r \in Requests, Commit(r)
  PROVE  Promise!Commit(r)
<1> DEFINE q == req[r]
<1>1. /\ q \in Request /\ q.pc = "commit" /\ Sound(q, entries) /\ q.own # {} /\ Active(q)
      /\ entries' = q.table
      /\ req'[r] = [NoRequest EXCEPT !.pc = "announce", !.queue = q.queue]
      /\ \A o \in Requests \ {r} :
           req'[o] = IF InTransaction(o) THEN [req[o] EXCEPT !.stale = TRUE] ELSE req[o]
  BY CommitFields DEF Commit
<1>2. Sees(q, entries) /\ Queued(q, entries)
  BY <1>1 DEF Sound
<1>3. Owed[r] = <<>> /\ Owed'[r] = q.queue
  <2>1. Owed[r] = <<>>
    BY <1>1 DEF Owed
  <2>2. req'[r].pc = "announce" /\ req'[r].queue = q.queue
    BY <1>1 DEF NoRequest
  <2>3. Owed'[r] = req'[r].queue
    BY <2>2 DEF Owed
  <2> QED BY <2>1, <2>2, <2>3
<1>4. \A o \in Requests \ {r} : Owed'[o] = Owed[o]
  <2> SUFFICES ASSUME NEW o \in Requests \ {r}
               PROVE  Owed'[o] = Owed[o]
    OBVIOUS
  <2>1. req[o] \in Request
    BY DEF Inv, TypeOK
  <2>2. req'[o].pc = req[o].pc /\ req'[o].queue = req[o].queue
    BY <1>1, <2>1 DEF Request
  <2> QED BY <2>2 DEF Owed
<1>5. Owed' \in [Requests -> Seq(Event)]
  <2>1. TypeOK'
    BY DEF Inv
  <2> QED BY <2>1 DEF TypeOK, Request, Owed
<1>6. \A i \in DOMAIN q.queue : Promise!Describes(q.queue[i], Told, Told')
  <2> SUFFICES ASSUME NEW i \in DOMAIN q.queue
               PROVE  Promise!Describes(q.queue[i], Told, Told')
    OBVIOUS
  <2> DEFINE ev == q.queue[i]
  <2>1. ev \in Event /\ Tells(ev, q, entries)
    BY <1>1, <1>2 DEF Queued, Request
  <2>2. ev.id \in EntryIds /\ ev.kind \in {"created", "updated", "deleted"}
    BY <2>1 DEF Event
  <2>3. /\ Told[ev.id].status = entries[ev.id].status
        /\ Told'[ev.id].status = q.table[ev.id].status
        /\ Told'[ev.id].end = q.table[ev.id].end
    BY <1>1, <2>2 DEF Told
  <2> HIDE DEF ev
  <2>4. Promise!Describes(ev, Told, Told')
    BY <2>1, <2>2, <2>3 DEF Promise!Describes, Tells
  <2> QED BY <2>4 DEF ev
<1>7. ASSUME NEW e \in EntryIds, Told'[e] # Told[e]
      PROVE  \E i \in DOMAIN q.queue : q.queue[i].id = e
  <2>1. entries'[e] # entries[e]
    BY <1>7 DEF Told
  <2>2. e \in q.own
    BY <1>1, <1>2, <2>1 DEF Sees
  <2> QED BY <1>2, <2>2 DEF Queued
<1> HIDE DEF q
<1>8. \A ev \in {Owed'[r][i] : i \in DOMAIN Owed'[r]} : Promise!Describes(ev, Told, Told')
  BY <1>3, <1>6
<1>9. \A e \in EntryIds : Told'[e] # Told[e] =>
        \E ev \in {Owed'[r][i] : i \in DOMAIN Owed'[r]} : ev.id = e
  BY <1>3, <1>7
<1> QED
  BY <1>3, <1>4, <1>5, <1>8, <1>9, Zenon DEF Promise!Commit, Told, Owed

LEMMA DispatchPromises ==
  ASSUME Inv, NEW r \in Requests, DispatchPending(r)
  PROVE  Promise!Announce(r) \/ UNCHANGED Promise!vars
<1>1. req[r] \in Request /\ req \in [Requests -> Request]
  BY DEF Inv, TypeOK
<1>2. CASE req[r].queue = <<>>
  <2>1. req' = [req EXCEPT ![r] = NoRequest] /\ entries' = entries
    BY <1>2 DEF DispatchPending
  <2>2. NoRequest.pc = "idle"
    BY DEF NoRequest
  <2> QED BY <1>1, <1>2, <2>1, <2>2, Stutters
<1>3. CASE req[r].queue # <<>>
  <2>1. /\ req[r].pc = "announce" /\ entries' = entries
        /\ req' = [req EXCEPT ![r].queue = Tail(req[r].queue)]
    BY <1>3 DEF DispatchPending
  <2>2. req'[r].pc = "announce" /\ req'[r].queue = Tail(req[r].queue)
    BY <1>1, <2>1 DEF Request
  <2>3. Owed[r] = req[r].queue /\ Owed' = [Owed EXCEPT ![r] = Tail(Owed[r])]
    <3>1. Owed[r] = req[r].queue
      BY <2>1 DEF Owed
    <3>2. \A o \in Requests :
            (IF req'[o].pc = "announce" THEN req'[o].queue ELSE <<>>)
              = IF o = r THEN Tail(req[r].queue)
                ELSE IF req[o].pc = "announce" THEN req[o].queue ELSE <<>>
      BY <1>1, <2>1, <2>2
    <3> QED BY <3>1, <3>2 DEF Owed
  <2>4. Told' = Told
    BY <2>1 DEF Told
  <2> QED BY <1>3, <2>3, <2>4 DEF Promise!Announce, Told, Owed
<1> QED BY <1>2, <1>3

\* Every other step of a request stutters.
LEMMA OthersStutter ==
  ASSUME Inv, NEW r \in Requests, NEW p,
         req' = [req EXCEPT ![r] = p], entries' = entries,
         req[r].pc # "announce", p.pc # "announce"
  PROVE  UNCHANGED Promise!vars
<1>1. \A o \in Requests : req'[o] = IF o = r THEN p ELSE req[o]
  BY DEF Inv, TypeOK
<1> QED BY <1>1, Stutters

LEMMA BeginStutters ==
  ASSUME Inv, NEW r \in Requests, NEW op, NEW pc \in {"write", "insert"}, NEW id, NEW row,
         Begin(r, op, pc, id, row)
  PROVE  UNCHANGED Promise!vars
<1>1. req' = [req EXCEPT ![r] = Opened(op, pc, id, row)] /\ entries' = entries
      /\ req[r].pc # "announce"
  BY DEF Begin, Idle, Opened
<1>2. Opened(op, pc, id, row).pc # "announce"
  BY DEF Opened, NoRequest
<1> QED BY <1>1, <1>2, OthersStutter

LEMMA StatementStutters ==
  ASSUME Inv, NEW r \in Requests,
         \/ WriteRow(r)
         \/ \E e \in EntryIds : Insert(r, e)
         \/ Fail(r)
  PROVE  UNCHANGED Promise!vars
<1>1. req[r].pc \in {"write", "insert", "commit"} /\ entries' = entries
  BY DEF WriteRow, Insert, Fail, InTransaction
<1>2. req[r] \in Request /\ req \in [Requests -> Request]
  BY DEF Inv, TypeOK
<1>3. \A o \in Requests \ {r} : req'[o] = req[o]
  BY <1>2 DEF WriteRow, Insert, Fail
<1>4. req'[r].pc # "announce"
  <2>1. CASE Fail(r)
    BY <1>2, <2>1 DEF Fail, NoRequest
  <2>2. CASE WriteRow(r)
    BY <1>2, <2>2 DEF WriteRow, Request
  <2>3. ASSUME NEW e \in EntryIds, Insert(r, e)
        PROVE  req'[r].pc # "announce"
    BY <1>2, <2>3 DEF Insert, Request
  <2> QED BY <2>1, <2>2, <2>3
<1> QED BY <1>1, <1>3, <1>4, Stutters

LEMMA StepPromises ==
  ASSUME Inv, Inv', [Next]_vars
  PROVE  [Promise!Next]_(Promise!vars)
<1>1. CASE UNCHANGED vars
  BY <1>1, Stutters DEF vars
<1>2. ASSUME NEW r \in Requests, NEW start, NEW end, Create(r, start, end)
      PROVE  UNCHANGED Promise!vars
  BY <1>2, BeginStutters DEF Create
<1>3. ASSUME NEW r \in Requests, StopRunningTimer(r)
      PROVE  UNCHANGED Promise!vars
  BY <1>3, BeginStutters DEF StopRunningTimer
<1>4. ASSUME NEW r \in Requests, NEW e \in EntryIds, NEW start, NEW end, Update(r, e, start, end)
      PROVE  UNCHANGED Promise!vars
  BY <1>4, BeginStutters DEF Update
<1>5. ASSUME NEW r \in Requests, NEW e \in EntryIds, Delete(r, e)
      PROVE  UNCHANGED Promise!vars
  BY <1>5, BeginStutters DEF Delete
<1>6. ASSUME NEW r \in Requests,
             WriteRow(r) \/ (\E e \in EntryIds : Insert(r, e)) \/ Fail(r)
      PROVE  UNCHANGED Promise!vars
  BY <1>6, StatementStutters
<1>7. ASSUME NEW r \in Requests, Commit(r)
      PROVE  Promise!Next
  BY <1>7, CommitPromises DEF Promise!Next
<1>8. ASSUME NEW r \in Requests, DispatchPending(r)
      PROVE  [Promise!Next]_(Promise!vars)
  BY <1>8, DispatchPromises DEF Promise!Next
<1>9. CASE Crash
  <2>1. entries' = entries /\ \A r \in Requests : req'[r].pc = "idle"
    BY <1>9 DEF Crash, NoRequest
  <2> QED BY <2>1 DEF Promise!Next, Promise!Crash
<1>10. CASE Tick
  BY <1>10, Stutters DEF Tick
<1> QED
  BY <1>1, <1>2, <1>3, <1>4, <1>5, <1>6, <1>7, <1>8, <1>9, <1>10 DEF Next

\* The requests implement Outbox: an event is announced only after its commit, and
\* a commit owes one for each of its changes, which says what the change was;
\* events that were queued by a statement before the transaction failed are gone.
THEOREM OutboxKept ==
  ASSUME Snapshots = TRUE
  PROVE  Spec => KeepsAnOutbox
<1>1. Init => Promise!Init
  BY DEF Init, Promise!Init, NoRow, NoRequest
<1>2. Inv /\ Inv' /\ [Next]_vars => [Promise!Next]_(Promise!vars)
  BY StepPromises
<1> QED BY <1>1, <1>2, Invariance, PTL DEF Spec, KeepsAnOutbox, Promise!Spec
=============================================================================
