------------------------------ MODULE LiveFeed ------------------------------
(***************************************************************************)
(* What a browser tab shows of the server's pushed events: the client of   *)
(* the websocket (src/frontend/src/app/realtime.ts), the list of           *)
(* notifications (features/notifications/application.ts) and the badge of  *)
(* the running timer (features/timer/application.ts).                      *)
(*                                                                         *)
(* Both applications ask the server over HTTP and listen to events, and    *)
(* merge the two.  Events of one connection may overtake each other, since *)
(* the server's topics are delivered independently; what is pushed while   *)
(* no subscription stands is lost.  One user, one entry running at a time. *)
(***************************************************************************)
EXTENDS Naturals

CONSTANTS
  Notes,     \* notifications, each created at most once
  Entries,   \* time entries, each started at most once
  None,      \* no entry, no request
  MaxActs    \* bound: what users, the network and other tabs do

ASSUME FeedAssumption == None \notin Notes \cup Entries /\ MaxActs \in Nat

VARIABLES
  notes, entries,      \* on the server
  push,                \* events on their way to this tab
  up,                  \* the shell and its applications run
  turned,              \* the session's transition is not the one they started in
  conn, retry, connected,  \* the websocket, its reconnect timer, what is published of it
  rows, read, mutation,    \* the list, its request under way, its change under way
  active, hydration, stop, \* the badge, its request, its stop of the timer
  acts,
  off, cleared         \* history: entries seen ended, notifications cleared here

vars == <<notes, entries, push, up, turned, conn, retry, connected,
          rows, read, mutation, active, hydration, stop, acts, off, cleared>>

server == <<notes, entries>>
socket == <<push, conn, retry, connected>>
list == <<rows, read, mutation, cleared>>
badge == <<active, hydration, stop, off>>

Current == up /\ ~turned
Listed == { n \in Notes : rows[n] # "none" }
Act == acts < MaxActs /\ acts' = acts + 1

Empty == [n \in Notes |-> "none"]

Init ==
  /\ notes = Empty /\ entries = [e \in Entries |-> "none"]
  /\ push = {} /\ conn = "none" /\ retry = FALSE /\ connected = FALSE
  /\ up = FALSE /\ turned = FALSE
  /\ rows = Empty /\ read = None /\ mutation = None
  /\ active = None /\ hydration = None /\ stop = None
  /\ acts = 0 /\ off = {} /\ cleared = {}

-----------------------------------------------------------------------------
(* Requests.  A later one of the same kind aborts the earlier one.         *)

\* load(): `fresh` is that nothing has been published since, `late` what has.
Load == [at |-> "sent", answer |-> Empty, fresh |-> TRUE, late |-> {}]

\* hydrate().
Hydrate == [at |-> "sent", answer |-> None]

Running == { e \in Entries : entries[e] = "running" }

AnswerLoad ==
  /\ read # None /\ read.at = "sent"
  /\ read' = [read EXCEPT !.at = "done",
                !.answer = [n \in Notes |-> IF notes[n] = "gone" THEN "none" ELSE notes[n]]]
  /\ UNCHANGED <<server, socket, up, turned, rows, mutation, cleared, badge, acts>>

AnswerHydrate ==
  /\ hydration # None /\ hydration.at = "sent"
  /\ hydration' = [at |-> "done",
                   answer |-> IF Running = {} THEN None ELSE CHOOSE e \in Running : TRUE]
  /\ UNCHANGED <<server, socket, up, turned, list, active, stop, acts, off>>

\* Mutated: the answer replaces the list, whatever was pushed meanwhile.
Replace(answer) == answer

\* The answer of an undisturbed request replaces the list; otherwise what it
\* has is added.
Merge(answer) ==
  IF read.fresh THEN answer
  ELSE [n \in Notes |-> IF rows[n] = "none" THEN answer[n] ELSE rows[n]]

Loaded ==
  /\ read # None /\ read.at = "done"
  /\ read' = None
  /\ rows' = IF Current THEN Merge(read.answer) ELSE rows
  /\ UNCHANGED <<server, socket, up, turned, mutation, cleared, badge, acts>>

LoadFails ==
  /\ read # None
  /\ read' = None
  /\ Act /\ UNCHANGED <<server, socket, up, turned, rows, mutation, cleared, badge>>

Hydrated ==
  /\ hydration # None /\ hydration.at = "done"
  /\ hydration' = None
  /\ active' = IF Current THEN hydration.answer ELSE active
  /\ UNCHANGED <<server, socket, up, turned, list, stop, acts, off>>

HydrationFails ==
  /\ hydration # None
  /\ hydration' = None
  /\ Act /\ UNCHANGED <<server, socket, up, turned, list, active, stop, off>>

\* Mutated: only while the connection is tried again.
MayPollBetween == Current /\ retry

MayPoll == Current /\ ~connected

\* While there is no connection the list is polled.  A poll that comes
\* before the answer to the last one starts it again.
Poll ==
  /\ MayPoll
  /\ read' = Load
  /\ \/ read = None /\ UNCHANGED acts
     \/ read # None /\ Act
  /\ UNCHANGED <<server, socket, up, turned, rows, mutation, cleared, badge>>

-----------------------------------------------------------------------------
(* The shell and the session.                                              *)

\* The first subscription opens the socket.
Start ==
  /\ ~up
  /\ up' = TRUE /\ turned' = FALSE
  /\ read' = Load /\ hydration' = Hydrate
  /\ conn' = "opening"
  /\ Act /\ UNCHANGED <<server, push, retry, connected, rows, mutation, cleared, active, stop, off>>

\* Mutated: nobody is told of the end.
CloseQuietly == conn' = "none" /\ retry' = FALSE /\ push' = {} /\ UNCHANGED connected

\* stop() of the websocket's client.
CloseSocket == conn' = "none" /\ retry' = FALSE /\ push' = {} /\ connected' = FALSE

\* onBeforeStop of both, and with the last subscription the socket goes.
\* A change that was aborted may still be carried out, or have been.
Stop ==
  /\ up
  /\ up' = FALSE
  /\ CloseSocket
  /\ rows' = Empty /\ read' = None /\ mutation' = None
  /\ active' = None /\ hydration' = None /\ stop' = None
  /\ Act /\ UNCHANGED <<server, turned, off, cleared>>

\* Another tab of the same user has refreshed the token: storageChanged
\* counts the transition up, and nothing is restarted.
RefreshElsewhere ==
  /\ Current
  /\ turned' = TRUE
  /\ Act /\ UNCHANGED <<server, socket, up, list, badge>>

-----------------------------------------------------------------------------
(* The connection.                                                         *)

Opened ==
  /\ Current /\ conn = "opening"
  /\ conn' = "auth"
  /\ UNCHANGED <<server, push, retry, connected, up, turned, list, badge, acts>>

\* auth.success: it is published, which makes the badge ask again, and the
\* topics are subscribed.
Authenticated ==
  /\ Current /\ conn = "auth"
  /\ conn' = "subscribing" /\ connected' = TRUE
  /\ hydration' = Hydrate
  /\ UNCHANGED <<server, push, retry, up, turned, list, active, stop, acts, off>>

\* invalid_token: no further attempt.
Rejected ==
  /\ Current /\ conn = "auth"
  /\ conn' = "rejected"
  /\ Act /\ UNCHANGED <<server, push, retry, connected, up, turned, list, badge>>

\* The server has the subscriptions.
Subscribed ==
  /\ conn = "subscribing"
  /\ conn' = "subscribed"
  /\ UNCHANGED <<server, push, retry, connected, up, turned, list, badge, acts>>

Drop ==
  /\ conn \in {"opening", "auth", "subscribing", "subscribed"}
  /\ conn' = "broken" /\ push' = {}
  /\ Act /\ UNCHANGED <<server, retry, connected, up, turned, list, badge>>

\* Mutated: the closed socket is kept.
KeptSocket == "broken"

\* The socket of a connection that was closed is forgotten.
AfterClose == "none"

\* onclose: the list is asked for once more, and a timer is set.
Closed ==
  /\ Current /\ conn = "broken" /\ ~retry
  /\ conn' = AfterClose /\ connected' = FALSE /\ retry' = TRUE
  /\ read' = IF connected THEN Load ELSE read
  /\ UNCHANGED <<server, push, up, turned, rows, mutation, cleared, badge, acts>>

Retry ==
  /\ retry
  /\ retry' = FALSE
  /\ conn' = IF Current /\ conn = "none" THEN "opening" ELSE conn
  /\ UNCHANGED <<server, push, connected, up, turned, list, badge, acts>>

-----------------------------------------------------------------------------
(* Events: created by the server, pushed to who is subscribed.             *)

Pushed(events) == push' = IF conn = "subscribed" THEN push \cup events ELSE push

NoteEvent(n) == [note |-> n]
EntryEvent(e, status) == [entry |-> e, status |-> status]

AddNote(n) ==
  /\ notes[n] = "none"
  /\ notes' = [notes EXCEPT ![n] = "unread"]
  /\ Pushed({NoteEvent(n)})
  /\ Act /\ UNCHANGED <<entries, conn, retry, connected, up, turned, list, badge>>

\* Starting one entry stops the one that is running.
StartEntry(e) ==
  /\ entries[e] = "none"
  /\ entries' = [x \in Entries |->
       IF x = e THEN "running" ELSE IF x \in Running THEN "ended" ELSE entries[x]]
  /\ Pushed({EntryEvent(e, "running")} \cup { EntryEvent(x, "ended") : x \in Running })
  /\ Act /\ UNCHANGED <<notes, conn, retry, connected, up, turned, list, badge>>

EndEntry(e) ==
  /\ e \in Running
  /\ entries' = [entries EXCEPT ![e] = "ended"]
  /\ Pushed({EntryEvent(e, "ended")})
  /\ Act /\ UNCHANGED <<notes, conn, retry, connected, up, turned, list, badge>>

\* Something was published: a request under way no longer knows all.
Published(n) ==
  read' = IF read = None THEN None
          ELSE [read EXCEPT !.fresh = FALSE, !.late = @ \cup {n}]

ReceiveNote(n) ==
  /\ conn = "subscribed" /\ NoteEvent(n) \in push
  /\ push' = push \ {NoteEvent(n)}
  /\ IF Current /\ rows[n] = "none"
     THEN rows' = [rows EXCEPT ![n] = "unread"] /\ Published(n)
     ELSE UNCHANGED <<rows, read>>
  /\ UNCHANGED <<server, conn, retry, connected, up, turned, mutation, cleared, badge, acts>>

\* Mutated: a request under way goes on.
GoesOn == hydration

\* Every entry that is accepted aborts the request for the running one.
Aborted == None

\* accept(): of an event, or of the answer to a stop.
Accept(e, status) ==
  /\ hydration' = Aborted
  /\ active' = IF status = "running" THEN e ELSE IF active = e THEN None ELSE active
  /\ off' = IF status = "ended" THEN off \cup {e} ELSE off

ReceiveEntry(e, status) ==
  /\ conn = "subscribed" /\ EntryEvent(e, status) \in push
  /\ push' = push \ {EntryEvent(e, status)}
  /\ IF Current THEN Accept(e, status) ELSE UNCHANGED <<active, hydration, off>>
  /\ UNCHANGED <<server, conn, retry, connected, up, turned, list, stop, acts>>

-----------------------------------------------------------------------------
(* What the user changes: one change of the list at a time.                *)

Mutate(kind) ==
  /\ Current /\ mutation = None
  /\ mutation' = [at |-> "sent", kind |-> kind, ids |-> Listed]
  /\ Act /\ UNCHANGED <<server, socket, up, turned, rows, read, cleared, badge>>

ExecuteMutation ==
  /\ mutation # None /\ mutation.at = "sent"
  /\ notes' = [n \in Notes |->
       IF notes[n] \in {"none", "gone"} THEN notes[n]
       ELSE IF mutation.kind = "clear" THEN "gone" ELSE "read"]
  /\ mutation' = [mutation EXCEPT !.at = "done"]
  /\ UNCHANGED <<entries, socket, up, turned, rows, read, cleared, badge, acts>>

\* Mutated: the request under way goes on, but only adds.
ReadOn == IF read = None THEN None ELSE [read EXCEPT !.fresh = FALSE]

\* The answer to a request that is older than the change is not wanted.
Unwanted == None

Mutated ==
  /\ mutation # None /\ mutation.at = "done"
  /\ mutation' = None
  /\ IF Current
     THEN /\ rows' = [n \in Notes |->
               IF n \notin mutation.ids \/ rows[n] = "none" THEN rows[n]
               ELSE IF mutation.kind = "clear" THEN "none" ELSE "read"]
          /\ read' = Unwanted
          /\ cleared' = IF mutation.kind = "clear" THEN cleared \cup mutation.ids ELSE cleared
     ELSE UNCHANGED <<rows, read, cleared>>
  /\ UNCHANGED <<server, socket, up, turned, badge, acts>>

MutationFails ==
  /\ mutation # None
  /\ mutation' = None
  /\ Act /\ UNCHANGED <<server, socket, up, turned, rows, read, cleared, badge>>

StopTimer ==
  /\ up /\ stop = None /\ active # None
  /\ stop' = [at |-> "sent", entry |-> None]
  /\ Act /\ UNCHANGED <<server, socket, up, turned, list, active, hydration, off>>

\* The server stops the entry that is running, if there is one.
ExecuteStop ==
  /\ stop # None /\ stop.at = "sent"
  /\ IF Running = {}
     THEN stop' = None /\ UNCHANGED <<entries, push>>
     ELSE \E e \in Running :
            /\ entries' = [entries EXCEPT ![e] = "ended"]
            /\ Pushed({EntryEvent(e, "ended")})
            /\ stop' = [at |-> "done", entry |-> e]
  /\ UNCHANGED <<notes, conn, retry, connected, up, turned, list, active, hydration, acts, off>>

Stopped ==
  /\ stop # None /\ stop.at = "done"
  /\ stop' = None
  /\ IF Current THEN Accept(stop.entry, "ended") ELSE UNCHANGED <<active, hydration, off>>
  /\ UNCHANGED <<server, socket, up, turned, list, acts>>

StopFails ==
  /\ stop # None
  /\ stop' = None
  /\ Act /\ UNCHANGED <<server, socket, up, turned, list, active, hydration, off>>

-----------------------------------------------------------------------------
Requests ==
  AnswerLoad \/ AnswerHydrate \/ Loaded \/ Hydrated \/ Poll
    \/ ExecuteMutation \/ Mutated \/ ExecuteStop \/ Stopped

Connection == Opened \/ Authenticated \/ Subscribed \/ Closed \/ Retry

Receives ==
  \/ \E n \in Notes : ReceiveNote(n)
  \/ \E e \in Entries, s \in {"running", "ended"} : ReceiveEntry(e, s)

Next ==
  \/ Requests \/ Connection \/ Receives
  \/ LoadFails \/ HydrationFails \/ MutationFails \/ StopTimer \/ StopFails
  \/ Start \/ Stop \/ RefreshElsewhere \/ Rejected \/ Drop
  \/ \E n \in Notes : AddNote(n)
  \/ \E e \in Entries : StartEntry(e) \/ EndEntry(e)
  \/ \E k \in {"read", "clear"} : Mutate(k)

\* Timers fire, and a server that is reached answers; a poll finds the last
\* answer given, unless it is one of the bounded exceptions.
Fairness == WF_vars(AnswerLoad \/ Loaded) /\ WF_vars(Poll)
            /\ WF_vars(Connection) /\ WF_vars(Receives)

Spec == Init /\ [][Next]_vars /\ Fairness

-----------------------------------------------------------------------------
Status == {"none", "unread", "read"}

(* Types; what is published of the connection is what it is, but for the   *)
(* moment in which its end has not been noticed; a stopped shell leaves    *)
(* nothing behind.                                                         *)
TypeOK ==
  /\ notes \in [Notes -> Status \cup {"gone"}] /\ entries \in [Entries -> {"none", "running", "ended"}]
  /\ push \subseteq { NoteEvent(n) : n \in Notes } \cup
       { EntryEvent(e, s) : e \in Entries, s \in {"running", "ended"} }
  /\ conn \in {"none", "opening", "auth", "subscribing", "subscribed", "broken", "rejected"}
  /\ rows \in [Notes -> Status] /\ active \in Entries \cup {None} /\ off \subseteq Entries /\ cleared \subseteq Notes
  /\ conn \in {"subscribing", "subscribed"} => connected
  /\ connected => conn \in {"subscribing", "subscribed", "broken"}
  /\ ~up => Listed = {} /\ {active, read, hydration, mutation, stop} = {None} /\ conn = "none"

(* A notification that was pushed while the list is being loaded is not    *)
(* taken away by an answer that may be older (publication in load).        *)
PushedStays ==
  [][\A n \in Notes : read # None /\ n \in read.late /\ n \in Listed
       => rows'[n] # "none" \/ ~up' \/ mutation # mutation']_vars

(* What the server has acknowledged as read or cleared does not come back  *)
(* unread with the answer to a request (mutate aborts the load); only an   *)
(* event that was under way before may bring a cleared one back.           *)
AcknowledgedStays ==
  [][\A n \in Notes :
       /\ rows[n] = "read" => rows'[n] # "unread"
       /\ n \in cleared /\ rows[n] = "none" /\ rows'[n] # "none" => NoteEvent(n) \in push]_vars

(* The badge does not go back in time: but for events that overtake each   *)
(* other it does not show an entry the tab has seen ended, and is not      *)
(* taken away from an entry that is still running (accept aborts the       *)
(* request for the running entry).                                         *)
BadgeKeepsUp ==
  [][active' # active /\ up'
       => \/ EntryEvent(active', "running") \in push \ push'
          \/ active' \notin off /\ (active # None => entries[active] = "ended")]_vars

(* A connection that breaks is opened again, until the shell stops, the    *)
(* token is refused or refreshed (reconnect).                              *)
Reconnects == Current ~> connected \/ ~Current \/ conn = "rejected"

(* Without a connection notifications still arrive (the poll).             *)
NotificationsArrive ==
  \A n \in Notes :
    notes[n] \in {"unread", "read"} /\ Current
      ~> rows[n] # "none" \/ connected \/ ~Current \/ notes[n] = "gone"

(* The browser test (tests/e2e/websocket/frontend.spec.ts) says that what  *)
(* is pushed "should appear without page refresh": an event on its way to  *)
(* a tab is shown, unless the connection ends first.                       *)
PushedIsShown ==
  \A n \in Notes :
    NoteEvent(n) \in push ~> rows[n] # "none" \/ conn # "subscribed"

=============================================================================
