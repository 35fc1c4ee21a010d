--------------------------- MODULE LiveFeedProofs ---------------------------
(***************************************************************************)
(* What is proved of LiveFeed, for any notifications and time entries and  *)
(* however often users, other tabs and the network act: what is pushed     *)
(* stays, what is acknowledged stays so, and the badge does not go back.   *)
(*                                                                         *)
(* The inductive invariant says how old an answer under way may be: older  *)
(* than a notification that has been published since (Reading), but never  *)
(* than a change the tab has seen acknowledged, nor than an entry it has   *)
(* seen ended (Asking).                                                    *)
(***************************************************************************)
EXTENDS LiveFeed, TLAPS

Request == [at : {"sent", "done"}, answer : [Notes -> Status], fresh : BOOLEAN,
            late : SUBSET Notes]
Question == [at : {"sent", "done"}, answer : Entries \cup {None}]
Change == [at : {"sent", "done"}, kind : {"read", "clear"}, ids : SUBSET Notes]
Halt == [at : {"sent", "done"}, entry : Entries \cup {None}]

Typed ==
  /\ notes \in [Notes -> Status \cup {"gone"}]
  /\ entries \in [Entries -> {"none", "running", "ended"}]
  /\ push \subseteq { NoteEvent(n) : n \in Notes } \cup
       { EntryEvent(e, s) : e \in Entries, s \in {"running", "ended"} }
  /\ rows \in [Notes -> Status] /\ active \in Entries \cup {None}
  /\ off \subseteq Entries /\ cleared \subseteq Notes
  /\ read # None => read \in Request
  /\ hydration # None => hydration \in Question
  /\ mutation # None => mutation \in Change
  /\ stop # None => stop \in Halt

\* What is published of the connection; what a stopped shell leaves.
Connected ==
  /\ conn \in {"none", "opening", "auth", "subscribing", "subscribed", "broken", "rejected"}
  /\ conn \in {"subscribing", "subscribed"} => connected
  /\ connected => conn \in {"subscribing", "subscribed", "broken"}
  /\ ~up => Listed = {} /\ {active, read, hydration, mutation, stop} = {None} /\ conn = "none"

\* The server knows every notification the tab has heard of, and what the
\* tab takes for read or cleared is so.
Known ==
  \A n \in Notes :
    /\ NoteEvent(n) \in push => notes[n] # "none"
    /\ rows[n] # "none" => notes[n] # "none"
    /\ rows[n] = "read" => notes[n] \in {"read", "gone"}
    /\ n \in cleared => notes[n] = "gone"
    /\ mutation # None /\ n \in mutation.ids =>
         /\ notes[n] # "none"
         /\ mutation.at = "done" => notes[n] = "gone" \/ (mutation.kind = "read" /\ notes[n] = "read")

\* The list's request.
Reading ==
  read # None =>
    /\ read.fresh => read.late = {}
    /\ \A n \in Notes :
         /\ read.answer[n] # "none" => notes[n] # "none"
         /\ read.answer[n] = "read" => notes[n] \in {"read", "gone"}
         /\ read.at = "done" =>
              /\ rows[n] = "read" => read.answer[n] # "unread"
              /\ n \in cleared => read.answer[n] = "none"

ListInv == Known /\ Reading

\* Entries that run, or have ended, on the server.
Timed ==
  /\ \A e, f \in Running : e = f
  /\ \A e \in Entries :
       /\ EntryEvent(e, "running") \in push => entries[e] # "none"
       /\ EntryEvent(e, "ended") \in push => entries[e] = "ended"
       /\ e \in off => entries[e] = "ended"
       /\ e = active => entries[e] # "none"

\* The badge's request, and its stop of the timer.
Asking ==
  /\ hydration # None /\ hydration.at = "done" =>
       /\ hydration.answer # None => entries[hydration.answer] # "none" /\ hydration.answer \notin off
       /\ active # None /\ active # hydration.answer => entries[active] = "ended"
  /\ stop # None /\ stop.at = "done" => stop.entry # None /\ entries[stop.entry] = "ended"

BadgeInv == Timed /\ Asking

Inv == Typed /\ Connected /\ ListInv /\ BadgeInv

-----------------------------------------------------------------------------
LEMMA Events ==
  /\ \A n, m \in Notes : NoteEvent(n) = NoteEvent(m) => n = m
  /\ \A e, f : \A s, z : EntryEvent(e, s) = EntryEvent(f, z) => e = f /\ s = z
  /\ \A n, e, s : NoteEvent(n) # EntryEvent(e, s)
<1>1. ASSUME NEW n, NEW e, NEW s
      PROVE  NoteEvent(n) # EntryEvent(e, s)
  <2>1. "note" \in DOMAIN NoteEvent(n) /\ "note" \notin DOMAIN EntryEvent(e, s)
    BY DEF NoteEvent, EntryEvent
  <2> QED BY <2>1
<1>2. \A n, m : NoteEvent(n) = NoteEvent(m) => n = m
  <2> SUFFICES ASSUME NEW n, NEW m, NoteEvent(n) = NoteEvent(m) PROVE n = m
    OBVIOUS
  <2>1. NoteEvent(n).note = n /\ NoteEvent(m).note = m
    BY DEF NoteEvent
  <2> QED BY <2>1
<1>3. ASSUME NEW e, NEW f, NEW s, NEW z, EntryEvent(e, s) = EntryEvent(f, z)
      PROVE  e = f /\ s = z
  <2>1. /\ EntryEvent(e, s).entry = e /\ EntryEvent(f, z).entry = f
        /\ EntryEvent(e, s).status = s /\ EntryEvent(f, z).status = z
    BY DEF EntryEvent
  <2> QED BY <1>3, <2>1
<1> QED BY <1>1, <1>2, <1>3

LEMMA SentAreTyped == Load \in Request /\ Hydrate \in Question
  BY DEF Load, Hydrate, Request, Question, Empty, Status

-----------------------------------------------------------------------------
(* What a step that is about something else leaves alone.                  *)

\* The list's request may be dropped, or begun again.
LEMMA ListFrame ==
  ASSUME Typed, ListInv, UNCHANGED <<notes, rows, mutation, cleared>>,
         read' = read \/ read' = None \/ read' = Load,
         \A n \in Notes : NoteEvent(n) \in push' => NoteEvent(n) \in push
  PROVE  ListInv'
<1>1. Known'
  BY DEF ListInv, Known
<1>2. Reading'
  <2>1. CASE read' = read \/ read' = None
    BY <2>1 DEF ListInv, Reading
  <2>2. CASE read' = Load
    BY <2>2 DEF Reading, Load, Empty
  <2> QED BY <2>1, <2>2
<1> QED BY <1>1, <1>2 DEF ListInv

\* The badge's request may be dropped, or begun again, or a stop sent.
LEMMA BadgeFrame ==
  ASSUME Typed, BadgeInv, UNCHANGED <<entries, active, off>>,
         hydration' = hydration \/ hydration' = None \/ hydration' = Hydrate,
         stop' = stop \/ stop' = None \/ stop' = [at |-> "sent", entry |-> None],
         \A e \in Entries, s \in {"running", "ended"} :
           EntryEvent(e, s) \in push' => EntryEvent(e, s) \in push
  PROVE  BadgeInv'
<1>1. Timed'
  BY DEF BadgeInv, Timed, Running
<1>2. Asking'
  <2>1. (hydration # None /\ hydration.at = "done" =>
           /\ hydration.answer # None => entries[hydration.answer] # "none" /\ hydration.answer \notin off
           /\ active # None /\ active # hydration.answer => entries[active] = "ended")'
    BY DEF BadgeInv, Asking, Hydrate
  <2>2. (stop # None /\ stop.at = "done" => stop.entry # None /\ entries[stop.entry] = "ended")'
    BY DEF BadgeInv, Asking
  <2> QED BY <2>1, <2>2 DEF Asking
<1> QED BY <1>1, <1>2 DEF BadgeInv

-----------------------------------------------------------------------------
(* Types.                                                                  *)

LEMMA TypedSteps ==
  ASSUME Typed, Asking, [Next]_vars
  PROVE  Typed'
<1> USE SentAreTyped, FeedAssumption
<1>0. CASE UNCHANGED vars
  BY <1>0 DEF Typed, vars
<1>1. CASE AnswerLoad
  <2> DEFINE told == [n \in Notes |-> IF notes[n] = "gone" THEN "none" ELSE notes[n]]
  <2>1. told \in [Notes -> Status]
    BY DEF Typed, Status
  <2>2. read' = [read EXCEPT !.at = "done", !.answer = told] /\ read \in Request
    BY <1>1 DEF AnswerLoad, Typed
  <2>3. read' \in Request
    BY <2>1, <2>2 DEF Request
  <2> QED BY <1>1, <2>3 DEF AnswerLoad, Typed, server, socket, badge
<1>2. CASE AnswerHydrate
  BY <1>2 DEF AnswerHydrate, Typed, server, socket, list, badge, Question, Running
<1>3. CASE Loaded
  BY <1>3 DEF Loaded, Typed, server, socket, list, badge, Merge, Request, Status
<1>4. CASE Hydrated
  BY <1>4 DEF Hydrated, Typed, server, socket, list, badge, Question
<1>5. CASE Poll
  BY <1>5 DEF Poll, Typed, server, socket, list, badge
<1>6. CASE ExecuteMutation
  BY <1>6 DEF ExecuteMutation, Typed, server, socket, list, badge, Change, Status
<1>7. CASE Mutated
  BY <1>7 DEF Mutated, Typed, server, socket, list, badge, Change, Status, Unwanted
<1>8. CASE ExecuteStop
  BY <1>8 DEF ExecuteStop, Typed, server, socket, list, badge, Halt, Running, Pushed
<1>9. CASE Stopped
  BY <1>9 DEF Stopped, Typed, server, socket, list, Halt, Accept, Aborted, Asking
<1>10. CASE Opened
  BY <1>10 DEF Opened, Typed, server, socket, list, badge
<1>11. CASE Authenticated
  BY <1>11 DEF Authenticated, Typed, server, socket, list, badge
<1>12. CASE Subscribed
  BY <1>12 DEF Subscribed, Typed, server, socket, list, badge
<1>13. CASE Closed
  BY <1>13 DEF Closed, Typed, server, socket, list, badge
<1>14. CASE Retry
  BY <1>14 DEF Retry, Typed, server, socket, list, badge
<1>15. ASSUME NEW n \in Notes, ReceiveNote(n) PROVE Typed'
  <2>1. read' # None => read' \in Request
    <3>1. CASE read' = read
      BY <3>1 DEF Typed
    <3>2. CASE read # None /\ read' = [read EXCEPT !.fresh = FALSE, !.late = @ \cup {n}]
      <4> DEFINE late == read.late \cup {n}
      <4>1. read \in Request /\ read' = [read EXCEPT !.fresh = FALSE, !.late = late]
        BY <3>2 DEF Typed
      <4>2. late \in SUBSET Notes
        BY <1>15, <4>1 DEF Request
      <4> HIDE DEF late
      <4> QED BY <4>1, <4>2 DEF Request
    <3> QED BY <1>15, <3>1, <3>2 DEF ReceiveNote, Published
  <2>2. rows' \in [Notes -> Status]
    BY <1>15 DEF ReceiveNote, Typed, Status
  <2>3. push' \subseteq push /\ UNCHANGED <<notes, entries, mutation, cleared, active, hydration, stop, off>>
    BY <1>15 DEF ReceiveNote, server, badge
  <2> QED BY <2>1, <2>2, <2>3 DEF Typed
<1>16. ASSUME NEW e \in Entries, NEW s \in {"running", "ended"}, ReceiveEntry(e, s) PROVE Typed'
  BY <1>16 DEF ReceiveEntry, Typed, server, socket, list, badge, Accept, Aborted
<1>17. CASE LoadFails
  BY <1>17 DEF LoadFails, Typed, server, socket, list, badge
<1>18. CASE HydrationFails
  BY <1>18 DEF HydrationFails, Typed, server, socket, list, badge
<1>19. CASE MutationFails
  BY <1>19 DEF MutationFails, Typed, server, socket, list, badge
<1>20. CASE StopTimer
  BY <1>20 DEF StopTimer, Typed, server, socket, list, badge, Halt
<1>21. CASE StopFails
  BY <1>21 DEF StopFails, Typed, server, socket, list, badge
<1>22. CASE Start
  BY <1>22 DEF Start, Typed, server, socket, list, badge
<1>23. CASE Stop
  BY <1>23 DEF Stop, Typed, server, socket, list, badge, CloseSocket, Empty, Status
<1>24. CASE RefreshElsewhere
  BY <1>24 DEF RefreshElsewhere, Typed, server, socket, list, badge
<1>25. CASE Rejected
  BY <1>25 DEF Rejected, Typed, server, socket, list, badge
<1>26. CASE Drop
  BY <1>26 DEF Drop, Typed, server, socket, list, badge
<1>27. ASSUME NEW n \in Notes, AddNote(n) PROVE Typed'
  BY <1>27 DEF AddNote, Typed, server, socket, list, badge, Pushed, Status
<1>28. ASSUME NEW e \in Entries, StartEntry(e) PROVE Typed'
  BY <1>28 DEF StartEntry, Typed, server, socket, list, badge, Pushed, Running
<1>29. ASSUME NEW e \in Entries, EndEntry(e) PROVE Typed'
  BY <1>29 DEF EndEntry, Typed, server, socket, list, badge, Pushed, Running
<1>30. ASSUME NEW k \in {"read", "clear"}, Mutate(k) PROVE Typed'
  BY <1>30 DEF Mutate, Typed, server, socket, list, badge, Change, Listed
<1> QED BY <1>0, <1>1, <1>2, <1>3, <1>4, <1>5, <1>6, <1>7, <1>8, <1>9, <1>10, <1>11, <1>12, <1>13, <1>14, <1>15, <1>16, <1>17, <1>18, <1>19, <1>20, <1>21, <1>22, <1>23, <1>24, <1>25, <1>26, <1>27, <1>28, <1>29, <1>30
     DEF Next, Requests, Connection, Receives
-----------------------------------------------------------------------------
(* The connection.                                                         *)

LEMMA ConnectedSteps ==
  ASSUME Typed, Connected, [Next]_vars
  PROVE  Connected'
<1>0. CASE UNCHANGED vars
  BY <1>0 DEF Connected, Listed, vars
<1>1. CASE AnswerLoad
  BY <1>1 DEF AnswerLoad, Connected, server, socket, list, badge, Listed
<1>2. CASE AnswerHydrate
  BY <1>2 DEF AnswerHydrate, Connected, server, socket, list, badge, Listed
<1>3. CASE Loaded
  BY <1>3 DEF Loaded, Connected, server, socket, list, badge, Listed, Current, Merge
<1>4. CASE Hydrated
  BY <1>4 DEF Hydrated, Connected, server, socket, list, badge, Listed, Current
<1>5. CASE Poll
  BY <1>5 DEF Poll, Connected, server, socket, list, badge, Listed, MayPoll, Current
<1>6. CASE ExecuteMutation
  BY <1>6 DEF ExecuteMutation, Connected, server, socket, list, badge, Listed
<1>7. CASE Mutated
  BY <1>7 DEF Mutated, Connected, server, socket, list, badge, Listed, Current
<1>8. CASE ExecuteStop
  BY <1>8 DEF ExecuteStop, Connected, server, socket, list, badge, Listed, Pushed
<1>9. CASE Stopped
  BY <1>9 DEF Stopped, Connected, server, socket, list, badge, Listed, Current, Accept
<1>10. CASE Opened
  BY <1>10 DEF Opened, Connected, server, socket, list, badge, Listed, Current
<1>11. CASE Authenticated
  BY <1>11 DEF Authenticated, Connected, server, socket, list, badge, Listed, Current
<1>12. CASE Subscribed
  BY <1>12 DEF Subscribed, Connected, server, socket, list, badge, Listed
<1>13. CASE Closed
  BY <1>13 DEF Closed, Connected, server, socket, list, badge, Listed, Current, AfterClose
<1>14. CASE Retry
  BY <1>14 DEF Retry, Connected, server, socket, list, badge, Listed, Current
<1>15. ASSUME NEW n \in Notes, ReceiveNote(n) PROVE Connected'
  BY <1>15 DEF ReceiveNote, Connected, server, socket, list, badge, Listed, Current, Published
<1>16. ASSUME NEW e \in Entries, NEW s \in {"running", "ended"}, ReceiveEntry(e, s) PROVE Connected'
  BY <1>16 DEF ReceiveEntry, Connected, server, socket, list, badge, Listed, Current, Accept
<1>17. CASE LoadFails
  BY <1>17 DEF LoadFails, Connected, server, socket, list, badge, Listed
<1>18. CASE HydrationFails
  BY <1>18 DEF HydrationFails, Connected, server, socket, list, badge, Listed
<1>19. CASE MutationFails
  BY <1>19 DEF MutationFails, Connected, server, socket, list, badge, Listed
<1>20. CASE StopTimer
  BY <1>20 DEF StopTimer, Connected, server, socket, list, badge, Listed
<1>21. CASE StopFails
  BY <1>21 DEF StopFails, Connected, server, socket, list, badge, Listed
<1>22. CASE Start
  BY <1>22 DEF Start, Connected, server, socket, list, badge, Listed, Current
<1>23. CASE Stop
  BY <1>23 DEF Stop, Connected, server, socket, list, badge, Listed, CloseSocket, Empty
<1>24. CASE RefreshElsewhere
  BY <1>24 DEF RefreshElsewhere, Connected, server, socket, list, badge, Listed, Current
<1>25. CASE Rejected
  BY <1>25 DEF Rejected, Connected, server, socket, list, badge, Listed, Current
<1>26. CASE Drop
  BY <1>26 DEF Drop, Connected, server, socket, list, badge, Listed
<1>27. ASSUME NEW n \in Notes, AddNote(n) PROVE Connected'
  BY <1>27 DEF AddNote, Connected, server, socket, list, badge, Listed, Pushed
<1>28. ASSUME NEW e \in Entries, StartEntry(e) PROVE Connected'
  BY <1>28 DEF StartEntry, Connected, server, socket, list, badge, Listed, Pushed
<1>29. ASSUME NEW e \in Entries, EndEntry(e) PROVE Connected'
  BY <1>29 DEF EndEntry, Connected, server, socket, list, badge, Listed, Pushed
<1>30. ASSUME NEW k \in {"read", "clear"}, Mutate(k) PROVE Connected'
  BY <1>30 DEF Mutate, Connected, server, socket, list, badge, Listed, Current
<1> QED BY <1>0, <1>1, <1>2, <1>3, <1>4, <1>5, <1>6, <1>7, <1>8, <1>9, <1>10, <1>11, <1>12, <1>13, <1>14, <1>15, <1>16, <1>17, <1>18, <1>19, <1>20, <1>21, <1>22, <1>23, <1>24, <1>25, <1>26, <1>27, <1>28, <1>29, <1>30
     DEF Next, Requests, Connection, Receives

-----------------------------------------------------------------------------
(* The list.                                                               *)

LEMMA ListSteps ==
  ASSUME Typed, Typed', ListInv, [Next]_vars
  PROVE  ListInv'
<1>0. CASE UNCHANGED vars
  BY <1>0, ListFrame DEF vars
<1>1. CASE AnswerLoad
  <2> DEFINE told == [n \in Notes |-> IF notes[n] = "gone" THEN "none" ELSE notes[n]]
  <2>1. /\ read \in Request /\ read' = [read EXCEPT !.at = "done", !.answer = told]
        /\ UNCHANGED <<notes, push, rows, mutation, cleared>>
    BY <1>1 DEF AnswerLoad, Typed, server, socket
  <2>2. read'.answer = told /\ read'.fresh = read.fresh /\ read'.late = read.late
    BY <2>1 DEF Request
  <2>3. Known'
    BY <2>1 DEF ListInv, Known
  <2>4. Reading'
    <3>1. read'.fresh => read'.late = {}
      BY <1>1, <2>2 DEF AnswerLoad, ListInv, Reading
    <3>2. \A n \in Notes :
            /\ rows[n] = "read" => notes[n] \in {"read", "gone"}
            /\ n \in cleared => notes[n] = "gone"
      BY DEF ListInv, Known
    <3>3. UNCHANGED <<notes, rows, cleared>>
      BY <2>1
    <3> QED BY <2>2, <3>1, <3>2, <3>3 DEF Reading
  <2> QED BY <2>3, <2>4 DEF ListInv
<1>2. CASE AnswerHydrate
  BY <1>2, ListFrame, Events DEF AnswerHydrate, server, socket, list, badge
<1>3. CASE Loaded
  BY <1>3, Events DEF Loaded, Typed, server, socket, list, badge, ListInv, Known, Reading, Merge, Request, Status
<1>4. CASE Hydrated
  BY <1>4, ListFrame, Events DEF Hydrated, server, socket, list, badge
<1>5. CASE Poll
  BY <1>5, ListFrame, Events DEF Poll, server, socket, list, badge
<1>6. CASE ExecuteMutation
  BY <1>6, Events DEF ExecuteMutation, Typed, server, socket, list, badge, ListInv, Known, Reading, Change, Request
<1>7. CASE Mutated
  BY <1>7, Events DEF Mutated, Typed, server, socket, list, badge, ListInv, Known, Reading, Unwanted, Change
<1>8. CASE ExecuteStop
  BY <1>8, ListFrame, Events DEF ExecuteStop, server, socket, list, badge, Pushed
<1>9. CASE Stopped
  BY <1>9, ListFrame, Events DEF Stopped, server, socket, list, badge
<1>10. CASE Opened
  BY <1>10, ListFrame, Events DEF Opened, server, socket, list, badge
<1>11. CASE Authenticated
  BY <1>11, ListFrame, Events DEF Authenticated, server, socket, list, badge
<1>12. CASE Subscribed
  BY <1>12, ListFrame, Events DEF Subscribed, server, socket, list, badge
<1>13. CASE Closed
  BY <1>13, ListFrame, Events DEF Closed, server, socket, list, badge
<1>14. CASE Retry
  BY <1>14, ListFrame, Events DEF Retry, server, socket, list, badge
<1>15. ASSUME NEW n \in Notes, ReceiveNote(n) PROVE ListInv'
  <2>1. /\ push' \subseteq push /\ NoteEvent(n) \in push
        /\ UNCHANGED <<notes, mutation, cleared>>
        /\ rows' = rows \/ rows' = [rows EXCEPT ![n] = "unread"]
    BY <1>15 DEF ReceiveNote, server
  <2>2. Known'
    BY <2>1 DEF ListInv, Known, Typed
  <2>3. CASE read' = read
    BY <2>1, <2>2, <2>3 DEF ListInv, Reading, Typed
  <2>4. CASE read # None /\ read' = [read EXCEPT !.fresh = FALSE, !.late = @ \cup {n}]
    <3>1. /\ read \in Request
          /\ ~read'.fresh /\ read'.at = read.at /\ read'.answer = read.answer
      BY <2>4 DEF Typed, Request
    <3> QED BY <2>1, <2>2, <2>4, <3>1 DEF ListInv, Reading, Typed
  <2> QED BY <1>15, <2>3, <2>4 DEF ReceiveNote, Published
<1>16. ASSUME NEW e \in Entries, NEW s \in {"running", "ended"}, ReceiveEntry(e, s) PROVE ListInv'
  BY <1>16, ListFrame, Events DEF ReceiveEntry, server, socket, list, badge
<1>17. CASE LoadFails
  BY <1>17, ListFrame, Events DEF LoadFails, server, socket, list, badge
<1>18. CASE HydrationFails
  BY <1>18, ListFrame, Events DEF HydrationFails, server, socket, list, badge
<1>19. CASE MutationFails
  BY <1>19, Events DEF MutationFails, Typed, server, socket, list, badge, ListInv, Known, Reading
<1>20. CASE StopTimer
  BY <1>20, ListFrame, Events DEF StopTimer, server, socket, list, badge
<1>21. CASE StopFails
  BY <1>21, ListFrame, Events DEF StopFails, server, socket, list, badge
<1>22. CASE Start
  BY <1>22, ListFrame, Events DEF Start, server, socket, list, badge
<1>23. CASE Stop
  BY <1>23, Events DEF Stop, Typed, server, socket, list, badge, CloseSocket, Empty, ListInv, Known, Reading
<1>24. CASE RefreshElsewhere
  BY <1>24, ListFrame, Events DEF RefreshElsewhere, server, socket, list, badge
<1>25. CASE Rejected
  BY <1>25, ListFrame, Events DEF Rejected, server, socket, list, badge
<1>26. CASE Drop
  BY <1>26, ListFrame, Events DEF Drop, server, socket, list, badge
<1>27. ASSUME NEW n \in Notes, AddNote(n) PROVE ListInv'
  BY <1>27, Events DEF AddNote, Typed, server, socket, list, badge, ListInv, Known, Reading, Pushed, Request
<1>28. ASSUME NEW e \in Entries, StartEntry(e) PROVE ListInv'
  BY <1>28, ListFrame, Events DEF StartEntry, server, socket, list, badge, Pushed
<1>29. ASSUME NEW e \in Entries, EndEntry(e) PROVE ListInv'
  BY <1>29, ListFrame, Events DEF EndEntry, server, socket, list, badge, Pushed
<1>30. ASSUME NEW k \in {"read", "clear"}, Mutate(k) PROVE ListInv'
  BY <1>30, Events DEF Mutate, Typed, server, socket, list, badge, ListInv, Known, Reading, Listed
<1> QED BY <1>0, <1>1, <1>2, <1>3, <1>4, <1>5, <1>6, <1>7, <1>8, <1>9, <1>10, <1>11, <1>12, <1>13, <1>14, <1>15, <1>16, <1>17, <1>18, <1>19, <1>20, <1>21, <1>22, <1>23, <1>24, <1>25, <1>26, <1>27, <1>28, <1>29, <1>30
     DEF Next, Requests, Connection, Receives

-----------------------------------------------------------------------------
(* The badge.                                                              *)

LEMMA BadgeSteps ==
  ASSUME Typed, Typed', BadgeInv, [Next]_vars
  PROVE  BadgeInv'
<1>0. CASE UNCHANGED vars
  BY <1>0, BadgeFrame DEF vars
<1>1. CASE AnswerLoad
  BY <1>1, BadgeFrame, Events DEF AnswerLoad, server, socket, list, badge
<1>2. CASE AnswerHydrate
  BY <1>2, Events, FeedAssumption DEF AnswerHydrate, Typed, server, socket, list, badge, BadgeInv, Timed, Asking, Running, Question
<1>3. CASE Loaded
  BY <1>3, BadgeFrame, Events DEF Loaded, server, socket, list, badge
<1>4. CASE Hydrated
  BY <1>4, Events, FeedAssumption DEF Hydrated, Typed, server, socket, list, badge, BadgeInv, Timed, Asking, Running, Question
<1>5. CASE Poll
  BY <1>5, BadgeFrame, Events DEF Poll, server, socket, list, badge
<1>6. CASE ExecuteMutation
  BY <1>6, BadgeFrame, Events DEF ExecuteMutation, server, socket, list, badge
<1>7. CASE Mutated
  BY <1>7, BadgeFrame, Events DEF Mutated, server, socket, list, badge
<1>8. CASE ExecuteStop
  BY <1>8, Events, FeedAssumption DEF ExecuteStop, Typed, server, socket, list, badge, BadgeInv, Timed, Asking, Running, Pushed, Question, Halt
<1>9. CASE Stopped
  BY <1>9, Events, FeedAssumption DEF Stopped, Typed, server, socket, list, badge, BadgeInv, Timed, Asking, Accept, Aborted, Running, Halt
<1>10. CASE Opened
  BY <1>10, BadgeFrame, Events DEF Opened, server, socket, list, badge
<1>11. CASE Authenticated
  BY <1>11, BadgeFrame, Events DEF Authenticated, server, socket, list, badge
<1>12. CASE Subscribed
  BY <1>12, BadgeFrame, Events DEF Subscribed, server, socket, list, badge
<1>13. CASE Closed
  BY <1>13, BadgeFrame, Events DEF Closed, server, socket, list, badge
<1>14. CASE Retry
  BY <1>14, BadgeFrame, Events DEF Retry, server, socket, list, badge
<1>15. ASSUME NEW n \in Notes, ReceiveNote(n) PROVE BadgeInv'
  BY <1>15, BadgeFrame, Events DEF ReceiveNote, server, socket, list, badge
<1>16. ASSUME NEW e \in Entries, NEW s \in {"running", "ended"}, ReceiveEntry(e, s) PROVE BadgeInv'
  BY <1>16, Events, FeedAssumption DEF ReceiveEntry, Typed, server, socket, list, badge, BadgeInv, Timed, Asking, Running, Accept, Aborted
<1>17. CASE LoadFails
  BY <1>17, BadgeFrame, Events DEF LoadFails, server, socket, list, badge
<1>18. CASE HydrationFails
  BY <1>18, BadgeFrame, Events DEF HydrationFails, server, socket, list, badge
<1>19. CASE MutationFails
  BY <1>19, BadgeFrame, Events DEF MutationFails, server, socket, list, badge
<1>20. CASE StopTimer
  BY <1>20, BadgeFrame, Events DEF StopTimer, server, socket, list, badge
<1>21. CASE StopFails
  BY <1>21, BadgeFrame, Events DEF StopFails, server, socket, list, badge
<1>22. CASE Start
  BY <1>22, BadgeFrame, Events DEF Start, server, socket, list, badge
<1>23. CASE Stop
  BY <1>23, Events, FeedAssumption DEF Stop, Typed, server, socket, list, badge, BadgeInv, Timed, Asking, Running, CloseSocket
<1>24. CASE RefreshElsewhere
  BY <1>24, BadgeFrame, Events DEF RefreshElsewhere, server, socket, list, badge
<1>25. CASE Rejected
  BY <1>25, BadgeFrame, Events DEF Rejected, server, socket, list, badge
<1>26. CASE Drop
  BY <1>26, BadgeFrame, Events DEF Drop, server, socket, list, badge
<1>27. ASSUME NEW n \in Notes, AddNote(n) PROVE BadgeInv'
  BY <1>27, BadgeFrame, Events DEF AddNote, server, socket, list, badge, Pushed
<1>28. ASSUME NEW e \in Entries, StartEntry(e) PROVE BadgeInv'
  BY <1>28, Events, FeedAssumption DEF StartEntry, Typed, server, socket, list, badge, BadgeInv, Timed, Asking, Running, Pushed, Question, Halt
<1>29. ASSUME NEW e \in Entries, EndEntry(e) PROVE BadgeInv'
  BY <1>29, Events, FeedAssumption DEF EndEntry, Typed, server, socket, list, badge, BadgeInv, Timed, Asking, Running, Pushed, Question, Halt
<1>30. ASSUME NEW k \in {"read", "clear"}, Mutate(k) PROVE BadgeInv'
  BY <1>30, BadgeFrame, Events DEF Mutate, server, socket, list, badge
<1> QED BY <1>0, <1>1, <1>2, <1>3, <1>4, <1>5, <1>6, <1>7, <1>8, <1>9, <1>10, <1>11, <1>12, <1>13, <1>14, <1>15, <1>16, <1>17, <1>18, <1>19, <1>20, <1>21, <1>22, <1>23, <1>24, <1>25, <1>26, <1>27, <1>28, <1>29, <1>30
     DEF Next, Requests, Connection, Receives

-----------------------------------------------------------------------------
(* The theorems.                                                           *)

LEMMA InitInv == Init => Inv
  BY FeedAssumption DEF Init, Inv, Typed, Connected, ListInv, Known, Reading, BadgeInv, Timed, Asking,
     Empty, Status, Listed, Running

LEMMA NextKeepsInv == Inv /\ [Next]_vars => Inv'
  BY TypedSteps, ConnectedSteps, ListSteps, BadgeSteps DEF Inv, BadgeInv

\* Answers are never newer than the tab believes, nor older than what it has
\* seen acknowledged, whatever is aborted, published or fails meanwhile.
THEOREM Invariance == Spec => []Inv
  BY InitInv, NextKeepsInv, PTL DEF Spec

\* The values keep their types, what is published of the connection is what it
\* is, and a stopped shell leaves nothing behind.
THEOREM TypeCorrect == Spec => []TypeOK
<1>1. Inv => TypeOK
  BY DEF Inv, Typed, Connected, TypeOK
<1> QED BY <1>1, Invariance, PTL

\* What is published while an answer is under way is not taken away by it: the
\* answer only adds, because the request is no longer fresh.
THEOREM PushedHolds == Spec => PushedStays
<1>1. ASSUME Inv, [Next]_vars
      PROVE  [\A n \in Notes : read # None /\ n \in read.late /\ n \in Listed
                => rows'[n] # "none" \/ ~up' \/ mutation # mutation']_vars
  <2> SUFFICES ASSUME Next, NEW n \in Notes, read # None, n \in read.late, n \in Listed,
                      rows' # rows, up', mutation = mutation'
               PROVE  rows'[n] # "none"
    BY <1>1 DEF vars, Listed
  <2>1. Typed /\ ~read.fresh /\ rows[n] # "none"
    BY <1>1 DEF Inv, ListInv, Reading, Listed
  <2>2. Loaded \/ Stop \/ Mutated \/ \E m \in Notes : ReceiveNote(m)
    BY DEF Next, Requests, Connection, Receives, list, badge, AnswerLoad, AnswerHydrate, Hydrated, Poll,
       ExecuteMutation, ExecuteStop, Stopped, Opened, Authenticated, Subscribed, Closed, Retry,
       ReceiveEntry, LoadFails, HydrationFails, MutationFails, StopTimer, StopFails, Start,
       RefreshElsewhere, Rejected, Drop, AddNote, StartEntry, EndEntry, Mutate
  <2>3. CASE Loaded
    BY <2>1, <2>3 DEF Loaded, Merge
  <2>4. CASE Stop
    BY <2>4 DEF Stop
  <2>5. CASE Mutated
    BY <2>5 DEF Mutated
  <2>6. ASSUME NEW m \in Notes, ReceiveNote(m) PROVE rows'[n] # "none"
    BY <2>1, <2>6 DEF ReceiveNote, Typed
  <2> QED BY <2>2, <2>3, <2>4, <2>5, <2>6
<1> QED BY <1>1, Invariance, PTL DEF Spec, PushedStays

\* What the server has acknowledged as read does not turn unread, and what it
\* has cleared comes back only with an event that was under way before.
THEOREM AcknowledgedHolds == Spec => AcknowledgedStays
<1>1. ASSUME Inv, [Next]_vars
      PROVE  [\A n \in Notes :
                /\ rows[n] = "read" => rows'[n] # "unread"
                /\ n \in cleared /\ rows[n] = "none" /\ rows'[n] # "none"
                     => NoteEvent(n) \in push]_vars
  <2> SUFFICES ASSUME Next, rows' # rows, NEW n \in Notes
               PROVE  /\ rows[n] = "read" => rows'[n] # "unread"
                      /\ n \in cleared /\ rows[n] = "none" /\ rows'[n] # "none"
                           => NoteEvent(n) \in push
    BY <1>1 DEF vars
  <2>1. Typed /\ Reading
    BY <1>1 DEF Inv, ListInv
  <2>2. Loaded \/ Stop \/ Mutated \/ \E m \in Notes : ReceiveNote(m)
    BY DEF Next, Requests, Connection, Receives, list, badge, AnswerLoad, AnswerHydrate, Hydrated, Poll,
       ExecuteMutation, ExecuteStop, Stopped, Opened, Authenticated, Subscribed, Closed, Retry,
       ReceiveEntry, LoadFails, HydrationFails, MutationFails, StopTimer, StopFails, Start,
       RefreshElsewhere, Rejected, Drop, AddNote, StartEntry, EndEntry, Mutate
  <2>3. CASE Loaded
    BY <2>1, <2>3 DEF Loaded, Merge, Reading
  <2>4. CASE Stop
    BY <2>4 DEF Stop, Empty
  <2>5. CASE Mutated
    BY <2>1, <2>5 DEF Mutated, Typed
  <2>6. ASSUME NEW m \in Notes, ReceiveNote(m)
        PROVE  /\ rows[n] = "read" => rows'[n] # "unread"
               /\ n \in cleared /\ rows[n] = "none" /\ rows'[n] # "none"
                    => NoteEvent(n) \in push
    BY <2>1, <2>6 DEF ReceiveNote, Typed
  <2> QED BY <2>2, <2>3, <2>4, <2>5, <2>6
<1> QED BY <1>1, Invariance, PTL DEF Spec, AcknowledgedStays

\* The badge changes with an event that says so, or to an entry the tab has not
\* seen ended, away from one that has ended: accept() aborts the request for the
\* running entry, so its answer is never older than the last entry accepted.
THEOREM BadgeHolds == Spec => BadgeKeepsUp
<1>1. ASSUME Inv, [Next]_vars
      PROVE  [active' # active /\ up'
                => \/ EntryEvent(active', "running") \in push \ push'
                   \/ active' \notin off /\ (active # None => entries[active] = "ended")]_vars
  <2> SUFFICES ASSUME Next, active' # active, up'
               PROVE  \/ EntryEvent(active', "running") \in push \ push'
                      \/ active' \notin off /\ (active # None => entries[active] = "ended")
    BY <1>1 DEF vars
  <2>1. Typed /\ Timed /\ Asking
    BY <1>1 DEF Inv, BadgeInv
  <2>2. \/ Hydrated \/ Stop \/ Stopped
        \/ \E e \in Entries, s \in {"running", "ended"} : ReceiveEntry(e, s)
    BY DEF Next, Requests, Connection, Receives, list, badge, AnswerLoad, AnswerHydrate, Loaded, Poll,
       ExecuteMutation, ExecuteStop, Mutated, Opened, Authenticated, Subscribed, Closed, Retry,
       ReceiveNote, LoadFails, HydrationFails, MutationFails, StopTimer, StopFails, Start,
       RefreshElsewhere, Rejected, Drop, AddNote, StartEntry, EndEntry, Mutate
  <2>3. CASE Hydrated
    BY <2>1, <2>3, FeedAssumption DEF Hydrated, Asking, Typed
  <2>4. CASE Stop
    BY <2>4 DEF Stop
  <2>5. CASE Stopped
    BY <2>1, <2>5, FeedAssumption DEF Stopped, Accept, Asking, Typed
  <2>6. ASSUME NEW e \in Entries, NEW s \in {"running", "ended"}, ReceiveEntry(e, s)
        PROVE  \/ EntryEvent(active', "running") \in push \ push'
               \/ active' \notin off /\ (active # None => entries[active] = "ended")
    BY <2>1, <2>6, FeedAssumption DEF ReceiveEntry, Accept, Timed, Typed
  <2> QED BY <2>2, <2>3, <2>4, <2>5, <2>6
<1> QED BY <1>1, Invariance, PTL DEF Spec, BadgeKeepsUp

-----------------------------------------------------------------------------
(* The way back to a connection.                                           *)

\* The reconnect timer runs only in a shell that runs and has no socket, and a
\* shell whose session has not turned never has neither.
Tried ==
  /\ retry => up /\ conn = "none"
  /\ Current /\ conn = "none" => retry

LEMMA TriedSteps == ASSUME Connected, Tried, [Next]_vars PROVE Tried'
<1>1. CASE Closed
  BY <1>1 DEF Closed, AfterClose, Tried, Current
<1>2. CASE Retry
  <2>1. conn = "none" /\ ~retry' /\ UNCHANGED <<up, turned>>
    BY <1>2 DEF Retry, Tried
  <2>2. Current => conn' = "opening"
    BY <1>2, <2>1 DEF Retry
  <2> QED BY <2>1, <2>2 DEF Tried, Current
<1>3. CASE Start
  BY <1>3 DEF Start, Tried, Connected, Current
<1>4. CASE Stop
  BY <1>4 DEF Stop, CloseSocket, Tried, Current
<1>5. CASE RefreshElsewhere
  BY <1>5 DEF RefreshElsewhere, socket, Tried, Current
<1>6. CASE Opened \/ Authenticated \/ Rejected \/ Subscribed \/ Drop
  BY <1>6 DEF Opened, Authenticated, Rejected, Subscribed, Drop, Tried, Current
<1>7. CASE UNCHANGED <<conn, retry, up, turned>>
  BY <1>7 DEF Tried, Current
<1>8. \/ Closed \/ Retry \/ Start \/ Stop \/ RefreshElsewhere
      \/ Opened \/ Authenticated \/ Rejected \/ Subscribed \/ Drop
      \/ UNCHANGED <<conn, retry, up, turned>>
  <2>1. CASE Requests
    BY <2>1 DEF Requests, socket, AnswerLoad, AnswerHydrate, Loaded, Hydrated, Poll,
       ExecuteMutation, Mutated, ExecuteStop, Stopped, Pushed
  <2>2. CASE Receives
    BY <2>2 DEF Receives, ReceiveNote, ReceiveEntry
  <2>3. CASE LoadFails \/ HydrationFails \/ MutationFails \/ StopTimer \/ StopFails
    BY <2>3 DEF socket, LoadFails, HydrationFails, MutationFails, StopTimer, StopFails
  <2>4. CASE \/ \E n \in Notes : AddNote(n)
             \/ \E e \in Entries : StartEntry(e) \/ EndEntry(e)
             \/ \E k \in {"read", "clear"} : Mutate(k)
    BY <2>4 DEF socket, AddNote, StartEntry, EndEntry, Mutate
  <2>5. CASE UNCHANGED vars
    BY <2>5 DEF vars
  <2> QED BY <2>1, <2>2, <2>3, <2>4, <2>5 DEF Next, Connection
<1> QED BY <1>1, <1>2, <1>3, <1>4, <1>5, <1>6, <1>7, <1>8

\* However a connection ends, the tab is on its way to the next one, until the
\* shell stops, the token is refused or the session turns: it is opening one,
\* or its end is about to be noticed, or the timer of scheduleReconnect runs.
\* Every one of these is a step the fairness of Reconnects speaks of.
THEOREM AnotherAttemptFollows ==
  Spec => [](Current /\ conn \notin {"subscribing", "subscribed", "rejected"} =>
               \/ conn \in {"opening", "auth"}
               \/ conn = "broken" /\ ~retry
               \/ conn = "none" /\ retry)
<1>1. Init => Tried
  BY DEF Init, Tried, Current
<1>2. Inv /\ Tried /\ [Next]_vars => Tried'
  BY TriedSteps DEF Inv
<1>3. Inv /\ Tried =>
        (Current /\ conn \notin {"subscribing", "subscribed", "rejected"} =>
               \/ conn \in {"opening", "auth"}
               \/ conn = "broken" /\ ~retry
               \/ conn = "none" /\ retry)
  BY DEF Inv, Tried, Connected
<1> QED BY <1>1, <1>2, <1>3, Invariance, PTL DEF Spec

=============================================================================
