----------------------------- MODULE TaskRecord -----------------------------
(***************************************************************************)
(* The task a detail view shows, and how edits of it reach the server      *)
(* (src/frontend/src/features/task/task-record.ts with its users in        *)
(* task-heading.ts, task-description.ts, task-view.ts and task-bucket.ts). *)
(*                                                                         *)
(* Edits of the title and of the description are saved by sending the      *)
(* whole task, one save at a time.  Labels and assignees have endpoints of *)
(* their own, whose answers are published into the record at any time.     *)
(* The description is saved some seconds after the last change, and before *)
(* the user leaves; the title when its field is left.                      *)
(***************************************************************************)
EXTENDS Naturals, Sequences

CONSTANTS
  Values,    \* what a field can hold
  Initial,   \* what every field holds at first
  MaxActs    \* bound: what the user does

ASSUME TaskRecordAssumption == Initial \in Values /\ MaxActs \in Nat

VARIABLES
  stored,    \* the task on the server
  record,    \* the task as this session has accepted it
  jobs,      \* the saves that are queued; the first one may be sent
  sent,      \* the whole task under way to the server, or None
  adding,    \* the requests of the labels and of the assignees
  title, text,   \* the two editors
  leave,     \* leaving the task; whether its save found no task (`lost`)
  acts,      \* what the user did so far, for the bound
  accepted   \* history: the last value of each field that was accepted

vars == <<stored, record, jobs, sent, adding, title, text, leave, acts, accepted>>

Own == {"labels", "people"}            \* fields with endpoints of their own
Fields == {"title", "text"} \cup Own

None == [at |-> "none"]
Sent == sent # None
Open == leave.at # "gone"

Init ==
  /\ stored = [f \in Fields |-> Initial]
  /\ record = stored /\ accepted = stored
  /\ jobs = <<>> /\ sent = None
  /\ adding = [f \in Own |-> None]
  /\ title = [shown |-> Initial, known |-> Initial, dirty |-> FALSE, saving |-> FALSE]
  /\ text = [value |-> Initial, known |-> Initial, dirty |-> FALSE, pending |-> FALSE,
             timer |-> FALSE, again |-> FALSE, failed |-> FALSE]
  /\ leave = [at |-> "here", on |-> "own", asked |-> Initial, typed |-> FALSE,
               lost |-> FALSE]
  /\ acts = 0

Act == Open /\ acts < MaxActs /\ acts' = acts + 1

\* save(): the patch joins the queue.
Queued(field, value) == Append(jobs, [field |-> field, value |-> value, gone |-> FALSE])

-----------------------------------------------------------------------------
(* What the views do when the record is published.                         *)

\* Mutated: the heading shows what is published, whatever is being typed.
HeadingShows(view, task) == [view EXCEPT !.known = task.title, !.shown = task.title]

\* The heading keeps a draft and what it is saving.
HeadingInputs(view, task) ==
  [view EXCEPT !.known = task.title,
               !.shown = IF view.dirty \/ view.saving THEN @ ELSE task.title]

\* So does the description.
TextInputs(view, task) ==
  IF view.dirty \/ view.pending THEN view
  ELSE [view EXCEPT !.value = task.text, !.known = task.text]

Publish(task) ==
  /\ record' = task
  /\ title' = HeadingInputs(title, task)
  /\ text' = TextInputs(text, task)

-----------------------------------------------------------------------------
(* The title: typed, saved when its field is left, taken back with Escape. *)

TypeTitle(v) ==
  /\ v # title.shown
  /\ title' = [title EXCEPT !.shown = v, !.dirty = v # title.known]
  /\ Act /\ UNCHANGED <<stored, record, jobs, sent, adding, text, leave, accepted>>

EscapeTitle ==
  /\ title.shown # title.known
  /\ title' = [title EXCEPT !.shown = title.known, !.dirty = FALSE]
  /\ Act /\ UNCHANGED <<stored, record, jobs, sent, adding, text, leave, accepted>>

\* The server carries out a save: all of the task but its labels.
Written(task) == [f \in Fields |-> IF f = "labels" THEN stored[f] ELSE task[f]]

\* A new save of the title cancels the one before: in the queue it will not
\* be sent, and nobody waits any more for one that is under way, which the
\* server has carried out or never will.
BlurTitle ==
  LET active == Sent /\ Head(jobs).field = "title"
      others == IF active THEN Tail(jobs) ELSE jobs
      left   == [i \in DOMAIN others |->
                   IF others[i].field = "title" THEN [others[i] EXCEPT !.gone = TRUE]
                   ELSE others[i]]
  IN
  /\ title.shown # title.known
  /\ title' = [title EXCEPT !.saving = TRUE]
  /\ jobs' = Append(left, [field |-> "title", value |-> title.shown, gone |-> FALSE])
  /\ sent' = IF active THEN None ELSE sent
  /\ stored' \in IF active /\ sent.at = "sent" THEN {stored, Written(sent.task)} ELSE {stored}
  /\ Act /\ UNCHANGED <<record, adding, text, leave, accepted>>

-----------------------------------------------------------------------------
(* The description.                                                        *)

\* Every change that leaves a difference starts the timer anew.
TypeText(v) ==
  /\ v # text.value
  /\ text' = [text EXCEPT !.value = v, !.dirty = v # text.known, !.failed = FALSE,
                          !.timer = v # text.known]
  /\ leave' = [leave EXCEPT !.typed = TRUE]
  /\ Act /\ UNCHANGED <<stored, record, jobs, sent, adding, title, accepted>>

\* flush() with nothing pending: what is in the editor is submitted.
Submitted(view) == [view EXCEPT !.pending = TRUE, !.timer = FALSE]

\* The timer: flush now, if there still is a difference, or once the pending
\* save is through.
Autosave ==
  /\ Open /\ text.timer
  /\ IF ~text.pending /\ text.dirty
     THEN text' = Submitted(text) /\ jobs' = Queued("text", text.value)
     ELSE text' = [text EXCEPT !.timer = FALSE, !.again = @ \/ text.pending] /\ UNCHANGED jobs
  /\ UNCHANGED <<stored, record, sent, adding, title, leave, acts, accepted>>

\* Mutated: a save that is pending is taken for the one to wait for.
Waiting == "own"

\* A flush that finds a pending save looks again when it is through.
WaitsOn == IF text.pending THEN "pending" ELSE "own"

\* The user goes elsewhere: the description is flushed first.
Leave ==
  /\ leave.at = "here"
  /\ leave' = [at |-> IF text.pending \/ text.dirty THEN "flushing" ELSE "flushed",
               on |-> WaitsOn, asked |-> text.value, typed |-> FALSE, lost |-> FALSE]
  /\ IF ~text.pending /\ text.dirty
     THEN text' = Submitted(text) /\ jobs' = Queued("text", text.value)
     ELSE UNCHANGED <<text, jobs>>
  /\ Act /\ UNCHANGED <<stored, record, sent, adding, title, accepted>>

\* The destination is shown: the record is closed and the views are gone.
\* What is under way has been carried out or never will be.
Close ==
  /\ leave.at = "flushed"
  /\ leave' = [leave EXCEPT !.at = "gone"]
  /\ stored' \in IF Sent /\ sent.at = "sent" THEN {stored, Written(sent.task)} ELSE {stored}
  /\ jobs' = <<>> /\ sent' = None
  /\ UNCHANGED <<record, adding, title, text, acts, accepted>>

-----------------------------------------------------------------------------
(* The queue of saves.                                                     *)

\* Mutated: the description is taken from the editor, saved or not.
DraftOfEditors(job) == [[record EXCEPT !["text"] = text.value] EXCEPT ![job.field] = job.value]

\* The whole task as it is accepted now, with the fields of the patch.
Draft(job) == [record EXCEPT ![job.field] = job.value]

Dispatch ==
  /\ Open /\ ~Sent /\ jobs # <<>>
  /\ IF Head(jobs).gone
     THEN jobs' = Tail(jobs) /\ UNCHANGED sent
     ELSE /\ sent' = [at |-> "sent", task |-> Draft(Head(jobs)), before |-> record]
          /\ UNCHANGED jobs
  /\ UNCHANGED <<stored, record, adding, title, text, leave, acts, accepted>>

Execute ==
  /\ Sent /\ sent.at = "sent"
  /\ stored' = Written(sent.task)
  /\ sent' = [sent EXCEPT !.at = "done"]
  /\ UNCHANGED <<record, jobs, adding, title, text, leave, acts, accepted>>

\* Mutated: the answer replaces the record.
Replaced == sent.task

\* The answer echoes the task that was sent; what has been published since
\* stays.
Merged == [f \in Fields |-> IF record[f] # sent.before[f] THEN record[f] ELSE sent.task[f]]

\* Mutated: the save stays pending when it is through.
StillPending(view, value) == [view EXCEPT !.known = value, !.dirty = view.value # value]

\* The description after its save: what was submitted is known now.
TextSaved(view, value) ==
  [view EXCEPT !.known = value, !.dirty = view.value # value, !.pending = FALSE,
               !.again = FALSE, !.failed = FALSE]

\* Mutated: only who leaves looks again.
ResubmitsOnLeave(view) == view.dirty /\ leave.at = "flushing" /\ leave.on = "pending"

Resubmits(view) == view.dirty /\ (text.again \/ (leave.at = "flushing" /\ leave.on = "pending"))

\* The pending save is through and the editor is `view`.  Whoever waited for it
\* flushes again if the text is another one than was accepted; of two the later
\* waits for the save of the earlier.  Who submitted it goes on.
SaveEnds(view, lost) ==
  /\ IF Resubmits(view)
     THEN /\ text' \in { [Submitted(view) EXCEPT !.again = a] : a \in BOOLEAN }
          /\ text'.again => text.again /\ leave.at = "flushing" /\ leave.on = "pending"
          /\ jobs' = Append(Tail(jobs), [field |-> "text", value |-> view.value, gone |-> FALSE])
     ELSE text' = view /\ jobs' = Tail(jobs)
  /\ leave' =
       IF leave.at = "flushing" /\ (leave.on = "own" \/ ~view.dirty)
       THEN [leave EXCEPT !.at = "flushed", !.lost = lost /\ leave.on = "own"]
       ELSE [leave EXCEPT !.on = IF text.again /\ ~text'.again THEN @ ELSE "own"]

Accept ==
  LET job == Head(jobs) IN
  /\ Sent /\ sent.at = "done"
  /\ sent' = None
  /\ record' = Merged
  /\ accepted' = [accepted EXCEPT ![job.field] = job.value]
  /\ IF job.field = "title"
     THEN /\ title' = [title EXCEPT !.known = job.value, !.saving = FALSE,
                                    !.dirty = title.shown # job.value]
          /\ text' = TextInputs(text, Merged)
          /\ jobs' = Tail(jobs)
          /\ UNCHANGED leave
     ELSE /\ title' = HeadingInputs(title, Merged)
          /\ SaveEnds(TextSaved(text, job.value), FALSE)
  /\ UNCHANGED <<stored, adding, acts>>

\* The title is no longer being saved.
TitleRefused ==
  /\ title' = [title EXCEPT !.saving = FALSE, !.shown = IF title.dirty THEN @ ELSE title.known]
  /\ UNCHANGED <<text, leave>>

\* A flush that waits for the save fails with it, and the user stays.
TextRefused ==
  /\ text' = [text EXCEPT !.pending = FALSE, !.dirty = TRUE, !.again = FALSE, !.failed = TRUE]
  /\ leave' = [leave EXCEPT !.at = IF @ = "flushing" THEN "here" ELSE @]
  /\ UNCHANGED title

\* The request fails, before the server has carried it out or after.
Refuse ==
  /\ Sent
  /\ sent' = None /\ jobs' = Tail(jobs)
  /\ IF Head(jobs).field = "title" THEN TitleRefused ELSE TextRefused
  /\ UNCHANGED <<stored, record, adding, acts, accepted>>

\* The server has no such task any more.  The description takes this for the end
\* of its save: nothing is accepted and the flush does not fail.
NotFound ==
  /\ Sent /\ sent.at = "sent" /\ Head(jobs).field = "text"
  /\ sent' = None
  /\ SaveEnds([text EXCEPT !.pending = FALSE, !.again = FALSE, !.failed = TRUE], TRUE)
  /\ UNCHANGED <<stored, record, adding, title, acts, accepted>>

-----------------------------------------------------------------------------
(* Fields with endpoints of their own.                                     *)

Add(f, v) ==
  /\ adding[f] = None /\ v # record[f]
  /\ adding' = [adding EXCEPT ![f] = [at |-> "sent", value |-> v]]
  /\ Act /\ UNCHANGED <<stored, record, jobs, sent, title, text, leave, accepted>>

ExecuteAdd(f) ==
  /\ adding[f].at = "sent"
  /\ stored' = [stored EXCEPT ![f] = adding[f].value]
  /\ adding' = [adding EXCEPT ![f].at = "done"]
  /\ UNCHANGED <<record, jobs, sent, title, text, leave, acts, accepted>>

\* acceptFields(), which a closed record ignores.
AcceptFields(f) ==
  /\ adding[f].at = "done"
  /\ adding' = [adding EXCEPT ![f] = None]
  /\ IF Open
     THEN /\ Publish([record EXCEPT ![f] = adding[f].value])
          /\ accepted' = [accepted EXCEPT ![f] = adding[f].value]
     ELSE UNCHANGED <<record, title, text, accepted>>
  /\ UNCHANGED <<stored, jobs, sent, leave, acts>>

-----------------------------------------------------------------------------
Progress ==
  \/ Autosave \/ Dispatch \/ Execute \/ Accept \/ Close
  \/ \E f \in Own : ExecuteAdd(f) \/ AcceptFields(f)

Next ==
  \/ Progress
  \/ EscapeTitle \/ BlurTitle \/ Leave \/ Refuse \/ NotFound
  \/ \E v \in Values : TypeTitle(v) \/ TypeText(v) \/ \E f \in Own : Add(f, v)

Spec == Init /\ [][Next]_vars /\ WF_vars(Progress)

-----------------------------------------------------------------------------
Task == [Fields -> Values]
Job == [field : {"title", "text"}, value : Values, gone : BOOLEAN]

(* Types; a save under way is the first of the queue; the description has  *)
(* one save in the queue while it is pending and none otherwise.           *)
TypeOK ==
  /\ {stored, record, accepted} \subseteq Task
  /\ jobs \in Seq(Job)
  /\ Sent => /\ sent.at \in {"sent", "done"} /\ {sent.task, sent.before} \subseteq Task
             /\ jobs # <<>>
  /\ title \in [shown : Values, known : Values, dirty : BOOLEAN, saving : BOOLEAN]
  /\ text \in [value : Values, known : Values, dirty : BOOLEAN, pending : BOOLEAN,
               timer : BOOLEAN, again : BOOLEAN, failed : BOOLEAN]
  /\ leave \in [at : {"here", "flushing", "flushed", "gone"}, on : {"own", "pending"},
                asked : Values, typed : BOOLEAN, lost : BOOLEAN]
  /\ Open => (text.pending <=> \E i \in DOMAIN jobs : jobs[i].field = "text")

(* The record is, field by field, what was accepted last: a save answered  *)
(* later never puts back what an endpoint of another field has published   *)
(* meanwhile (the merge in TaskRecordSession.save).                        *)
RecordIsAccepted == record = accepted

(* Saving one field does not undo another that was saved before: although  *)
(* the whole task is sent, the server's title and description change only  *)
(* by their own saves, unless what is there was never accepted.            *)
SavesKeepTheRest ==
  [][\A f \in {"title", "text"} :
       stored'[f] = stored[f] \/ Head(jobs).field = f \/ stored[f] # accepted[f]]_vars

(* The description as it was when the user asked to leave has been saved,  *)
(* and the server has said so, when the task is gone; if that fails the    *)
(* user stays (flush and commitNavigation).  But when the server answers   *)
(* that there is no such task the flush is taken for done                  *)
(* (task-description.ts:19), and what was typed is lost.                   *)
FlushedBeforeGone ==
  leave.at = "gone" /\ ~leave.typed /\ ~leave.lost => accepted["text"] = leave.asked

(* A change the timer was started for is saved without the user's help,    *)
(* also when it is made while another save is pending, unless it is        *)
(* changed again, a save fails, or the user leaves.                        *)
EveryEditIsTried ==
  \A v \in Values :
    (text.timer /\ text.value = v)
      ~> \/ accepted["text"] = v \/ text.value # v
         \/ text.failed \/ leave.at # "here"

(* What is typed into the title stays there until it is saved, taken back  *)
(* or the view is gone: publications of the record do not replace it.      *)
DraftsStay ==
  [][title.dirty /\ title'.shown # title.shown => acts' # acts]_vars

=============================================================================
