-------------------------- MODULE TaskRecordProofs --------------------------
(***************************************************************************)
(* What is proved of the task record, for any values and any number of     *)
(* edits: its types, that the record is what was accepted, that saves of   *)
(* one field leave the others alone, and that leaving waits for the        *)
(* description.                                                            *)
(*                                                                         *)
(* The inductive invariant has three parts.  Shape types every variable    *)
(* and describes the queue: at most one save of the description, which is  *)
(* there while it is pending.  Carried relates the request under way to    *)
(* the first of the queue and to the record it was built from.  Asked      *)
(* relates the description's editor, the queue and who waits to leave.     *)
(***************************************************************************)
EXTENDS TaskRecord, Integers, TLAPS

HasText(q) == \E i \in DOMAIN q : q[i].field = "text"
OneText(q) == \A i, j \in DOMAIN q : q[i].field = "text" /\ q[j].field = "text" => i = j
TitlesGo(q) == \A i \in DOMAIN q : q[i].gone => q[i].field = "title"
Asks(q, v) == \A i \in DOMAIN q : q[i].field = "text" => q[i].value = v

Queue(q) == q \in Seq(Job) /\ OneText(q) /\ TitlesGo(q)

Request == [at : {"sent", "done"}, task : Task, before : Task]
Adding == [at : {"sent", "done"}, value : Values]

Shape ==
  /\ stored \in Task /\ record \in Task /\ accepted \in Task
  /\ Queue(jobs)
  /\ Sent => sent \in Request /\ jobs # <<>>
  /\ adding \in [Own -> {None} \cup Adding]
  /\ title \in [shown : Values, known : Values, dirty : BOOLEAN, saving : BOOLEAN]
  /\ text \in [value : Values, known : Values, dirty : BOOLEAN, pending : BOOLEAN,
               timer : BOOLEAN, again : BOOLEAN, failed : BOOLEAN]
  /\ leave \in [at : {"here", "flushing", "flushed", "gone"}, on : {"own", "pending"},
                asked : Values, typed : BOOLEAN, lost : BOOLEAN]
  /\ acts \in Nat
  /\ Open => (text.pending <=> HasText(jobs))

Carried ==
  /\ record = accepted
  /\ Sent => /\ \A f \in Fields : sent.task[f] = IF f = Head(jobs).field THEN Head(jobs).value
                                                ELSE sent.before[f]
             /\ \A f \in {"title", "text"} : record[f] = sent.before[f]

Asked ==
  /\ Open => text.known = accepted["text"]
  /\ Open /\ ~text.dirty => text.value = text.known
  /\ leave.at = "flushing" =>
       /\ text.pending
       /\ ~leave.typed => /\ text.value = leave.asked
                          /\ leave.on = "own" => Asks(jobs, leave.asked)
  /\ leave.at = "flushed" /\ ~leave.typed /\ ~leave.lost =>
       ~text.pending /\ ~text.dirty /\ accepted["text"] = leave.asked
  /\ leave.at = "gone" /\ ~leave.typed /\ ~leave.lost => accepted["text"] = leave.asked
  /\ leave.at = "gone" => ~Sent

-----------------------------------------------------------------------------
(* The queue.                                                              *)

\* The first of the queue is a job; a description there is in the queue.
LEMMA HeadJob ==
  ASSUME NEW q, Queue(q), q # <<>>
  PROVE  /\ Head(q) \in Job
         /\ Head(q).field \in {"title", "text"} /\ Head(q).value \in Values
         /\ Head(q).field = "text" => HasText(q) /\ ~Head(q).gone
         /\ \A v : Head(q).field = "text" /\ Asks(q, v) => Head(q).value = v
<1>1. q \in Seq(Job) /\ Head(q) = q[1] /\ 1 \in DOMAIN q /\ Head(q) \in Job
  BY DEF Queue
<1>2. \A j \in Job : j.field \in {"title", "text"} /\ j.value \in Values
  BY DEF Job
<1> QED BY <1>1, <1>2 DEF Queue, HasText, TitlesGo, Asks

\* A save that is appended comes last; one of the title changes nothing of
\* the description's.
LEMMA AppendTitle ==
  ASSUME NEW q, Queue(q), NEW v \in Values
  PROVE  LET a == Append(q, [field |-> "title", value |-> v, gone |-> FALSE]) IN
         /\ Queue(a) /\ a # <<>>
         /\ HasText(a) <=> HasText(q)
         /\ \A w : Asks(q, w) => Asks(a, w)
         /\ q # <<>> => Head(a) = Head(q)
<1> DEFINE j == [field |-> "title", value |-> v, gone |-> FALSE]
           a == Append(q, j)
<1>1. j \in Job /\ q \in Seq(Job)
  BY DEF Job, Queue
<1>2. /\ a \in Seq(Job) /\ a # <<>>
      /\ DOMAIN a = 1..(Len(q) + 1) /\ DOMAIN q = 1..Len(q) /\ Len(q) \in Nat
      /\ a[Len(q) + 1] = j
      /\ \A i \in 1..Len(q) : a[i] = q[i]
      /\ q # <<>> => Head(a) = Head(q)
  BY <1>1
<1>3. j.field = "title" /\ j.field # "text" /\ ~j.gone
  OBVIOUS
<1> HIDE DEF j, a
<1>4. \A i \in DOMAIN a : (i \in DOMAIN q /\ a[i] = q[i]) \/ a[i] = j
  BY <1>2
<1>5. \A i \in DOMAIN q : i \in DOMAIN a /\ a[i] = q[i]
  BY <1>2
<1>6. Queue(a)
  BY <1>2, <1>3, <1>4 DEF Queue, OneText, TitlesGo
<1>7. HasText(a) <=> HasText(q)
  BY <1>3, <1>4, <1>5 DEF HasText
<1>8. \A w : Asks(q, w) => Asks(a, w)
  BY <1>3, <1>4 DEF Asks
<1> QED BY <1>2, <1>6, <1>7, <1>8 DEF a, j

LEMMA AppendText ==
  ASSUME NEW q, Queue(q), ~HasText(q), NEW v \in Values
  PROVE  LET a == Append(q, [field |-> "text", value |-> v, gone |-> FALSE]) IN
         /\ Queue(a) /\ a # <<>>
         /\ HasText(a) /\ Asks(a, v)
         /\ q # <<>> => Head(a) = Head(q)
<1> DEFINE j == [field |-> "text", value |-> v, gone |-> FALSE]
           a == Append(q, j)
<1>1. j \in Job /\ q \in Seq(Job)
  BY DEF Job, Queue
<1>2. /\ a \in Seq(Job) /\ a # <<>>
      /\ DOMAIN a = 1..(Len(q) + 1) /\ DOMAIN q = 1..Len(q) /\ Len(q) \in Nat
      /\ a[Len(q) + 1] = j
      /\ \A i \in 1..Len(q) : a[i] = q[i]
      /\ q # <<>> => Head(a) = Head(q)
  BY <1>1
<1>3. j.field = "text" /\ j.value = v /\ ~j.gone
  OBVIOUS
<1> HIDE DEF j, a
<1>4. \A i \in DOMAIN a : \/ i \in DOMAIN q /\ a[i] = q[i] /\ a[i].field # "text"
                          \/ i = Len(q) + 1 /\ a[i] = j
  BY <1>2 DEF HasText
<1>5. Len(q) + 1 \in DOMAIN a
  BY <1>2
<1>6. OneText(a)
  BY <1>4 DEF OneText
<1>7. TitlesGo(a)
  BY <1>3, <1>4 DEF Queue, TitlesGo
<1>8. HasText(a) /\ Asks(a, v)
  BY <1>2, <1>3, <1>4, <1>5 DEF HasText, Asks
<1> QED BY <1>2, <1>6, <1>7, <1>8 DEF a, j, Queue

\* What is left when the first save is through.
LEMMA TailJobs ==
  ASSUME NEW q, Queue(q), q # <<>>
  PROVE  /\ Queue(Tail(q))
         /\ Head(q).field = "title" => (HasText(Tail(q)) <=> HasText(q))
         /\ Head(q).field = "text" => ~HasText(Tail(q))
         /\ \A w : Asks(q, w) => Asks(Tail(q), w)
<1> DEFINE r == Tail(q)
<1>1. /\ q \in Seq(Job) /\ r \in Seq(Job)
      /\ DOMAIN q = 1..Len(q) /\ Len(q) \in Nat /\ Len(q) >= 1
      /\ DOMAIN r = 1..(Len(q) - 1)
      /\ \A i \in 1..(Len(q) - 1) : r[i] = q[i + 1]
      /\ Head(q) = q[1]
  BY DEF Queue
<1> HIDE DEF r
<1>2. \A i \in DOMAIN r : i + 1 \in DOMAIN q /\ r[i] = q[i + 1] /\ i + 1 # 1 /\ i \in Int
  BY <1>1
<1>3. \A i \in DOMAIN q : i = 1 \/ (i - 1 \in DOMAIN r /\ r[i - 1] = q[i])
  BY <1>1
<1>4. OneText(r)
  <2>1. \A i, k \in DOMAIN r : i + 1 = k + 1 => i = k
    BY <1>2
  <2> QED BY <1>2, <2>1 DEF OneText, Queue
<1>5. TitlesGo(r)
  BY <1>2 DEF TitlesGo, Queue
<1>6. ASSUME Head(q).field = "title" PROVE HasText(r) <=> HasText(q)
  <2>1. q[1].field # "text"
    BY <1>6, <1>1
  <2> QED BY <2>1, <1>2, <1>3 DEF HasText
<1>7. ASSUME Head(q).field = "text" PROVE ~HasText(r)
  <2>1. q[1].field = "text" /\ 1 \in DOMAIN q
    BY <1>7, <1>1
  <2> QED BY <2>1, <1>2 DEF HasText, OneText, Queue
<1>8. \A w : Asks(q, w) => Asks(r, w)
  BY <1>2 DEF Asks
<1> QED BY <1>1, <1>4, <1>5, <1>6, <1>7, <1>8 DEF r, Queue

\* Saves of the title that are cancelled stay in the queue.
LEMMA TitlesGone ==
  ASSUME NEW q, Queue(q)
  PROVE  LET c == [i \in DOMAIN q |-> IF q[i].field = "title" THEN [q[i] EXCEPT !.gone = TRUE]
                                     ELSE q[i]] IN
         /\ Queue(c)
         /\ HasText(c) <=> HasText(q)
         /\ \A w : Asks(q, w) => Asks(c, w)
         /\ q # <<>> => /\ c # <<>>
                        /\ Head(c).field = Head(q).field /\ Head(c).value = Head(q).value
<1> DEFINE c == [i \in DOMAIN q |-> IF q[i].field = "title" THEN [q[i] EXCEPT !.gone = TRUE]
                                   ELSE q[i]]
<1>1. q \in Seq(Job) /\ DOMAIN q = 1..Len(q) /\ Len(q) \in Nat /\ \A i \in DOMAIN q : q[i] \in Job
  BY DEF Queue
<1>2. \A j \in Job : /\ [j EXCEPT !.gone = TRUE] \in Job
                     /\ [j EXCEPT !.gone = TRUE].field = j.field
                     /\ [j EXCEPT !.gone = TRUE].value = j.value
  BY DEF Job
<1>3. DOMAIN c = DOMAIN q /\ \A i \in DOMAIN q : c[i] \in Job /\ c[i].field = q[i].field /\ c[i].value = q[i].value
  BY <1>1, <1>2
<1>4. \A i \in DOMAIN q : q[i].field # "title" => c[i] = q[i]
  OBVIOUS
<1>5. c \in Seq(Job) /\ (q # <<>> => c # <<>> /\ Head(c) = c[1] /\ Head(q) = q[1] /\ 1 \in DOMAIN q)
  <2>1. c \in [1..Len(q) -> Job]
    BY <1>1, <1>3
  <2>2. c \in Seq(Job) /\ Len(c) = Len(q)
    BY <2>1, <1>1
  <2> QED BY <2>2, <1>1
<1> HIDE DEF c
<1>6. OneText(c) /\ TitlesGo(c)
  BY <1>3, <1>4 DEF Queue, OneText, TitlesGo
<1>7. HasText(c) <=> HasText(q)
  BY <1>3 DEF HasText
<1>8. \A w : Asks(q, w) => Asks(c, w)
  BY <1>3 DEF Asks
<1> QED BY <1>3, <1>5, <1>6, <1>7, <1>8 DEF c, Queue

-----------------------------------------------------------------------------
(* Shape.                                                                  *)

LEMMA Names ==
  /\ Fields = {"title", "text", "labels", "people"} /\ Own = {"labels", "people"}
  /\ \A t \in Task : /\ DOMAIN t = Fields
                     /\ \A f \in Fields : t[f] \in Values
                     /\ \A f \in Fields, v \in Values : [t EXCEPT ![f] = v] \in Task
  /\ \A r \in Request : /\ r.at \in {"sent", "done"} /\ r.task \in Task /\ r.before \in Task
                        /\ r # None
  /\ \A r \in Adding : r.at \in {"sent", "done"} /\ r.value \in Values /\ r # None
  /\ None.at = "none"
<1>1. Fields = {"title", "text", "labels", "people"} /\ Own = {"labels", "people"}
  BY DEF Fields, Own
<1>2. \A t \in Task : /\ DOMAIN t = Fields
                      /\ \A f \in Fields : t[f] \in Values
                      /\ \A f \in Fields, v \in Values : [t EXCEPT ![f] = v] \in Task
  BY DEF Task
<1>3. \A r \in Request : r.at \in {"sent", "done"} /\ r.task \in Task /\ r.before \in Task
  BY DEF Request
<1>4. \A r \in Adding : r.at \in {"sent", "done"} /\ r.value \in Values
  BY DEF Adding
<1>5. None.at = "none"
  BY DEF None
<1> QED BY <1>1, <1>2, <1>3, <1>4, <1>5

\* What the server stores when it carries a request out is a task.
LEMMA WrittenIsTask ==
  ASSUME Shape, Sent
  PROVE  Written(sent.task) \in Task
<1>1. stored \in Task /\ sent.task \in Task
  BY Names DEF Shape
<1> QED BY <1>1, Names DEF Written, Task

LEMMA MergedIsTask ==
  ASSUME Shape, Sent
  PROVE  Merged \in Task
<1>1. record \in Task /\ sent.task \in Task
  BY Names DEF Shape
<1> QED BY <1>1, Names DEF Merged, Task

\* The views keep their types when the record is published.
LEMMA InputsTyped ==
  ASSUME Shape, NEW task \in Task
  PROVE  /\ HeadingInputs(title, task) \in
              [shown : Values, known : Values, dirty : BOOLEAN, saving : BOOLEAN]
         /\ TextInputs(text, task) \in
              [value : Values, known : Values, dirty : BOOLEAN, pending : BOOLEAN,
               timer : BOOLEAN, again : BOOLEAN, failed : BOOLEAN]
         /\ TextInputs(text, task).pending = text.pending
<1>1. task.title \in Values /\ task.text \in Values
  BY Names
<1> QED BY <1>1 DEF Shape, HeadingInputs, TextInputs

LEMMA InitShape == Init => Shape
<1> SUFFICES ASSUME Init PROVE Shape
  OBVIOUS
<1>1. Initial \in Values /\ MaxActs \in Nat
  BY TaskRecordAssumption
<1>2. Queue(jobs) /\ ~HasText(jobs)
  BY DEF Init, Queue, OneText, TitlesGo, HasText
<1>3. stored \in Task /\ record \in Task /\ accepted \in Task
  BY <1>1 DEF Init, Task
<1>4. ~Sent
  BY DEF Init, Sent
<1> QED BY <1>1, <1>2, <1>3, <1>4 DEF Init, Shape

\* What the user does is counted.
LEMMA ActCounts ==
  ASSUME acts \in Nat, Act
  PROVE  acts' \in Nat /\ acts' # acts /\ Open
BY DEF Act

LEMMA EditsKeepShape ==
  ASSUME Shape, NEW v \in Values, TypeTitle(v) \/ EscapeTitle \/ TypeText(v)
  PROVE  Shape'
<1>1. Queue(jobs') /\ (HasText(jobs') <=> HasText(jobs)) /\ jobs' = jobs /\ sent' = sent
  BY DEF Shape, TypeTitle, EscapeTitle, TypeText
<1>2. CASE TypeTitle(v) \/ EscapeTitle
  <2>1. title' \in [shown : Values, known : Values, dirty : BOOLEAN, saving : BOOLEAN]
    BY <1>2 DEF Shape, TypeTitle, EscapeTitle
  <2>2. UNCHANGED <<stored, record, adding, text, leave, accepted>> /\ acts' \in Nat
    BY <1>2, ActCounts DEF TypeTitle, EscapeTitle, Shape
  <2> QED BY <1>1, <2>1, <2>2 DEF Shape, Open, Sent
<1>3. CASE TypeText(v)
  <2>1. /\ text' \in [value : Values, known : Values, dirty : BOOLEAN, pending : BOOLEAN,
                      timer : BOOLEAN, again : BOOLEAN, failed : BOOLEAN]
        /\ text'.pending = text.pending
    BY <1>3 DEF Shape, TypeText
  <2>2. leave' \in [at : {"here", "flushing", "flushed", "gone"}, on : {"own", "pending"},
                    asked : Values, typed : BOOLEAN, lost : BOOLEAN] /\ leave'.at = leave.at
    BY <1>3 DEF Shape, TypeText
  <2>3. UNCHANGED <<stored, record, adding, title, accepted>> /\ acts' \in Nat
    BY <1>3, ActCounts DEF TypeText, Shape
  <2> QED BY <1>1, <2>1, <2>2, <2>3 DEF Shape, Open, Sent
<1> QED BY <1>2, <1>3

LEMMA BlurKeepsShape ==
  ASSUME Shape, BlurTitle
  PROVE  /\ Shape'
         /\ sent' # None => /\ sent' = sent /\ Head(jobs').field = Head(jobs).field
                            /\ Head(jobs').value = Head(jobs).value
         /\ \A w : Asks(jobs, w) => Asks(jobs', w)
<1> DEFINE active == Sent /\ Head(jobs).field = "title"
           others == IF active THEN Tail(jobs) ELSE jobs
           left   == [i \in DOMAIN others |->
                        IF others[i].field = "title" THEN [others[i] EXCEPT !.gone = TRUE]
                        ELSE others[i]]
<1>1. /\ jobs' = Append(left, [field |-> "title", value |-> title.shown, gone |-> FALSE])
      /\ sent' = IF active THEN None ELSE sent
      /\ title.shown \in Values
  BY DEF BlurTitle, Shape
<1>2. /\ Queue(others) /\ (HasText(others) <=> HasText(jobs))
      /\ \A w : Asks(jobs, w) => Asks(others, w)
      /\ Sent /\ ~active => others = jobs /\ jobs # <<>>
  BY TailJobs DEF Shape
<1> HIDE DEF others
<1>3. /\ Queue(left) /\ (HasText(left) <=> HasText(others))
      /\ \A w : Asks(others, w) => Asks(left, w)
      /\ others # <<>> => /\ left # <<>> /\ Head(left).field = Head(others).field
                          /\ Head(left).value = Head(others).value
  BY <1>2, TitlesGone
<1> HIDE DEF left
<1>4. /\ Queue(jobs') /\ jobs' # <<>> /\ (HasText(jobs') <=> HasText(left))
      /\ \A w : Asks(left, w) => Asks(jobs', w)
      /\ left # <<>> => Head(jobs') = Head(left)
  BY <1>1, <1>3, AppendTitle
<1>5. HasText(jobs') <=> HasText(jobs)
  BY <1>2, <1>3, <1>4
<1>6. sent' # None => sent' = sent /\ Sent /\ ~active
  BY <1>1 DEF Sent
<1>7. stored' \in Task
  BY WrittenIsTask DEF BlurTitle, Shape
<1>8. title' \in [shown : Values, known : Values, dirty : BOOLEAN, saving : BOOLEAN]
  BY DEF BlurTitle, Shape
<1>9. UNCHANGED <<record, adding, text, leave, accepted>> /\ acts' \in Nat
  BY ActCounts DEF BlurTitle, Shape
<1>10. Shape'
  BY <1>4, <1>5, <1>6, <1>7, <1>8, <1>9 DEF Shape, Sent, Open
<1> QED BY <1>2, <1>3, <1>4, <1>6, <1>10 DEF Sent

LEMMA AutosaveKeepsShape ==
  ASSUME Shape, Autosave
  PROVE  Shape'
<1>1. CASE ~text.pending /\ text.dirty
  <2>0. /\ jobs' = Append(jobs, [field |-> "text", value |-> text.value, gone |-> FALSE])
        /\ text.value \in Values /\ Queue(jobs) /\ ~HasText(jobs)
    BY <1>1 DEF Autosave, Queued, Shape
  <2>1. Queue(jobs') /\ HasText(jobs') /\ jobs' # <<>>
    BY <2>0, AppendText
  <2>2. text' \in [value : Values, known : Values, dirty : BOOLEAN, pending : BOOLEAN,
                   timer : BOOLEAN, again : BOOLEAN, failed : BOOLEAN] /\ text'.pending
    BY <1>1 DEF Autosave, Submitted, Shape
  <2>3. UNCHANGED <<stored, record, sent, adding, title, leave, acts, accepted>>
    BY DEF Autosave
  <2> QED BY <2>1, <2>2, <2>3 DEF Shape, Sent, Open
<1>2. CASE ~(~text.pending /\ text.dirty)
  <2>1. jobs' = jobs
    BY <1>2 DEF Autosave
  <2>2. text' = [text EXCEPT !.timer = FALSE, !.again = @ \/ text.pending]
    BY <1>2 DEF Autosave
  <2> QED BY <2>1, <2>2 DEF Autosave, Shape, Sent, Open
<1> QED BY <1>1, <1>2

LEMMA LeaveKeepsShape ==
  ASSUME Shape, Leave
  PROVE  Shape'
<1>1. leave' \in [at : {"here", "flushing", "flushed", "gone"}, on : {"own", "pending"},
                  asked : Values, typed : BOOLEAN, lost : BOOLEAN]
      /\ Open /\ acts' \in Nat
  BY ActCounts DEF Leave, WaitsOn, Shape
<1>2. CASE ~text.pending /\ text.dirty
  <2>0. /\ jobs' = Append(jobs, [field |-> "text", value |-> text.value, gone |-> FALSE])
        /\ text.value \in Values /\ Queue(jobs) /\ ~HasText(jobs)
    BY <1>1, <1>2 DEF Leave, Queued, Shape
  <2>1. Queue(jobs') /\ HasText(jobs') /\ jobs' # <<>>
    BY <2>0, AppendText
  <2>2. text' \in [value : Values, known : Values, dirty : BOOLEAN, pending : BOOLEAN,
                   timer : BOOLEAN, again : BOOLEAN, failed : BOOLEAN] /\ text'.pending
    BY <1>2 DEF Leave, Submitted, Shape
  <2>3. UNCHANGED <<stored, record, sent, adding, title, accepted>>
    BY DEF Leave
  <2> QED BY <1>1, <2>1, <2>2, <2>3 DEF Shape, Sent, Open
<1>3. CASE ~(~text.pending /\ text.dirty)
  <2>1. jobs' = jobs /\ text' = text
    BY <1>3 DEF Leave
  <2> QED BY <1>1, <2>1 DEF Leave, Shape, Sent
<1> QED BY <1>2, <1>3

LEMMA CloseKeepsShape ==
  ASSUME Shape, Close
  PROVE  Shape'
<1>1. Queue(jobs')
  BY DEF Close, Queue, OneText, TitlesGo
<1>2. stored' \in Task
  BY WrittenIsTask DEF Close, Shape
<1>3. leave' \in [at : {"here", "flushing", "flushed", "gone"}, on : {"own", "pending"},
                  asked : Values, typed : BOOLEAN, lost : BOOLEAN] /\ leave'.at = "gone"
  BY DEF Close, Shape
<1> QED BY <1>1, <1>2, <1>3 DEF Close, Shape, Sent, Open

LEMMA DispatchKeepsShape ==
  ASSUME Shape, Dispatch
  PROVE  Shape'
<1>1. CASE Head(jobs).gone
  <2>1. jobs' = Tail(jobs) /\ sent' = sent /\ ~Sent
    BY <1>1 DEF Dispatch
  <2>2. Queue(jobs') /\ (HasText(jobs') <=> HasText(jobs))
    BY <1>1, <2>1, HeadJob, TailJobs DEF Shape, Dispatch
  <2> QED BY <2>1, <2>2 DEF Dispatch, Shape, Sent, Open
<1>2. CASE ~Head(jobs).gone
  <2>1. /\ jobs' = jobs /\ jobs # <<>>
        /\ sent' = [at |-> "sent", task |-> Draft(Head(jobs)), before |-> record]
    BY <1>2 DEF Dispatch
  <2>2. Head(jobs).field \in Fields /\ Head(jobs).value \in Values
    BY <2>1, HeadJob, Names DEF Shape
  <2>3. Draft(Head(jobs)) \in Task /\ record \in Task
    BY <2>2, Names DEF Draft, Shape
  <2>4. sent' \in Request
    BY <2>1, <2>3 DEF Request
  <2> QED BY <2>1, <2>4 DEF Dispatch, Shape, Sent, Open
<1> QED BY <1>1, <1>2

LEMMA ExecuteKeepsShape ==
  ASSUME Shape, Execute
  PROVE  Shape'
<1>1. stored' \in Task
  BY WrittenIsTask DEF Execute
<1>2. sent' \in Request /\ jobs' = jobs /\ jobs # <<>>
  BY DEF Execute, Shape, Request
<1> QED BY <1>1, <1>2 DEF Execute, Shape, Sent, Open

\* What the end of the description's save leaves behind, accepted or not.
LEMMA EndsKeepShape ==
  ASSUME Shape, Open, Sent, Head(jobs).field = "text",
         NEW view \in [value : Values, known : Values, dirty : BOOLEAN, pending : BOOLEAN,
                       timer : BOOLEAN, again : BOOLEAN, failed : BOOLEAN],
         ~view.pending, NEW lost \in BOOLEAN, SaveEnds(view, lost)
  PROVE  /\ text' \in [value : Values, known : Values, dirty : BOOLEAN, pending : BOOLEAN,
                       timer : BOOLEAN, again : BOOLEAN, failed : BOOLEAN]
         /\ leave' \in [at : {"here", "flushing", "flushed", "gone"}, on : {"own", "pending"},
                        asked : Values, typed : BOOLEAN, lost : BOOLEAN]
         /\ Queue(jobs') /\ (text'.pending <=> HasText(jobs'))
<1>1. Queue(jobs) /\ jobs # <<>>
  BY DEF Shape
<1>2. Queue(Tail(jobs)) /\ ~HasText(Tail(jobs))
  BY <1>1, TailJobs
<1>3. leave' \in [at : {"here", "flushing", "flushed", "gone"}, on : {"own", "pending"},
                  asked : Values, typed : BOOLEAN, lost : BOOLEAN]
  BY DEF SaveEnds, Shape
<1>4. CASE Resubmits(view)
  <2>1. /\ text' \in { [Submitted(view) EXCEPT !.again = a] : a \in BOOLEAN }
        /\ jobs' = Append(Tail(jobs), [field |-> "text", value |-> view.value, gone |-> FALSE])
    BY <1>4 DEF SaveEnds
  <2>2. text' \in [value : Values, known : Values, dirty : BOOLEAN, pending : BOOLEAN,
                   timer : BOOLEAN, again : BOOLEAN, failed : BOOLEAN] /\ text'.pending
    BY <2>1 DEF Submitted
  <2>3. Queue(jobs') /\ HasText(jobs')
    BY <1>2, <2>1, AppendText
  <2> QED BY <1>3, <2>2, <2>3
<1>5. CASE ~Resubmits(view)
  <2>1. text' = view /\ jobs' = Tail(jobs)
    BY <1>5 DEF SaveEnds
  <2> QED BY <1>2, <1>3, <2>1
<1> QED BY <1>4, <1>5

LEMMA AcceptKeepsShape ==
  ASSUME Shape, Accept, Open
  PROVE  Shape'
<1> DEFINE job == Head(jobs)
<1>1. /\ Sent /\ jobs # <<>> /\ Queue(jobs)
      /\ job.field \in {"title", "text"} /\ job.value \in Values
      /\ job.field = "text" => HasText(jobs)
  BY HeadJob DEF Accept, Shape
<1>2. record' \in Task /\ accepted' \in Task /\ ~Sent' /\ Merged \in Task
  BY <1>1, MergedIsTask, Names DEF Accept, Shape, Sent
<1>3. UNCHANGED <<stored, adding, acts>>
  BY DEF Accept
<1>4. CASE job.field = "title"
  <2>1. jobs' = Tail(jobs) /\ leave' = leave /\ text' = TextInputs(text, Merged)
    BY <1>4 DEF Accept
  <2>2. title' = [title EXCEPT !.known = job.value, !.saving = FALSE, !.dirty = title.shown # job.value]
    BY <1>4 DEF Accept
  <2>3. title' \in [shown : Values, known : Values, dirty : BOOLEAN, saving : BOOLEAN]
    BY <2>2, <1>1 DEF Shape
  <2>4. Queue(jobs') /\ (HasText(jobs') <=> HasText(jobs))
    BY <1>1, <1>4, <2>1, TailJobs
  <2> QED BY <1>2, <1>3, <2>1, <2>3, <2>4, InputsTyped DEF Shape, Open
<1>5. CASE job.field = "text"
  <2> DEFINE saved == TextSaved(text, job.value)
  <2>1. saved \in [value : Values, known : Values, dirty : BOOLEAN, pending : BOOLEAN,
                   timer : BOOLEAN, again : BOOLEAN, failed : BOOLEAN] /\ ~saved.pending
    BY <1>1 DEF Shape, TextSaved
  <2>2. SaveEnds(saved, FALSE) /\ title' = HeadingInputs(title, Merged)
    BY <1>5 DEF Accept
  <2>3. title' \in [shown : Values, known : Values, dirty : BOOLEAN, saving : BOOLEAN]
    BY <1>2, <2>2, InputsTyped
  <2> HIDE DEF saved
  <2>4. /\ text' \in [value : Values, known : Values, dirty : BOOLEAN, pending : BOOLEAN,
                      timer : BOOLEAN, again : BOOLEAN, failed : BOOLEAN]
        /\ leave' \in [at : {"here", "flushing", "flushed", "gone"}, on : {"own", "pending"},
                       asked : Values, typed : BOOLEAN, lost : BOOLEAN]
        /\ Queue(jobs') /\ (text'.pending <=> HasText(jobs'))
    BY <1>1, <1>5, <2>1, <2>2, EndsKeepShape
  <2> QED BY <1>2, <1>3, <2>3, <2>4 DEF Shape
<1> QED BY <1>1, <1>4, <1>5

LEMMA RefuseKeepsShape ==
  ASSUME Shape, Refuse, Open
  PROVE  Shape'
<1>1. /\ jobs # <<>> /\ Queue(jobs) /\ jobs' = Tail(jobs) /\ ~Sent'
      /\ Head(jobs).field \in {"title", "text"}
  BY HeadJob DEF Refuse, Shape, Sent
<1>2. Queue(jobs') /\ (Head(jobs).field = "title" => (HasText(jobs') <=> HasText(jobs)))
                   /\ (Head(jobs).field = "text" => ~HasText(jobs'))
  BY <1>1, TailJobs
<1>3. UNCHANGED <<stored, record, adding, acts, accepted>>
  BY DEF Refuse
<1>4. CASE Head(jobs).field = "title"
  <2>1. title' \in [shown : Values, known : Values, dirty : BOOLEAN, saving : BOOLEAN]
    BY <1>4 DEF Refuse, TitleRefused, Shape
  <2> QED BY <1>1, <1>2, <1>3, <1>4, <2>1 DEF Refuse, TitleRefused, Shape, Open
<1>5. CASE Head(jobs).field = "text"
  <2>1. text' = [text EXCEPT !.pending = FALSE, !.dirty = TRUE, !.again = FALSE, !.failed = TRUE]
        /\ leave' = [leave EXCEPT !.at = IF @ = "flushing" THEN "here" ELSE @] /\ title' = title
    BY <1>5 DEF Refuse, TextRefused
  <2>2. /\ text' \in [value : Values, known : Values, dirty : BOOLEAN, pending : BOOLEAN,
                      timer : BOOLEAN, again : BOOLEAN, failed : BOOLEAN] /\ ~text'.pending
        /\ leave' \in [at : {"here", "flushing", "flushed", "gone"}, on : {"own", "pending"},
                       asked : Values, typed : BOOLEAN, lost : BOOLEAN]
    BY <2>1 DEF Shape
  <2> QED BY <1>1, <1>2, <1>3, <1>5, <2>1, <2>2 DEF Shape
<1> QED BY <1>1, <1>4, <1>5

LEMMA NotFoundKeepsShape ==
  ASSUME Shape, NotFound, Open
  PROVE  Shape'
<1> DEFINE view == [text EXCEPT !.pending = FALSE, !.again = FALSE, !.failed = TRUE]
<1>1. /\ view \in [value : Values, known : Values, dirty : BOOLEAN, pending : BOOLEAN,
                   timer : BOOLEAN, again : BOOLEAN, failed : BOOLEAN] /\ ~view.pending
      /\ SaveEnds(view, TRUE) /\ Sent /\ Head(jobs).field = "text"
  BY DEF Shape, NotFound
<1>2. UNCHANGED <<stored, record, adding, title, acts, accepted>> /\ ~Sent'
  BY DEF NotFound, Sent
<1> HIDE DEF view
<1> QED BY <1>1, <1>2, EndsKeepShape DEF Shape

LEMMA OwnFieldsKeepShape ==
  ASSUME Shape, NEW f \in Own, NEW v \in Values, Add(f, v) \/ ExecuteAdd(f) \/ AcceptFields(f)
  PROVE  Shape'
<1>1. f \in Fields /\ jobs' = jobs /\ sent' = sent /\ leave' = leave
  BY Names DEF Add, ExecuteAdd, AcceptFields
<1>2. adding[f].at = "sent" \/ adding[f].at = "done" => adding[f] \in Adding
  BY Names DEF Shape
<1>3. CASE Add(f, v)
  <2>1. adding' \in [Own -> {None} \cup Adding] /\ acts' \in Nat
    BY <1>3 DEF Add, Act, Shape, Adding
  <2> QED BY <1>1, <1>3, <2>1 DEF Add, Shape, Sent, Open
<1>4. CASE ExecuteAdd(f)
  <2>1. adding[f] \in Adding
    BY <1>2, <1>4 DEF ExecuteAdd
  <2>2. adding[f].value \in Values /\ [adding[f] EXCEPT !.at = "done"] \in Adding
    BY <2>1 DEF Adding
  <2>3. stored' \in Task /\ adding' \in [Own -> {None} \cup Adding]
    BY <1>1, <1>4, <2>2, Names DEF ExecuteAdd, Shape
  <2> QED BY <1>1, <1>4, <2>3 DEF ExecuteAdd, Shape, Sent, Open
<1>5. CASE AcceptFields(f)
  <2>1. adding[f].value \in Values
    BY <1>2, <1>5, Names DEF AcceptFields
  <2>2. [record EXCEPT ![f] = adding[f].value] \in Task /\ [accepted EXCEPT ![f] = adding[f].value] \in Task
    BY <1>1, <2>1, Names DEF Shape
  <2>3. adding' \in [Own -> {None} \cup Adding]
    BY <1>5 DEF AcceptFields, Shape
  <2> QED BY <1>1, <1>5, <2>2, <2>3, InputsTyped DEF AcceptFields, Publish, Shape, Sent, Open
<1> QED BY <1>3, <1>4, <1>5

LEMMA NextShape ==
  ASSUME Shape, ~Open => ~Sent, [Next]_vars
  PROVE  Shape'
<1>1. CASE UNCHANGED vars
  BY <1>1 DEF Shape, vars, Sent, Open
<1>2. ASSUME NEW v \in Values, TypeTitle(v) \/ EscapeTitle \/ TypeText(v) PROVE Shape'
  BY <1>2, EditsKeepShape
<1>3. ASSUME NEW f \in Own, NEW v \in Values, Add(f, v) \/ ExecuteAdd(f) \/ AcceptFields(f) PROVE Shape'
  BY <1>3, OwnFieldsKeepShape
<1>4. CASE Accept
  BY <1>4, AcceptKeepsShape DEF Accept
<1>5. CASE Refuse
  BY <1>5, RefuseKeepsShape DEF Refuse
<1>6. CASE NotFound
  BY <1>6, NotFoundKeepsShape DEF NotFound
<1> QED
  BY <1>1, <1>2, <1>3, <1>4, <1>5, <1>6, TaskRecordAssumption, BlurKeepsShape, AutosaveKeepsShape,
     LeaveKeepsShape, CloseKeepsShape, DispatchKeepsShape, ExecuteKeepsShape
     DEF Next, Progress

-----------------------------------------------------------------------------
(* Carried.                                                                *)

LEMMA InitCarried == Init => Carried
BY DEF Init, Carried, Sent

\* A save of the description is appended, or the queue stays as it is.
LEMMA Submits ==
  ASSUME Shape, Autosave \/ Leave
  PROVE  \/ jobs' = jobs /\ text'.pending = text.pending
         \/ /\ ~text.pending /\ text.dirty /\ text'.pending
            /\ jobs' # <<>> /\ Asks(jobs', text.value)
            /\ jobs # <<>> => Head(jobs') = Head(jobs)
<1>1. CASE ~text.pending /\ text.dirty
  <2>1. /\ jobs' = Append(jobs, [field |-> "text", value |-> text.value, gone |-> FALSE])
        /\ text.value \in Values /\ Queue(jobs) /\ ~HasText(jobs)
    BY <1>1 DEF Autosave, Leave, Queued, Shape, Open
  <2>2. text'.pending
    BY <1>1 DEF Autosave, Leave, Submitted, Shape
  <2> QED BY <1>1, <2>1, <2>2, AppendText
<1>2. CASE ~(~text.pending /\ text.dirty)
  BY <1>2 DEF Autosave, Leave, Shape
<1> QED BY <1>1, <1>2

LEMMA AcceptKeepsCarried ==
  ASSUME Shape, Carried, Accept
  PROVE  Carried'
<1> DEFINE job == Head(jobs)
<1>1. Sent /\ jobs # <<>> /\ job.field \in {"title", "text"} /\ job.field \in Fields /\ ~Sent'
  BY HeadJob, Names DEF Accept, Shape, Sent
<1>2. /\ record' = [f \in Fields |-> IF record[f] # sent.before[f] THEN record[f] ELSE sent.task[f]]
      /\ accepted' = [accepted EXCEPT ![job.field] = job.value]
      /\ DOMAIN accepted = Fields
  BY Names DEF Accept, Merged, Shape
<1>3. ASSUME NEW f \in Fields PROVE record'[f] = accepted'[f]
  <2>1. CASE f = job.field
    BY <1>1, <1>2, <2>1 DEF Carried
  <2>2. CASE f # job.field
    BY <1>1, <1>2, <2>2 DEF Carried
  <2> QED BY <2>1, <2>2
<1>4. record' \in [Fields -> {record'[f] : f \in Fields}] /\ accepted' \in [Fields -> {accepted'[f] : f \in Fields}]
  BY <1>2
<1>5. record' = accepted'
  BY <1>3, <1>4
<1> QED BY <1>1, <1>5 DEF Carried

LEMMA NextCarried ==
  ASSUME Shape, Carried, [Next]_vars
  PROVE  Carried'
<1>1. CASE UNCHANGED <<jobs, sent, record, accepted>>
  BY <1>1 DEF Carried, Sent
<1>2. ASSUME NEW v \in Values, TypeTitle(v) \/ EscapeTitle \/ TypeText(v) PROVE Carried'
  BY <1>1, <1>2 DEF TypeTitle, EscapeTitle, TypeText
<1>3. CASE BlurTitle
  BY <1>3, BlurKeepsShape DEF BlurTitle, Carried, Sent
<1>4. CASE Autosave \/ Leave
  <2>1. UNCHANGED <<record, sent, accepted>>
    BY <1>4 DEF Autosave, Leave
  <2>2. Sent => Head(jobs') = Head(jobs)
    BY <1>4, Submits DEF Shape
  <2> QED BY <2>1, <2>2 DEF Carried, Sent
<1>5. CASE Close \/ Refuse \/ NotFound
  BY <1>5 DEF Close, Refuse, NotFound, Carried, Sent
<1>6. CASE Dispatch
  <2>1. CASE Head(jobs).gone
    BY <1>6, <2>1 DEF Dispatch, Carried, Sent
  <2>2. CASE ~Head(jobs).gone
    <3>1. /\ jobs' = jobs /\ record' = record /\ accepted' = accepted
          /\ sent' = [at |-> "sent", task |-> Draft(Head(jobs)), before |-> record]
          /\ Head(jobs).field \in Fields /\ record \in Task
      BY <1>6, <2>2, HeadJob, Names DEF Dispatch, Shape
    <3>2. \A f \in Fields : Draft(Head(jobs))[f] = IF f = Head(jobs).field THEN Head(jobs).value ELSE record[f]
      BY <3>1, Names DEF Draft
    <3> QED BY <3>1, <3>2 DEF Carried
  <2> QED BY <2>1, <2>2
<1>7. CASE Execute
  <2>1. /\ Sent /\ sent'.task = sent.task /\ sent'.before = sent.before
        /\ jobs' = jobs /\ record' = record /\ accepted' = accepted
    BY <1>7 DEF Execute, Shape, Request
  <2> QED BY <2>1 DEF Carried
<1>8. ASSUME NEW f \in Own, NEW v \in Values, Add(f, v) \/ ExecuteAdd(f) \/ AcceptFields(f) PROVE Carried'
  <2>1. UNCHANGED <<jobs, sent>>
    BY <1>8 DEF Add, ExecuteAdd, AcceptFields
  <2>2. record' = accepted'
    BY <1>8 DEF Add, ExecuteAdd, AcceptFields, Publish, Carried
  <2>3. f \in Fields /\ f # "title" /\ f # "text"
    BY Names
  <2>4. \A g \in {"title", "text"} : record'[g] = record[g]
    BY <1>8, <2>3, Names DEF Add, ExecuteAdd, AcceptFields, Publish, Shape
  <2> QED BY <2>1, <2>2, <2>4 DEF Carried, Sent
<1>9. CASE Accept
  BY <1>9, AcceptKeepsCarried
<1> QED
  BY <1>1, <1>2, <1>3, <1>4, <1>5, <1>6, <1>7, <1>8, <1>9, TaskRecordAssumption
     DEF Next, Progress, vars

-----------------------------------------------------------------------------
(* Asked.                                                                  *)

LEMMA InitAsked == Init => Asked
<1> SUFFICES ASSUME Init PROVE Asked
  OBVIOUS
<1>1. text.known = Initial /\ text.value = Initial /\ accepted["text"] = Initial
  BY Names DEF Init
<1>2. leave.at = "here"
  BY DEF Init
<1> QED BY <1>1, <1>2 DEF Asked

\* What the description's editor makes of a record with the accepted text.
LEMMA InputsAsked ==
  ASSUME Shape, Asked, Open, NEW task, task.text = accepted["text"]
  PROVE  LET t == TextInputs(text, task) IN
         /\ t.known = accepted["text"]
         /\ ~t.dirty => t.value = t.known
         /\ t.pending = text.pending /\ t.dirty = text.dirty
         /\ text.pending => t = text
BY DEF TextInputs, Shape, Asked

LEMMA EditsKeepAsked ==
  ASSUME Shape, Asked, NEW v \in Values, TypeTitle(v) \/ EscapeTitle \/ TypeText(v) \/ BlurTitle
  PROVE  Asked'
<1>1. Open /\ accepted' = accepted
  BY ActCounts DEF TypeTitle, EscapeTitle, TypeText, BlurTitle, Shape
<1>2. CASE TypeTitle(v) \/ EscapeTitle \/ BlurTitle
  <2>1. text' = text /\ leave' = leave
    BY <1>2 DEF TypeTitle, EscapeTitle, BlurTitle
  <2>2. \A w : Asks(jobs, w) => Asks(jobs', w)
    BY <1>2, BlurKeepsShape DEF TypeTitle, EscapeTitle
  <2> QED BY <1>1, <2>1, <2>2 DEF Asked, Open
<1>3. CASE TypeText(v)
  <2>1. /\ text'.known = text.known /\ text'.pending = text.pending
        /\ text'.value = v /\ text'.dirty = (v # text.known)
        /\ leave'.at = leave.at /\ leave'.typed
    BY <1>3 DEF TypeText, Shape
  <2> QED BY <1>1, <2>1 DEF Asked, Open
<1> QED BY <1>2, <1>3

LEMMA AutosaveKeepsAsked ==
  ASSUME Shape, Asked, Autosave
  PROVE  Asked'
<1>1. UNCHANGED <<leave, accepted, sent>> /\ Open
  BY DEF Autosave
<1>2. text'.known = text.known /\ text'.value = text.value /\ text'.dirty = text.dirty
  BY DEF Autosave, Submitted, Shape
<1>3. CASE jobs' = jobs /\ text'.pending = text.pending
  BY <1>1, <1>2, <1>3 DEF Asked, Open, Sent
<1>4. CASE ~text.pending /\ text.dirty
  BY <1>1, <1>2, <1>4 DEF Asked, Open, Sent
<1> QED BY <1>3, <1>4, Submits

LEMMA LeaveKeepsAsked ==
  ASSUME Shape, Asked, Leave
  PROVE  Asked'
<1>1. /\ leave' = [at |-> IF text.pending \/ text.dirty THEN "flushing" ELSE "flushed",
                   on |-> WaitsOn, asked |-> text.value, typed |-> FALSE, lost |-> FALSE]
      /\ accepted' = accepted /\ Open
  BY DEF Leave, Open
<1>2. text'.known = text.known /\ text'.value = text.value /\ text'.dirty = text.dirty
  BY DEF Leave, Submitted, Shape
<1>3. CASE jobs' = jobs /\ text'.pending = text.pending
  <2>1. ~text.pending /\ text.dirty => text'.pending
    BY DEF Leave, Submitted, Shape
  <2>2. text.pending => leave'.on = "pending"
    BY <1>1 DEF WaitsOn
  <2>3. text.pending \/ ~text.dirty
    BY <1>3, <2>1
  <2> QED BY <1>1, <1>2, <1>3, <2>2, <2>3 DEF Asked, Open
<1>4. CASE /\ ~text.pending /\ text.dirty /\ text'.pending /\ Asks(jobs', text.value)
  BY <1>1, <1>2, <1>4 DEF Asked, Open
<1> QED BY <1>3, <1>4, Submits

\* Who submitted the save goes on, whoever else waited for it only if the text
\* is the accepted one.
LEMMA EndsKeepAsked ==
  ASSUME Shape, Open, ~Sent', jobs # <<>>, Head(jobs).field = "text", NEW view, NEW lost \in BOOLEAN,
         SaveEnds(view, lost),
         view.known = accepted'["text"], ~view.dirty => view.value = view.known, ~view.pending,
         view.value = text.value, view \in [value : Values, known : Values, dirty : BOOLEAN,
           pending : BOOLEAN, timer : BOOLEAN, again : BOOLEAN, failed : BOOLEAN],
         leave.at = "flushing" /\ ~leave.typed => view.value = leave.asked,
         leave.at = "flushing" /\ ~leave.typed /\ leave.on = "own" => lost \/ ~view.dirty,
         leave.at # "flushed" \/ leave.typed \/ leave.lost
  PROVE  Asked'
<1>1. leave.at # "gone" /\ Queue(jobs)
  BY DEF Open, Shape
<1>2. /\ leave'.typed = leave.typed /\ leave'.asked = leave.asked
      /\ IF leave.at = "flushing" /\ (leave.on = "own" \/ ~view.dirty)
         THEN leave'.at = "flushed" /\ leave'.lost = (lost /\ leave.on = "own")
         ELSE leave'.at = leave.at /\ leave'.lost = leave.lost
  BY DEF SaveEnds, Shape
<1>3. CASE Resubmits(view)
  <2>1. /\ text' \in { [Submitted(view) EXCEPT !.again = a] : a \in BOOLEAN }
        /\ jobs' = Append(Tail(jobs), [field |-> "text", value |-> view.value, gone |-> FALSE])
    BY <1>3 DEF SaveEnds
  <2>2. /\ text'.known = view.known /\ text'.value = view.value /\ text'.dirty = view.dirty
        /\ text'.pending /\ view.dirty
    BY <1>3, <2>1 DEF Submitted, Resubmits
  <2>3. Asks(jobs', view.value)
    BY <1>1, <2>1, TailJobs, AppendText
  <2> QED BY <1>1, <1>2, <2>2, <2>3 DEF Asked, Open
<1>4. CASE ~Resubmits(view)
  <2>1. text' = view
    BY <1>4 DEF SaveEnds
  <2>2. leave.at = "flushing" => leave.on = "own" \/ ~view.dirty
    BY <1>4 DEF Resubmits, Shape
  <2> QED BY <1>1, <1>2, <2>1, <2>2 DEF Asked, Open
<1> QED BY <1>3, <1>4

LEMMA AcceptKeepsAsked ==
  ASSUME Shape, Carried, Asked, Accept
  PROVE  Asked'
<1> DEFINE job == Head(jobs)
           saved == TextSaved(text, job.value)
<1>1. /\ Open /\ jobs # <<>> /\ Queue(jobs) /\ ~Sent'
      /\ job.field \in {"title", "text"}
      /\ \A w : Asks(jobs, w) => Asks(Tail(jobs), w)
      /\ accepted' = [accepted EXCEPT ![job.field] = job.value]
      /\ DOMAIN accepted = Fields /\ "text" \in Fields
  BY HeadJob, TailJobs, Names DEF Accept, Asked, Shape, Sent, Open
<1>2. CASE job.field = "title"
  <2>1. jobs' = Tail(jobs) /\ leave' = leave /\ text' = TextInputs(text, Merged) /\ record' = Merged
    BY <1>2 DEF Accept
  <2>2. accepted'["text"] = accepted["text"]
    BY <1>1, <1>2
  <2>3. Merged.text = accepted["text"]
    BY <2>1, <2>2, AcceptKeepsCarried DEF Carried
  <2> HIDE DEF job
  <2> QED BY <1>1, <2>1, <2>2, <2>3, InputsAsked DEF Asked, Open
<1>3. CASE job.field = "text"
  <2>1. accepted'["text"] = job.value
    BY <1>1, <1>3
  <2>2. /\ saved.known = job.value /\ ~saved.pending /\ saved.value = text.value
        /\ saved.dirty = (text.value # job.value)
    BY DEF TextSaved, Shape
  <2>3. text.pending
    BY <1>1, <1>3, HeadJob DEF Shape
  <2>4. leave.at = "flushing" /\ ~leave.typed /\ leave.on = "own" => ~saved.dirty /\ job.value = leave.asked
    BY <1>1, <1>3, <2>2, HeadJob DEF Asked
  <2> HIDE DEF job
  <2>5. SaveEnds(saved, FALSE)
    BY <1>3 DEF Accept, job
  <2>6. saved \in [value : Values, known : Values, dirty : BOOLEAN, pending : BOOLEAN,
                   timer : BOOLEAN, again : BOOLEAN, failed : BOOLEAN]
    BY <1>1, HeadJob DEF TextSaved, Shape, job
  <2>7. leave.at = "flushing" /\ ~leave.typed => saved.value = leave.asked
    BY <2>2 DEF Asked
  <2>8. leave.at # "flushed" \/ leave.typed \/ leave.lost
    BY <2>3 DEF Asked
  <2>9. /\ saved.known = accepted'["text"] /\ (~saved.dirty => saved.value = saved.known)
        /\ Head(jobs).field = "text"
    BY <1>3, <2>1, <2>2 DEF job
  <2> HIDE DEF saved
  <2> QED BY <1>1, <2>2, <2>4, <2>5, <2>6, <2>7, <2>8, <2>9, EndsKeepAsked
<1> QED BY <1>1, <1>2, <1>3

LEMMA RefuseKeepsAsked ==
  ASSUME Shape, Asked, Refuse
  PROVE  Asked'
<1>1. /\ Open /\ jobs # <<>> /\ Queue(jobs) /\ jobs' = Tail(jobs) /\ accepted' = accepted
      /\ Head(jobs).field \in {"title", "text"} /\ ~Sent'
  BY HeadJob DEF Refuse, Asked, Shape, Sent, Open
<1>2. \A w : Asks(jobs, w) => Asks(jobs', w)
  BY <1>1, TailJobs
<1>3. CASE Head(jobs).field = "title"
  <2>1. text' = text /\ leave' = leave
    BY <1>3 DEF Refuse, TitleRefused
  <2> QED BY <1>1, <1>2, <2>1 DEF Asked, Open
<1>4. CASE Head(jobs).field = "text"
  <2>1. text' = [text EXCEPT !.pending = FALSE, !.dirty = TRUE, !.again = FALSE, !.failed = TRUE]
        /\ leave' = [leave EXCEPT !.at = IF @ = "flushing" THEN "here" ELSE @]
    BY <1>4 DEF Refuse, TextRefused
  <2>2. /\ text'.known = text.known /\ text'.dirty
        /\ leave'.at = IF leave.at = "flushing" THEN "here" ELSE leave.at
        /\ leave'.typed = leave.typed /\ leave'.lost = leave.lost
    BY <2>1 DEF Shape
  <2>3. text.pending
    BY <1>1, <1>4, HeadJob DEF Shape
  <2> QED BY <1>1, <2>2, <2>3 DEF Asked, Open
<1> QED BY <1>1, <1>3, <1>4

LEMMA NotFoundKeepsAsked ==
  ASSUME Shape, Asked, NotFound
  PROVE  Asked'
<1> DEFINE view == [text EXCEPT !.pending = FALSE, !.again = FALSE, !.failed = TRUE]
<1>0. SaveEnds(view, TRUE)
  BY DEF NotFound
<1>1. /\ Open /\ ~Sent' /\ accepted' = accepted
      /\ Head(jobs).field = "text" /\ jobs # <<>> /\ Queue(jobs)
  BY DEF NotFound, Asked, Shape, Sent, Open
<1>2. /\ view.known = text.known /\ view.value = text.value /\ view.dirty = text.dirty
      /\ ~view.pending
      /\ view \in [value : Values, known : Values, dirty : BOOLEAN, pending : BOOLEAN,
                   timer : BOOLEAN, again : BOOLEAN, failed : BOOLEAN]
  BY DEF Shape
<1>3. text.pending
  BY <1>1, HeadJob DEF Shape
<1>4. view.known = accepted'["text"] /\ (~view.dirty => view.value = view.known)
  BY <1>1, <1>2 DEF Asked
<1>5. leave.at = "flushing" /\ ~leave.typed => view.value = leave.asked
  BY <1>2 DEF Asked
<1>6. leave.at \notin {"flushed", "gone"} \/ leave.typed \/ leave.lost
  BY <1>1, <1>3 DEF Asked, Open
<1> HIDE DEF view
<1> QED BY <1>0, <1>1, <1>2, <1>4, <1>5, <1>6, EndsKeepAsked

LEMMA OwnFieldsKeepAsked ==
  ASSUME Shape, Carried, Asked, NEW f \in Own, NEW v \in Values,
         Add(f, v) \/ ExecuteAdd(f) \/ AcceptFields(f)
  PROVE  Asked'
<1>1. UNCHANGED <<jobs, sent, leave>>
  BY DEF Add, ExecuteAdd, AcceptFields
<1>2. CASE UNCHANGED <<text, accepted>>
  BY <1>1, <1>2 DEF Asked, Open, Sent
<1>3. CASE AcceptFields(f) /\ Open
  <2>1. /\ text' = TextInputs(text, [record EXCEPT ![f] = adding[f].value])
        /\ accepted' = [accepted EXCEPT ![f] = adding[f].value]
    BY <1>3 DEF AcceptFields, Publish
  <2>2. f # "text" /\ record \in Task /\ accepted \in Task
    BY Names DEF Shape
  <2>3. [record EXCEPT ![f] = adding[f].value].text = accepted["text"] /\ accepted'["text"] = accepted["text"]
    BY <2>1, <2>2, Names DEF Carried
  <2> DEFINE task == [record EXCEPT ![f] = adding[f].value]
  <2>4. task.text = accepted["text"] /\ text' = TextInputs(text, task)
    BY <2>1, <2>3
  <2> HIDE DEF task
  <2> QED BY <1>1, <1>3, <2>3, <2>4, InputsAsked DEF Asked, Open, Sent
<1> QED BY <1>2, <1>3 DEF Add, ExecuteAdd, AcceptFields

LEMMA NextAsked ==
  ASSUME Shape, Carried, Asked, [Next]_vars
  PROVE  Asked'
<1>1. CASE UNCHANGED vars
  BY <1>1 DEF Asked, vars, Open, Sent
<1>2. ASSUME NEW v \in Values, TypeTitle(v) \/ EscapeTitle \/ TypeText(v) PROVE Asked'
  BY <1>2, EditsKeepAsked
<1>3. CASE BlurTitle
  BY <1>3, EditsKeepAsked, TaskRecordAssumption
<1>4. CASE Close
  <2>1. /\ leave'.at = "gone" /\ leave'.typed = leave.typed /\ leave'.asked = leave.asked
        /\ leave'.lost = leave.lost
        /\ leave.at = "flushed" /\ accepted' = accepted /\ ~Sent'
    BY <1>4 DEF Close, Shape, Sent
  <2> QED BY <2>1 DEF Asked, Open
<1>5. CASE Dispatch
  <2>1. UNCHANGED <<text, leave, accepted>> /\ Open /\ jobs # <<>>
    BY <1>5 DEF Dispatch
  <2>2. \A w : Asks(jobs, w) => Asks(jobs', w)
    BY <1>5, <2>1, TailJobs DEF Dispatch, Shape
  <2> QED BY <2>1, <2>2 DEF Asked, Open
<1>6. CASE Execute
  BY <1>6 DEF Execute, Asked, Open, Sent
<1>7. ASSUME NEW f \in Own, NEW v \in Values, Add(f, v) \/ ExecuteAdd(f) \/ AcceptFields(f) PROVE Asked'
  BY <1>7, OwnFieldsKeepAsked
<1> QED
  BY <1>1, <1>2, <1>3, <1>4, <1>5, <1>6, <1>7, AutosaveKeepsAsked, LeaveKeepsAsked,
     AcceptKeepsAsked, RefuseKeepsAsked, NotFoundKeepsAsked, TaskRecordAssumption
     DEF Next, Progress

-----------------------------------------------------------------------------
(* The theorems.                                                           *)

Inv == Shape /\ Carried /\ Asked

THEOREM Invariance == Spec => []Inv
<1>1. Init => Inv
  BY InitShape, InitCarried, InitAsked DEF Inv
<1>2. Inv /\ [Next]_vars => Inv'
  <2> SUFFICES ASSUME Inv, [Next]_vars PROVE Inv'
    OBVIOUS
  <2>1. ~Open => ~Sent
    BY DEF Inv, Asked, Open
  <2> QED BY <2>1, NextShape, NextCarried, NextAsked DEF Inv
<1> QED BY <1>1, <1>2, PTL DEF Spec

\* Types; the description has one save in the queue while it is pending
\* (TaskDescriptionView.flush) and none otherwise.
THEOREM TypeCorrect == Spec => []TypeOK
<1>1. Inv => TypeOK
  <2> SUFFICES ASSUME Inv PROVE TypeOK
    OBVIOUS
  <2>1. Sent => sent.at \in {"sent", "done"} /\ {sent.task, sent.before} \subseteq Task /\ jobs # <<>>
    BY Names DEF Inv, Shape
  <2> QED BY <2>1 DEF Inv, Shape, Queue, HasText, TypeOK
<1> QED BY <1>1, Invariance, PTL

\* The record is what was accepted last, field by field
\* (TaskRecordSession.save and acceptFields).
THEOREM RecordStaysAccepted == Spec => []RecordIsAccepted
<1>1. Inv => RecordIsAccepted
  BY DEF Inv, Carried, RecordIsAccepted
<1> QED BY <1>1, Invariance, PTL

\* A task is only left when its description, as it was when the user asked
\* to leave, has been accepted by the server (flushForNavigation), or when the
\* server has answered that there is no such task.
THEOREM LeavingWaits == Spec => []FlushedBeforeGone
<1>1. Inv => FlushedBeforeGone
  BY DEF Inv, Asked, FlushedBeforeGone
<1> QED BY <1>1, Invariance, PTL

\* A request carries the accepted values of the fields that are not its own.
LEMMA RequestCarriesAccepted ==
  ASSUME Inv, Sent, NEW f \in {"title", "text"}, Head(jobs).field # f
  PROVE  Written(sent.task)[f] = accepted[f]
BY Names DEF Inv, Carried, Written

\* Saving one field does not undo another that was saved before, although
\* the whole task is sent (TaskRecordSession.save).
THEOREM SavesLeaveTheRest == Spec => SavesKeepTheRest
<1>1. Inv /\ [Next]_vars =>
        [\A f \in {"title", "text"} :
           stored'[f] = stored[f] \/ Head(jobs).field = f \/ stored[f] # accepted[f]]_vars
  <2> SUFFICES ASSUME Inv, [Next]_vars, NEW f \in {"title", "text"}
               PROVE  stored'[f] = stored[f] \/ Head(jobs).field = f \/ stored[f] # accepted[f]
    OBVIOUS
  <2>1. CASE UNCHANGED stored
    BY <2>1
  <2>2. ASSUME Sent, stored' = Written(sent.task)
        PROVE  stored'[f] = stored[f] \/ Head(jobs).field = f \/ stored[f] # accepted[f]
    BY <2>2, RequestCarriesAccepted
  <2>3. CASE BlurTitle \/ Close \/ Execute
    BY <2>1, <2>2, <2>3 DEF BlurTitle, Close, Execute
  <2>4. ASSUME NEW g \in Own, ExecuteAdd(g)
        PROVE  stored'[f] = stored[f]
    BY <2>4, Names DEF ExecuteAdd, Inv, Shape
  <2> QED
    BY <2>1, <2>3, <2>4
       DEF Next, Progress, vars, TypeTitle, TypeText, EscapeTitle, Autosave, Leave, Dispatch, Accept,
           Refuse, NotFound, Add, AcceptFields
<1> QED BY <1>1, Invariance, PTL DEF Spec, SavesKeepTheRest

\* Only the user changes a draft of the title (TaskHeadingView.updateInputs).
THEOREM DraftsStayTyped == Spec => DraftsStay
<1>1. ASSUME Inv, [Next]_vars, title.dirty, title'.shown # title.shown
      PROVE  acts' # acts
  <2>1. CASE Act
    <3>1. acts \in Nat
      BY <1>1 DEF Inv, Shape
    <3> QED BY <2>1, <3>1, ActCounts
  <2>2. ASSUME NEW task PROVE HeadingInputs(title, task).shown = title.shown
    BY <1>1 DEF HeadingInputs, Inv, Shape
  <2>3. CASE Accept
    <3>1. CASE Head(jobs).field = "title"
      BY <1>1, <2>3, <3>1 DEF Accept, Inv, Shape
    <3>2. CASE Head(jobs).field # "title"
      BY <1>1, <2>2, <2>3, <3>2 DEF Accept
    <3> QED BY <3>1, <3>2
  <2>4. CASE Refuse
    BY <1>1, <2>4 DEF Refuse, TitleRefused, TextRefused, Inv, Shape
  <2>5. ASSUME NEW f \in Own, AcceptFields(f) PROVE FALSE
    BY <1>1, <2>2, <2>5 DEF AcceptFields, Publish
  <2> QED
    BY <1>1, <2>1, <2>3, <2>4, <2>5
       DEF Next, Progress, vars, TypeTitle, TypeText, EscapeTitle, BlurTitle, Autosave, Leave, Close,
           Dispatch, Execute, NotFound, Add, ExecuteAdd
<1> QED BY <1>1, Invariance, PTL DEF Spec, DraftsStay

=============================================================================
