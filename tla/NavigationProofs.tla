-------------------------- MODULE NavigationProofs --------------------------
(***************************************************************************)
(* What is proved of Navigation, for any routes, pages and defaults, and   *)
(* however users, other tabs and the network act: without a session the    *)
(* workspace does not run and is not being started, the only page that     *)
(* runs or loads is that of the route the content region belongs to, and   *)
(* users that wait for what they asked for arrive there.                   *)
(*                                                                         *)
(* The invariant has three parts.  Sound is about the workspace, its pages *)
(* and the continuations, and is kept by every operator on the way from    *)
(* one state to the next.  Secure relates them to the session: an import   *)
(* of the workspace that may still go on is one of a session that stands.  *)
(* Heading, in the second half, relates them to what was asked for: the    *)
(* address, or the one navigation that waits for a flush, is the address   *)
(* asked for last or a view it leads to.                                   *)
(***************************************************************************)
EXTENDS Navigation, TLAPS

Dispatching == [is : {"dispatch"}, at : {"module", "start", "resumed", "late"},
                route : Routes, epoch : BOOLEAN]
Showing == { t \in [is : {"show"}, at : {"module", "start", "default"}, route : Routes,
                    epoch : BOOLEAN, revision : BOOLEAN, again : BOOLEAN] :
               t.at = "default" => t.route \in DOMAIN Default }
Committing == [is : {"commit"}, at : {"flush", "flushed"}, route : Routes \cup {Login},
               navigation : BOOLEAN]
Closing == [is : {"close"}, at : {"flush", "flushed"}]

Task == Dispatching \cup Showing \cup Committing \cup Closing

Root == [up : BOOLEAN, destination : {"", "workspace", "authentication"},
         module : BOOLEAN, login : BOOLEAN]
Work == [life : Lives, route : Routes \cup {None}, key : Routes \cup {None},
         current : Pages \cup {None}, added : SUBSET Pages, reported : BOOLEAN]
App == [life : Lives, at : Routes \cup {None}]

World == [url : Routes \cup {Login}, status : {"loading", "authenticated", "anonymous"},
          online : BOOLEAN, root : Root, work : Work, apps : [Pages -> App],
          tasks : SUBSET Task, wish : Routes \cup {Login}]

\* A workspace that does not run has no content, and content that has a key
\* has no page but that of the key.
Kept(w) ==
  /\ w.life # "running" => w.route = None /\ w.key = None /\ w.current = None
  /\ w.current # None /\ w.key # None => w.current = PageOf[w.key]

Alone(w, a) ==
  \A f \in Pages :
    a[f].life # "stopped" => w.life = "running" /\ w.current = f /\ w.key = a[f].at

\* The continuations of the route shown last: there is at most one, and no
\* page was started yet while it imports the page's module.
Pending(s) == { t \in s.tasks : t \in Showing /\ t.revision }

Single(s) ==
  /\ \A t, u \in Pending(s) : t = u
  /\ \A t \in Pending(s) : t.at = "module" => s.work.current = None

Sound(s) == s \in World /\ Kept(s.work) /\ Alone(s.work, s.apps) /\ Single(s)

Permitted(s) == s.status = "authenticated" /\ s.online

\* An import of the workspace that nothing has overtaken.
Imports(s) == \E t \in s.tasks : t \in Dispatching /\ t.at = "module" /\ t.epoch

Secure(s) == s.work.life # "stopped" \/ Imports(s) => Permitted(s)

Begun(s) == ~s.root.up => s.status = "loading"

Inv == Sound(Now) /\ Secure(Now) /\ Begun(Now)

-----------------------------------------------------------------------------
(* Continuations.                                                          *)

LEMMA Kinds ==
  ASSUME NEW t \in Task
  PROVE  /\ t \in Dispatching <=> t.is = "dispatch"
         /\ t \in Showing <=> t.is = "show"
         /\ t \in Committing <=> t.is = "commit"
         /\ t \in Closing <=> t.is = "close"
  BY DEF Task, Dispatching, Showing, Committing, Closing

Counters == {"epoch", "navigation", "revision"}

\* What a counter that goes up makes of a continuation.
Counted(t, c) == IF c \in DOMAIN t THEN [t EXCEPT ![c] = FALSE] ELSE t

LEMMA CountedTask ==
  ASSUME NEW t \in Task, NEW c \in Counters
  PROVE  LET n == Counted(t, c) IN
         /\ n \in Task /\ n.is = t.is /\ n.at = t.at
         /\ t \in Dispatching => (n.epoch => t.epoch) /\ (c = "epoch" => ~n.epoch)
         /\ t \in Showing => (n.revision => t.revision) /\ (c = "revision" => ~n.revision)
         /\ t \in Showing /\ c # "revision" => n.revision = t.revision
<1>1. CASE t \in Dispatching
  <2>1. DOMAIN t = {"is", "at", "route", "epoch"}
    BY <1>1 DEF Dispatching
  <2>2. t \notin Showing
    BY <1>1, Kinds DEF Dispatching
  <2> QED BY <1>1, <2>1, <2>2 DEF Counted, Counters, Task, Dispatching
<1>2. CASE t \in Showing
  <2>1. DOMAIN t = {"is", "at", "route", "epoch", "revision", "again"}
    BY <1>2 DEF Showing
  <2>2. t \notin Dispatching
    BY <1>2, Kinds DEF Showing
  <2> QED BY <1>2, <2>1, <2>2 DEF Counted, Counters, Task, Showing
<1>3. CASE t \in Committing
  <2>1. DOMAIN t = {"is", "at", "route", "navigation"}
    BY <1>3 DEF Committing
  <2>2. t \notin Showing /\ t \notin Dispatching
    BY <1>3, Kinds DEF Committing
  <2> QED BY <1>3, <2>1, <2>2 DEF Counted, Counters, Task, Committing
<1>4. CASE t \in Closing
  <2>1. DOMAIN t = {"is", "at"}
    BY <1>4 DEF Closing
  <2>2. t \notin Showing /\ t \notin Dispatching
    BY <1>4, Kinds DEF Closing
  <2> QED BY <1>4, <2>1, <2>2 DEF Counted, Counters, Task, Closing
<1> QED BY <1>1, <1>2, <1>3, <1>4 DEF Task

-----------------------------------------------------------------------------
(* From one world to the next.                                             *)

\* n is sound, of the same session, and no import goes on that did not before.
Kin(s, n) ==
  /\ Sound(n)
  /\ n.status = s.status /\ n.online = s.online /\ n.root.up = s.root.up

Calm(s, n) == Imports(n) => Imports(s)

\* Other continuations, the rest as it was.
LEMMA OtherTasks ==
  ASSUME NEW s \in World, NEW ts \in SUBSET Task
  PROVE  LET n == [s EXCEPT !.tasks = ts] IN
         /\ n \in World /\ n.tasks = ts
         /\ n.url = s.url /\ n.status = s.status /\ n.online = s.online /\ n.root = s.root
         /\ n.work = s.work /\ n.apps = s.apps /\ n.wish = s.wish
  BY DEF World

LEMMA Counts ==
  ASSUME NEW s, Sound(s), NEW c \in Counters
  PROVE  LET n == Count(s, c) IN
         /\ Kin(s, n) /\ Calm(s, n)
         /\ n.work = s.work /\ n.apps = s.apps /\ n.root = s.root /\ n.url = s.url
         /\ c = "epoch" => ~Imports(n)
         /\ c = "revision" => Pending(n) = {}
<1> DEFINE ts == { Counted(t, c) : t \in s.tasks }
           n == Count(s, c)
<1>1. s \in World /\ s.tasks \subseteq Task
  BY DEF Sound, World
<1>2. ts \in SUBSET Task
  BY <1>1, CountedTask
<1>3. n = [s EXCEPT !.tasks = ts]
  BY DEF Count, Counted
<1>4. /\ n \in World /\ n.tasks = ts
      /\ n.url = s.url /\ n.status = s.status /\ n.online = s.online /\ n.root = s.root
      /\ n.work = s.work /\ n.apps = s.apps
  BY <1>1, <1>2, <1>3, OtherTasks
<1> HIDE DEF n
<1>5. ASSUME NEW u \in Pending(n)
      PROVE  c # "revision" /\ \E t \in Pending(s) : u = Counted(t, c)
  <2>1. PICK t \in s.tasks : u = Counted(t, c)
    BY <1>4, <1>5 DEF Pending
  <2>2. t \in Task /\ u \in Task /\ t.is = u.is
    BY <1>1, <2>1, CountedTask
  <2>3. t \in Showing
    BY <1>5, <2>2, Kinds DEF Pending
  <2> QED BY <1>5, <2>1, <2>2, <2>3, CountedTask DEF Pending
<1>6. Single(n)
  <2>1. \A t, u \in Pending(n) : t = u
    BY <1>5 DEF Sound, Single
  <2>2. ASSUME NEW u \in Pending(n), u.at = "module" PROVE n.work.current = None
    <3>1. PICK t \in Pending(s) : u = Counted(t, c)
      BY <1>5
    <3>2. t \in Task /\ t.at = u.at
      BY <1>1, <3>1, CountedTask DEF Pending
    <3> QED BY <1>4, <2>2, <3>1, <3>2 DEF Sound, Single
  <2> QED BY <2>1, <2>2 DEF Single
<1>7. ASSUME NEW u \in n.tasks, u \in Dispatching, u.at = "module", u.epoch
      PROVE  c # "epoch" /\ Imports(s)
  <2>1. PICK t \in s.tasks : u = Counted(t, c)
    BY <1>4
  <2>2. t \in Task /\ u \in Task /\ t.is = u.is /\ t.at = u.at
    BY <1>1, <2>1, CountedTask
  <2>3. t \in Dispatching
    BY <1>7, <2>2, Kinds
  <2> QED BY <1>7, <2>1, <2>2, <2>3, CountedTask DEF Imports
<1>8. Kin(s, n)
  BY <1>4, <1>6 DEF Kin, Sound
<1> QED BY <1>4, <1>5, <1>7, <1>8 DEF Calm, Imports, n

LEMMA FewerTasks ==
  ASSUME NEW s, Sound(s), NEW ts \in SUBSET s.tasks
  PROVE  LET n == [s EXCEPT !.tasks = ts] IN
         /\ Kin(s, n) /\ Calm(s, n) /\ n.tasks = ts
         /\ n.work = s.work /\ n.apps = s.apps /\ n.root = s.root
<1> DEFINE n == [s EXCEPT !.tasks = ts]
<1>1. s \in World /\ ts \in SUBSET Task
  BY DEF Sound, World
<1>2. /\ n \in World /\ n.tasks = ts
      /\ n.status = s.status /\ n.online = s.online /\ n.root = s.root
      /\ n.work = s.work /\ n.apps = s.apps
  BY <1>1, OtherTasks
<1> HIDE DEF n
<1>3. Pending(n) \subseteq Pending(s)
  BY <1>2 DEF Pending
<1>4. Kin(s, n)
  BY <1>2, <1>3 DEF Kin, Sound, Single
<1> QED BY <1>2, <1>4 DEF Calm, Imports, n

LEMMA Waits ==
  ASSUME NEW s, Sound(s), NEW t \in Task,
         t \in Showing /\ t.revision =>
           Pending(s) = {} /\ (t.at = "module" => s.work.current = None)
  PROVE  LET n == Waiting(s, t) IN
         /\ Kin(s, n) /\ n.tasks = s.tasks \cup {t}
         /\ n.work = s.work /\ n.apps = s.apps /\ n.root = s.root
         /\ t.is # "dispatch" => Calm(s, n)
<1> DEFINE n == Waiting(s, t)
           ts == s.tasks \cup {t}
<1>1. s \in World /\ ts \in SUBSET Task /\ n = [s EXCEPT !.tasks = ts]
  BY DEF Sound, World, Waiting
<1>2. /\ n \in World /\ n.tasks = ts
      /\ n.status = s.status /\ n.online = s.online /\ n.root = s.root
      /\ n.work = s.work /\ n.apps = s.apps
  BY <1>1, OtherTasks
<1> HIDE DEF n
<1>3. Single(n)
  BY <1>2 DEF Pending, Sound, Single
<1>4. Kin(s, n)
  BY <1>2, <1>3 DEF Kin, Sound
<1>5. t.is # "dispatch" => Calm(s, n)
  BY <1>2, Kinds DEF Calm, Imports
<1> QED BY <1>2, <1>4, <1>5 DEF n

-----------------------------------------------------------------------------
(* Stopping.                                                               *)

LEMMA StopsPages ==
  ASSUME NEW s, Sound(s), NEW stopped \in SUBSET Pages
  PROVE  LET n == StopPages(s, stopped) IN
         /\ Kin(s, n) /\ Calm(s, n)
         /\ n.work = s.work /\ n.root = s.root
         /\ \A f \in Pages : n.apps[f] = IF f \in stopped THEN Stopped ELSE s.apps[f]
         /\ Pending(n) \subseteq Pending(s)
<1> DEFINE waits(t) == t.is = "show" /\ t.at = "start" /\ PageOf[t.route] \in stopped
           ends(t) == t.at = "flush" /\ \E f \in stopped \cap Editing : s.apps[f].life = "running"
           kept == { t \in s.tasks : ~waits(t) }
           ts == { IF ends(t) THEN [t EXCEPT !.at = "flushed"] ELSE t : t \in kept }
           as == [f \in Pages |-> IF f \in stopped THEN Stopped ELSE s.apps[f]]
           n == StopPages(s, stopped)
<1>1. s \in World /\ s.tasks \subseteq Task
  BY DEF Sound, World
<1>2. \A t \in s.tasks : ends(t) => /\ [t EXCEPT !.at = "flushed"] \in Committing \cup Closing
                                   /\ t \in Committing \cup Closing
  BY <1>1 DEF Task, Dispatching, Showing, Committing, Closing
<1>3. ts \in SUBSET Task
  BY <1>1, <1>2 DEF Task
<1>4. as \in [Pages -> App]
  BY <1>1, NavigationAssumption DEF World, App, Stopped, Lives
<1>5. n = [s EXCEPT !.apps = as, !.tasks = ts]
  BY DEF StopPages
<1>6. /\ n \in World /\ n.tasks = ts /\ n.apps = as
      /\ n.status = s.status /\ n.online = s.online /\ n.root = s.root /\ n.work = s.work
  BY <1>1, <1>3, <1>4, <1>5 DEF World
<1> HIDE DEF n
<1>7. \A u \in n.tasks : u \in Dispatching \cup Showing => u \in s.tasks
  BY <1>1, <1>2, <1>6, Kinds DEF Task, Committing, Closing
<1>8. Pending(n) \subseteq Pending(s) /\ Calm(s, n)
  BY <1>7 DEF Pending, Calm, Imports
<1>9. Alone(n.work, n.apps)
  BY <1>6 DEF Sound, Alone, Stopped
<1>10. Kin(s, n)
  BY <1>6, <1>8, <1>9 DEF Kin, Sound, Single
<1> QED BY <1>6, <1>8, <1>10 DEF n

LEMMA StopsWork ==
  ASSUME NEW s, Sound(s)
  PROVE  LET n == StopWork(s) IN
         Kin(s, n) /\ Calm(s, n) /\ n.work.life = "stopped" /\ n.root = s.root
<1> DEFINE n == StopWork(s)
<1>1. CASE s.work.life = "running"
  <2>1. PICK p : /\ p = StopPages(s, Pages)
                 /\ Kin(s, p) /\ Calm(s, p) /\ p.work = s.work /\ p.root = s.root
                 /\ \A f \in Pages : p.apps[f] = Stopped
    BY StopsPages
  <2>2. PICK q : /\ q = Count(p, "revision")
                 /\ Kin(p, q) /\ Calm(p, q) /\ Pending(q) = {}
                 /\ q.work = p.work /\ q.apps = p.apps /\ q.root = p.root
    BY <2>1, Counts DEF Kin, Counters
  <2>3. n = [q EXCEPT !.work = Reset(q.work)]
    BY <1>1, <2>1, <2>2 DEF StopWork
  <2>4. q \in World
    BY <2>2 DEF Kin, Sound
  <2>5. /\ Reset(q.work) \in Work /\ Reset(q.work).life = "stopped"
        /\ Reset(q.work).route = None /\ Reset(q.work).key = None /\ Reset(q.work).current = None
    BY <2>4 DEF World, Work, Reset, Lives
  <2>6. /\ n \in World /\ n.work = Reset(q.work) /\ n.tasks = q.tasks /\ n.apps = q.apps
        /\ n.status = q.status /\ n.online = q.online /\ n.root = q.root
    BY <2>3, <2>4, <2>5 DEF World
  <2> HIDE DEF n
  <2>7. Pending(n) = {}
    BY <2>2, <2>6 DEF Pending
  <2>8. Alone(n.work, n.apps)
    BY <2>1, <2>2, <2>6 DEF Alone, Stopped
  <2>9. Sound(n)
    BY <2>5, <2>6, <2>7, <2>8 DEF Sound, Kept, Single
  <2> QED BY <2>1, <2>2, <2>5, <2>6, <2>9 DEF Kin, Calm, Imports, n
<1>2. CASE s.work.life # "running"
  <2> DEFINE late(t) == IF t.is = "dispatch" /\ t.at = "start" THEN [t EXCEPT !.at = "late"] ELSE t
             ts == { late(t) : t \in s.tasks }
             w == [s.work EXCEPT !.life = "stopped"]
  <2>1. s \in World /\ s.tasks \subseteq Task /\ s.work \in Work
    BY DEF Sound, World
  <2>2. \A t \in s.tasks : t.is = "dispatch" => t \in Dispatching
    BY <2>1, Kinds
  <2>3. \A t \in s.tasks : t.is = "dispatch" => [t EXCEPT !.at = "late"] \in Dispatching
    BY <2>2 DEF Dispatching
  <2>4. ts \in SUBSET Task
    BY <2>1, <2>3 DEF Task
  <2>5. n = [s EXCEPT !.work = w, !.tasks = ts]
    BY <1>2, <2>1 DEF StopWork, World
  <2>6. /\ w \in Work /\ w.life = "stopped" /\ w.route = s.work.route /\ w.key = s.work.key
        /\ w.current = s.work.current
    BY <2>1 DEF Work, Lives
  <2>7. /\ n \in World /\ n.work = w /\ n.tasks = ts /\ n.apps = s.apps
        /\ n.status = s.status /\ n.online = s.online /\ n.root = s.root
    BY <2>1, <2>4, <2>5, <2>6 DEF World
  <2> HIDE DEF n
  <2>8. \A u \in n.tasks : u \in s.tasks \/ (u \in Dispatching /\ u.at = "late")
    BY <2>2, <2>3, <2>7 DEF Dispatching
  <2>9. Pending(n) \subseteq Pending(s) /\ Calm(s, n)
    BY <2>1, <2>8 DEF Pending, Calm, Imports, Dispatching, Showing
  <2>10. Kept(n.work) /\ Alone(n.work, n.apps) /\ n.work.current = s.work.current
    BY <1>2, <2>6, <2>7 DEF Sound, Kept, Alone
  <2>11. Sound(n)
    BY <2>7, <2>9, <2>10 DEF Sound, Single
  <2> QED BY <2>6, <2>7, <2>9, <2>11 DEF Kin, n
<1> QED BY <1>1, <1>2

\* The root application changes what it shows; it stays up.
LEMMA OtherRoot ==
  ASSUME NEW s, Sound(s), NEW r \in Root, r.up = s.root.up
  PROVE  LET n == [s EXCEPT !.root = r] IN
         /\ Kin(s, n) /\ Calm(s, n)
         /\ n.work = s.work /\ n.apps = s.apps /\ n.root = r /\ n.tasks = s.tasks
<1> DEFINE n == [s EXCEPT !.root = r]
<1>1. /\ n \in World /\ n.tasks = s.tasks /\ n.work = s.work /\ n.apps = s.apps
      /\ n.status = s.status /\ n.online = s.online /\ n.root = r
  BY DEF Sound, World
<1> HIDE DEF n
<1>2. Kin(s, n)
  BY <1>1 DEF Kin, Sound, Single, Pending
<1> QED BY <1>1, <1>2 DEF Calm, Imports, n

LEMMA StopsLogin ==
  ASSUME NEW s, Sound(s)
  PROVE  LET n == StopLogin(s) IN
         /\ Kin(s, n) /\ Calm(s, n) /\ n.work = s.work
         /\ n.root = [s.root EXCEPT !.login = FALSE]
<1>1. PICK r \in Root : r = [s.root EXCEPT !.login = FALSE] /\ r.up = s.root.up
  <2> DEFINE q == [s.root EXCEPT !.login = FALSE]
  <2>1. q \in Root /\ q.up = s.root.up
    BY DEF Sound, World, Root
  <2> QED BY <2>1
<1>2. StopLogin(s) = [s EXCEPT !.root = r]
  BY <1>1 DEF Sound, World, StopLogin
<1>3. LET n == [s EXCEPT !.root = r] IN Kin(s, n) /\ Calm(s, n) /\ n.work = s.work /\ n.root = r
  BY <1>1, OtherRoot
<1> QED BY <1>1, <1>2, <1>3

LEMMA StopsDestination ==
  ASSUME NEW s, Sound(s)
  PROVE  LET n == StopDestination(s) IN
         /\ Kin(s, n) /\ Calm(s, n)
         /\ n.work.life = "stopped" \/ n.work = s.work
<1>1. Kin(s, s) /\ Calm(s, s)
  BY DEF Kin, Calm
<1> QED BY <1>1, StopsWork, StopsLogin DEF StopDestination

LEMMA Enters ==
  ASSUME NEW s, Sound(s), NEW kind \in {"workspace", "authentication"}
  PROVE  LET n == Enter(s, kind) IN
         /\ Kin(s, n) /\ Calm(s, n)
         /\ n.work.life = "stopped" \/ n.work = s.work
<1>1. CASE s.root.destination = kind
  BY <1>1 DEF Enter, Kin, Calm
<1>2. CASE s.root.destination # kind
  <2>1. PICK p : /\ p = StopDestination(s)
                 /\ Kin(s, p) /\ Calm(s, p)
                 /\ p.work.life = "stopped" \/ p.work = s.work
    BY StopsDestination
  <2>2. PICK r \in Root : r = [p.root EXCEPT !.destination = kind] /\ r.up = p.root.up
    <3> DEFINE q == [p.root EXCEPT !.destination = kind]
    <3>1. q \in Root /\ q.up = p.root.up
      BY <2>1 DEF Kin, Sound, World, Root
    <3> QED BY <3>1
  <2>3. Enter(s, kind) = [p EXCEPT !.root = r]
    BY <1>2, <2>1, <2>2 DEF Enter, Kin, Sound, World
  <2>4. LET n == [p EXCEPT !.root = r] IN Kin(p, n) /\ Calm(p, n) /\ n.work = p.work
    <3>1. Sound(p)
      BY <2>1 DEF Kin
    <3> QED BY <2>2, <3>1, OtherRoot
  <2> QED BY <2>1, <2>3, <2>4 DEF Kin, Calm
<1> QED BY <1>1, <1>2

-----------------------------------------------------------------------------
(* Showing a route.                                                        *)

Fresh(s, t) ==
  /\ t \in Showing /\ t.revision
  /\ s.work.life = "running" /\ s.work.key = t.route /\ Pending(s) = {}

\* The workspace has other values; what it shows is still the key's.
LEMMA OtherWork ==
  ASSUME NEW s, Sound(s), NEW w \in Work, Kept(w), Alone(w, s.apps),
         \A t \in Pending(s) : t.at = "module" => w.current = None
  PROVE  LET n == [s EXCEPT !.work = w] IN
         /\ Kin(s, n) /\ Calm(s, n)
         /\ n.work = w /\ n.apps = s.apps /\ n.root = s.root /\ n.tasks = s.tasks
<1> DEFINE n == [s EXCEPT !.work = w]
<1>1. /\ n \in World /\ n.tasks = s.tasks /\ n.work = w /\ n.apps = s.apps
      /\ n.status = s.status /\ n.online = s.online /\ n.root = s.root
  BY DEF Sound, World
<1> HIDE DEF n
<1>2. Pending(n) = Pending(s)
  BY <1>1 DEF Pending
<1>3. Kin(s, n)
  BY <1>1, <1>2 DEF Kin, Sound, Single
<1> QED BY <1>1, <1>3 DEF Calm, Imports, n

\* A page is started for the key.
LEMMA OtherApp ==
  ASSUME NEW s, Sound(s), NEW f \in Pages, NEW a \in App,
         a.life # "stopped" =>
           s.work.life = "running" /\ s.work.current = f /\ s.work.key = a.at
  PROVE  LET n == [s EXCEPT !.apps[f] = a] IN
         /\ Kin(s, n) /\ Calm(s, n)
         /\ n.work = s.work /\ n.root = s.root /\ n.tasks = s.tasks
<1> DEFINE n == [s EXCEPT !.apps[f] = a]
<1>1. /\ n \in World /\ n.tasks = s.tasks /\ n.work = s.work /\ n.apps = [s.apps EXCEPT ![f] = a]
      /\ n.status = s.status /\ n.online = s.online /\ n.root = s.root
  BY DEF Sound, World
<1> HIDE DEF n
<1>2. Pending(n) = Pending(s)
  BY <1>1 DEF Pending
<1>3. Alone(n.work, n.apps)
  BY <1>1 DEF Sound, Alone, World
<1>4. Kin(s, n)
  BY <1>1, <1>2, <1>3 DEF Kin, Sound, Single
<1> QED BY <1>1, <1>4 DEF Calm, Imports, n

LEMMA StartsPage ==
  ASSUME NEW s, Sound(s), NEW t \in Showing, t.at = "start", Fresh(s, t)
  PROVE  Kin(s, StartPage(s, t)) /\ Calm(s, StartPage(s, t))
<1> DEFINE f == PageOf[t.route]
           w == [s.work EXCEPT !.current = f]
<1>1. /\ s \in World /\ s.work \in Work /\ f \in Pages /\ t.route \in Routes /\ t.route # None
      /\ f # None /\ t.is = "show" /\ t \in Task
  BY NavigationAssumption DEF Sound, World, Showing, Task
<1>2. s.work.current \in {None, f}
  BY <1>1 DEF Fresh, Sound, Kept
<1>3. /\ w \in Work /\ w.life = "running" /\ w.key = t.route /\ w.current = f
  BY <1>1 DEF Work, Fresh
<1>4. Kept(w)
  BY <1>1, <1>3 DEF Kept
<1>5. Alone(w, s.apps)
  BY <1>1, <1>2, <1>3, NavigationAssumption DEF Sound, Alone, Fresh
<1> HIDE DEF w
<1>6. PICK n : /\ n = [s EXCEPT !.work = w]
               /\ Kin(s, n) /\ Calm(s, n) /\ n.work = w /\ n.apps = s.apps /\ n.tasks = s.tasks
  <2>1. \A u \in Pending(s) : u.at = "module" => w.current = None
    BY DEF Fresh
  <2>2. LET n == [s EXCEPT !.work = w] IN
        Kin(s, n) /\ Calm(s, n) /\ n.work = w /\ n.apps = s.apps /\ n.tasks = s.tasks
    BY <1>3, <1>4, <1>5, <2>1, OtherWork
  <2> QED BY <2>2
<1>7. Sound(n) /\ Pending(n) = {}
  BY <1>6 DEF Kin, Fresh, Pending
<1>8. n = [s EXCEPT !.work.current = f]
  BY <1>1, <1>6 DEF w, World
<1>9. CASE s.apps[f].life = "running"
  BY <1>6, <1>8, <1>9 DEF StartPage
<1>10. CASE s.apps[f].life = "starting"
  <2>1. StartPage(s, t) = Waiting(n, t)
    BY <1>8, <1>10 DEF StartPage
  <2>2. Kin(n, Waiting(n, t)) /\ Calm(n, Waiting(n, t))
    BY <1>1, <1>7, Waits
  <2> QED BY <1>6, <2>1, <2>2 DEF Kin, Calm
<1>11. CASE s.apps[f].life = "stopped"
  <2>1. PICK a \in App : a = [life |-> "starting", at |-> t.route]
    BY <1>1 DEF App, Lives
  <2>2. PICK m : /\ m = [n EXCEPT !.apps[f] = a]
                 /\ Kin(n, m) /\ Calm(n, m) /\ m.work = n.work /\ m.tasks = n.tasks
    <3>1. a.life # "stopped" =>
            n.work.life = "running" /\ n.work.current = f /\ n.work.key = a.at
      BY <1>3, <1>6, <2>1
    <3>2. LET m == [n EXCEPT !.apps[f] = a] IN
          Kin(n, m) /\ Calm(n, m) /\ m.work = n.work /\ m.tasks = n.tasks
      BY <1>1, <1>7, <3>1, OtherApp
    <3> QED BY <3>2
  <2>3. Sound(m) /\ Pending(m) = {}
    BY <1>7, <2>2 DEF Kin, Pending
  <2>4. StartPage(s, t) = Waiting(m, t)
    BY <1>8, <1>11, <2>1, <2>2 DEF StartPage
  <2>5. Kin(m, Waiting(m, t)) /\ Calm(m, Waiting(m, t))
    BY <1>1, <2>3, Waits
  <2> QED BY <1>6, <2>2, <2>4, <2>5 DEF Kin, Calm
<1> QED BY <1>1, <1>9, <1>10, <1>11 DEF World, App, Lives

LEMMA OpensPage ==
  ASSUME NEW s, Sound(s), s.work.life = "running", Pending(s) = {},
         NEW t \in Showing, t.at = "start", t.revision
  PROVE  Kin(s, OpenPage(s, t)) /\ Calm(s, OpenPage(s, t))
<1>1. PICK p : /\ p = IF s.work.current = None THEN s ELSE StopPages(s, {s.work.current})
               /\ Kin(s, p) /\ Calm(s, p) /\ p.work = s.work /\ Pending(p) = {}
               /\ \A f \in Pages : p.apps[f].life = "stopped"
  <2>1. CASE s.work.current = None
    <3>1. \A f \in Pages : s.apps[f].life = "stopped"
      BY <2>1, NavigationAssumption DEF Sound, Alone
    <3> QED BY <2>1, <3>1 DEF Kin, Calm
  <2>2. CASE s.work.current # None
    <3>1. {s.work.current} \in SUBSET Pages
      BY <2>2 DEF Sound, World, Work
    <3>2. LET n == StopPages(s, {s.work.current}) IN
          /\ Kin(s, n) /\ Calm(s, n) /\ n.work = s.work /\ Pending(n) = {}
          /\ \A f \in Pages : n.apps[f] = IF f \in {s.work.current} THEN Stopped ELSE s.apps[f]
      BY <3>1, StopsPages
    <3>3. \A f \in Pages : f # s.work.current => s.apps[f].life = "stopped"
      BY DEF Sound, Alone
    <3>4. PICK n : n = StopPages(s, {s.work.current})
      OBVIOUS
    <3>5. \A f \in Pages : n.apps[f].life = "stopped"
      BY <3>2, <3>3, <3>4 DEF Stopped
    <3> QED BY <2>2, <3>2, <3>4, <3>5
  <2> QED BY <2>1, <2>2
<1>2. p \in World /\ p.work \in Work /\ Sound(p) /\ t.route \in Routes /\ t \in Task /\ t.is = "show"
  BY <1>1 DEF Kin, Sound, World, Showing, Task
<1>3. PICK w \in Work : /\ w = [p.work EXCEPT !.current = None, !.key = t.route, !.reported = FALSE]
                        /\ w.current = None /\ w.key = t.route /\ w.life = "running"
  <2> DEFINE q == [p.work EXCEPT !.current = None, !.key = t.route, !.reported = FALSE]
  <2>1. q \in Work /\ q.current = None /\ q.key = t.route /\ q.life = "running"
    BY <1>1, <1>2 DEF Work
  <2> QED BY <2>1
<1>4. Kept(w) /\ Alone(w, p.apps)
  BY <1>1, <1>3 DEF Kept, Alone
<1>5. PICK n : /\ n = [p EXCEPT !.work = w]
               /\ Kin(p, n) /\ Calm(p, n) /\ n.work = w /\ n.tasks = p.tasks
  <2>1. LET n == [p EXCEPT !.work = w] IN
        Kin(p, n) /\ Calm(p, n) /\ n.work = w /\ n.tasks = p.tasks
    <3>1. \A u \in Pending(p) : u.at = "module" => w.current = None
      BY <1>1
    <3>2. Sound(p)
      BY <1>2
    <3> QED BY <1>4, <3>1, <3>2, OtherWork
  <2> QED BY <2>1
<1>6. Sound(n) /\ Fresh(n, t) /\ Pending(n) = {}
  BY <1>1, <1>3, <1>5 DEF Kin, Fresh, Pending
<1>7. n = [p EXCEPT !.work.current = None, !.work.key = t.route, !.work.reported = FALSE]
  BY <1>2, <1>3, <1>5 DEF World, Work
<1>8. CASE PageOf[t.route] \in s.work.added
  <2>1. OpenPage(s, t) = StartPage(n, t)
    BY <1>1, <1>7, <1>8 DEF OpenPage
  <2>2. Kin(n, StartPage(n, t)) /\ Calm(n, StartPage(n, t))
    BY <1>6, StartsPage
  <2> QED BY <1>1, <1>5, <2>1, <2>2 DEF Kin, Calm
<1>9. CASE PageOf[t.route] \notin s.work.added
  <2>1. PICK u \in Showing : u = [t EXCEPT !.at = "module"] /\ u.at = "module" /\ u.is = "show"
    <3> DEFINE q == [t EXCEPT !.at = "module"]
    <3>1. q \in Showing /\ q.at = "module" /\ q.is = "show"
      BY DEF Showing
    <3> QED BY <3>1
  <2>2. OpenPage(s, t) = Waiting(n, u)
    BY <1>1, <1>7, <1>9, <2>1 DEF OpenPage
  <2>3. u \in Task /\ n.work.current = None
    BY <1>3, <1>5 DEF Task
  <2>4. Kin(n, Waiting(n, u)) /\ Calm(n, Waiting(n, u))
    BY <1>6, <2>1, <2>3, Waits
  <2> QED BY <1>1, <1>5, <2>2, <2>4 DEF Kin, Calm
<1> QED BY <1>8, <1>9

LEMMA ShowsRoute ==
  ASSUME NEW s, Sound(s), s.work.life = "running", NEW route \in Routes
  PROVE  Kin(s, ShowRoute(s, route)) /\ Calm(s, ShowRoute(s, route))
<1> DEFINE t == [is |-> "show", at |-> "start", route |-> route, epoch |-> TRUE,
                 revision |-> TRUE, again |-> FALSE]
<1>1. PICK p : /\ p = Count(s, "revision")
               /\ Kin(s, p) /\ Calm(s, p) /\ Pending(p) = {} /\ p.work = s.work /\ p.apps = s.apps
  BY Counts DEF Counters
<1>2. Sound(p) /\ p \in World /\ p.work \in Work
  BY <1>1 DEF Kin, Sound, World
<1>3. PICK w \in Work : /\ w = [p.work EXCEPT !.route = route]
                        /\ w.life = "running" /\ w.key = p.work.key /\ w.current = p.work.current
  <2> DEFINE q == [p.work EXCEPT !.route = route]
  <2>1. q \in Work /\ q.life = "running" /\ q.key = p.work.key /\ q.current = p.work.current
    BY <1>1, <1>2 DEF Work
  <2> QED BY <2>1
<1>4. Kept(w) /\ Alone(w, p.apps)
  BY <1>1, <1>2, <1>3 DEF Sound, Kept, Alone
<1>5. PICK n : /\ n = [p EXCEPT !.work = w]
               /\ Kin(p, n) /\ Calm(p, n) /\ n.work = w /\ n.tasks = p.tasks
  <2>1. LET n == [p EXCEPT !.work = w] IN
        Kin(p, n) /\ Calm(p, n) /\ n.work = w /\ n.tasks = p.tasks
    BY <1>1, <1>2, <1>3, <1>4, OtherWork
  <2> QED BY <2>1
<1>6. n = [Count(s, "revision") EXCEPT !.work.route = route]
  BY <1>1, <1>2, <1>3, <1>5 DEF World
<1>7. Sound(n) /\ Pending(n) = {} /\ n.work.life = "running"
  BY <1>1, <1>3, <1>5 DEF Kin, Pending
<1>8. /\ t \in Showing /\ t \in Task /\ t.revision /\ t.at = "start" /\ t.is = "show" /\ t.route = route
  BY DEF Showing, Task
<1> HIDE DEF t
<1>9. ASSUME NEW m, Kin(n, m), Calm(n, m)
      PROVE  Kin(s, m) /\ Calm(s, m)
  BY <1>1, <1>5, <1>9 DEF Kin, Calm
<1>10. CASE route \in DOMAIN Default
  <2>1. PICK u \in Showing : u = [t EXCEPT !.at = "default"] /\ u.at = "default" /\ u.is = "show"
    <3> DEFINE q == [t EXCEPT !.at = "default"]
    <3>1. q \in Showing /\ q.at = "default" /\ q.is = "show"
      BY <1>8, <1>10 DEF Showing
    <3> QED BY <3>1
  <2>2. u \in Task
    BY DEF Task
  <2>3. Kin(n, Waiting(n, u)) /\ Calm(n, Waiting(n, u))
    BY <1>7, <2>1, <2>2, Waits
  <2>4. ShowRoute(s, route) = Waiting(n, u)
    BY <1>6, <1>10, <2>1 DEF ShowRoute, t
  <2> QED BY <1>9, <2>3, <2>4
<1>11. CASE route \notin DOMAIN Default /\ route # s.work.key
  <2>1. ShowRoute(s, route) = OpenPage(n, t)
    BY <1>6, <1>11 DEF ShowRoute, t
  <2>2. Kin(n, OpenPage(n, t)) /\ Calm(n, OpenPage(n, t))
    BY <1>7, <1>8, OpensPage
  <2> QED BY <1>9, <2>1, <2>2
<1>12. CASE route \notin DOMAIN Default /\ route = s.work.key
  <2>1. CASE PageOf[route] \in Restarts /\ s.work.current # None
    <3>1. PICK u \in Showing : /\ u = [t EXCEPT !.again = TRUE] /\ u.at = "start"
                               /\ u.revision /\ u.route = route
      <4> DEFINE q == [t EXCEPT !.again = TRUE]
      <4>1. q \in Showing /\ q.at = "start" /\ q.revision /\ q.route = route
        BY <1>8 DEF Showing
      <4> QED BY <4>1
    <3>2. Fresh(n, u)
      BY <1>1, <1>3, <1>5, <1>7, <1>12, <3>1 DEF Fresh
    <3>3. ShowRoute(s, route) = StartPage(n, u)
      BY <1>6, <1>12, <2>1, <3>1 DEF ShowRoute, t
    <3>4. Kin(n, StartPage(n, u)) /\ Calm(n, StartPage(n, u))
      BY <1>7, <3>1, <3>2, StartsPage
    <3> QED BY <1>9, <3>3, <3>4
  <2>2. CASE ~(PageOf[route] \in Restarts /\ s.work.current # None)
    <3>1. ShowRoute(s, route) = n
      BY <1>6, <1>12, <2>2 DEF ShowRoute
    <3> QED BY <1>1, <1>5, <3>1 DEF Kin, Calm
  <2> QED BY <2>1, <2>2
<1> QED BY <1>10, <1>11, <1>12

-----------------------------------------------------------------------------
(* Following the address.                                                  *)

LEMMA StartsWork ==
  ASSUME NEW s, Sound(s), NEW route \in Routes
  PROVE  Kin(s, StartWork(s, route))
<1>1. CASE s.work.life = "running"
  BY <1>1, ShowsRoute DEF StartWork
<1>2. CASE s.work.life # "running"
  <2>1. s \in World /\ s.work \in Work
    BY DEF Sound, World
  <2>2. PICK w \in Work : /\ w = [s.work EXCEPT !.life = "starting"]
                          /\ w.life = "starting" /\ w.route = s.work.route
                          /\ w.key = s.work.key /\ w.current = s.work.current
    <3> DEFINE q == [s.work EXCEPT !.life = "starting"]
    <3>1. /\ q \in Work /\ q.life = "starting" /\ q.route = s.work.route
          /\ q.key = s.work.key /\ q.current = s.work.current
      BY <2>1 DEF Work, Lives
    <3> QED BY <3>1
  <2>3. /\ Kept(w) /\ Alone(w, s.apps)
        /\ \A t \in Pending(s) : t.at = "module" => w.current = None
    BY <1>2, <2>2 DEF Sound, Kept, Alone, Single
  <2>4. PICK n : n = [s EXCEPT !.work = w] /\ Kin(s, n) /\ n.tasks = s.tasks
    <3>1. LET n == [s EXCEPT !.work = w] IN Kin(s, n) /\ n.tasks = s.tasks
      BY <2>3, OtherWork
    <3> QED BY <3>1
  <2>5. PICK t \in Task :
          /\ t = [is |-> "dispatch", at |-> "start", route |-> route, epoch |-> TRUE]
          /\ t \notin Showing
    <3> DEFINE q == [is |-> "dispatch", at |-> "start", route |-> route, epoch |-> TRUE]
    <3>1. q \in Task /\ q.is = "dispatch"
      BY DEF Task, Dispatching
    <3>2. q \notin Showing
      BY <3>1, Kinds
    <3> QED BY <3>1, <3>2
  <2>6. StartWork(s, route) = Waiting(n, t)
    BY <1>2, <2>1, <2>2, <2>4, <2>5 DEF StartWork, World
  <2>7. Sound(n)
    BY <2>4 DEF Kin
  <2>8. Kin(n, Waiting(n, t))
    BY <2>5, <2>7, Waits
  <2> QED BY <2>4, <2>6, <2>8 DEF Kin
<1> QED BY <1>1, <1>2

LEMMA Follows ==
  ASSUME NEW s, Sound(s), NEW route \in Routes \cup {Login}
  PROVE  /\ Kin(s, Follow(s, route))
         /\ route = Login /\ s.work.life = "stopped" =>
              Calm(s, Follow(s, route)) /\ Follow(s, route).work.life = "stopped"
<1>1. CASE route = Login
  <2>1. PICK p : /\ p = Enter(s, "authentication")
                 /\ Kin(s, p) /\ Calm(s, p)
                 /\ p.work.life = "stopped" \/ p.work = s.work
    BY Enters
  <2>2. Sound(p)
    BY <2>1 DEF Kin
  <2>3. PICK r \in Root : r = [p.root EXCEPT !.login = TRUE] /\ r.up = p.root.up
    <3> DEFINE q == [p.root EXCEPT !.login = TRUE]
    <3>1. q \in Root /\ q.up = p.root.up
      BY <2>2 DEF Sound, World, Root
    <3> QED BY <3>1
  <2>4. PICK n : n = [p EXCEPT !.root = r] /\ Kin(p, n) /\ Calm(p, n) /\ n.work = p.work
    <3>1. LET n == [p EXCEPT !.root = r] IN Kin(p, n) /\ Calm(p, n) /\ n.work = p.work
      BY <2>2, <2>3, OtherRoot
    <3> QED BY <3>1
  <2>5. Follow(s, route) = n
    BY <1>1, <2>1, <2>2, <2>3, <2>4 DEF Follow, Sound, World
  <2> QED BY <2>1, <2>4, <2>5 DEF Kin, Calm
<1>2. CASE route # Login
  <2>1. PICK n : n = Enter(s, "workspace") /\ Kin(s, n)
    BY Enters
  <2>2. Sound(n) /\ route \in Routes
    BY <1>2, <2>1 DEF Kin
  <2>3. CASE s.root.module
    <3>1. Follow(s, route) = StartWork(n, route)
      BY <1>2, <2>1, <2>3 DEF Follow
    <3>2. Kin(n, StartWork(n, route))
      BY <2>2, StartsWork
    <3> QED BY <1>2, <2>1, <3>1, <3>2 DEF Kin
  <2>4. CASE ~s.root.module
    <3>1. PICK t \in Task :
            /\ t = [is |-> "dispatch", at |-> "module", route |-> route, epoch |-> TRUE]
            /\ t \notin Showing
      <4> DEFINE q == [is |-> "dispatch", at |-> "module", route |-> route, epoch |-> TRUE]
      <4>1. q \in Task /\ q.is = "dispatch"
        BY <2>2 DEF Task, Dispatching
      <4>2. q \notin Showing
        BY <4>1, Kinds
      <4> QED BY <4>1, <4>2
    <3>2. Follow(s, route) = Waiting(n, t)
      BY <1>2, <2>1, <2>4, <3>1 DEF Follow
    <3>3. Kin(n, Waiting(n, t))
      BY <2>2, <3>1, Waits
    <3> QED BY <1>2, <2>1, <3>2, <3>3 DEF Kin
  <2> QED BY <2>3, <2>4
<1> QED BY <1>1, <1>2

\* Another address.
LEMMA OtherAddress ==
  ASSUME NEW s, Sound(s), NEW to \in Routes \cup {Login}
  PROVE  LET n == [s EXCEPT !.url = to] IN
         /\ Kin(s, n) /\ Calm(s, n) /\ n.url = to
         /\ n.work = s.work /\ n.root = s.root /\ n.tasks = s.tasks /\ n.apps = s.apps
<1> DEFINE n == [s EXCEPT !.url = to]
<1>1. /\ n \in World /\ n.tasks = s.tasks /\ n.work = s.work /\ n.apps = s.apps /\ n.url = to
      /\ n.status = s.status /\ n.online = s.online /\ n.root = s.root
  BY DEF Sound, World
<1> HIDE DEF n
<1>2. Kin(s, n)
  BY <1>1 DEF Kin, Sound, Single, Pending
<1> QED BY <1>1, <1>2 DEF Calm, Imports, n

\* Without a session or a network nothing of the workspace is left that an
\* address could lead to.
Ready(s) == ~Permitted(s) => s.work.life = "stopped" /\ (~s.online => ~Imports(s))

LEMMA Dispatches ==
  ASSUME NEW s, Sound(s), Ready(s)
  PROVE  Kin(s, Dispatch(s)) /\ Secure(Dispatch(s))
<1>1. CASE ~s.online
  <2>1. Dispatch(s) = s
    BY <1>1 DEF Dispatch
  <2> QED BY <1>1, <2>1 DEF Kin, Ready, Secure, Permitted
<1>2. CASE s.online
  <2>1. PICK n : /\ n = Count(s, "epoch")
                 /\ Kin(s, n) /\ ~Imports(n) /\ n.work = s.work /\ n.url = s.url
    BY Counts DEF Counters
  <2>2. Sound(n) /\ Redirected(s) \in Routes \cup {Login}
    BY <2>1, NavigationAssumption DEF Kin, Sound, World, Redirected
  <2>3. CASE s.status = "loading"
    <3>1. Dispatch(s) = n
      BY <1>2, <2>1, <2>3 DEF Dispatch
    <3> QED BY <2>1, <2>3, <3>1 DEF Kin, Ready, Secure, Permitted
  <2>4. CASE s.status # "loading"
    <3>1. PICK p : /\ p = [n EXCEPT !.url = Redirected(s)]
                   /\ Kin(n, p) /\ Calm(n, p) /\ p.work = n.work
      <4>1. PICK to \in Routes \cup {Login} : to = Redirected(s)
        BY <2>2
      <4>2. LET p == [n EXCEPT !.url = to] IN Kin(n, p) /\ Calm(n, p) /\ p.work = n.work
        BY <2>2, OtherAddress
      <4> QED BY <4>1, <4>2
    <3>2. Dispatch(s) = Follow(p, Redirected(s))
      BY <1>2, <2>1, <2>4, <3>1 DEF Dispatch
    <3>3. Sound(p) /\ ~Imports(p)
      BY <2>1, <3>1 DEF Kin, Calm
    <3>4. PICK to \in Routes \cup {Login} : to = Redirected(s)
      BY <2>2
    <3>5. /\ Kin(p, Follow(p, to))
          /\ to = Login /\ p.work.life = "stopped" =>
               Calm(p, Follow(p, to)) /\ Follow(p, to).work.life = "stopped"
      BY <3>3, Follows
    <3>6. Kin(s, Dispatch(s))
      BY <2>1, <3>1, <3>2, <3>4, <3>5 DEF Kin
    <3>7. CASE Permitted(s)
      BY <3>6, <3>7 DEF Kin, Secure, Permitted
    <3>8. CASE ~Permitted(s)
      <4>1. s.status = "anonymous"
        BY <1>2, <2>4, <3>8 DEF Permitted, Sound, World
      <4>2. to = Login /\ p.work.life = "stopped"
        BY <2>1, <3>1, <3>4, <3>8, <4>1 DEF Redirected, Ready
      <4> QED BY <3>2, <3>3, <3>4, <3>5, <3>6, <4>2 DEF Calm, Secure
    <3> QED BY <3>7, <3>8
  <2> QED BY <2>3, <2>4
<1> QED BY <1>1, <1>2 DEF Sound, World

LEMMA Goes ==
  ASSUME NEW s, Sound(s), Ready(s), NEW to \in Routes \cup {Login}
  PROVE  Kin(s, Go(s, to)) /\ Secure(Go(s, to))
<1>1. PICK n : /\ n = [s EXCEPT !.url = to]
               /\ Kin(s, n) /\ Calm(s, n) /\ n.work = s.work
  <2>1. LET n == [s EXCEPT !.url = to] IN Kin(s, n) /\ Calm(s, n) /\ n.work = s.work
    BY OtherAddress
  <2> QED BY <2>1
<1>2. Sound(n) /\ Ready(n)
  BY <1>1 DEF Kin, Calm, Ready, Permitted
<1>3. Kin(n, Dispatch(n)) /\ Secure(Dispatch(n))
  BY <1>2, Dispatches
<1> QED BY <1>1, <1>3 DEF Go, Kin

LEMMA Commits ==
  ASSUME NEW s, Sound(s), Ready(s), NEW to \in Routes \cup {Login}
  PROVE  Kin(s, Commit(s, to)) /\ Secure(Commit(s, to))
<1>1. PICK n : /\ n = Count(s, "navigation")
               /\ Kin(s, n) /\ Calm(s, n) /\ n.work = s.work
  BY Counts DEF Counters
<1>2. Sound(n) /\ Ready(n)
  BY <1>1 DEF Kin, Calm, Ready, Permitted
<1>3. CASE Flushes(s)
  <2>1. PICK t \in Task : /\ t = [is |-> "commit", at |-> "flush", route |-> to, navigation |-> TRUE]
                          /\ t \notin Showing
    <3> DEFINE q == [is |-> "commit", at |-> "flush", route |-> to, navigation |-> TRUE]
    <3>1. q \in Task /\ q.is = "commit"
      BY DEF Task, Committing
    <3>2. q \notin Showing
      BY <3>1, Kinds
    <3> QED BY <3>1, <3>2
  <2>2. Commit(s, to) = Waiting(n, t)
    BY <1>1, <1>3, <2>1 DEF Commit
  <2>3. Kin(n, Waiting(n, t))
    BY <1>2, <2>1, Waits
  <2>4. Permitted(s)
    BY <1>3 DEF Flushes, Ready
  <2> QED BY <1>1, <2>2, <2>3, <2>4 DEF Kin, Secure, Permitted
<1>4. CASE ~Flushes(s)
  BY <1>1, <1>2, <1>4, Goes DEF Commit, Kin
<1> QED BY <1>3, <1>4

-----------------------------------------------------------------------------
(* Steps.                                                                  *)

\* Who has the content of a sound world is sound.
LEMMA SameContent ==
  ASSUME NEW s, Sound(s), NEW n \in World,
         n.work = s.work, n.apps = s.apps, n.tasks = s.tasks
  PROVE  Sound(n) /\ (Imports(n) <=> Imports(s)) /\ Pending(n) = Pending(s)
  BY DEF Sound, Single, Pending, Imports

LEMMA Settles ==
  ASSUME NEW s, Secure(s), NEW n, Kin(s, n), Calm(s, n), n.work.life = s.work.life
  PROVE  Secure(n)
  BY DEF Secure, Kin, Calm, Permitted

LEMMA Becomes ==
  ASSUME NEW n, Sound(n), Secure(n), Begun(n), Become(n)
  PROVE  Inv'
<1>1. Now' = n
  BY DEF Now, Become, Sound, World
<1> QED BY <1>1 DEF Inv, Sound, Secure, Begun, Imports, Permitted, Single, Pending, Kept, Alone

\* The world before a step, as a constant.
LEMMA Before ==
  ASSUME Inv
  PROVE  \E k : /\ k = Now /\ Sound(k) /\ Secure(k) /\ Begun(k)
                /\ k \in World /\ k.tasks \subseteq Task /\ k.work \in Work /\ k.root \in Root
                /\ k.apps \in [Pages -> App]
                /\ k.url = url /\ k.status = status /\ k.online = online /\ k.root = root
                /\ k.work = work /\ k.apps = apps /\ k.tasks = tasks /\ k.wish = wish
<1>1. PICK k : k = Now
  OBVIOUS
<1>2. Sound(k) /\ Secure(k) /\ Begun(k)
  BY <1>1 DEF Inv
<1>3. k \in World /\ k.tasks \subseteq Task /\ k.work \in Work /\ k.root \in Root /\ k.apps \in [Pages -> App]
  BY <1>2 DEF Sound, World
<1> QED BY <1>1, <1>2, <1>3 DEF Now

\* A step that follows from a world of the same content ends as it should.
LEMMA Arrives ==
  ASSUME NEW s, NEW n, Kin(s, n), Secure(n), s.root.up, Become(n)
  PROVE  Inv'
<1>1. Sound(n) /\ Begun(n)
  BY DEF Kin, Begun
<1> QED BY <1>1, Becomes

\* s differs from Now by the address, the session, the network and the wish.
Like(s) ==
  /\ s \in World /\ Sound(s) /\ (Imports(s) <=> Imports(Now))
  /\ s.work = work /\ s.tasks = tasks /\ s.apps = apps /\ s.root = root

LEMMA Likes ==
  ASSUME Inv, NEW s \in World, s.work = work, s.apps = apps, s.tasks = tasks, s.root = root
  PROVE  Like(s)
<1>1. PICK k : /\ k = Now /\ Sound(k)
               /\ k.work = work /\ k.apps = apps /\ k.tasks = tasks
  BY Before
<1>2. Sound(s) /\ (Imports(s) <=> Imports(k))
  BY <1>1, SameContent
<1> QED BY <1>1, <1>2 DEF Like

LEMMA Wishes ==
  ASSUME Inv, NEW to \in Routes \cup {Login}
  PROVE  \E s : /\ s = Wishing(to) /\ Like(s) /\ Ready(s) /\ Secure(s)
                /\ s.url = url /\ s.status = status /\ s.online = online
<1>1. PICK k \in World :
         /\ k = Now /\ Secure(k)
         /\ k.url = url /\ k.status = status /\ k.online = online /\ k.root = root
         /\ k.work = work /\ k.apps = apps /\ k.tasks = tasks
  BY Before
<1>2. PICK s : s = [k EXCEPT !.wish = to]
  OBVIOUS
<1>3. /\ s \in World /\ s.url = url /\ s.status = status /\ s.online = online /\ s.root = root
      /\ s.work = work /\ s.apps = apps /\ s.tasks = tasks
  BY <1>1, <1>2 DEF World
<1>4. Like(s)
  BY <1>3, Likes
<1>5. Secure(s) /\ Ready(s)
  BY <1>1, <1>3, <1>4 DEF Like, Secure, Ready, Permitted
<1> QED BY <1>1, <1>2, <1>3, <1>4, <1>5 DEF Wishing

LEMMA Routed ==
  /\ Home \in Routes \cup {Login} /\ Parent \in Routes \cup {Login} /\ Login \in Routes \cup {Login}
  /\ \A b \in DOMAIN Default : Default[b] \in Routes \cup {Login}
  /\ \A t \in Task : t.is # "close" => t.route \in Routes \cup {Login}
  /\ \A t \in Task : t.is \in {"dispatch", "show"} => t.route \in Routes
  BY NavigationAssumption DEF Task, Dispatching, Showing, Committing, Closing

LEMMA NavigateKeepsInv ==
  ASSUME Inv, root.up, NEW to \in Routes \cup {Login}, Navigate(to)
  PROVE  Inv'
<1>1. PICK s : s = Wishing(to) /\ Like(s) /\ Ready(s)
  BY Wishes
<1>2. PICK n : n = Commit(s, to) /\ Become(n)
  BY <1>1 DEF Navigate, Become
<1>3. Kin(s, n) /\ Secure(n)
  BY <1>1, <1>2, Commits DEF Like
<1> QED BY <1>1, <1>2, <1>3, Arrives DEF Like

LEMMA BackKeepsInv ==
  ASSUME Inv, root.up, NEW to \in Routes \cup {Login}, Back(to)
  PROVE  Inv'
<1>1. PICK p \in World : /\ p = Wishing(to) /\ Like(p) /\ Ready(p)
  BY Wishes DEF Like
<1>2. PICK s : s = [p EXCEPT !.url = to]
  OBVIOUS
<1>3. /\ s \in World /\ s.work = p.work /\ s.apps = p.apps /\ s.tasks = p.tasks /\ s.root = p.root
      /\ s.status = p.status /\ s.online = p.online
  BY <1>1, <1>2 DEF World
<1>4. Like(s)
  BY <1>1, <1>3, Likes DEF Like
<1>5. Ready(s)
  BY <1>1, <1>3, <1>4 DEF Like, Ready, Permitted
<1>6. PICK n : n = Dispatch(s) /\ Become(n)
  BY <1>1, <1>2 DEF Back, Become
<1>7. Kin(s, n) /\ Secure(n)
  BY <1>4, <1>5, <1>6, Dispatches DEF Like
<1> QED BY <1>4, <1>6, <1>7, Arrives DEF Like

LEMMA CloseTaskKeepsInv ==
  ASSUME Inv, root.up, CloseTask
  PROVE  Inv'
<1>1. PICK s : s = Wishing(Parent) /\ Like(s) /\ Secure(s)
  BY Wishes, Routed
<1>2. PICK t \in Task : /\ t = [is |-> "close", at |-> "flush"] /\ t.is = "close"
                        /\ t \notin Showing
  <2> DEFINE q == [is |-> "close", at |-> "flush"]
  <2>1. q \in Task /\ q.is = "close"
    BY DEF Task, Closing
  <2>2. q \notin Showing
    BY <2>1, Kinds
  <2> QED BY <2>1, <2>2
<1>3. PICK n : n = Waiting(s, t) /\ Become(n)
  BY <1>1, <1>2 DEF CloseTask, Become
<1>4. Kin(s, n) /\ Calm(s, n) /\ n.work = s.work
  BY <1>1, <1>2, <1>3, Waits DEF Like
<1>5. Secure(n)
  BY <1>1, <1>4, Settles
<1> QED BY <1>1, <1>3, <1>4, <1>5, Arrives DEF Like

\* Another status of the session.
LEMMA OtherStatus ==
  ASSUME Inv, NEW to \in Routes \cup {Login}, NEW st \in {"loading", "authenticated", "anonymous"}
  PROVE  \E s : /\ s = [Wishing(to) EXCEPT !.status = st] /\ Like(s)
                /\ s.status = st /\ s.online = online
<1>1. PICK p \in World : p = Wishing(to) /\ Like(p) /\ p.online = online
  BY Wishes DEF Like
<1>2. PICK s : s = [p EXCEPT !.status = st]
  OBVIOUS
<1>3. /\ s \in World /\ s.work = p.work /\ s.apps = p.apps /\ s.tasks = p.tasks /\ s.root = p.root
      /\ s.status = st /\ s.online = p.online
  BY <1>1, <1>2 DEF World
<1>4. Like(s)
  BY <1>1, <1>3, Likes DEF Like
<1> QED BY <1>1, <1>2, <1>3, <1>4

LEMMA SignInKeepsInv ==
  ASSUME Inv, root.up, SignIn
  PROVE  Inv'
<1>1. PICK s : /\ s = [Wishing(Home) EXCEPT !.status = "authenticated"]
               /\ Like(s) /\ s.status = "authenticated" /\ s.online = online
  BY OtherStatus, Routed
<1>2. PICK n : n = Commit(s, Home) /\ Become(n)
  BY <1>1 DEF SignIn, Become
<1>3. Ready(s)
  BY <1>1 DEF SignIn, Ready, Permitted
<1>4. Kin(s, n) /\ Secure(n)
  BY <1>1, <1>2, <1>3, Commits, Routed DEF Like
<1> QED BY <1>1, <1>2, <1>4, Arrives DEF Like

\* Imports that are not overtaken are those of a session with a network.
LEMMA ImportsPermitted ==
  ASSUME Inv
  PROVE  /\ Imports(Now) => status = "authenticated" /\ online
         /\ work.life # "stopped" => status = "authenticated" /\ online
  BY Before DEF Secure, Permitted

LEMMA SignsOut ==
  ASSUME Inv, root.up, Become(SignedOut(Wishing(Login)))
  PROVE  Inv'
<1>1. PICK s : /\ s = [Wishing(Login) EXCEPT !.status = "anonymous"]
               /\ Like(s) /\ s.status = "anonymous" /\ s.online = online
  BY OtherStatus, Routed
<1>2. PICK p : /\ p = StopWork(s) /\ Kin(s, p) /\ Calm(s, p) /\ p.work.life = "stopped"
               /\ p.root = s.root
  BY <1>1, StopsWork DEF Like
<1>3. PICK n : n = Commit(p, Login) /\ Become(n)
  BY <1>1, <1>2 DEF SignedOut, Become
<1>4. Sound(p) /\ Ready(p)
  BY <1>1, <1>2, ImportsPermitted DEF Kin, Calm, Like, Ready, Permitted
<1>5. Kin(p, n) /\ Secure(n)
  BY <1>3, <1>4, Commits, Routed
<1> QED BY <1>1, <1>2, <1>3, <1>5, Arrives DEF Like

\* The root application forgets what it shows.
LEMMA Forgets ==
  ASSUME NEW s, Sound(s)
  PROVE  LET n == [s EXCEPT !.root.destination = ""] IN
         /\ Kin(s, n) /\ Calm(s, n) /\ n.work = s.work /\ n.tasks = s.tasks
<1>1. PICK r \in Root : r = [s.root EXCEPT !.destination = ""] /\ r.up = s.root.up
  <2> DEFINE q == [s.root EXCEPT !.destination = ""]
  <2>1. q \in Root /\ q.up = s.root.up
    BY DEF Sound, World, Root
  <2> QED BY <2>1
<1>2. [s EXCEPT !.root.destination = ""] = [s EXCEPT !.root = r]
  BY <1>1 DEF Sound, World
<1>3. LET n == [s EXCEPT !.root = r] IN
      Kin(s, n) /\ Calm(s, n) /\ n.work = s.work /\ n.tasks = s.tasks
  BY <1>1, OtherRoot
<1> QED BY <1>2, <1>3

LEMMA OtherIdentityKeepsInv ==
  ASSUME Inv, root.up, OtherIdentity
  PROVE  Inv'
<1>1. PICK k : k = Wishing(Home) /\ Like(k)
  BY Wishes, Routed
<1>2. PICK c : c = Count(k, "epoch") /\ Kin(k, c) /\ ~Imports(c) /\ c.root = k.root
  BY <1>1, Counts DEF Like, Counters
<1>3. PICK p : /\ p = StopWork(c) /\ Kin(c, p) /\ Calm(c, p) /\ p.work.life = "stopped"
               /\ p.root = c.root
  BY <1>2, StopsWork DEF Kin
<1>4. PICK q : /\ q = [p EXCEPT !.root.destination = ""]
               /\ Kin(p, q) /\ Calm(p, q) /\ q.work = p.work
  <2>1. LET n == [p EXCEPT !.root.destination = ""] IN
        Kin(p, n) /\ Calm(p, n) /\ n.work = p.work
    <3>1. Sound(p)
      BY <1>3 DEF Kin
    <3> QED BY <3>1, Forgets
  <2> QED BY <2>1
<1>5. PICK n : n = [q EXCEPT !.status = "loading"] /\ Become(n)
  BY <1>1, <1>2, <1>3, <1>4 DEF OtherIdentity, Changing, Become
<1>6. /\ n \in World /\ n.work = q.work /\ n.apps = q.apps /\ n.tasks = q.tasks /\ n.root = q.root
  BY <1>4, <1>5 DEF Kin, Sound, World
<1>7. Sound(n) /\ ~Imports(n) /\ n.work.life = "stopped" /\ n.root.up
  BY <1>1, <1>2, <1>3, <1>4, <1>6, SameContent DEF Kin, Calm, Like
<1> QED BY <1>5, <1>7, Becomes DEF Secure, Begun

LEMMA SessionReadKeepsInv ==
  ASSUME Inv, root.up, SessionRead
  PROVE  Inv'
<1>1. PICK s : /\ s = [Wishing(Home) EXCEPT !.status = "authenticated"]
               /\ Like(s) /\ s.status = "authenticated" /\ s.online = online
  BY OtherStatus, Routed
<1>2. PICK p : /\ p = StopWork(s) /\ Kin(s, p) /\ Calm(s, p) /\ p.work.life = "stopped"
               /\ p.root = s.root
  BY <1>1, StopsWork DEF Like
<1>3. PICK q : /\ q = [p EXCEPT !.root.destination = ""]
               /\ Kin(p, q) /\ Calm(p, q) /\ q.work = p.work
  <2>1. LET n == [p EXCEPT !.root.destination = ""] IN
        Kin(p, n) /\ Calm(p, n) /\ n.work = p.work
    <3>1. Sound(p)
      BY <1>2 DEF Kin
    <3> QED BY <3>1, Forgets
  <2> QED BY <2>1
<1>4. PICK n : n = Commit(q, Home) /\ Become(n)
  BY <1>1, <1>2, <1>3 DEF SessionRead, Become
<1>5. Sound(q) /\ Ready(q) /\ q.root.up
  BY <1>1, <1>2, <1>3, ImportsPermitted DEF SessionRead, Kin, Calm, Like, Ready, Permitted
<1>6. Kin(q, n) /\ Secure(n)
  BY <1>4, <1>5, Commits, Routed
<1> QED BY <1>4, <1>5, <1>6, Arrives

\* Offline, or online again: who waited for something is not waited for.
LEMMA Turning ==
  ASSUME Inv, NEW s, Like(s)
  PROVE  \E n : /\ n = Turned(s) /\ Kin(s, n) /\ ~Imports(n) /\ n.work = s.work /\ n.root.up = s.root.up
<1>1. PICK c : c = Count(s, "epoch") /\ Kin(s, c) /\ ~Imports(c) /\ c.work = s.work
  BY Counts DEF Like, Counters
<1>2. Sound(c)
  BY <1>1 DEF Kin
<1>3. PICK d : d = Count(c, "navigation") /\ Kin(c, d) /\ Calm(c, d) /\ d.work = c.work
  BY <1>2, Counts DEF Counters
<1>4. Sound(d)
  BY <1>3 DEF Kin
<1>5. PICK n : n = [d EXCEPT !.root.destination = ""] /\ Kin(d, n) /\ Calm(d, n) /\ n.work = d.work
  <2>1. LET n == [d EXCEPT !.root.destination = ""] IN
        Kin(d, n) /\ Calm(d, n) /\ n.work = d.work
    BY <1>4, Forgets
  <2> QED BY <2>1
<1> QED BY <1>1, <1>3, <1>5 DEF Turned, Kin, Calm

LEMMA GoOfflineKeepsInv ==
  ASSUME Inv, root.up, GoOffline
  PROVE  Inv'
<1>1. PICK k \in World : k = Wishing(url) /\ Like(k) /\ k.status = status
  <2>1. url \in Routes \cup {Login}
    BY Before DEF World
  <2> QED BY <2>1, Wishes DEF Like
<1>2. PICK s : s = [k EXCEPT !.online = FALSE]
  OBVIOUS
<1>3. /\ s \in World /\ s.work = k.work /\ s.apps = k.apps /\ s.tasks = k.tasks /\ s.root = k.root
  BY <1>1, <1>2 DEF World
<1>4. Like(s)
  BY <1>1, <1>3, Likes DEF Like
<1>5. PICK d : d = Turned(s) /\ Kin(s, d) /\ ~Imports(d)
  BY <1>4, Turning
<1>6. Sound(d)
  BY <1>5 DEF Kin
<1>7. PICK p : p = StopWork(d) /\ Kin(d, p) /\ Calm(d, p) /\ p.work.life = "stopped"
  BY <1>6, StopsWork
<1>8. Sound(p)
  BY <1>7 DEF Kin
<1>9. PICK n : n = StopLogin(p) /\ Kin(p, n) /\ Calm(p, n) /\ n.work = p.work
  BY <1>8, StopsLogin
<1>10. Become(n)
  BY <1>1, <1>2, <1>5, <1>7, <1>9 DEF GoOffline, Become
<1>11. Kin(s, n) /\ Secure(n)
  BY <1>5, <1>7, <1>9 DEF Kin, Calm, Secure
<1> QED BY <1>4, <1>10, <1>11, Arrives DEF Like

LEMMA GoOnlineKeepsInv ==
  ASSUME Inv, root.up, GoOnline
  PROVE  Inv'
<1>1. PICK k \in World :
         /\ k = Now /\ k.work = work /\ k.apps = apps /\ k.tasks = tasks /\ k.root = root
         /\ k.status = status
  BY Before
<1>2. PICK s : s = [k EXCEPT !.online = TRUE]
  OBVIOUS
<1>3. /\ s \in World /\ s.work = k.work /\ s.apps = k.apps /\ s.tasks = k.tasks /\ s.root = k.root
      /\ s.online
  BY <1>1, <1>2 DEF World
<1>4. Like(s)
  BY <1>1, <1>3, Likes
<1>5. PICK d : d = Turned(s) /\ Kin(s, d) /\ ~Imports(d) /\ d.work = s.work
  BY <1>4, Turning
<1>6. work.life = "stopped"
  BY ImportsPermitted DEF GoOnline
<1>7. Sound(d) /\ Ready(d)
  BY <1>3, <1>4, <1>5, <1>6 DEF Kin, Ready, Like
<1>8. PICK n : n = Dispatch(d) /\ Become(n)
  BY <1>1, <1>2, <1>5 DEF GoOnline, Become
<1>9. Kin(d, n) /\ Secure(n)
  BY <1>7, <1>8, Dispatches
<1>10. d.root.up
  BY <1>4, <1>5 DEF Kin, Like
<1> QED BY <1>8, <1>9, <1>10, Arrives

-----------------------------------------------------------------------------
(* Continuations go on.                                                    *)

LEMMA Dones ==
  ASSUME Inv, NEW t \in tasks
  PROVE  \E d : /\ d = Done(t) /\ Sound(d) /\ Secure(d) /\ Ready(d)
                /\ d.tasks = tasks \ {t} /\ d.work = work /\ d.apps = apps /\ d.root = root
                /\ d.status = status /\ d.online = online
<1>1. PICK k : /\ k = Now /\ Sound(k) /\ Secure(k) /\ k \in World
               /\ k.work = work /\ k.apps = apps /\ k.tasks = tasks /\ k.root = root
               /\ k.status = status /\ k.online = online
  BY Before
<1>2. PICK ts \in SUBSET k.tasks : ts = tasks \ {t}
  BY <1>1
<1>3. PICK d : /\ d = [k EXCEPT !.tasks = ts]
               /\ Kin(k, d) /\ Calm(k, d) /\ d.tasks = ts
               /\ d.work = k.work /\ d.apps = k.apps /\ d.root = k.root
  <2>1. LET n == [k EXCEPT !.tasks = ts] IN
        /\ Kin(k, n) /\ Calm(k, n) /\ n.tasks = ts
        /\ n.work = k.work /\ n.apps = k.apps /\ n.root = k.root
    BY <1>1, FewerTasks
  <2> QED BY <2>1
<1>4. d = Done(t)
  BY <1>1, <1>2, <1>3 DEF Done
<1>5. Sound(d) /\ d.status = status /\ d.online = online
  BY <1>1, <1>3 DEF Kin
<1>6. Secure(d)
  BY <1>1, <1>3, Settles
<1> QED BY <1>1, <1>2, <1>3, <1>4, <1>5, <1>6 DEF Secure, Ready, Permitted

LEMMA Reports ==
  ASSUME NEW s, Sound(s)
  PROVE  LET n == Reported(s) IN
         /\ Kin(s, n) /\ Calm(s, n) /\ n.tasks = s.tasks /\ n.apps = s.apps /\ n.root = s.root
         /\ n.work.life = s.work.life /\ n.work.key = s.work.key /\ n.work.current = s.work.current
<1>1. s \in World /\ s.work \in Work
  BY DEF Sound, World
<1>2. PICK w \in Work : /\ w = [s.work EXCEPT !.reported = TRUE]
                        /\ w.life = s.work.life /\ w.key = s.work.key /\ w.current = s.work.current
                        /\ w.route = s.work.route
  <2> DEFINE q == [s.work EXCEPT !.reported = TRUE]
  <2>1. /\ q \in Work /\ q.life = s.work.life /\ q.key = s.work.key /\ q.current = s.work.current
        /\ q.route = s.work.route
    BY <1>1 DEF Work
  <2> QED BY <2>1
<1>3. /\ Kept(w) /\ Alone(w, s.apps)
      /\ \A t \in Pending(s) : t.at = "module" => w.current = None
  BY <1>2 DEF Sound, Kept, Alone, Single
<1>4. LET n == [s EXCEPT !.work = w] IN
      /\ Kin(s, n) /\ Calm(s, n) /\ n.tasks = s.tasks /\ n.apps = s.apps /\ n.root = s.root /\ n.work = w
  BY <1>3, OtherWork
<1>5. Reported(s) = [s EXCEPT !.work = w]
  BY <1>1, <1>2 DEF Reported, World
<1> QED BY <1>2, <1>4, <1>5

LEMMA Throws ==
  ASSUME NEW s, Sound(s), NEW t
  PROVE  LET n == Thrown(s, t) IN Kin(s, n) /\ Calm(s, n) /\ n.work.life = s.work.life
<1>1. CASE t.epoch
  <2>1. PICK p : p = Reported(s) /\ Kin(s, p) /\ Calm(s, p) /\ p.work.life = s.work.life
    BY Reports
  <2>2. Sound(p)
    BY <2>1 DEF Kin
  <2>3. LET n == [p EXCEPT !.root.destination = ""] IN Kin(p, n) /\ Calm(p, n) /\ n.work = p.work
    BY <2>2, Forgets
  <2> QED BY <1>1, <2>1, <2>3 DEF Thrown, Kin, Calm
<1>2. CASE ~t.epoch
  BY <1>2 DEF Thrown, Kin, Calm
<1> QED BY <1>1, <1>2

LEMMA TasksTyped ==
  ASSUME Inv, NEW t \in tasks
  PROVE  t \in Task
  BY Before

\* A step that ends in the world without the continuation.
LEMMA DropKeepsInv ==
  ASSUME Inv, root.up, NEW t \in tasks, Become(Done(t))
  PROVE  Inv'
<1>1. PICK d : d = Done(t) /\ Sound(d) /\ Secure(d) /\ d.root = root
  BY Dones
<1>2. Become(d)
  BY <1>1 DEF Become
<1> QED BY <1>1, <1>2, Arrives DEF Kin

LEMMA ThrowKeepsInv ==
  ASSUME Inv, root.up, NEW t \in tasks, Become(Thrown(Done(t), t))
  PROVE  Inv'
<1>1. PICK d : d = Done(t) /\ Sound(d) /\ Secure(d) /\ d.root = root
  BY Dones
<1>2. PICK n : n = Thrown(d, t) /\ Become(n)
  BY <1>1 DEF Become
<1>3. Kin(d, n) /\ Calm(d, n) /\ n.work.life = d.work.life
  BY <1>1, <1>2, Throws
<1>4. Secure(n)
  BY <1>1, <1>3, Settles
<1> QED BY <1>1, <1>2, <1>3, <1>4, Arrives

LEMMA CommitKeepsInv ==
  ASSUME Inv, root.up, NEW t \in tasks, NEW to \in Routes \cup {Login}, Become(Commit(Done(t), to))
  PROVE  Inv'
<1>1. PICK d : d = Done(t) /\ Sound(d) /\ Ready(d) /\ d.root = root
  BY Dones
<1>2. PICK n : n = Commit(d, to) /\ Become(n)
  BY <1>1 DEF Become
<1>3. Kin(d, n) /\ Secure(n)
  BY <1>1, <1>2, Commits
<1> QED BY <1>1, <1>2, <1>3, Arrives

LEMMA WorkspaceLoadsKeepsInv ==
  ASSUME Inv, root.up, NEW t \in tasks, WorkspaceLoads(t)
  PROVE  Inv'
<1>1. t \in Task /\ t \in Dispatching /\ t.route \in Routes /\ t.at = "module"
  BY TasksTyped, Kinds, Routed DEF WorkspaceLoads
<1>2. CASE Newest(t)
  <2>1. Imports(Now)
    BY <1>1, <1>2 DEF Imports, Newest, Now
  <2>2. PICK d : /\ d = Done(t) /\ Sound(d) /\ d.root = root
                 /\ d.status = status /\ d.online = online
    BY Dones
  <2>3. PICK r \in Root : r = [d.root EXCEPT !.module = TRUE] /\ r.up = d.root.up
    <3> DEFINE q == [d.root EXCEPT !.module = TRUE]
    <3>1. q \in Root /\ q.up = d.root.up
      BY <2>2 DEF Sound, World, Root
    <3> QED BY <3>1
  <2>4. PICK e : e = [d EXCEPT !.root = r] /\ Kin(d, e)
    <3>1. LET e == [d EXCEPT !.root = r] IN Kin(d, e)
      BY <2>2, <2>3, OtherRoot
    <3> QED BY <3>1
  <2>5. e = [Done(t) EXCEPT !.root.module = TRUE]
    BY <2>2, <2>3, <2>4 DEF Sound, World
  <2>6. PICK n : n = StartWork(e, t.route) /\ Become(n)
    BY <1>2, <2>5 DEF WorkspaceLoads, Become
  <2>7. Sound(e)
    BY <2>4 DEF Kin
  <2>8. Kin(e, n)
    BY <1>1, <2>6, <2>7, StartsWork
  <2>9. Secure(n)
    BY <2>1, <2>2, <2>4, <2>8, ImportsPermitted DEF Kin, Secure, Permitted
  <2> QED BY <2>2, <2>4, <2>6, <2>8, <2>9, Arrives DEF Kin
<1>3. CASE ~Newest(t)
  BY <1>3, DropKeepsInv DEF WorkspaceLoads
<1> QED BY <1>2, <1>3

LEMMA WorkspaceStartsKeepsInv ==
  ASSUME Inv, root.up, WorkspaceStarts
  PROVE  Inv'
<1> DEFINE resumed(t) == IF t.is = "dispatch" /\ t.at = "start" THEN [t EXCEPT !.at = "resumed"] ELSE t
<1>1. PICK k \in World :
         /\ k = Now /\ Sound(k) /\ k.tasks \subseteq Task /\ k.work \in Work
         /\ k.work = work /\ k.apps = apps /\ k.tasks = tasks /\ k.root = root
         /\ k.status = status /\ k.online = online
  BY Before
<1>2. PICK ts : ts = { resumed(t) : t \in k.tasks }
  OBVIOUS
<1>3. \A t \in k.tasks : t.is = "dispatch" => t \in Dispatching
  BY <1>1, Kinds
<1>4. \A t \in k.tasks : t.is = "dispatch" => [t EXCEPT !.at = "resumed"] \in Dispatching
  BY <1>3 DEF Dispatching
<1>5. ts \in SUBSET Task
  BY <1>1, <1>2, <1>4 DEF Task
<1>6. PICK w \in Work : /\ w = [k.work EXCEPT !.life = "running"]
                        /\ w.life = "running" /\ w.current = k.work.current
  <2> DEFINE q == [k.work EXCEPT !.life = "running"]
  <2>1. q \in Work /\ q.life = "running" /\ q.current = k.work.current
    BY <1>1 DEF Work, Lives
  <2> QED BY <2>1
<1>7. PICK n : n = [k EXCEPT !.work = w, !.tasks = ts]
  OBVIOUS
<1>8. /\ n \in World /\ n.work = w /\ n.tasks = ts /\ n.apps = k.apps
      /\ n.status = k.status /\ n.online = k.online /\ n.root = k.root
  BY <1>1, <1>5, <1>6, <1>7 DEF World
<1>9. n = [Now EXCEPT
       !.work.life = "running",
       !.tasks = { IF t.is = "dispatch" /\ t.at = "start" THEN [t EXCEPT !.at = "resumed"] ELSE t :
                   t \in @ }]
  BY <1>1, <1>2, <1>6, <1>7 DEF World
<1>10. Become(n)
  BY <1>9 DEF WorkspaceStarts, Become
<1>11. k.work.current = None /\ \A f \in Pages : k.apps[f].life = "stopped"
  BY <1>1 DEF WorkspaceStarts, Sound, Kept, Alone
<1>12. \A u \in n.tasks : u \in k.tasks \/ u \in Dispatching
  BY <1>2, <1>4, <1>8
<1>13. Pending(n) \subseteq Pending(k)
  BY <1>1, <1>12, Kinds DEF Pending, Task
<1>14. Sound(n)
  BY <1>1, <1>6, <1>8, <1>11, <1>13 DEF Sound, Kept, Alone, Single
<1>15. Secure(n) /\ Begun(n)
  BY <1>1, <1>8, ImportsPermitted DEF WorkspaceStarts, Secure, Permitted, Begun
<1> QED BY <1>10, <1>14, <1>15, Becomes

LEMMA ResumeKeepsInv ==
  ASSUME Inv, root.up, NEW t \in tasks, Resume(t)
  PROVE  Inv'
<1>1. t \in Task /\ t.route \in Routes
  BY TasksTyped, Routed DEF Resume
<1>2. CASE Newest(t) /\ work.life = "running"
  <2>1. PICK d : /\ d = Done(t) /\ Sound(d) /\ d.root = root /\ d.work = work
                 /\ d.status = status /\ d.online = online
    BY Dones
  <2>2. PICK n : n = ShowRoute(d, t.route) /\ Become(n)
    BY <1>2, <2>1 DEF Resume, Become
  <2>3. Kin(d, n)
    BY <1>1, <1>2, <2>1, <2>2, ShowsRoute
  <2>4. Secure(n)
    BY <1>2, <2>1, <2>3, ImportsPermitted DEF Kin, Secure, Permitted
  <2> QED BY <2>1, <2>2, <2>3, <2>4, Arrives
<1>3. CASE ~(Newest(t) /\ work.life = "running")
  BY <1>3, DropKeepsInv DEF Resume
<1> QED BY <1>2, <1>3

\* The continuation that waits for a page is the only one of its kind.
LEMMA Alones ==
  ASSUME Inv, NEW t \in tasks, t.is = "show", t.revision
  PROVE  \E d : /\ d = Done(t) /\ Sound(d) /\ Secure(d) /\ Pending(d) = {}
                /\ d.work = work /\ d.apps = apps /\ d.root = root
                /\ d.status = status /\ d.online = online
                /\ t \in Task /\ t \in Showing /\ t.route \in Routes
                /\ t.at = "module" => \A f \in Pages : d.apps[f].life = "stopped"
<1>1. t \in Task /\ t \in Showing /\ t.route \in Routes
  BY TasksTyped, Kinds, Routed
<1>2. PICK d : /\ d = Done(t) /\ Sound(d) /\ Secure(d)
               /\ d.tasks = tasks \ {t} /\ d.work = work /\ d.apps = apps /\ d.root = root
               /\ d.status = status /\ d.online = online
  BY Dones
<1>3. PICK k : k = Now /\ Sound(k) /\ k.tasks = tasks /\ k.work = work /\ k.apps = apps
  BY Before
<1>4. t \in Pending(k)
  BY <1>1, <1>3 DEF Pending
<1>5. Pending(d) = {}
  BY <1>2, <1>3, <1>4 DEF Sound, Single, Pending
<1>6. t.at = "module" => \A f \in Pages : d.apps[f].life = "stopped"
  BY <1>2, <1>3, <1>4, NavigationAssumption DEF Sound, Single, Alone
<1> QED BY <1>1, <1>2, <1>5, <1>6

LEMMA PageLoadsKeepsInv ==
  ASSUME Inv, root.up, NEW t \in tasks, PageLoads(t)
  PROVE  Inv'
<1>1. CASE Current(t)
  <2>1. PICK d : /\ d = Done(t) /\ Sound(d) /\ Pending(d) = {}
                 /\ d.work = work /\ d.root = root /\ d.status = status /\ d.online = online
                 /\ t \in Showing /\ t.route \in Routes
    BY <1>1, Alones DEF PageLoads, Current
  <2>2. d \in World /\ d.work \in Work /\ PageOf[t.route] \in Pages
    BY <2>1, NavigationAssumption DEF Sound, World
  <2>3. PICK w \in Work : /\ w = [d.work EXCEPT !.added = @ \cup {PageOf[t.route]}]
                          /\ w.life = d.work.life /\ w.key = d.work.key
                          /\ w.current = d.work.current /\ w.route = d.work.route
    <3> DEFINE q == [d.work EXCEPT !.added = @ \cup {PageOf[t.route]}]
    <3>1. /\ q \in Work /\ q.life = d.work.life /\ q.key = d.work.key
          /\ q.current = d.work.current /\ q.route = d.work.route
      BY <2>2 DEF Work
    <3> QED BY <3>1
  <2>4. Kept(w) /\ Alone(w, d.apps)
    BY <2>1, <2>3 DEF Sound, Kept, Alone
  <2>5. PICK e : /\ e = [d EXCEPT !.work = w] /\ Kin(d, e) /\ e.work = w /\ e.tasks = d.tasks
    <3>1. LET e == [d EXCEPT !.work = w] IN Kin(d, e) /\ e.work = w /\ e.tasks = d.tasks
      BY <2>1, <2>4, OtherWork
    <3> QED BY <3>1
  <2>6. e = [Done(t) EXCEPT !.work.added = @ \cup {PageOf[t.route]}]
    BY <2>1, <2>2, <2>3, <2>5 DEF World
  <2>7. PICK u \in Showing : /\ u = [t EXCEPT !.at = "start"] /\ u.at = "start"
                             /\ u.revision = t.revision /\ u.route = t.route
    <3> DEFINE q == [t EXCEPT !.at = "start"]
    <3>1. q \in Showing /\ q.at = "start" /\ q.revision = t.revision /\ q.route = t.route
      BY <2>1 DEF Showing
    <3> QED BY <3>1
  <2>8. Sound(e) /\ Fresh(e, u)
    BY <1>1, <2>1, <2>3, <2>5, <2>7 DEF Kin, Fresh, Pending, Current
  <2>9. PICK n : n = StartPage(e, u) /\ Become(n)
    BY <1>1, <2>6, <2>7 DEF PageLoads, Become
  <2>10. Kin(e, n)
    BY <2>7, <2>8, <2>9, StartsPage
  <2>11. Secure(n)
    BY <1>1, <2>1, <2>5, <2>10, ImportsPermitted DEF Current, Kin, Secure, Permitted
  <2> QED BY <2>1, <2>5, <2>9, <2>10, <2>11, Arrives DEF Kin
<1>2. CASE ~Current(t)
  BY <1>2, DropKeepsInv DEF PageLoads
<1> QED BY <1>1, <1>2

LEMMA PageLoadFailsKeepsInv ==
  ASSUME Inv, root.up, NEW t \in tasks, PageLoadFails(t)
  PROVE  Inv'
<1>1. CASE Current(t)
  <2>1. PICK d : /\ d = Done(t) /\ Sound(d) /\ Secure(d) /\ Pending(d) = {} /\ d.root = root
                 /\ \A f \in Pages : d.apps[f].life = "stopped"
    BY <1>1, Alones DEF PageLoadFails, Current
  <2>2. PICK p : /\ p = Reported(d) /\ Kin(d, p) /\ Calm(d, p)
                 /\ p.tasks = d.tasks /\ p.apps = d.apps /\ p.work.life = d.work.life
    BY <2>1, Reports
  <2>3. Sound(p) /\ p.work \in Work /\ p \in World /\ Pending(p) = {}
    BY <2>1, <2>2 DEF Kin, Sound, World, Pending
  <2>4. PICK w \in Work : /\ w = [p.work EXCEPT !.key = None] /\ w.key = None
                          /\ w.life = p.work.life /\ w.current = p.work.current
                          /\ w.route = p.work.route
    <3> DEFINE q == [p.work EXCEPT !.key = None]
    <3>1. /\ q \in Work /\ q.key = None /\ q.life = p.work.life
          /\ q.current = p.work.current /\ q.route = p.work.route
      BY <2>3 DEF Work
    <3> QED BY <3>1
  <2>5. Kept(w) /\ Alone(w, p.apps)
    BY <2>1, <2>2, <2>3, <2>4 DEF Sound, Kept, Alone
  <2>6. PICK n : n = [p EXCEPT !.work = w] /\ Kin(p, n) /\ Calm(p, n) /\ n.work = w
    <3>1. LET n == [p EXCEPT !.work = w] IN Kin(p, n) /\ Calm(p, n) /\ n.work = w
      BY <2>3, <2>5, OtherWork
    <3> QED BY <3>1
  <2>7. n = [Reported(Done(t)) EXCEPT !.work.key = None]
    BY <2>1, <2>2, <2>3, <2>4, <2>6 DEF World
  <2>8. Become(n)
    BY <1>1, <2>7 DEF PageLoadFails, Become
  <2>9. Kin(d, n) /\ Calm(d, n) /\ n.work.life = d.work.life
    BY <2>2, <2>4, <2>6 DEF Kin, Calm
  <2>10. Secure(n)
    BY <2>1, <2>9, Settles
  <2> QED BY <2>1, <2>8, <2>9, <2>10, Arrives
<1>2. CASE ~Current(t)
  BY <1>2, DropKeepsInv DEF PageLoadFails
<1> QED BY <1>1, <1>2

\* The world once nobody waits any more for the start of f.
LEMMA Woken ==
  ASSUME Inv, root.up, NEW f \in Pages, apps[f].life = "starting"
  PROVE  \E d : /\ d = [Now EXCEPT !.tasks = @ \ WaitingFor(f)]
                /\ Sound(d) /\ Secure(d) /\ d.root = root
                /\ d.work = work /\ d.apps = apps /\ d.status = status /\ d.online = online
                /\ work.life = "running" /\ work.current = f /\ work.key = apps[f].at
                /\ \A g \in Pages : g # f => d.apps[g].life = "stopped"
<1>1. PICK k : /\ k = Now /\ Sound(k) /\ Secure(k) /\ k \in World
               /\ k.work = work /\ k.apps = apps /\ k.tasks = tasks /\ k.root = root
               /\ k.status = status /\ k.online = online
  BY Before
<1>2. PICK ts \in SUBSET k.tasks : ts = tasks \ WaitingFor(f)
  BY <1>1
<1>3. PICK d : /\ d = [k EXCEPT !.tasks = ts] /\ Kin(k, d) /\ Calm(k, d)
               /\ d.work = k.work /\ d.apps = k.apps /\ d.root = k.root
  <2>1. LET n == [k EXCEPT !.tasks = ts] IN
        /\ Kin(k, n) /\ Calm(k, n)
        /\ n.work = k.work /\ n.apps = k.apps /\ n.root = k.root
    BY <1>1, FewerTasks
  <2> QED BY <2>1
<1>4. d = [Now EXCEPT !.tasks = @ \ WaitingFor(f)]
  BY <1>1, <1>2, <1>3
<1>5. Sound(d) /\ d.status = status /\ d.online = online
  BY <1>1, <1>3 DEF Kin
<1>6. Secure(d)
  BY <1>1, <1>3, Settles
<1>7. work.life = "running" /\ work.current = f /\ work.key = apps[f].at
  BY <1>1 DEF Sound, Alone
<1>8. \A g \in Pages : g # f => d.apps[g].life = "stopped"
  BY <1>1, <1>3, <1>7 DEF Sound, Alone
<1> QED BY <1>1, <1>3, <1>4, <1>5, <1>6, <1>7, <1>8

LEMMA PageStartsKeepsInv ==
  ASSUME Inv, root.up, NEW f \in Pages, PageStarts(f)
  PROVE  Inv'
<1>1. PICK d : /\ d = [Now EXCEPT !.tasks = @ \ WaitingFor(f)]
               /\ Sound(d) /\ Secure(d) /\ d.root = root /\ d.work = work /\ d.apps = apps
               /\ work.life = "running" /\ work.current = f /\ work.key = apps[f].at
  BY Woken DEF PageStarts
<1>2. d \in World /\ d.apps \in [Pages -> App]
  BY <1>1 DEF Sound, World
<1>3. PICK a \in App : a = [apps[f] EXCEPT !.life = "running"] /\ a.at = apps[f].at
  <2> DEFINE q == [apps[f] EXCEPT !.life = "running"]
  <2>1. q \in App /\ q.at = apps[f].at
    BY <1>1, <1>2 DEF App, Lives
  <2> QED BY <2>1
<1>4. PICK n : n = [d EXCEPT !.apps[f] = a] /\ Kin(d, n) /\ Calm(d, n) /\ n.work = d.work
  <2>1. Sound(d) /\ d.work.life = "running" /\ d.work.current = f /\ d.work.key = a.at
    BY <1>1, <1>3
  <2>2. LET n == [d EXCEPT !.apps[f] = a] IN Kin(d, n) /\ Calm(d, n) /\ n.work = d.work
    BY <2>1, OtherApp
  <2> QED BY <2>2
<1>5. d.apps = Now.apps
  BY <1>1 DEF Now
<1>6. n = [Now EXCEPT !.apps[f].life = "running", !.tasks = @ \ WaitingFor(f)]
  BY <1>1, <1>2, <1>3, <1>4, <1>5 DEF Now
<1>7. Become(n)
  BY <1>6 DEF PageStarts, Become
<1>8. Secure(n)
  BY <1>1, <1>4, Settles
<1> QED BY <1>1, <1>4, <1>7, <1>8, Arrives

LEMMA PageFailsKeepsInv ==
  ASSUME Inv, root.up, NEW f \in Pages, PageFails(f)
  PROVE  Inv'
<1> DEFINE waiting == WaitingFor(f)
           guarded == { t \in waiting : f \in Guarded /\ ~t.again }
           handled == { t \in guarded : work.current = f /\ work.key = t.route }
           thrown == { t \in waiting \ guarded : t.epoch }
           left == [work EXCEPT !.reported = @ \/ handled \cup thrown # {},
                                !.key = IF handled # {} THEN None ELSE @]
<1>1. PICK d : /\ d = [Now EXCEPT !.tasks = @ \ waiting]
               /\ Sound(d) /\ Secure(d) /\ d.root = root /\ d.work = work /\ d.apps = apps
               /\ work.current = f
               /\ \A g \in Pages : g # f => d.apps[g].life = "stopped"
  BY Woken DEF PageFails
<1>2. PICK a \in App : a = Stopped /\ a.life = "stopped"
  <2>1. Stopped \in App /\ Stopped.life = "stopped"
    BY DEF App, Lives, Stopped
  <2> QED BY <2>1
<1>3. PICK e : /\ e = [d EXCEPT !.apps[f] = a]
               /\ Kin(d, e) /\ Calm(d, e) /\ e.work = d.work /\ e.root = d.root
  <2>1. Sound(d) /\ a.life = "stopped"
    BY <1>1, <1>2
  <2>2. LET e == [d EXCEPT !.apps[f] = a] IN
        Kin(d, e) /\ Calm(d, e) /\ e.work = d.work /\ e.root = d.root
    BY <2>1, OtherApp
  <2> QED BY <2>2
<1>4. Sound(e) /\ \A g \in Pages : e.apps[g].life = "stopped"
  BY <1>1, <1>2, <1>3 DEF Kin, Sound, World
<1>5. e = [Now EXCEPT !.apps[f] = Stopped, !.tasks = @ \ waiting]
  BY <1>1, <1>2, <1>3 DEF Now
<1>6. /\ e \in World /\ e.work \in Work /\ e.root \in Root /\ e.work = work /\ e.root = root
  BY <1>1, <1>3, <1>4 DEF Sound, World
<1>7. PICK key \in Routes \cup {None} :
        /\ key = IF handled # {} THEN None ELSE e.work.key
        /\ key \in {None, e.work.key}
  <2> HIDE DEF handled
  <2> QED BY <1>6 DEF Work
<1>8. PICK told \in BOOLEAN : told = (e.work.reported \/ handled \cup thrown # {})
  <2> HIDE DEF handled, thrown
  <2> QED OBVIOUS
<1>9. PICK w \in Work : /\ w = [e.work EXCEPT !.reported = told, !.key = key] /\ w.key = key
                        /\ w.life = e.work.life /\ w.current = e.work.current
                        /\ w.route = e.work.route
  <2> DEFINE q == [e.work EXCEPT !.reported = told, !.key = key]
  <2>1. /\ q \in Work /\ q.key = key /\ q.life = e.work.life
        /\ q.current = e.work.current /\ q.route = e.work.route
    BY <1>6 DEF Work
  <2> QED BY <2>1
<1>10. /\ Kept(w) /\ Alone(w, e.apps)
       /\ \A t \in Pending(e) : t.at = "module" => w.current = None
  BY <1>4, <1>6, <1>7, <1>9 DEF Sound, Kept, Alone, Single
<1>11. PICK q : /\ q = [e EXCEPT !.work = w]
                /\ Kin(e, q) /\ Calm(e, q) /\ q.work = w /\ q.root = e.root
  <2>1. LET q == [e EXCEPT !.work = w] IN
        Kin(e, q) /\ Calm(e, q) /\ q.work = w /\ q.root = e.root
    BY <1>4, <1>6, <1>10, OtherWork
  <2> QED BY <2>1
<1>12. Sound(q)
  BY <1>11 DEF Kin
<1>13. PICK r \in Root : /\ r = [e.root EXCEPT !.destination = IF thrown # {} THEN "" ELSE @]
                         /\ r.up = e.root.up
  <2> DEFINE o == [e.root EXCEPT !.destination = IF thrown # {} THEN "" ELSE @]
  <2>1. o \in Root /\ o.up = e.root.up
    BY <1>6 DEF Root
  <2> QED BY <2>1
<1>14. PICK n : n = [q EXCEPT !.root = r] /\ Kin(q, n) /\ Calm(q, n) /\ n.work = q.work
  <2>1. LET n == [q EXCEPT !.root = r] IN Kin(q, n) /\ Calm(q, n) /\ n.work = q.work
    <3>1. Sound(q) /\ r.up = q.root.up
      BY <1>11, <1>12, <1>13
    <3> QED BY <3>1, OtherRoot
  <2> QED BY <2>1
<1>15. n = [Now EXCEPT
         !.apps[f] = Stopped, !.tasks = @ \ waiting, !.work = left,
         !.root.destination = IF thrown # {} THEN "" ELSE @]
  <2>1. Now.work = work /\ Now.root = root
    BY DEF Now
  <2>2. w = left
    <3> HIDE DEF handled, thrown
    <3> QED BY <1>6, <1>7, <1>8, <1>9, <2>1 DEF Work
  <2>3. r = [Now.root EXCEPT !.destination = IF thrown # {} THEN "" ELSE @]
    BY <1>6, <1>13, <2>1
  <2>4. n = [Now EXCEPT !.apps[f] = Stopped, !.tasks = @ \ waiting, !.work = w, !.root = r]
    <3> HIDE DEF waiting
    <3> QED BY <1>5, <1>11, <1>14 DEF Now
  <2>5. n = [Now EXCEPT !.apps[f] = Stopped, !.tasks = @ \ waiting, !.work = w,
                        !.root.destination = IF thrown # {} THEN "" ELSE @]
    <3> HIDE DEF thrown, waiting
    <3> QED BY <2>3, <2>4
  <2> HIDE DEF thrown, left, waiting
  <2> QED BY <2>2, <2>5
<1>16. Become(n)
  BY <1>15 DEF PageFails
<1>17. Kin(d, n) /\ Calm(d, n) /\ n.work.life = d.work.life
  <2>1. Kin(d, n) /\ Calm(d, n)
    BY <1>3, <1>11, <1>14 DEF Kin, Calm
  <2>2. n.work.life = d.work.life
    BY <1>3, <1>9, <1>11, <1>14
  <2> QED BY <2>1, <2>2
<1>18. Secure(n)
  BY <1>1, <1>17, Settles
<1> QED BY <1>1, <1>16, <1>17, <1>18, Arrives

LEMMA DefaultFoundKeepsInv ==
  ASSUME Inv, root.up, NEW t \in tasks, DefaultFound(t)
  PROVE  Inv'
<1>1. t \in Task /\ t \in Showing
  BY TasksTyped, Kinds DEF DefaultFound
<1>2. Default[t.route] \in Routes \cup {Login}
  BY <1>1, Routed DEF DefaultFound, Showing
<1>3. PICK to \in Routes \cup {Login} : to = Default[t.route]
  BY <1>2
<1>4. CASE t.revision
  <2>1. Become(Commit(Done(t), to))
    BY <1>3, <1>4 DEF DefaultFound
  <2> QED BY <2>1, CommitKeepsInv
<1>5. CASE ~t.revision
  BY <1>5, DropKeepsInv DEF DefaultFound
<1> QED BY <1>4, <1>5

LEMMA FlushedKeepsInv ==
  ASSUME Inv, root.up, NEW t \in tasks, Flushed(t)
  PROVE  Inv'
<1>1. t.route \in Routes \cup {Login}
  BY TasksTyped, Routed DEF Flushed
<1>2. CASE Latest(t)
  <2>1. PICK d : d = Done(t) /\ Sound(d) /\ Ready(d) /\ d.root = root
    BY Dones
  <2>2. PICK n : n = Go(d, t.route) /\ Become(n)
    BY <1>2, <2>1 DEF Flushed, Become
  <2>3. PICK to \in Routes \cup {Login} : to = t.route
    BY <1>1
  <2>4. Kin(d, n) /\ Secure(n)
    BY <2>1, <2>2, <2>3, Goes
  <2> QED BY <2>1, <2>2, <2>4, Arrives
<1>3. CASE ~Latest(t)
  BY <1>3, DropKeepsInv DEF Flushed
<1> QED BY <1>2, <1>3

\* The user stays where the address is.
LEMMA StaysKeepsInv ==
  ASSUME Inv, root.up, NEW t \in tasks, Become([Done(t) EXCEPT !.wish = url])
  PROVE  Inv'
<1>1. PICK d \in World : d = Done(t) /\ Sound(d) /\ Secure(d) /\ d.root = root
  BY Dones DEF Sound
<1>2. PICK n : n = [d EXCEPT !.wish = url]
  OBVIOUS
<1>3. url \in Routes \cup {Login}
  BY Before DEF World
<1>4. /\ n \in World /\ n.work = d.work /\ n.apps = d.apps /\ n.tasks = d.tasks /\ n.root = d.root
      /\ n.status = d.status /\ n.online = d.online
  BY <1>1, <1>2, <1>3 DEF World
<1>5. Sound(n) /\ (Imports(n) <=> Imports(d))
  BY <1>1, <1>4, SameContent
<1>6. Kin(d, n) /\ Secure(n)
  BY <1>1, <1>4, <1>5 DEF Kin, Secure, Permitted
<1>7. Become(n)
  BY <1>1, <1>2 DEF Become
<1> QED BY <1>1, <1>6, <1>7, Arrives

LEMMA StartKeepsInv ==
  ASSUME Inv, Start
  PROVE  Inv'
<1>1. PICK st \in {"authenticated", "anonymous"} :
        Become(Dispatch([Now EXCEPT !.status = st, !.root.up = TRUE]))
  BY DEF Start
<1>2. PICK k \in World :
        /\ k = Now /\ Sound(k) /\ Secure(k) /\ Begun(k) /\ k.root \in Root
        /\ k.root = root
  BY Before
<1>3. k.work.life = "stopped" /\ ~Imports(k)
  BY <1>2 DEF Start, Begun, Secure, Permitted
<1>4. PICK r \in Root : r = [k.root EXCEPT !.up = TRUE] /\ r.up
  <2> DEFINE q == [k.root EXCEPT !.up = TRUE]
  <2>1. q \in Root /\ q.up
    BY <1>2 DEF Root
  <2> QED BY <2>1
<1>5. PICK s : s = [k EXCEPT !.status = st, !.root = r]
  OBVIOUS
<1>6. /\ s \in World /\ s.work = k.work /\ s.apps = k.apps /\ s.tasks = k.tasks /\ s.root = r
  BY <1>5 DEF World
<1>7. s = [Now EXCEPT !.status = st, !.root.up = TRUE]
  BY <1>2, <1>4, <1>5 DEF World
<1>8. Sound(s) /\ Ready(s)
  BY <1>2, <1>3, <1>6, SameContent DEF Ready
<1>9. PICK n : n = Dispatch(s) /\ Become(n)
  BY <1>1, <1>7 DEF Become
<1>10. Kin(s, n) /\ Secure(n)
  BY <1>8, <1>9, Dispatches
<1> QED BY <1>4, <1>6, <1>9, <1>10, Arrives

-----------------------------------------------------------------------------
(* The theorems.                                                           *)

LEMMA InitInv ==
  ASSUME Init
  PROVE  Inv
<1>1. PICK r \in Root : r = root
  BY DEF Init, Root
<1>2. PICK w \in Work : /\ w = work /\ w.life = "stopped" /\ w.route = None /\ w.key = None
                        /\ w.current = None
  <2>1. /\ work.life = "stopped" /\ work.route = None /\ work.key = None /\ work.current = None
        /\ work.added = Eager
    BY DEF Init
  <2>2. Eager \in SUBSET Pages
    BY NavigationAssumption
  <2>3. work \in Work
    BY <2>2 DEF Init, Work, Lives
  <2> QED BY <2>1, <2>3
<1>3. PICK a \in [Pages -> App] : a = apps /\ \A f \in Pages : a[f].life = "stopped"
  <2>1. Stopped \in App /\ Stopped.life = "stopped"
    BY DEF Stopped, App, Lives
  <2>2. apps = [f \in Pages |-> Stopped]
    BY DEF Init
  <2>3. apps \in [Pages -> App] /\ \A f \in Pages : apps[f].life = "stopped"
    BY <2>1, <2>2
  <2> QED BY <2>3
<1>4. PICK k : k = Now
  OBVIOUS
<1>5. /\ k \in World /\ k.work = w /\ k.apps = a /\ k.tasks = {} /\ k.root = r
      /\ k.status = "loading"
  BY <1>1, <1>2, <1>3, <1>4 DEF Now, Init, World
<1>6. Sound(k) /\ Secure(k) /\ Begun(k)
  BY <1>2, <1>3, <1>5 DEF Sound, Kept, Alone, Single, Pending, Secure, Imports, Begun
<1> QED BY <1>4, <1>6 DEF Inv

LEMMA UsersKeepInv ==
  ASSUME Inv, root.up, Users
  PROVE  Inv'
<1>1. ASSUME NEW to \in Routes, Navigate(to) \/ Back(to)
      PROVE  Inv'
  BY <1>1, NavigateKeepsInv, BackKeepsInv
<1>2. CASE Back(Login)
  BY <1>2, BackKeepsInv
<1> QED
  BY <1>1, <1>2, CloseTaskKeepsInv, SignInKeepsInv, SignsOut, OtherIdentityKeepsInv,
     GoOfflineKeepsInv, GoOnlineKeepsInv DEF Users, SignOut

LEMMA ContinuesKeepsInv ==
  ASSUME Inv, root.up, Continues
  PROVE  Inv'
<1>1. CASE SessionRead \/ SessionFails \/ WorkspaceStarts
  BY <1>1, SessionReadKeepsInv, SignsOut, WorkspaceStartsKeepsInv DEF SessionFails
<1>2. ASSUME NEW t \in tasks
      PROVE  /\ WorkspaceLoads(t) \/ WorkspaceLoadFails(t) \/ Resume(t) => Inv'
             /\ PageLoads(t) \/ PageLoadFails(t) => Inv'
             /\ DefaultFound(t) \/ DefaultFails(t) => Inv'
             /\ Flushed(t) \/ FlushFails(t) \/ CloseFlushed(t) \/ CloseFails(t) => Inv'
  <2>1. WorkspaceLoads(t) \/ WorkspaceLoadFails(t) \/ Resume(t) => Inv'
    BY WorkspaceLoadsKeepsInv, ThrowKeepsInv, ResumeKeepsInv DEF WorkspaceLoadFails
  <2>2. PageLoads(t) \/ PageLoadFails(t) => Inv'
    BY PageLoadsKeepsInv, PageLoadFailsKeepsInv
  <2>3. DefaultFails(t) => Inv'
    BY ThrowKeepsInv, DropKeepsInv DEF DefaultFails
  <2>4. FlushFails(t) \/ CloseFails(t) => Inv'
    BY StaysKeepsInv, DropKeepsInv DEF FlushFails, CloseFails
  <2>5. CloseFlushed(t) => Inv'
    BY Routed, CommitKeepsInv, DropKeepsInv DEF CloseFlushed
  <2> QED BY <2>1, <2>2, <2>3, <2>4, <2>5, DefaultFoundKeepsInv, FlushedKeepsInv
<1>3. ASSUME NEW f \in Pages, PageStarts(f) \/ PageFails(f)
      PROVE  Inv'
  BY <1>3, PageStartsKeepsInv, PageFailsKeepsInv
<1> QED BY <1>1, <1>2, <1>3 DEF Continues

LEMMA NextKeepsInv ==
  ASSUME Inv, [Next]_vars
  PROVE  Inv'
<1>1. CASE Start
  BY <1>1, StartKeepsInv
<1>2. CASE root.up /\ Users
  BY <1>2, UsersKeepInv
<1>3. CASE root.up /\ Continues
  BY <1>3, ContinuesKeepsInv
<1>4. CASE UNCHANGED vars
  BY <1>4 DEF vars, Inv, Now, Sound, Secure, Begun, Imports, Permitted, Single, Pending, Kept, Alone
<1> QED BY <1>1, <1>2, <1>3, <1>4 DEF Next

\* Whatever is loaded, stopped or left in whatever order, the content region
\* belongs to one route and an import that may still go on is of a session.
THEOREM Invariance == Spec => []Inv
<1>1. Init => Inv
  BY InitInv
<1>2. Inv /\ [Next]_vars => Inv'
  BY NextKeepsInv
<1> QED BY <1>1, <1>2, PTL DEF Spec

\* Types; a workspace that was stopped has no route, no page and no content
\* (onBeforeStop of the workspace).
THEOREM TypeCorrect == Spec => []TypeOK
<1>1. Inv => TypeOK
  <2> SUFFICES ASSUME Inv PROVE TypeOK
    OBVIOUS
  <2>1. PICK k \in World :
           /\ k.work \in Work /\ Kept(k.work)
           /\ k.url = url /\ k.status = status /\ k.online = online /\ k.root = root
           /\ k.work = work /\ k.apps = apps /\ k.wish = wish
    BY Before DEF Sound
  <2>2. /\ url \in Routes \cup {Login} /\ wish \in Routes \cup {Login}
        /\ status \in {"loading", "authenticated", "anonymous"} /\ online \in BOOLEAN
        /\ root \in Root /\ apps \in [Pages -> App]
    BY <2>1 DEF World
  <2>3. work.life # "running" => {work.route, work.key, work.current} = {None}
    BY <2>1 DEF Kept
  <2>4. work \in Work
    BY <2>1
  <2> QED BY <2>2, <2>3, <2>4 DEF TypeOK, Root, Work, App
<1> QED BY <1>1, Invariance, PTL

\* An import or a load that is finished after the user has signed out, in
\* this tab or another, or after the network has gone, brings nothing of the
\* workspace back (dispatch() and connectionChanged()).
THEOREM SignedOutHolds == Spec => []SignedOutShowsNothing
<1>1. Inv => SignedOutShowsNothing
  BY ImportsPermitted DEF SignedOutShowsNothing, Inv, Sound, World, Work, Lives
<1> QED BY <1>1, Invariance, PTL

\* However many pages are asked for before the first is there, at most one
\* runs or loads, for the route the content region belongs to (showRoute()).
THEOREM OnlyTheRoutesPageHolds == Spec => []OnlyTheRoutesPage
<1>1. Inv => OnlyTheRoutesPage
  <2> SUFFICES ASSUME Inv PROVE OnlyTheRoutesPage
    OBVIOUS
  <2>1. PICK k : Sound(k) /\ k.work = work /\ k.apps = apps
    BY Before
  <2> QED BY <2>1 DEF Sound, Alone, OnlyTheRoutesPage
<1> QED BY <1>1, Invariance, PTL

-----------------------------------------------------------------------------
(* Where a tab is heading.                                                 *)

Latests(s) == { t \in s.tasks : t \in Committing /\ t.navigation }
Closes(s) == { t \in s.tasks : t \in Closing }
Errands(s) == Latests(s) \cup Closes(s)
Following(s) == { t \in s.tasks : t \in Dispatching /\ t.epoch }
Edited(a) == \E f \in Editing : a[f].life = "running"

\* The last dispatch, and the last navigation or the task that is closed, are
\* the only ones, and do not wait at once.
Ordered(s) ==
  /\ \A t, u \in Following(s) : t = u
  /\ \A t, u \in Errands(s) : t = u
  /\ Errands(s) # {} => Following(s) = {} /\ \A t \in Pending(s) : t.at # "default"

\* Continuations wait for what the workspace is at.
Placed(s) ==
  /\ s.work.life # "stopped" => s.root.module
  /\ Following(s) # {} => Pending(s) = {} /\ s.work.current = None
  /\ \A t \in Pending(s) : t.route = s.work.route
  /\ \A t \in s.tasks : t.at = "flush" => Edited(s.apps)

Traced(s) == Ordered(s) /\ Placed(s)

Aims(s, a) ==
  \/ a \in {s.wish, Target(s.wish)}
  \/ Target(s.wish) \in DOMAIN Default /\ a = Default[Target(s.wish)]

\* The address, or a navigation that waits, is what was asked for.
Bound(s) ==
  /\ s.status = "authenticated" => \A t \in Latests(s) : Aims(s, t.route)
  /\ s.work.life = "running" /\ Closes(s) # {} => s.wish = Parent
  /\ s.status = "authenticated" /\ s.root.up =>
       \/ Aims(s, s.url) \/ Latests(s) # {}
       \/ Closes(s) # {} /\ s.work.life = "running"
  /\ Permitted(s) /\ s.root.up => s.url # Login

\* The workspace shows, or is about to show, the address.
Addressed(s) ==
  /\ Following(s) # {} => Permitted(s)
  /\ \A t \in Following(s) : t.route = s.url
  /\ s.work.route # None => s.work.route = s.url

Unborn(s) == ~s.root.up => s.tasks = {} /\ s.url = s.wish /\ s.work.life = "stopped"

Heads(s) == Traced(s) /\ Bound(s) /\ Addressed(s) /\ Unborn(s)
Heading == Heads(Now)

-----------------------------------------------------------------------------
(* What operators make of the continuations.                               *)

\* What becomes of a continuation.
Stems(u, t) ==
  /\ u.is = t.is
  /\ t.is # "close" => u.route = t.route
  /\ t.is = "dispatch" /\ u.epoch => t.epoch
  /\ t.is = "show" => (u.revision => t.revision) /\ u.at = t.at
  /\ t.is = "commit" /\ u.navigation => t.navigation

\* Nothing new waits.
Descends(s, n) ==
  /\ Ordered(n)
  /\ Following(s) = {} => Following(n) = {}
  /\ \A u \in Pending(n) : \E t \in Pending(s) : u.route = t.route /\ u.at = t.at
  /\ Latests(s) = {} => Latests(n) = {}
  /\ Closes(s) = {} => Closes(n) = {}

LEMMA Mapped ==
  ASSUME NEW s, s.tasks \subseteq Task, Ordered(s), NEW n, NEW d \in SUBSET s.tasks, NEW g \in [d -> Task],
         n.tasks = { g[t] : t \in d }, \A t \in d : Stems(g[t], t)
  PROVE  Descends(s, n)
<1>1. ASSUME NEW u \in n.tasks
      PROVE  \E t \in s.tasks : /\ t \in d /\ u = g[t] /\ Stems(u, t) /\ t \in Task /\ u \in Task
                                /\ u \in Dispatching <=> t \in Dispatching
                                /\ u \in Showing <=> t \in Showing
                                /\ u \in Committing <=> t \in Committing
                                /\ u \in Closing <=> t \in Closing
  <2>1. PICK t \in d : u = g[t]
    OBVIOUS
  <2>2. t \in Task /\ u \in Task /\ Stems(u, t) /\ u.is = t.is
    BY <2>1 DEF Stems
  <2> QED BY <2>1, <2>2, Kinds
<1>2. \A u \in Following(n) : \E t \in Following(s) : t \in d /\ u = g[t]
  BY <1>1, Kinds DEF Following, Stems
<1>3. \A u \in Pending(n) : \E t \in Pending(s) : u.route = t.route /\ u.at = t.at
  <2> SUFFICES ASSUME NEW u \in Pending(n)
               PROVE  \E t \in Pending(s) : u.route = t.route /\ u.at = t.at
    OBVIOUS
  <2>1. PICK t \in s.tasks : Stems(u, t) /\ t \in Task /\ t \in Showing
    BY <1>1 DEF Pending
  <2>2. t.is = "show"
    BY <2>1, Kinds
  <2> QED BY <2>1, <2>2 DEF Pending, Stems
<1>4. \A u \in Latests(n) : \E t \in Latests(s) : t \in d /\ u = g[t]
  BY <1>1, Kinds DEF Latests, Stems
<1>5. \A u \in Closes(n) : \E t \in Closes(s) : t \in d /\ u = g[t]
  BY <1>1 DEF Closes
<1>6. Ordered(n)
  <2>1. \A t, u \in Following(n) : t = u
    BY <1>2 DEF Ordered
  <2>2. \A t, u \in Errands(n) : t = u
    BY <1>4, <1>5 DEF Ordered, Errands
  <2>3. ASSUME Errands(n) # {}
        PROVE  Following(n) = {} /\ \A t \in Pending(n) : t.at # "default"
    <3>1. Errands(s) # {}
      BY <1>4, <1>5, <2>3 DEF Errands
    <3> QED BY <1>2, <1>3, <3>1 DEF Ordered
  <2> QED BY <2>1, <2>2, <2>3 DEF Ordered
<1> QED BY <1>2, <1>3, <1>4, <1>5, <1>6 DEF Descends

\* n is of the address and the wish of s, and nothing new waits.
Brings(s, n) ==
  /\ Traced(n) /\ Descends(s, n)
  /\ n.url = s.url /\ n.wish = s.wish
  /\ s.root.module => n.root.module

LEMMA Places ==
  ASSUME NEW s, Traced(s), NEW n, Descends(s, n),
         n.url = s.url, n.wish = s.wish, s.root.module => n.root.module,
         n.work.life # "stopped" => s.work.life # "stopped",
         n.work.route = s.work.route \/ Pending(n) = {},
         n.work.current \in {None, s.work.current},
         \A t \in n.tasks : t.at = "flush" => Edited(n.apps)
  PROVE  Brings(s, n)
<1>1. \A t \in Pending(n) : t.route = n.work.route
  BY DEF Traced, Placed, Descends
<1>2. Following(n) # {} => Pending(n) = {} /\ n.work.current = None
  BY DEF Traced, Placed, Descends
<1> QED BY <1>1, <1>2 DEF Brings, Traced, Placed, Descends

\* The same continuations, in another world.
LEMMA SameTasks ==
  ASSUME NEW s, Ordered(s), NEW n, n.tasks = s.tasks
  PROVE  /\ Descends(s, n) /\ Following(n) = Following(s) /\ Pending(n) = Pending(s)
         /\ Latests(n) = Latests(s) /\ Closes(n) = Closes(s)
<1>1. /\ Following(n) = Following(s) /\ Pending(n) = Pending(s)
      /\ Latests(n) = Latests(s) /\ Closes(n) = Closes(s)
  BY DEF Following, Pending, Latests, Closes
<1> QED BY <1>1 DEF Descends, Ordered, Errands

LEMMA LessTasks ==
  ASSUME NEW s, Ordered(s), NEW n, n.tasks \subseteq s.tasks
  PROVE  Descends(s, n)
<1>1. /\ Following(n) \subseteq Following(s) /\ Pending(n) \subseteq Pending(s)
      /\ Latests(n) \subseteq Latests(s) /\ Closes(n) \subseteq Closes(s)
  BY DEF Following, Pending, Latests, Closes
<1>2. Ordered(n)
  BY <1>1 DEF Ordered, Errands
<1> QED BY <1>1, <1>2 DEF Descends

LEMMA Chains ==
  ASSUME NEW s, NEW p, NEW n, Brings(s, p), Brings(p, n)
  PROVE  Brings(s, n)
<1>1. \A u \in Pending(n) : \E t \in Pending(s) : u.route = t.route /\ u.at = t.at
  <2> SUFFICES ASSUME NEW u \in Pending(n)
               PROVE  \E t \in Pending(s) : u.route = t.route /\ u.at = t.at
    OBVIOUS
  <2>1. PICK v \in Pending(p) : u.route = v.route /\ u.at = v.at
    BY DEF Brings, Descends
  <2>2. PICK t \in Pending(s) : v.route = t.route /\ v.at = t.at
    BY DEF Brings, Descends
  <2> QED BY <2>1, <2>2
<1> QED BY <1>1 DEF Brings, Descends

LEMMA CountedStems ==
  ASSUME NEW t \in Task, NEW c \in Counters
  PROVE  LET n == Counted(t, c) IN
         /\ n \in Task /\ Stems(n, t) /\ n.at = t.at
         /\ t \in Dispatching /\ c = "epoch" => ~n.epoch
         /\ t \in Committing /\ c = "navigation" => ~n.navigation
<1> DEFINE n == Counted(t, c)
<1>1. n \in Task /\ n.is = t.is /\ n.at = t.at
  BY CountedTask
<1>2. CASE t \in Dispatching
  <2>1. DOMAIN t = {"is", "at", "route", "epoch"} /\ t.is = "dispatch" /\ t \notin Committing
    BY <1>2, Kinds DEF Dispatching
  <2>2. n.route = t.route /\ (n.epoch => t.epoch) /\ (c = "epoch" => ~n.epoch)
    BY <1>2, <2>1, CountedTask DEF Counted, Counters
  <2> QED BY <1>1, <2>1, <2>2 DEF Stems
<1>3. CASE t \in Showing
  <2>1. /\ DOMAIN t = {"is", "at", "route", "epoch", "revision", "again"} /\ t.is = "show"
        /\ t \notin Committing /\ t \notin Dispatching
    BY <1>3, Kinds DEF Showing
  <2>2. n.route = t.route /\ (n.revision => t.revision)
    BY <1>3, <2>1, CountedTask DEF Counted, Counters
  <2> QED BY <1>1, <2>1, <2>2 DEF Stems
<1>4. CASE t \in Committing
  <2>1. /\ DOMAIN t = {"is", "at", "route", "navigation"} /\ t.is = "commit" /\ t \notin Dispatching
    BY <1>4, Kinds DEF Committing
  <2>2. n.route = t.route /\ (n.navigation => t.navigation) /\ (c = "navigation" => ~n.navigation)
    BY <1>4, <2>1 DEF Counted, Counters
  <2> QED BY <1>1, <2>1, <2>2 DEF Stems
<1>5. CASE t \in Closing
  <2>1. t.is = "close" /\ t \notin Dispatching /\ t \notin Committing
    BY <1>5, Kinds
  <2> QED BY <1>1, <2>1 DEF Stems
<1> HIDE DEF n
<1> QED BY <1>1, <1>2, <1>3, <1>4, <1>5 DEF Task, n

-----------------------------------------------------------------------------
LEMMA CountBrings ==
  ASSUME NEW s, Sound(s), Traced(s), NEW c \in Counters
  PROVE  LET n == Count(s, c) IN
         /\ Brings(s, n) /\ n.work = s.work /\ n.apps = s.apps /\ n.root = s.root
         /\ c = "epoch" => Following(n) = {}
         /\ c = "navigation" => Latests(n) = {}
         /\ c = "revision" => Pending(n) = {}
<1> DEFINE g == [t \in s.tasks |-> Counted(t, c)]
           n == Count(s, c)
<1>1. s \in World /\ s.tasks \subseteq Task
  BY DEF Sound, World
<1>2. g \in [s.tasks -> Task]
  BY <1>1, CountedTask
<1>3. \A t \in s.tasks : Stems(g[t], t) /\ g[t].at = t.at
  BY <1>1, CountedStems
<1>4. n = [s EXCEPT !.tasks = { g[t] : t \in s.tasks }]
  BY DEF Count, Counted
<1>5. /\ n.tasks = { g[t] : t \in s.tasks } /\ n.url = s.url /\ n.wish = s.wish
      /\ n.work = s.work /\ n.apps = s.apps /\ n.root = s.root
  BY <1>1, <1>4 DEF World
<1>6. c = "revision" => Pending(n) = {}
  BY Counts
<1>7. \A u \in n.tasks : \E t \in s.tasks : /\ u = Counted(t, c) /\ u.at = t.at /\ u.is = t.is
                                            /\ t \in Task /\ u \in Task
  <2>1. \A t \in s.tasks : /\ Counted(t, c).at = t.at /\ Counted(t, c).is = t.is
                           /\ t \in Task /\ Counted(t, c) \in Task
    BY <1>1, CountedTask
  <2>2. n.tasks = { Counted(t, c) : t \in s.tasks }
    BY <1>5
  <2> HIDE DEF n, g
  <2> QED BY <2>1, <2>2
<1> HIDE DEF n, g
<1>8. Descends(s, n)
  BY <1>1, <1>2, <1>3, <1>5, Mapped DEF Traced
<1>9. \A u \in n.tasks : u.at = "flush" => Edited(n.apps)
  BY <1>5, <1>7 DEF Traced, Placed
<1>10. Brings(s, n)
  BY <1>5, <1>8, <1>9, Places
<1>11. ASSUME c = "epoch", NEW u \in Following(n)
       PROVE  FALSE
  <2>1. PICK t \in s.tasks : u = Counted(t, c) /\ u.is = t.is /\ t \in Task /\ u \in Task
    BY <1>7 DEF Following
  <2>2. t \in Dispatching /\ u.epoch
    BY <2>1, Kinds DEF Following
  <2> QED BY <1>11, <2>1, <2>2, CountedStems
<1>12. ASSUME c = "navigation", NEW u \in Latests(n)
       PROVE  FALSE
  <2>1. PICK t \in s.tasks : u = Counted(t, c) /\ u.is = t.is /\ t \in Task /\ u \in Task
    BY <1>7 DEF Latests
  <2>2. t \in Committing /\ u.navigation
    BY <2>1, Kinds DEF Latests
  <2> QED BY <1>12, <2>1, <2>2, CountedStems
<1> QED BY <1>5, <1>6, <1>10, <1>11, <1>12 DEF n

\* A flush of a page that is stopped has ended.
LEMMA StopPagesBrings ==
  ASSUME NEW s, Sound(s), Traced(s), NEW stopped \in SUBSET Pages
  PROVE  LET n == StopPages(s, stopped) IN
         Brings(s, n) /\ n.work = s.work /\ n.root = s.root
<1> DEFINE waits(t) == t.is = "show" /\ t.at = "start" /\ PageOf[t.route] \in stopped
           ends(t) == t.at = "flush" /\ \E f \in stopped \cap Editing : s.apps[f].life = "running"
           kept == { t \in s.tasks : ~waits(t) }
           g == [t \in kept |-> IF ends(t) THEN [t EXCEPT !.at = "flushed"] ELSE t]
           as == [f \in Pages |-> IF f \in stopped THEN Stopped ELSE s.apps[f]]
           n == StopPages(s, stopped)
<1>1. s \in World /\ s.tasks \subseteq Task
  BY DEF Sound, World
<1>2. \A t \in s.tasks : t.at = "flush" => t \in Committing \cup Closing
  BY <1>1 DEF Task, Dispatching, Showing, Committing, Closing
<1>3. \A t \in s.tasks : t.at = "flush" =>
        LET u == [t EXCEPT !.at = "flushed"] IN u \in Task /\ Stems(u, t) /\ u.at = "flushed"
  <2> SUFFICES ASSUME NEW t \in s.tasks, t.at = "flush"
               PROVE  LET u == [t EXCEPT !.at = "flushed"] IN
                      u \in Task /\ Stems(u, t) /\ u.at = "flushed"
    OBVIOUS
  <2>1. CASE t \in Committing
    BY <2>1 DEF Task, Committing, Stems
  <2>2. CASE t \in Closing
    BY <2>2 DEF Task, Closing, Stems
  <2> QED BY <1>2, <2>1, <2>2
<1>4. \A t \in s.tasks : Stems(t, t)
  BY DEF Stems
<1>5. g \in [kept -> Task]
  BY <1>1, <1>3
<1>6. \A t \in kept : Stems(g[t], t)
  BY <1>3, <1>4
<1>7. n = [s EXCEPT !.apps = as, !.tasks = { g[t] : t \in kept }]
  BY DEF StopPages
<1>8. /\ n.tasks = { g[t] : t \in kept } /\ n.url = s.url /\ n.wish = s.wish
      /\ n.work = s.work /\ n.apps = as /\ n.root = s.root
  BY <1>1, <1>7 DEF World
<1>9. \A u \in n.tasks : u.at = "flush" => \E t \in kept : t.at = "flush" /\ ~ends(t)
  BY <1>3, <1>8
<1>10. \A u \in n.tasks : u.at = "flush" => Edited(n.apps)
  <2> SUFFICES ASSUME NEW u \in n.tasks, u.at = "flush"
               PROVE  Edited(n.apps)
    OBVIOUS
  <2>1. PICK t \in s.tasks : t.at = "flush" /\ ~ends(t)
    BY <1>9
  <2>2. PICK f \in Editing : s.apps[f].life = "running"
    BY <2>1 DEF Traced, Placed, Edited
  <2>3. f \in Pages /\ f \notin stopped
    BY <2>1, <2>2, NavigationAssumption
  <2> QED BY <1>8, <2>2, <2>3 DEF Edited
<1> HIDE DEF n, g, as
<1>11. Descends(s, n)
  <2>1. kept \in SUBSET s.tasks
    OBVIOUS
  <2> HIDE DEF kept
  <2> QED BY <1>1, <1>5, <1>6, <1>8, <2>1, Mapped DEF Traced
<1> QED BY <1>8, <1>10, <1>11, Places DEF n

\* Without a route nothing of one is waited for.
LEMMA NoneWaits ==
  ASSUME NEW s, Sound(s), Traced(s), s.work.life # "running"
  PROVE  Pending(s) = {}
<1>1. s.work.route = None
  BY DEF Sound, Kept
<1>2. \A t \in Pending(s) : t.route \in Routes
  BY DEF Pending, Showing
<1> QED BY <1>1, <1>2, NavigationAssumption DEF Traced, Placed

LEMMA StopWorkBrings ==
  ASSUME NEW s, Sound(s), Traced(s)
  PROVE  LET n == StopWork(s) IN Brings(s, n) /\ n.root = s.root /\ n.work.life = "stopped"
<1> DEFINE n == StopWork(s)
<1>1. CASE s.work.life = "running"
  <2>1. PICK p : /\ p = StopPages(s, Pages) /\ Kin(s, p) /\ Brings(s, p)
                 /\ p.work = s.work /\ p.root = s.root
                 /\ \A f \in Pages : p.apps[f] = Stopped
    BY StopsPages, StopPagesBrings
  <2>2. Sound(p) /\ Traced(p)
    BY <2>1 DEF Kin, Brings
  <2>3. PICK q : /\ q = Count(p, "revision") /\ Kin(p, q) /\ Brings(p, q) /\ Pending(q) = {}
                 /\ q.work = p.work /\ q.apps = p.apps /\ q.root = p.root
    BY <2>2, Counts, CountBrings DEF Counters
  <2>4. n = [q EXCEPT !.work = Reset(q.work)]
    BY <1>1, <2>1, <2>3 DEF StopWork
  <2>5. q \in World /\ q.work \in Work
    BY <2>3 DEF Kin, Sound, World
  <2>6. /\ Reset(q.work).life = "stopped" /\ Reset(q.work).current = None
    BY <2>5 DEF Work, Reset, Lives
  <2>7. /\ n.work = Reset(q.work) /\ n.tasks = q.tasks /\ n.apps = q.apps /\ n.root = q.root
        /\ n.url = q.url /\ n.wish = q.wish
    BY <2>4, <2>5 DEF World
  <2> HIDE DEF n
  <2>8. Ordered(q) /\ \A t \in q.tasks : t.at = "flush" => Edited(q.apps)
    BY <2>3 DEF Brings, Traced, Placed
  <2>9. Descends(q, n) /\ Pending(n) = {}
    BY <2>3, <2>7, <2>8, SameTasks
  <2>10. Brings(q, n)
    BY <2>3, <2>6, <2>7, <2>8, <2>9, Places DEF Brings
  <2> QED BY <2>1, <2>3, <2>6, <2>7, <2>10, Chains DEF n
<1>2. CASE s.work.life # "running"
  <2> DEFINE g == [t \in s.tasks |-> IF t.is = "dispatch" /\ t.at = "start"
                                     THEN [t EXCEPT !.at = "late"] ELSE t]
             w == [s.work EXCEPT !.life = "stopped"]
  <2>1. s \in World /\ s.tasks \subseteq Task /\ s.work \in Work
    BY DEF Sound, World
  <2>2. \A t \in s.tasks : t.is = "dispatch" /\ t.at = "start" =>
          LET u == [t EXCEPT !.at = "late"] IN u \in Task /\ Stems(u, t) /\ u.at = "late"
    BY <2>1, Kinds DEF Dispatching, Task, Stems
  <2>3. g \in [s.tasks -> Task] /\ \A t \in s.tasks : Stems(g[t], t) /\ (g[t].at = "flush" => t.at = "flush")
    BY <2>1, <2>2 DEF Stems
  <2>4. n = [s EXCEPT !.work = w, !.tasks = { g[t] : t \in s.tasks }]
    BY <1>2, <2>1 DEF StopWork, World
  <2>5. /\ w.life = "stopped" /\ w.route = s.work.route /\ w.current = s.work.current
    BY <2>1 DEF Work
  <2>6. /\ n.work = w /\ n.tasks = { g[t] : t \in s.tasks } /\ n.apps = s.apps /\ n.root = s.root
        /\ n.url = s.url /\ n.wish = s.wish
    BY <2>1, <2>4 DEF World
  <2>7. \A u \in n.tasks : u.at = "flush" => Edited(n.apps)
    BY <2>3, <2>6 DEF Traced, Placed
  <2> HIDE DEF n, g, w
  <2>8. Descends(s, n)
    BY <2>1, <2>3, <2>6, Mapped DEF Traced
  <2> QED BY <2>5, <2>6, <2>7, <2>8, Places DEF n
<1> QED BY <1>1, <1>2

\* Another root, that has the module if s has it.
LEMMA OtherRootBrings ==
  ASSUME NEW s, Sound(s), Traced(s), NEW r \in Root, s.root.module => r.module
  PROVE  LET n == [s EXCEPT !.root = r] IN
         /\ Brings(s, n) /\ n.root = r /\ n.work = s.work
         /\ n.apps = s.apps /\ n.tasks = s.tasks
<1> DEFINE n == [s EXCEPT !.root = r]
<1>1. /\ n.tasks = s.tasks /\ n.work = s.work /\ n.apps = s.apps /\ n.root = r
      /\ n.url = s.url /\ n.wish = s.wish
  BY DEF Sound, World
<1> HIDE DEF n
<1>2. Descends(s, n) /\ \A t \in n.tasks : t.at = "flush" => Edited(n.apps)
  BY <1>1, SameTasks DEF Traced, Placed
<1> QED BY <1>1, <1>2, Places DEF n

LEMMA EnterBrings ==
  ASSUME NEW s, Sound(s), Traced(s), NEW kind \in {"workspace", "authentication"}
  PROVE  LET n == Enter(s, kind) IN
         /\ Brings(s, n) /\ n.root.module = s.root.module
<1>1. Brings(s, s)
  <2>1. Descends(s, s)
    BY LessTasks DEF Traced
  <2> QED BY <2>1 DEF Brings
<1>2. CASE s.root.destination = kind
  BY <1>1, <1>2 DEF Enter
<1>3. CASE s.root.destination # kind
  <2>1. PICK p : /\ p = StopDestination(s) /\ Kin(s, p) /\ Brings(s, p)
                 /\ p.root.module = s.root.module
    <3>1. CASE s.root.destination = "workspace"
      BY <3>1, StopsWork, StopWorkBrings DEF StopDestination
    <3>2. CASE s.root.destination = "authentication"
      <4>1. PICK r \in Root : /\ r = [s.root EXCEPT !.login = FALSE] /\ r.up = s.root.up
                              /\ r.module = s.root.module
        <5> DEFINE q == [s.root EXCEPT !.login = FALSE]
        <5>1. q \in Root /\ q.up = s.root.up /\ q.module = s.root.module
          BY DEF Sound, World, Root
        <5> QED BY <5>1
      <4>2. PICK p : p = [s EXCEPT !.root = r] /\ Kin(s, p) /\ Brings(s, p) /\ p.root = r
        <5>1. LET p == [s EXCEPT !.root = r] IN Kin(s, p) /\ p.root = r
          BY <4>1, OtherRoot
        <5>2. LET p == [s EXCEPT !.root = r] IN Brings(s, p)
          BY <4>1, OtherRootBrings
        <5> QED BY <5>1, <5>2
      <4>3. StopDestination(s) = p
        BY <3>2, <4>1, <4>2 DEF StopDestination, StopLogin, Sound, World
      <4> QED BY <4>1, <4>2, <4>3
    <3>3. CASE s.root.destination \notin {"workspace", "authentication"}
      BY <1>1, <3>3 DEF StopDestination, Kin
    <3> QED BY <3>1, <3>2, <3>3
  <2>2. Sound(p) /\ Traced(p)
    BY <2>1 DEF Kin, Brings
  <2>3. PICK r \in Root : /\ r = [p.root EXCEPT !.destination = kind]
                          /\ r.module = p.root.module
    <3> DEFINE q == [p.root EXCEPT !.destination = kind]
    <3>1. q \in Root /\ q.module = p.root.module
      BY <2>2 DEF Sound, World, Root
    <3> QED BY <3>1
  <2>4. Enter(s, kind) = [p EXCEPT !.root = r]
    BY <1>3, <2>1, <2>2, <2>3 DEF Enter, Sound, World
  <2>5. LET n == [p EXCEPT !.root = r] IN Brings(p, n) /\ n.root = r
    <3>1. p.root.module => r.module
      BY <2>3
    <3> QED BY <2>2, <3>1, OtherRootBrings
  <2> QED BY <2>1, <2>3, <2>4, <2>5, Chains
<1> QED BY <1>2, <1>3

-----------------------------------------------------------------------------
(* Showing and following.                                                  *)

\* n is of the address and the wish of s, and no errand is new.
Leads(s, n) ==
  /\ Traced(n)
  /\ Latests(s) = {} => Latests(n) = {}
  /\ Closes(s) = {} => Closes(n) = {}
  /\ n.url = s.url /\ n.wish = s.wish
  /\ s.root.module => n.root.module

Errandless(s) == Latests(s) = {} /\ Closes(s) = {}

LEMMA BringsLeads ==
  ASSUME NEW s, NEW n, Brings(s, n)
  PROVE  Leads(s, n)
  BY DEF Brings, Descends, Leads

LEMMA LeadsOn ==
  ASSUME NEW s, NEW p, NEW n, Leads(s, p), Leads(p, n)
  PROVE  Leads(s, n)
  BY DEF Leads

LEMMA OtherWorkLeads ==
  ASSUME NEW s, Sound(s), Traced(s), NEW w \in Work,
         w.life # "stopped" => s.root.module,
         Following(s) # {} => w.current = None,
         w.route = s.work.route \/ Pending(s) = {}
  PROVE  LET n == [s EXCEPT !.work = w] IN
         /\ Leads(s, n) /\ n.work = w /\ n.tasks = s.tasks /\ n.root = s.root
         /\ Following(n) = Following(s) /\ Pending(n) = Pending(s)
         /\ Latests(n) = Latests(s) /\ Closes(n) = Closes(s)
<1> DEFINE n == [s EXCEPT !.work = w]
<1>1. /\ n.tasks = s.tasks /\ n.work = w /\ n.apps = s.apps /\ n.root = s.root
      /\ n.url = s.url /\ n.wish = s.wish
  BY DEF Sound, World
<1> HIDE DEF n
<1>2. /\ Descends(s, n) /\ Following(n) = Following(s) /\ Pending(n) = Pending(s)
      /\ Latests(n) = Latests(s) /\ Closes(n) = Closes(s)
  BY <1>1, SameTasks DEF Traced
<1>3. Ordered(n)
  BY <1>2 DEF Descends
<1>4. Placed(n)
  BY <1>1, <1>2 DEF Traced, Placed
<1> QED BY <1>1, <1>2, <1>3, <1>4 DEF Leads, Traced, n

LEMMA WaitsShowing ==
  ASSUME NEW s, Sound(s), Traced(s), Following(s) = {}, NEW t \in Showing,
         t.route = s.work.route, t.at = "default" => Errands(s) = {}
  PROVE  LET n == Waiting(s, t) IN
         /\ Leads(s, n) /\ n.work = s.work /\ n.root = s.root
         /\ Following(n) = {} /\ Latests(n) = Latests(s) /\ Closes(n) = Closes(s)
<1> DEFINE n == Waiting(s, t)
<1>1. /\ n.tasks = s.tasks \cup {t} /\ n.work = s.work /\ n.apps = s.apps /\ n.root = s.root
      /\ n.url = s.url /\ n.wish = s.wish
  BY DEF Sound, World, Waiting
<1> HIDE DEF n
<1>2. t \in Task /\ t \notin Dispatching /\ t \notin Committing /\ t \notin Closing /\ t.at # "flush"
  <2>1. t \in Task /\ t.at # "flush"
    BY DEF Task, Showing
  <2>2. t.is = "show"
    BY DEF Showing
  <2> QED BY <2>1, <2>2, Kinds
<1>3. Following(n) = {} /\ Latests(n) = Latests(s) /\ Closes(n) = Closes(s)
  BY <1>1, <1>2 DEF Following, Latests, Closes
<1>4. Pending(n) \subseteq Pending(s) \cup {t}
  BY <1>1 DEF Pending
<1>5. Ordered(n)
  BY <1>3, <1>4 DEF Traced, Ordered, Errands
<1>6. Placed(n)
  BY <1>1, <1>2, <1>3, <1>4 DEF Traced, Placed
<1> QED BY <1>1, <1>3, <1>5, <1>6 DEF Leads, Traced, n

LEMMA StartPageLeads ==
  ASSUME NEW s, Sound(s), Traced(s), NEW t \in Showing, t.at = "start", Fresh(s, t),
         t.route = s.work.route, Following(s) = {}
  PROVE  LET n == StartPage(s, t) IN
         /\ Leads(s, n) /\ n.root = s.root
         /\ n.work.life = s.work.life /\ n.work.route = s.work.route
         /\ Following(n) = {} /\ Latests(n) = Latests(s) /\ Closes(n) = Closes(s)
<1> DEFINE f == PageOf[t.route]
<1>1. /\ s \in World /\ s.work \in Work /\ f \in Pages /\ t.route \in Routes /\ t.route # None
      /\ f # None
  BY NavigationAssumption DEF Sound, World, Showing
<1>2. PICK w \in Work : /\ w = [s.work EXCEPT !.current = f] /\ w.life = s.work.life
                        /\ w.route = s.work.route /\ w.key = t.route /\ w.current = f
  <2> DEFINE q == [s.work EXCEPT !.current = f]
  <2>1. /\ q \in Work /\ q.life = s.work.life /\ q.route = s.work.route
        /\ q.key = t.route /\ q.current = f
    BY <1>1 DEF Work, Fresh
  <2> QED BY <2>1
<1>3. Kept(w) /\ Alone(w, s.apps) /\ w.life = "running"
  <2>1. s.work.current \in {None, f}
    BY <1>1 DEF Fresh, Sound, Kept
  <2> QED BY <1>1, <1>2, <2>1, NavigationAssumption DEF Kept, Sound, Alone, Fresh
<1>4. PICK n : /\ n = [s EXCEPT !.work = w] /\ Kin(s, n) /\ Leads(s, n) /\ n.work = w
               /\ n.root = s.root /\ n.apps = s.apps /\ n.tasks = s.tasks
               /\ Following(n) = {} /\ Latests(n) = Latests(s) /\ Closes(n) = Closes(s)
  <2>1. \A u \in Pending(s) : u.at = "module" => w.current = None
    BY DEF Fresh
  <2>2. LET n == [s EXCEPT !.work = w] IN
        Kin(s, n) /\ n.work = w /\ n.apps = s.apps /\ n.root = s.root /\ n.tasks = s.tasks
    BY <1>3, <2>1, OtherWork
  <2>3. w.life # "stopped" => s.root.module
    BY <1>2 DEF Traced, Placed
  <2>4. LET n == [s EXCEPT !.work = w] IN
        /\ Leads(s, n)
        /\ Following(n) = Following(s) /\ Latests(n) = Latests(s) /\ Closes(n) = Closes(s)
    BY <1>2, <2>3, OtherWorkLeads
  <2> QED BY <2>2, <2>4
<1>5. Sound(n) /\ Traced(n) /\ n \in World
  BY <1>4 DEF Kin, Leads, Sound
<1>6. n = [s EXCEPT !.work.current = f]
  BY <1>1, <1>2, <1>4 DEF World
<1>7. CASE s.apps[f].life = "running"
  BY <1>2, <1>4, <1>6, <1>7 DEF StartPage
<1>8. CASE s.apps[f].life = "starting"
  <2>1. StartPage(s, t) = Waiting(n, t)
    BY <1>6, <1>8 DEF StartPage
  <2>2. t.route = n.work.route /\ t.at # "default"
    BY <1>2, <1>4
  <2>3. PICK m : /\ m = Waiting(n, t)
                 /\ Leads(n, m) /\ m.work = n.work /\ m.root = n.root
                 /\ Following(m) = {} /\ Latests(m) = Latests(n) /\ Closes(m) = Closes(n)
    BY <1>4, <1>5, <2>2, WaitsShowing
  <2>4. Leads(s, m) /\ m.root = s.root /\ m.work.life = s.work.life /\ m.work.route = s.work.route
    BY <1>2, <1>4, <2>3, LeadsOn
  <2> QED BY <1>4, <2>1, <2>3, <2>4
<1>9. CASE s.apps[f].life = "stopped"
  <2>1. PICK a \in App : a = [life |-> "starting", at |-> t.route]
    BY <1>1 DEF App, Lives
  <2>2. PICK m : /\ m = [n EXCEPT !.apps[f] = a] /\ Kin(n, m)
                 /\ m.work = n.work /\ m.tasks = n.tasks /\ m.root = n.root
    <3>1. a.life # "stopped" =>
            n.work.life = "running" /\ n.work.current = f /\ n.work.key = a.at
      BY <1>2, <1>3, <1>4, <2>1
    <3>2. LET m == [n EXCEPT !.apps[f] = a] IN
          Kin(n, m) /\ m.work = n.work /\ m.tasks = n.tasks /\ m.root = n.root
      BY <1>1, <1>5, <3>1, OtherApp
    <3> QED BY <3>2
  <2>3. /\ m.url = n.url /\ m.wish = n.wish
        /\ \A g \in Pages : n.apps[g].life = "running" => m.apps[g].life = "running"
    BY <1>4, <1>5, <1>9, <2>2 DEF World
  <2>4. /\ Descends(n, m) /\ Following(m) = {} /\ Latests(m) = Latests(s) /\ Closes(m) = Closes(s)
    <3>1. Ordered(n) /\ m.tasks = n.tasks
      BY <1>5, <2>2 DEF Traced
    <3>2. /\ Descends(n, m) /\ Following(m) = Following(n)
          /\ Latests(m) = Latests(n) /\ Closes(m) = Closes(n)
      BY <3>1, SameTasks
    <3> QED BY <1>4, <3>2
  <2>5. \A u \in m.tasks : u.at = "flush" => Edited(m.apps)
    BY <1>5, <2>2, <2>3, NavigationAssumption DEF Traced, Placed, Edited
  <2>6. Brings(n, m)
    BY <1>5, <2>2, <2>3, <2>4, <2>5, Places
  <2>7. Sound(m) /\ Traced(m) /\ Leads(n, m)
    BY <2>2, <2>6, BringsLeads DEF Kin, Brings
  <2>8. StartPage(s, t) = Waiting(m, t)
    BY <1>6, <1>9, <2>1, <2>2 DEF StartPage
  <2>9. t.route = m.work.route /\ t.at # "default"
    BY <1>2, <1>4, <2>2
  <2>10. PICK k : /\ k = Waiting(m, t)
                  /\ Leads(m, k) /\ k.work = m.work /\ k.root = m.root
                  /\ Following(k) = {} /\ Latests(k) = Latests(m) /\ Closes(k) = Closes(m)
    BY <2>4, <2>7, <2>9, WaitsShowing
  <2>11. Leads(s, k)
    BY <1>4, <2>7, <2>10, LeadsOn
  <2>12. k.root = s.root /\ k.work.life = s.work.life /\ k.work.route = s.work.route
    BY <1>2, <1>4, <2>2, <2>10
  <2> QED BY <2>4, <2>8, <2>10, <2>11, <2>12
<1> QED BY <1>1, <1>7, <1>8, <1>9 DEF World, App, Lives

LEMMA OpenPageLeads ==
  ASSUME NEW s, Sound(s), Traced(s), s.work.life = "running", Pending(s) = {}, Following(s) = {},
         NEW t \in Showing, t.at = "start", t.revision, t.route = s.work.route
  PROVE  LET n == OpenPage(s, t) IN
         /\ Leads(s, n) /\ n.root = s.root /\ Following(n) = {}
         /\ n.work.life = "running" /\ n.work.route = s.work.route
<1>1. PICK p : /\ p = IF s.work.current = None THEN s ELSE StopPages(s, {s.work.current})
               /\ Sound(p) /\ Leads(s, p) /\ p.work = s.work /\ p.root = s.root
               /\ Pending(p) = {} /\ Following(p) = {}
               /\ \A f \in Pages : p.apps[f].life = "stopped"
  <2>1. CASE s.work.current = None
    <3>1. \A f \in Pages : s.apps[f].life = "stopped"
      BY <2>1, NavigationAssumption DEF Sound, Alone
    <3> QED BY <2>1, <3>1 DEF Leads
  <2>2. CASE s.work.current # None
    <3>1. {s.work.current} \in SUBSET Pages
      BY <2>2 DEF Sound, World, Work
    <3>2. PICK n : /\ n = StopPages(s, {s.work.current})
                   /\ Kin(s, n) /\ n.work = s.work /\ Pending(n) = {}
                   /\ \A f \in Pages : n.apps[f] = IF f \in {s.work.current} THEN Stopped ELSE s.apps[f]
                   /\ Brings(s, n) /\ n.root = s.root
      BY <3>1, StopsPages, StopPagesBrings
    <3>3. \A f \in Pages : f # s.work.current => s.apps[f].life = "stopped"
      BY DEF Sound, Alone
    <3>4. \A f \in Pages : n.apps[f].life = "stopped"
      BY <3>2, <3>3 DEF Stopped
    <3>5. Sound(n) /\ Leads(s, n) /\ Following(n) = {}
      BY <3>2, BringsLeads DEF Kin, Brings, Descends
    <3>6. n = IF s.work.current = None THEN s ELSE StopPages(s, {s.work.current})
      BY <2>2, <3>2
    <3>7. n.work = s.work /\ n.root = s.root /\ Pending(n) = {}
      BY <3>2
    <3> QED BY <3>4, <3>5, <3>6, <3>7
  <2> QED BY <2>1, <2>2
<1>2. p \in World /\ p.work \in Work /\ Traced(p) /\ t.route \in Routes
  BY <1>1 DEF Sound, World, Showing, Leads
<1>3. PICK w \in Work : /\ w = [p.work EXCEPT !.current = None, !.key = t.route, !.reported = FALSE]
                        /\ w.current = None /\ w.key = t.route /\ w.life = "running"
                        /\ w.route = s.work.route
  <2> DEFINE q == [p.work EXCEPT !.current = None, !.key = t.route, !.reported = FALSE]
  <2>1. /\ q \in Work /\ q.current = None /\ q.key = t.route /\ q.life = "running"
        /\ q.route = s.work.route
    BY <1>1, <1>2 DEF Work
  <2> QED BY <2>1
<1>4. Kept(w) /\ Alone(w, p.apps)
  BY <1>1, <1>3 DEF Kept, Alone
<1>5. PICK n : /\ n = [p EXCEPT !.work = w] /\ Sound(n) /\ Leads(p, n) /\ n.work = w
               /\ n.root = p.root /\ Following(n) = {} /\ Pending(n) = {}
  <2>1. LET n == [p EXCEPT !.work = w] IN Kin(p, n) /\ n.work = w
    <3>1. \A u \in Pending(p) : u.at = "module" => w.current = None
      BY <1>1
    <3>2. Sound(p)
      BY <1>1
    <3> QED BY <1>4, <3>1, <3>2, OtherWork
  <2>2. LET n == [p EXCEPT !.work = w] IN
        /\ Leads(p, n) /\ n.root = p.root
        /\ Following(n) = Following(p) /\ Pending(n) = Pending(p)
    <3>1. w.life # "stopped" => p.root.module
      BY <1>1 DEF Traced, Placed
    <3>2. Sound(p) /\ Traced(p) /\ (Following(p) # {} => w.current = None) /\ Pending(p) = {}
      BY <1>1, <1>2
    <3> QED BY <3>1, <3>2, OtherWorkLeads
  <2> QED BY <1>1, <2>1, <2>2 DEF Kin
<1>6. Leads(s, n) /\ Traced(n) /\ Fresh(n, t) /\ t.route = n.work.route
  BY <1>1, <1>3, <1>5, LeadsOn DEF Leads, Fresh
<1>7. n = [p EXCEPT !.work.current = None, !.work.key = t.route, !.work.reported = FALSE]
  BY <1>2, <1>3, <1>5 DEF World, Work
<1>10. n.root = s.root /\ n.work.life = "running" /\ n.work.route = s.work.route
  <2>1. n.root = p.root /\ n.work = w /\ p.root = s.root
    BY <1>1, <1>5
  <2>2. w.life = "running" /\ w.route = s.work.route
    BY <1>3
  <2> QED BY <2>1, <2>2
<1>8. CASE PageOf[t.route] \in s.work.added
  <2>1. OpenPage(s, t) = StartPage(n, t)
    BY <1>1, <1>7, <1>8 DEF OpenPage
  <2>2. PICK m : /\ m = StartPage(n, t)
                 /\ Leads(n, m) /\ m.root = n.root /\ Following(m) = {}
                 /\ m.work.life = n.work.life /\ m.work.route = n.work.route
    <3>1. Sound(n) /\ Traced(n) /\ Fresh(n, t) /\ t.route = n.work.route /\ Following(n) = {}
      BY <1>5, <1>6
    <3> QED BY <3>1, StartPageLeads
  <2>3. Leads(s, m)
    <3>1. Leads(s, n) /\ Leads(n, m)
      BY <1>6, <2>2
    <3> QED BY <3>1, LeadsOn
  <2>4. m.root = s.root /\ m.work.life = "running" /\ m.work.route = s.work.route
    BY <1>10, <2>2
  <2> QED BY <2>1, <2>2, <2>3, <2>4
<1>9. CASE PageOf[t.route] \notin s.work.added
  <2>1. PICK u \in Showing : u = [t EXCEPT !.at = "module"] /\ u.at = "module" /\ u.route = t.route
    <3> DEFINE q == [t EXCEPT !.at = "module"]
    <3>1. q \in Showing /\ q.at = "module" /\ q.route = t.route
      BY DEF Showing
    <3> QED BY <3>1
  <2>2. OpenPage(s, t) = Waiting(n, u)
    BY <1>1, <1>7, <1>9, <2>1 DEF OpenPage
  <2>3. PICK m : /\ m = Waiting(n, u)
                 /\ Leads(n, m) /\ m.root = n.root /\ Following(m) = {} /\ m.work = n.work
    <3>1. u.route = n.work.route /\ u.at # "default"
      BY <1>6, <2>1
    <3>2. Sound(n) /\ Traced(n) /\ Following(n) = {}
      BY <1>5, <1>6
    <3> QED BY <3>1, <3>2, WaitsShowing
  <2>4. Leads(s, m)
    <3>1. Leads(s, n) /\ Leads(n, m)
      BY <1>6, <2>3
    <3> QED BY <3>1, LeadsOn
  <2>5. m.root = s.root /\ m.work.life = "running" /\ m.work.route = s.work.route
    BY <1>10, <2>3
  <2> QED BY <2>2, <2>3, <2>4, <2>5
<1> QED BY <1>8, <1>9

LEMMA ShowRouteLeads ==
  ASSUME NEW s, Sound(s), Traced(s), s.work.life = "running", Following(s) = {},
         NEW route \in Routes, route \in DOMAIN Default => Errandless(s)
  PROVE  LET n == ShowRoute(s, route) IN
         /\ Leads(s, n) /\ n.root = s.root /\ Following(n) = {}
         /\ n.work.life = "running" /\ n.work.route = route
<1> DEFINE t == [is |-> "show", at |-> "start", route |-> route, epoch |-> TRUE,
                 revision |-> TRUE, again |-> FALSE]
<1>1. PICK p : /\ p = Count(s, "revision")
               /\ Kin(s, p) /\ Brings(s, p) /\ Pending(p) = {}
               /\ p.work = s.work /\ p.apps = s.apps /\ p.root = s.root
  BY Counts, CountBrings DEF Counters
<1>2. Sound(p) /\ Traced(p) /\ p \in World /\ p.work \in Work /\ Leads(s, p) /\ Following(p) = {}
  BY <1>1, BringsLeads DEF Kin, Sound, World, Brings, Descends
<1>3. PICK w \in Work : /\ w = [p.work EXCEPT !.route = route] /\ w.route = route
                        /\ w.life = "running" /\ w.key = p.work.key /\ w.current = p.work.current
  <2> DEFINE q == [p.work EXCEPT !.route = route]
  <2>1. /\ q \in Work /\ q.route = route /\ q.life = "running"
        /\ q.key = p.work.key /\ q.current = p.work.current
    BY <1>1, <1>2 DEF Work
  <2> QED BY <2>1
<1>4. Kept(w) /\ Alone(w, p.apps)
  BY <1>1, <1>2, <1>3 DEF Sound, Kept, Alone
<1>5. PICK n : /\ n = [p EXCEPT !.work = w] /\ Sound(n) /\ Leads(p, n) /\ n.work = w
               /\ n.root = p.root /\ Following(n) = {} /\ Pending(n) = {}
  <2>1. LET n == [p EXCEPT !.work = w] IN Kin(p, n) /\ n.work = w
    BY <1>1, <1>2, <1>3, <1>4, OtherWork
  <2>2. LET n == [p EXCEPT !.work = w] IN
        /\ Leads(p, n) /\ n.root = p.root
        /\ Following(n) = Following(p) /\ Pending(n) = Pending(p)
    <3>1. w.life # "stopped" => p.root.module
      BY <1>1, <1>2 DEF Traced, Placed
    <3> QED BY <1>1, <1>2, <1>3, <3>1, OtherWorkLeads
  <2> QED BY <1>1, <1>2, <2>1, <2>2 DEF Kin
<1>6. n = [Count(s, "revision") EXCEPT !.work.route = route]
  BY <1>1, <1>2, <1>3, <1>5 DEF World
<1>7. Leads(s, n) /\ Traced(n) /\ n.work.life = "running" /\ n.work.route = route
  BY <1>2, <1>3, <1>5, LeadsOn DEF Leads
<1>8. t \in Showing /\ t.revision /\ t.at = "start" /\ t.route = route
  BY DEF Showing
<1> HIDE DEF t
<1>9. ASSUME NEW m, Leads(n, m), m.root = n.root, Following(m) = {},
             m.work.life = n.work.life, m.work.route = n.work.route
      PROVE  /\ Leads(s, m) /\ m.root = s.root /\ Following(m) = {}
             /\ m.work.life = "running" /\ m.work.route = route
  BY <1>1, <1>5, <1>7, <1>9, LeadsOn
<1>10. CASE route \in DOMAIN Default
  <2>1. PICK u \in Showing : u = [t EXCEPT !.at = "default"] /\ u.route = route
    <3> DEFINE q == [t EXCEPT !.at = "default"]
    <3>1. q \in Showing /\ q.route = route
      BY <1>8, <1>10 DEF Showing
    <3> QED BY <3>1
  <2>2. Errands(n) = {}
    BY <1>7, <1>10 DEF Leads, Errandless, Errands
  <2>3. PICK m : /\ m = Waiting(n, u) /\ Leads(n, m) /\ m.root = n.root
                 /\ Following(m) = {} /\ m.work = n.work
    BY <1>5, <1>7, <2>1, <2>2, WaitsShowing
  <2>4. ShowRoute(s, route) = m
    BY <1>6, <1>10, <2>1, <2>3 DEF ShowRoute, t
  <2> QED BY <1>9, <2>3, <2>4
<1>11. CASE route \notin DOMAIN Default /\ route # s.work.key
  <2>1. ShowRoute(s, route) = OpenPage(n, t)
    BY <1>6, <1>11 DEF ShowRoute, t
  <2>2. PICK m : /\ m = OpenPage(n, t) /\ Leads(n, m) /\ m.root = n.root /\ Following(m) = {}
                 /\ m.work.life = n.work.life /\ m.work.route = n.work.route
    <3>1. /\ Sound(n) /\ Traced(n) /\ n.work.life = "running" /\ Pending(n) = {} /\ Following(n) = {}
          /\ t.route = n.work.route
      BY <1>5, <1>7, <1>8
    <3>2. /\ Leads(n, OpenPage(n, t)) /\ OpenPage(n, t).root = n.root /\ Following(OpenPage(n, t)) = {}
          /\ OpenPage(n, t).work.life = "running" /\ OpenPage(n, t).work.route = n.work.route
      BY <1>8, <3>1, OpenPageLeads
    <3> QED BY <3>1, <3>2
  <2> QED BY <1>9, <2>1, <2>2
<1>12. CASE route \notin DOMAIN Default /\ route = s.work.key
  <2>1. CASE PageOf[route] \in Restarts /\ s.work.current # None
    <3>1. PICK u \in Showing : /\ u = [t EXCEPT !.again = TRUE] /\ u.at = "start"
                               /\ u.revision /\ u.route = route
      <4> DEFINE q == [t EXCEPT !.again = TRUE]
      <4>1. q \in Showing /\ q.at = "start" /\ q.revision /\ q.route = route
        BY <1>8 DEF Showing
      <4> QED BY <4>1
    <3>2. Fresh(n, u) /\ u.route = n.work.route
      BY <1>1, <1>3, <1>5, <1>7, <1>12, <3>1 DEF Fresh
    <3>3. ShowRoute(s, route) = StartPage(n, u)
      BY <1>6, <1>12, <2>1, <3>1 DEF ShowRoute, t
    <3>4. PICK m : /\ m = StartPage(n, u) /\ Leads(n, m) /\ m.root = n.root /\ Following(m) = {}
                   /\ m.work.life = n.work.life /\ m.work.route = n.work.route
      <4>1. Sound(n) /\ Traced(n) /\ Fresh(n, u) /\ u.route = n.work.route /\ Following(n) = {}
        BY <1>5, <1>7, <3>2
      <4>2. u.at = "start"
        BY <3>1
      <4> QED BY <4>1, <4>2, StartPageLeads
    <3> QED BY <1>9, <3>3, <3>4
  <2>2. CASE ~(PageOf[route] \in Restarts /\ s.work.current # None)
    <3>1. ShowRoute(s, route) = n
      BY <1>6, <1>12, <2>2 DEF ShowRoute
    <3> QED BY <1>1, <1>5, <1>7, <3>1
  <2> QED BY <2>1, <2>2
<1> QED BY <1>10, <1>11, <1>12

LEMMA WaitsDispatching ==
  ASSUME NEW s, Sound(s), Traced(s), Following(s) = {}, Pending(s) = {}, s.work.current = None,
         Errandless(s), NEW t \in Dispatching, t.at # "flush"
  PROVE  LET n == Waiting(s, t) IN
         /\ Leads(s, n) /\ n.work = s.work /\ n.root = s.root
         /\ \A u \in Following(n) : u.route = t.route
<1> DEFINE n == Waiting(s, t)
<1>1. /\ n.tasks = s.tasks \cup {t} /\ n.work = s.work /\ n.apps = s.apps /\ n.root = s.root
      /\ n.url = s.url /\ n.wish = s.wish
  BY DEF Sound, World, Waiting
<1> HIDE DEF n
<1>2. t \in Task /\ t \notin Showing /\ t \notin Committing /\ t \notin Closing
  <2>1. t \in Task /\ t.is = "dispatch"
    BY DEF Task, Dispatching
  <2> QED BY <2>1, Kinds
<1>3. Pending(n) = {} /\ Latests(n) = {} /\ Closes(n) = {}
  BY <1>1, <1>2 DEF Pending, Latests, Closes, Errandless
<1>4. Following(n) \subseteq {t}
  BY <1>1 DEF Following
<1>5. Ordered(n)
  BY <1>3, <1>4 DEF Ordered, Errands
<1>6. Placed(n)
  BY <1>1, <1>3 DEF Traced, Placed
<1> QED BY <1>1, <1>3, <1>4, <1>5, <1>6 DEF Leads, Traced, n

\* The workspace shows the route, or is about to.
Shows(s, route) ==
  /\ \A t \in Following(s) : t.route = route
  /\ s.work.route \in {None, route}

LEMMA StartWorkLeads ==
  ASSUME NEW s, Sound(s), Traced(s), Following(s) = {}, Errandless(s), s.root.module = TRUE,
         NEW route \in Routes
  PROVE  LET n == StartWork(s, route) IN
         /\ Leads(s, n) /\ Shows(n, route)
<1>1. CASE s.work.life = "running"
  <2>1. PICK n : /\ n = ShowRoute(s, route)
                 /\ Leads(s, n) /\ Following(n) = {} /\ n.work.route = route
    BY <1>1, ShowRouteLeads
  <2> QED BY <1>1, <2>1 DEF StartWork, Shows
<1>2. CASE s.work.life # "running"
  <2>1. s \in World /\ s.work \in Work /\ s.work.route = None /\ s.work.current = None
    BY <1>2 DEF Sound, World, Kept
  <2>2. PICK w \in Work : /\ w = [s.work EXCEPT !.life = "starting"]
                          /\ w.life = "starting" /\ w.route = None
                          /\ w.key = s.work.key /\ w.current = None
    <3> DEFINE q == [s.work EXCEPT !.life = "starting"]
    <3>1. /\ q \in Work /\ q.life = "starting" /\ q.route = None
          /\ q.key = s.work.key /\ q.current = None
      BY <2>1 DEF Work, Lives
    <3> QED BY <3>1
  <2>3. Pending(s) = {}
    BY <1>2, NoneWaits
  <2>4. PICK n : /\ n = [s EXCEPT !.work = w] /\ Sound(n) /\ Leads(s, n) /\ n.work = w
                 /\ Following(n) = {} /\ Pending(n) = {}
    <3>1. Kept(w) /\ Alone(w, s.apps)
      BY <1>2, <2>2 DEF Sound, Kept, Alone
    <3>2. LET n == [s EXCEPT !.work = w] IN Kin(s, n) /\ n.work = w
      BY <2>3, <3>1, OtherWork
    <3>3. LET n == [s EXCEPT !.work = w] IN
          /\ Leads(s, n) /\ Following(n) = Following(s) /\ Pending(n) = Pending(s)
      BY <2>3, OtherWorkLeads
    <3> QED BY <2>3, <3>2, <3>3 DEF Kin
  <2>5. PICK t \in Dispatching :
          /\ t = [is |-> "dispatch", at |-> "start", route |-> route, epoch |-> TRUE]
          /\ t.route = route /\ t.at # "flush"
    <3> DEFINE q == [is |-> "dispatch", at |-> "start", route |-> route, epoch |-> TRUE]
    <3>1. q \in Dispatching /\ q.route = route /\ q.at # "flush"
      BY DEF Dispatching
    <3> QED BY <3>1
  <2>6. StartWork(s, route) = Waiting(n, t)
    BY <1>2, <2>1, <2>2, <2>4, <2>5 DEF StartWork, World
  <2>7. Traced(n) /\ Errandless(n) /\ n.work.current = None /\ n.work.route = None
    BY <2>2, <2>4 DEF Leads, Errandless
  <2>8. PICK m : /\ m = Waiting(n, t) /\ Leads(n, m) /\ m.work = n.work
                 /\ \A u \in Following(m) : u.route = t.route
    <3>1. Sound(n) /\ Following(n) = {} /\ Pending(n) = {} /\ t.at # "flush"
      BY <2>4, <2>5
    <3> QED BY <2>7, <3>1, WaitsDispatching
  <2>9. Leads(s, m)
    <3>1. Leads(s, n) /\ Leads(n, m)
      BY <2>4, <2>8
    <3> QED BY <3>1, LeadsOn
  <2>10. Shows(m, route)
    BY <2>5, <2>7, <2>8 DEF Shows
  <2> QED BY <2>6, <2>8, <2>9, <2>10
<1> QED BY <1>1, <1>2

LEMMA FollowLeads ==
  ASSUME NEW s, Sound(s), Traced(s), Following(s) = {}, NEW route \in Routes \cup {Login},
         route # Login => Errandless(s),
         route = Login => s.work.life = "stopped"
  PROVE  LET n == Follow(s, route) IN
         Leads(s, n) /\ (route # Login => Shows(n, route))
                     /\ (route = Login => Following(n) = {})
<1>1. CASE route = Login
  <2>1. PICK p : p = Enter(s, "authentication") /\ Sound(p) /\ Brings(s, p)
    BY Enters, EnterBrings DEF Kin
  <2>2. Traced(p) /\ Following(p) = {} /\ Leads(s, p)
    BY <2>1, BringsLeads DEF Brings, Descends
  <2>3. PICK r \in Root : r = [p.root EXCEPT !.login = TRUE] /\ r.module = p.root.module
    <3> DEFINE q == [p.root EXCEPT !.login = TRUE]
    <3>1. q \in Root /\ q.module = p.root.module
      BY <2>1 DEF Sound, World, Root
    <3> QED BY <3>1
  <2>4. PICK n : n = [p EXCEPT !.root = r] /\ Brings(p, n)
    <3>1. p.root.module => r.module
      BY <2>3
    <3>2. LET n == [p EXCEPT !.root = r] IN Brings(p, n)
      BY <2>1, <2>2, <3>1, OtherRootBrings
    <3> QED BY <3>2
  <2>5. Follow(s, route) = n
    BY <1>1, <2>1, <2>3, <2>4 DEF Follow, Sound, World
  <2>6. Leads(s, n) /\ Following(n) = {}
    <3>1. Leads(p, n) /\ Following(n) = {}
      BY <2>2, <2>4, BringsLeads DEF Brings, Descends
    <3> QED BY <2>2, <3>1, LeadsOn
  <2> QED BY <1>1, <2>5, <2>6
<1>2. CASE route # Login
  <2>1. PICK n : /\ n = Enter(s, "workspace") /\ Sound(n) /\ Brings(s, n)
                 /\ n.root.module = s.root.module
    BY Enters, EnterBrings DEF Kin
  <2>2. /\ Traced(n) /\ Following(n) = {} /\ Leads(s, n) /\ route \in Routes
        /\ Errandless(n)
    BY <1>2, <2>1, BringsLeads DEF Brings, Descends, Errandless
  <2>3. CASE s.root.module
    <3>1. Follow(s, route) = StartWork(n, route)
      BY <1>2, <2>1, <2>3 DEF Follow
    <3>2. s \in World /\ s.root \in Root /\ s.root.module \in BOOLEAN
      BY DEF Sound, World, Root
    <3>3. n.root.module = TRUE
      BY <2>1, <2>3, <3>2
    <3>4. PICK m : m = StartWork(n, route) /\ Leads(n, m) /\ Shows(m, route)
      BY <2>1, <2>2, <3>3, StartWorkLeads
    <3>5. Leads(s, m)
      BY <2>2, <3>4, LeadsOn
    <3> QED BY <1>2, <3>1, <3>4, <3>5
  <2>4. CASE ~s.root.module
    <3>1. PICK t \in Dispatching :
            /\ t = [is |-> "dispatch", at |-> "module", route |-> route, epoch |-> TRUE]
            /\ t.route = route /\ t.at # "flush"
      <4> DEFINE q == [is |-> "dispatch", at |-> "module", route |-> route, epoch |-> TRUE]
      <4>1. q \in Dispatching /\ q.route = route /\ q.at # "flush"
        BY <2>2 DEF Dispatching
      <4> QED BY <4>1
    <3>2. Follow(s, route) = Waiting(n, t)
      BY <1>2, <2>1, <2>4, <3>1 DEF Follow
    <3>3. n.work.life = "stopped"
      BY <2>1, <2>2, <2>4 DEF Traced, Placed
    <3>4. n.work.current = None /\ n.work.route = None /\ Pending(n) = {}
      BY <2>1, <2>2, <3>3, NoneWaits DEF Sound, Kept
    <3>5. PICK m : /\ m = Waiting(n, t) /\ Leads(n, m) /\ m.work = n.work
                   /\ \A u \in Following(m) : u.route = t.route
      BY <2>1, <2>2, <3>1, <3>4, WaitsDispatching
    <3>6. Leads(s, m) /\ Shows(m, route)
      BY <2>2, <3>1, <3>4, <3>5, LeadsOn DEF Shows
    <3> QED BY <1>2, <3>2, <3>5, <3>6
  <2> QED BY <2>3, <2>4
<1> QED BY <1>1, <1>2

\* Nothing that was asked for earlier comes in the way.
Clear(s) ==
  /\ Permitted(s) => Closes(s) = {}
  /\ ~s.online => Following(s) = {}

\* What an address becomes.
Lands(s, n) ==
  s.status = "authenticated" => n.url = IF s.online THEN Target(s.url) ELSE s.url

LEMMA DispatchHeads ==
  ASSUME NEW s, Sound(s), Ready(s), Traced(s), Clear(s), Permitted(s) => Latests(s) = {}
  PROVE  LET n == Dispatch(s) IN
         /\ Traced(n) /\ Addressed(n) /\ Lands(s, n) /\ n.wish = s.wish
         /\ Latests(s) = {} => Latests(n) = {}
         /\ Closes(s) = {} => Closes(n) = {}
<1>1. s \in World
  BY DEF Sound
<1>2. s.work.life # "running" => s.work.route = None
  BY DEF Sound, Kept
<1>3. CASE ~s.online
  <2>1. Dispatch(s) = s
    BY <1>3 DEF Dispatch
  <2>2. Addressed(s)
    BY <1>2, <1>3 DEF Addressed, Clear, Ready, Permitted
  <2> QED BY <1>3, <2>1, <2>2 DEF Lands
<1>4. CASE s.online
  <2>1. PICK n : /\ n = Count(s, "epoch") /\ Kin(s, n) /\ Brings(s, n) /\ Following(n) = {}
                 /\ n.work = s.work /\ n.url = s.url
    BY Counts, CountBrings DEF Counters
  <2>2. Sound(n) /\ Traced(n) /\ Leads(s, n)
    BY <2>1, BringsLeads DEF Kin, Brings
  <2>3. CASE s.status = "loading"
    <3>1. Dispatch(s) = n
      BY <1>4, <2>1, <2>3 DEF Dispatch
    <3>2. n.work.route = None
      BY <1>2, <2>1, <2>3 DEF Ready, Permitted
    <3>3. Addressed(n)
      BY <2>1, <3>2 DEF Addressed
    <3> QED BY <2>2, <2>3, <3>1, <3>3 DEF Lands, Leads
  <2>4. CASE s.status # "loading"
    <3>1. PICK to \in Routes \cup {Login} : to = Redirected(s)
      BY <1>1, NavigationAssumption DEF World, Redirected
    <3>2. PICK p : /\ p = [n EXCEPT !.url = to]
                   /\ Kin(n, p) /\ p.url = to
                   /\ p.work = n.work /\ p.root = n.root /\ p.tasks = n.tasks /\ p.apps = n.apps
      <4>1. LET p == [n EXCEPT !.url = to] IN
            /\ Kin(n, p) /\ p.url = to
            /\ p.work = n.work /\ p.root = n.root /\ p.tasks = n.tasks /\ p.apps = n.apps
        BY <2>2, OtherAddress
      <4> QED BY <4>1
    <3>3. /\ Following(p) = {} /\ Pending(p) = Pending(n)
          /\ Latests(p) = Latests(n) /\ Closes(p) = Closes(n) /\ Ordered(p)
      <4>1. Ordered(n) /\ p.tasks = n.tasks
        BY <2>2, <3>2 DEF Traced
      <4>2. /\ Following(p) = Following(n) /\ Pending(p) = Pending(n) /\ Descends(n, p)
            /\ Latests(p) = Latests(n) /\ Closes(p) = Closes(n)
        BY <4>1, SameTasks
      <4> QED BY <2>1, <4>2 DEF Descends
    <3>4. Placed(p)
      BY <2>2, <3>2, <3>3 DEF Traced, Placed
    <3>5. Sound(p) /\ Traced(p)
      BY <3>2, <3>3, <3>4 DEF Kin, Traced
    <3>6. Latests(s) = {} => Latests(p) = {}
      BY <2>2, <3>3 DEF Leads
    <3>7. Closes(s) = {} => Closes(p) = {}
      BY <2>2, <3>3 DEF Leads
    <3>8. p.wish = s.wish
      <4>1. n.wish = s.wish /\ n \in World
        BY <2>2 DEF Leads, Sound
      <4> QED BY <3>2, <4>1 DEF World
    <3>9. Dispatch(s) = Follow(p, to)
      BY <1>4, <2>1, <2>4, <3>1, <3>2 DEF Dispatch
    <3>10. CASE Permitted(s)
      <4>1. to # Login /\ to = Target(s.url)
        BY <3>1, <3>10, NavigationAssumption DEF Redirected, Permitted, Target
      <4>2. Errandless(p)
        BY <3>6, <3>7, <3>10 DEF Errandless, Clear
      <4>3. PICK m : m = Follow(p, to) /\ Leads(p, m) /\ Shows(m, to)
        BY <3>3, <3>5, <4>1, <4>2, FollowLeads
      <4>4. Traced(m) /\ m.url = to /\ m.wish = s.wish /\ Latests(m) = {} /\ Closes(m) = {}
        BY <3>2, <3>8, <4>2, <4>3 DEF Leads, Errandless
      <4>5. Permitted(m)
        <5>1. Kin(p, m)
          BY <3>5, <4>3, Follows
        <5> QED BY <2>1, <3>2, <3>10, <5>1 DEF Kin, Permitted
      <4>6. Addressed(m)
        BY <4>3, <4>4, <4>5 DEF Addressed, Shows
      <4>7. Lands(s, m)
        BY <3>10, <4>1, <4>4 DEF Lands, Permitted
      <4> QED BY <3>9, <4>3, <4>4, <4>6, <4>7
    <3>11. CASE ~Permitted(s)
      <4>1. s.status = "anonymous" /\ to = Login
        BY <1>1, <1>4, <2>4, <3>1, <3>11 DEF Permitted, World, Redirected
      <4>2. p.work.life = "stopped"
        BY <2>1, <3>2, <3>11 DEF Ready
      <4>3. PICK m : m = Follow(p, to) /\ Leads(p, m) /\ Following(m) = {}
        BY <3>3, <3>5, <4>1, <4>2, FollowLeads
      <4>4. /\ Traced(m) /\ m.wish = s.wish
            /\ Latests(s) = {} => Latests(m) = {}
            /\ Closes(s) = {} => Closes(m) = {}
        BY <3>6, <3>7, <3>8, <4>3 DEF Leads
      <4>5. m.work.life = "stopped" /\ Sound(m)
        BY <3>5, <4>1, <4>2, <4>3, Follows DEF Kin
      <4>6. Addressed(m) /\ Lands(s, m)
        BY <4>1, <4>3, <4>5 DEF Addressed, Lands, Sound, Kept
      <4> QED BY <3>9, <4>3, <4>4, <4>6
    <3> QED BY <3>10, <3>11
  <2> QED BY <2>3, <2>4
<1> QED BY <1>1, <1>3, <1>4 DEF World

-----------------------------------------------------------------------------
(* Arriving.                                                               *)

LEMMA TargetAims ==
  ASSUME NEW s, NEW a, Aims(s, a), s.wish \in Routes \cup {Login}
  PROVE  Aims(s, Target(a)) /\ Target(a) # Login
<1>1. Home # Login /\ \A b \in DOMAIN Default : Default[b] # Login
  BY NavigationAssumption
<1> QED BY <1>1 DEF Aims, Target

\* Who follows the address that was asked for arrives.
LEMMA DispatchArrives ==
  ASSUME NEW s, Sound(s), Ready(s), Traced(s), Clear(s), Latests(s) = {}, s.root.up,
         s.status = "authenticated" => Aims(s, s.url)
  PROVE  Heads(Dispatch(s))
<1>1. PICK n : /\ n = Dispatch(s) /\ Kin(s, n) /\ Secure(n)
               /\ Traced(n) /\ Addressed(n) /\ Lands(s, n) /\ n.wish = s.wish
               /\ Latests(n) = {} /\ (Closes(s) = {} => Closes(n) = {})
  BY Dispatches, DispatchHeads
<1>2. s.wish \in Routes \cup {Login}
  BY DEF Sound, World
<1>3. n.root.up /\ n.status = s.status /\ n.online = s.online
  BY <1>1 DEF Kin
<1>4. n.status = "authenticated" => Aims(n, n.url) /\ (n.online => n.url # Login)
  BY <1>1, <1>2, <1>3, TargetAims DEF Lands, Aims
<1>5. n.work.life = "running" => Closes(n) = {}
  BY <1>1, <1>3 DEF Secure, Permitted, Clear
<1>6. Bound(n)
  BY <1>1, <1>3, <1>4, <1>5 DEF Bound, Permitted
<1> QED BY <1>1, <1>3, <1>6 DEF Heads, Unborn

LEMMA GoArrives ==
  ASSUME NEW s, Sound(s), Ready(s), Traced(s), Clear(s), Latests(s) = {}, s.root.up,
         NEW to \in Routes \cup {Login}, s.status = "authenticated" => Aims(s, to)
  PROVE  Heads(Go(s, to))
<1>1. PICK n : /\ n = [s EXCEPT !.url = to] /\ Kin(s, n) /\ n.url = to
               /\ n.work = s.work /\ n.root = s.root /\ n.tasks = s.tasks /\ n.apps = s.apps
  <2>1. LET n == [s EXCEPT !.url = to] IN
        /\ Kin(s, n) /\ n.url = to
        /\ n.work = s.work /\ n.root = s.root /\ n.tasks = s.tasks /\ n.apps = s.apps
    BY OtherAddress
  <2> QED BY <2>1
<1>2. n.status = s.status /\ n.online = s.online /\ n.wish = s.wish /\ n.root.up
  BY <1>1 DEF Kin, Sound, World
<1>3. Ordered(s) /\ n.tasks = s.tasks
  BY <1>1 DEF Traced
<1>4. /\ Following(n) = Following(s) /\ Pending(n) = Pending(s) /\ Descends(s, n)
      /\ Latests(n) = Latests(s) /\ Closes(n) = Closes(s)
  BY <1>3, SameTasks
<1>5. Traced(n)
  BY <1>1, <1>4 DEF Descends, Traced, Placed
<1>6. Clear(n) /\ Sound(n)
  BY <1>1, <1>2, <1>4 DEF Clear, Permitted, Kin
<1>7. Ready(n)
  <2>1. Imports(n) <=> Imports(s)
    BY <1>1 DEF Imports
  <2> QED BY <1>1, <1>2, <2>1 DEF Ready, Permitted
<1>8. n.status = "authenticated" => Aims(n, n.url)
  BY <1>1, <1>2 DEF Aims
<1>9. Heads(Dispatch(n))
  BY <1>2, <1>4, <1>5, <1>6, <1>7, <1>8, DispatchArrives
<1> QED BY <1>1, <1>9 DEF Go

LEMMA EditingAlone ==
  ASSUME NEW s, Sound(s), Traced(s), Flushes(s)
  PROVE  /\ Edited(s.apps) /\ Following(s) = {}
         /\ \A t \in Pending(s) : t.at # "default"
<1> DEFINE f == PageOf[s.work.route]
<1>1. f \in Pages /\ f \in Editing /\ s.apps[f].life = "running"
  BY NavigationAssumption DEF Flushes
<1>2. s.work.current = f /\ f # None
  BY <1>1, NavigationAssumption DEF Sound, Alone
<1>3. \A t \in Pending(s) : t.at = "default" => t.route \in DOMAIN Default
  BY DEF Pending, Showing
<1> QED BY <1>1, <1>2, <1>3, DefaultsAssumption DEF Edited, Traced, Placed

\* An errand waits for the flush of what is edited.
LEMMA WaitsErrand ==
  ASSUME NEW s, Sound(s), Traced(s), Flushes(s), Errandless(s),
         NEW t \in Committing \cup Closing, t.at = "flush"
  PROVE  LET n == Waiting(s, t) IN
         /\ Traced(n) /\ n.url = s.url /\ n.wish = s.wish /\ n.root = s.root /\ n.work = s.work
         /\ n.status = s.status /\ n.online = s.online
         /\ Following(n) = {} /\ Errands(n) \subseteq {t}
         /\ t \in Closing => Latests(n) = {} /\ Closes(n) = {t}
         /\ t \in Committing => Closes(n) = {}
         /\ t \in Committing /\ t.navigation => Latests(n) = {t}
<1> DEFINE n == Waiting(s, t)
<1>1. /\ n.tasks = s.tasks \cup {t} /\ n.work = s.work /\ n.apps = s.apps /\ n.root = s.root
      /\ n.url = s.url /\ n.wish = s.wish /\ n.status = s.status /\ n.online = s.online
  BY DEF Sound, World, Waiting
<1> HIDE DEF n
<1>2. /\ t \in Task /\ t \notin Showing /\ t \notin Dispatching
      /\ t \in Committing => t \notin Closing
      /\ t \in Closing => t \notin Committing
  <2>1. t \in Task
    BY DEF Task
  <2>2. t.is \in {"commit", "close"}
    BY DEF Committing, Closing
  <2> QED BY <2>1, <2>2, Kinds
<1>3. Pending(n) = Pending(s) /\ Following(n) = Following(s)
  BY <1>1, <1>2 DEF Pending, Following
<1>4. /\ t \in Closing => Latests(n) = {} /\ Closes(n) = {t}
      /\ t \in Committing => Closes(n) = {} /\ Latests(n) \subseteq {t}
      /\ t \in Committing /\ t.navigation => Latests(n) = {t}
  BY <1>1, <1>2 DEF Latests, Closes, Errandless
<1>5. Errands(n) \subseteq {t}
  BY <1>4 DEF Errands
<1>6. Following(s) = {} /\ Edited(s.apps) /\ \A u \in Pending(s) : u.at # "default"
  BY EditingAlone
<1>7. Ordered(n)
  BY <1>3, <1>5, <1>6 DEF Ordered
<1>8. Placed(n)
  BY <1>1, <1>3, <1>6 DEF Traced, Placed
<1> QED BY <1>1, <1>3, <1>4, <1>5, <1>6, <1>7, <1>8 DEF Traced, n

LEMMA CommitArrives ==
  ASSUME NEW s, Sound(s), Ready(s), Traced(s), Clear(s), s.root.up,
         NEW to \in Routes \cup {Login}, s.status = "authenticated" => Aims(s, to),
         Flushes(s) => Addressed(s)
  PROVE  Heads(Commit(s, to))
<1>1. PICK n : /\ n = Count(s, "navigation") /\ Kin(s, n) /\ Calm(s, n) /\ Brings(s, n)
               /\ n.work = s.work /\ n.apps = s.apps /\ n.root = s.root /\ Latests(n) = {}
  BY Counts, CountBrings DEF Counters
<1>2. /\ Sound(n) /\ Traced(n) /\ n.url = s.url /\ n.wish = s.wish
      /\ n.status = s.status /\ n.online = s.online
      /\ Following(s) = {} => Following(n) = {}
      /\ Closes(s) = {} => Closes(n) = {}
  BY <1>1 DEF Kin, Brings, Descends
<1>3. Ready(n) /\ Clear(n)
  BY <1>1, <1>2 DEF Ready, Clear, Calm, Permitted
<1>4. n.status = "authenticated" => Aims(n, to)
  BY <1>2 DEF Aims
<1>5. CASE Flushes(s)
  <2>1. PICK t \in Committing :
          /\ t = [is |-> "commit", at |-> "flush", route |-> to, navigation |-> TRUE]
          /\ t.at = "flush" /\ t.route = to /\ t.navigation
    <3> DEFINE q == [is |-> "commit", at |-> "flush", route |-> to, navigation |-> TRUE]
    <3>1. q \in Committing /\ q.at = "flush" /\ q.route = to /\ q.navigation
      BY DEF Committing
    <3> QED BY <3>1
  <2>2. Permitted(n) /\ Flushes(n)
    BY <1>1, <1>2, <1>5 DEF Flushes, Ready, Permitted
  <2>3. Errandless(n)
    BY <1>1, <1>3, <2>2 DEF Clear, Errandless
  <2>4. PICK m : /\ m = Waiting(n, t) /\ Traced(m) /\ m.url = n.url /\ m.wish = n.wish
                 /\ m.root = n.root /\ m.work = n.work
                 /\ m.status = n.status /\ m.online = n.online
                 /\ Following(m) = {} /\ Closes(m) = {} /\ Latests(m) = {t}
    <3>1. LET m == Waiting(n, t) IN
          /\ Traced(m) /\ m.url = n.url /\ m.wish = n.wish /\ m.root = n.root /\ m.work = n.work
          /\ m.status = n.status /\ m.online = n.online
          /\ Following(m) = {} /\ Errands(m) \subseteq {t}
          /\ t \in Closing => Latests(m) = {} /\ Closes(m) = {t}
          /\ t \in Committing => Closes(m) = {}
          /\ t \in Committing /\ t.navigation => Latests(m) = {t}
      <4>1. Sound(n) /\ Traced(n) /\ Flushes(n) /\ Errandless(n) /\ t.at = "flush"
        BY <1>2, <2>1, <2>2, <2>3
      <4> QED BY <4>1, WaitsErrand
    <3> QED BY <2>1, <3>1
  <2>5. Commit(s, to) = m
    BY <1>1, <1>5, <2>1, <2>4 DEF Commit
  <2>6. Addressed(m) /\ m.url # Login
    <3>1. s.work.route # None /\ s.work.route = s.url /\ s.work.route \in Routes
      BY <1>5 DEF Flushes, Addressed, Sound, World, Work
    <3> QED BY <1>1, <1>2, <2>4, <3>1, NavigationAssumption DEF Addressed
  <2>7. Bound(m)
    <3>1. Aims(m, t.route)
      BY <1>4, <2>1, <2>2, <2>4 DEF Aims, Permitted
    <3> QED BY <2>4, <2>6, <3>1 DEF Bound
  <2>8. m.root.up
    BY <1>1, <2>4
  <2> QED BY <2>4, <2>5, <2>6, <2>7, <2>8 DEF Heads, Unborn
<1>6. CASE ~Flushes(s)
  <2>1. Commit(s, to) = Go(n, to)
    BY <1>1, <1>6 DEF Commit
  <2>2. n.root.up
    BY <1>1
  <2> QED BY <1>1, <1>2, <1>3, <1>4, <2>1, <2>2, GoArrives
<1> QED BY <1>5, <1>6

-----------------------------------------------------------------------------
(* Every step keeps the heading.                                           *)

LEMMA Ends ==
  ASSUME NEW n, Sound(n), Heads(n), Become(n)
  PROVE  Heading'
<1>1. Now' = n
  BY DEF Now, Become, Sound, World
<1> QED
  BY <1>1 DEF Heading, Heads, Traced, Bound, Addressed, Unborn, Ordered, Placed, Pending, Errands,
              Latests, Closes, Following, Permitted, Aims, Target, Edited

\* Worlds of the same content.
LEMMA SameTraced ==
  ASSUME NEW k, Traced(k), NEW s,
         s.tasks = k.tasks, s.work = k.work, s.apps = k.apps, s.root = k.root
  PROVE  /\ Traced(s) /\ Following(s) = Following(k) /\ Pending(s) = Pending(k)
         /\ Latests(s) = Latests(k) /\ Closes(s) = Closes(k)
<1>1. /\ Descends(k, s) /\ Following(s) = Following(k) /\ Pending(s) = Pending(k)
      /\ Latests(s) = Latests(k) /\ Closes(s) = Closes(k)
  BY SameTasks DEF Traced
<1> QED BY <1>1 DEF Descends, Traced, Placed

\* The world before a step, as a constant.
LEMMA Ahead ==
  ASSUME Inv, Heading
  PROVE  \E k : /\ k = Now /\ Sound(k) /\ Secure(k) /\ Heads(k) /\ k \in World
                /\ k.url = url /\ k.status = status /\ k.online = online /\ k.root = root
                /\ k.work = work /\ k.apps = apps /\ k.tasks = tasks /\ k.wish = wish
  BY Before DEF Heading

\* Whoever waits for a flush that has not ended waits for a page that runs.
LEMMA Quiet ==
  ASSUME Inv, Heading, Idle, NEW k, k = Now
  PROVE  /\ ~Flushing({"close"}) => Closes(k) = {}
         /\ ~Flushing({"commit"}) => Latests(k) = {}
         /\ ~Permitted(k) \/ work.life # "running" => Errandless(k)
<1>1. /\ Sound(k) /\ Secure(k) /\ Traced(k) /\ k.tasks = tasks /\ k.work = work
  BY Ahead DEF Heads
<1>2. \A t \in Closes(k) : t \in tasks /\ t.is = "close" /\ t.at = "flush"
  BY <1>1 DEF Closes, Closing, Idle
<1>3. \A t \in Latests(k) : t \in tasks /\ t.is = "commit" /\ t.at = "flush"
  BY <1>1 DEF Latests, Committing, Idle
<1>4. Errands(k) # {} => Permitted(k) /\ work.life = "running"
  <2> SUFFICES ASSUME Errands(k) # {} PROVE Permitted(k) /\ work.life = "running"
    OBVIOUS
  <2>1. PICK f \in Editing : k.apps[f].life = "running"
    BY <1>1, <1>2, <1>3 DEF Errands, Traced, Placed, Edited
  <2>2. k.work.life = "running"
    BY <1>1, <2>1, NavigationAssumption DEF Sound, Alone
  <2> QED BY <1>1, <2>2 DEF Secure
<1> QED BY <1>2, <1>3, <1>4 DEF Flushing, Errands, Errandless

\* Worlds that differ from Now by the address, the session, the network and
\* the wish.
LEMMA LikeTraced ==
  ASSUME Inv, Heading, NEW k, k = Now, NEW s, Like(s)
  PROVE  /\ Traced(s) /\ Following(s) = Following(k) /\ Pending(s) = Pending(k)
         /\ Latests(s) = Latests(k) /\ Closes(s) = Closes(k)
<1>1. /\ Traced(k) /\ k.tasks = tasks /\ k.work = work /\ k.apps = apps /\ k.root = root
  BY Ahead DEF Heads
<1> QED BY <1>1, SameTraced DEF Like

LEMMA NavigateHeads ==
  ASSUME Inv, Heading, root.up, ~Impatient, NEW to \in Routes \cup {Login}, Navigate(to)
  PROVE  Heading'
<1>1. PICK k : k = Now /\ Heads(k) /\ k.url = url /\ k.status = status /\ k.online = online
               /\ k.work = work
  BY Ahead
<1>2. PICK s : /\ s = Wishing(to) /\ Like(s) /\ Ready(s) /\ s.url = url
               /\ s.status = status /\ s.online = online
  BY Wishes
<1>3. s.wish = to
  BY <1>2 DEF Wishing
<1>4. /\ Traced(s) /\ Following(s) = Following(k) /\ Closes(s) = Closes(k)
  BY <1>1, <1>2, LikeTraced
<1>5. Closes(k) = {}
  BY <1>1, Quiet DEF Navigate, Act
<1>6. Addressed(s)
  BY <1>1, <1>2, <1>4 DEF Heads, Addressed, Permitted, Like
<1>7. Clear(s) /\ Sound(s) /\ s.root.up /\ Aims(s, to)
  BY <1>2, <1>3, <1>4, <1>5, <1>6 DEF Clear, Addressed, Permitted, Like, Aims
<1>8. PICK n : n = Commit(s, to) /\ Become(n)
  BY <1>2 DEF Navigate, Become
<1>9. Heads(n)
  BY <1>2, <1>4, <1>6, <1>7, <1>8, CommitArrives
<1>10. Sound(n)
  BY <1>2, <1>7, <1>8, Commits DEF Kin
<1> QED BY <1>8, <1>9, <1>10, Ends

LEMMA BackHeads ==
  ASSUME Inv, Heading, root.up, ~Impatient, NEW to \in Routes \cup {Login}, Back(to)
  PROVE  Heading'
<1>1. PICK k : k = Now /\ Heads(k) /\ k.url = url /\ k.status = status /\ k.online = online
               /\ k.work = work
  BY Ahead
<1>2. PICK p \in World : /\ p = Wishing(to) /\ Like(p) /\ Ready(p)
                         /\ p.status = status /\ p.online = online
  BY Wishes DEF Like
<1>3. PICK s : s = [p EXCEPT !.url = to]
  OBVIOUS
<1>4. /\ s \in World /\ s.work = p.work /\ s.apps = p.apps /\ s.tasks = p.tasks /\ s.root = p.root
      /\ s.status = p.status /\ s.online = p.online /\ s.url = to
  BY <1>2, <1>3 DEF World
<1>5. Like(s)
  BY <1>2, <1>4, Likes DEF Like
<1>6. Ready(s)
  BY <1>2, <1>4, <1>5 DEF Like, Ready, Permitted
<1>7. s.wish = to
  BY <1>2, <1>3 DEF Wishing
<1>8. /\ Traced(s) /\ Following(s) = Following(k) /\ Closes(s) = Closes(k) /\ Latests(s) = Latests(k)
  BY <1>1, <1>5, LikeTraced
<1>9. Closes(k) = {} /\ Latests(k) = {}
  <2>1. Idle /\ ~Flushing({"close", "commit"})
    BY DEF Back, Act
  <2>2. ~Flushing({"close"}) /\ ~Flushing({"commit"})
    BY <2>1 DEF Flushing
  <2> QED BY <1>1, <2>1, <2>2, Quiet
<1>10. Clear(s) /\ Sound(s) /\ s.root.up /\ Aims(s, s.url)
  BY <1>1, <1>2, <1>4, <1>5, <1>7, <1>8, <1>9
     DEF Clear, Addressed, Permitted, Like, Aims, Heads
<1>11. PICK n : n = Dispatch(s) /\ Become(n)
  BY <1>2, <1>3 DEF Back, Become
<1>12. Heads(n)
  BY <1>6, <1>8, <1>9, <1>10, <1>11, DispatchArrives
<1>13. Sound(n)
  BY <1>6, <1>10, <1>11, Dispatches DEF Kin
<1> QED BY <1>11, <1>12, <1>13, Ends

LEMMA CloseTaskHeads ==
  ASSUME Inv, Heading, root.up, ~Impatient, CloseTask
  PROVE  Heading'
<1>1. PICK k : /\ k = Now /\ Heads(k) /\ Secure(k) /\ k.url = url /\ k.status = status
               /\ k.online = online /\ k.work = work /\ k.apps = apps /\ k.root = root
  BY Ahead
<1>2. PICK s : /\ s = Wishing(Parent) /\ Like(s) /\ s.url = url
               /\ s.status = status /\ s.online = online
  BY Wishes, Routed
<1>3. s.wish = Parent
  BY <1>2 DEF Wishing
<1>4. /\ Traced(s) /\ Following(s) = Following(k) /\ Closes(s) = Closes(k) /\ Latests(s) = Latests(k)
  BY <1>1, <1>2, LikeTraced
<1>5. Errandless(s)
  BY <1>1, <1>4, Quiet DEF CloseTask, Act, Errandless
<1>6. Flushes(s) /\ Sound(s) /\ s.work.life = "running" /\ Permitted(k)
  BY <1>1, <1>2 DEF CloseTask, Flushes, Now, Like, Secure
<1>7. PICK t \in Closing : t = [is |-> "close", at |-> "flush"] /\ t.at = "flush"
  <2> DEFINE q == [is |-> "close", at |-> "flush"]
  <2>1. q \in Closing /\ q.at = "flush"
    BY DEF Closing
  <2> QED BY <2>1
<1>8. PICK n : /\ n = Waiting(s, t) /\ Traced(n) /\ n.url = s.url /\ n.wish = s.wish
               /\ n.root = s.root /\ n.work = s.work
               /\ n.status = s.status /\ n.online = s.online
               /\ Following(n) = {} /\ Latests(n) = {} /\ Closes(n) = {t}
  <2>1. LET n == Waiting(s, t) IN
        /\ Traced(n) /\ n.url = s.url /\ n.wish = s.wish /\ n.root = s.root /\ n.work = s.work
        /\ n.status = s.status /\ n.online = s.online
        /\ Following(n) = {} /\ Errands(n) \subseteq {t}
        /\ t \in Closing => Latests(n) = {} /\ Closes(n) = {t}
        /\ t \in Committing => Closes(n) = {}
        /\ t \in Committing /\ t.navigation => Latests(n) = {t}
    BY <1>4, <1>5, <1>6, <1>7, WaitsErrand
  <2> QED BY <2>1
<1>9. Become(n)
  BY <1>2, <1>7, <1>8 DEF CloseTask, Become
<1>10. Bound(n)
  BY <1>1, <1>2, <1>3, <1>6, <1>8 DEF Bound, Heads, Permitted
<1>11. Addressed(n)
  BY <1>1, <1>2, <1>8 DEF Addressed, Heads, Like
<1>12. n.root.up
  BY <1>2, <1>8 DEF Like
<1>13. Heads(n)
  BY <1>8, <1>10, <1>11, <1>12 DEF Heads, Unborn
<1>14. Sound(n)
  <2>1. t \in Task /\ t \notin Showing
    <3>1. t \in Task /\ t.is = "close"
      BY <1>7 DEF Task
    <3> QED BY <3>1, Kinds
  <2>2. Kin(s, Waiting(s, t))
    BY <1>6, <2>1, Waits
  <2> QED BY <1>8, <2>2 DEF Kin
<1> QED BY <1>9, <1>13, <1>14, Ends

\* A workspace that is stopped heads nowhere.
LEMMA StoppedHeads ==
  ASSUME NEW n, Sound(n), Traced(n), n.root.up, n.work.life = "stopped", Following(n) = {},
         n.status = "authenticated" => ~n.online /\ Latests(n) = {} /\ Aims(n, n.url)
  PROVE  Heads(n)
<1>1. Bound(n)
  BY DEF Bound, Permitted
<1>2. n.work.route = None
  BY DEF Sound, Kept
<1> QED BY <1>1, <1>2 DEF Heads, Addressed, Unborn

\* Without a session or a network no dispatch goes on.
LEMMA Nowhere ==
  ASSUME NEW k, Heads(k), ~Permitted(k)
  PROVE  Following(k) = {}
  BY DEF Heads, Addressed

LEMMA SignInHeads ==
  ASSUME Inv, Heading, root.up, SignIn
  PROVE  Heading'
<1>1. PICK k : k = Now /\ Heads(k) /\ k.status = status
  BY Ahead
<1>2. PICK s : /\ s = [Wishing(Home) EXCEPT !.status = "authenticated"]
               /\ Like(s) /\ s.status = "authenticated" /\ s.online = online
  BY OtherStatus, Routed
<1>3. s.wish = Home
  BY <1>2 DEF Wishing
<1>4. ~Permitted(k) /\ Idle /\ online
  BY <1>1 DEF SignIn, Act, Permitted
<1>5. Errandless(k)
  BY <1>1, <1>4, Quiet
<1>6. Traced(s) /\ Closes(s) = {}
  BY <1>1, <1>2, <1>5, LikeTraced DEF Errandless
<1>7. Clear(s) /\ Ready(s) /\ Aims(s, Home) /\ Sound(s) /\ s.root.up
  BY <1>2, <1>3, <1>4, <1>6 DEF Clear, Ready, Permitted, Aims, Like
<1>8. ~Flushes(s)
  BY <1>2, ImportsPermitted DEF SignIn, Flushes, Like
<1>9. PICK n : n = Commit(s, Home) /\ Become(n)
  BY <1>2 DEF SignIn, Become
<1>10. Heads(n)
  BY <1>6, <1>7, <1>8, <1>9, CommitArrives, Routed
<1>11. Sound(n)
  BY <1>7, <1>9, Commits, Routed DEF Kin
<1> QED BY <1>9, <1>10, <1>11, Ends

LEMMA SignsOutHeads ==
  ASSUME Inv, Heading, root.up, Become(SignedOut(Wishing(Login)))
  PROVE  Heading'
<1>1. PICK k : k = Now /\ Heads(k) /\ k.online = online
  BY Ahead
<1>2. PICK s : /\ s = [Wishing(Login) EXCEPT !.status = "anonymous"]
               /\ Like(s) /\ s.status = "anonymous" /\ s.online = online
  BY OtherStatus, Routed
<1>3. Traced(s) /\ Following(s) = Following(k) /\ Sound(s)
  BY <1>1, <1>2, LikeTraced DEF Like
<1>4. PICK p : /\ p = StopWork(s) /\ Kin(s, p) /\ Calm(s, p) /\ p.work.life = "stopped"
               /\ p.root = s.root /\ Brings(s, p)
  BY <1>3, StopsWork, StopWorkBrings
<1>5. PICK n : n = Commit(p, Login) /\ Become(n)
  BY <1>2, <1>4 DEF SignedOut, Become
<1>6. Sound(p) /\ Ready(p)
  BY <1>2, <1>4, ImportsPermitted DEF Kin, Calm, Like, Ready, Permitted
<1>7. p.status = "anonymous" /\ p.online = online /\ p.root.up
  BY <1>2, <1>4 DEF Kin, Like
<1>8. Traced(p) /\ (~online => Following(p) = {})
  <2>1. ~online => Following(s) = {}
    BY <1>1, <1>3, Nowhere DEF Permitted
  <2> QED BY <1>4, <2>1 DEF Brings, Descends
<1>9. Clear(p) /\ ~Flushes(p)
  BY <1>4, <1>7, <1>8 DEF Clear, Flushes, Permitted
<1>10. Heads(n)
  BY <1>5, <1>6, <1>7, <1>8, <1>9, CommitArrives, Routed
<1>11. Sound(n)
  BY <1>5, <1>6, Commits, Routed DEF Kin
<1> QED BY <1>5, <1>10, <1>11, Ends

\* The root application forgets what it shows.
LEMMA ForgetsBrings ==
  ASSUME NEW s, Sound(s), Traced(s)
  PROVE  LET n == [s EXCEPT !.root.destination = ""] IN
         /\ Brings(s, n) /\ n.work = s.work /\ n.apps = s.apps /\ n.tasks = s.tasks
<1>1. PICK r \in Root : r = [s.root EXCEPT !.destination = ""] /\ r.module = s.root.module
  <2> DEFINE q == [s.root EXCEPT !.destination = ""]
  <2>1. q \in Root /\ q.module = s.root.module
    BY DEF Sound, World, Root
  <2> QED BY <2>1
<1>2. [s EXCEPT !.root.destination = ""] = [s EXCEPT !.root = r]
  BY <1>1 DEF Sound, World
<1>3. LET n == [s EXCEPT !.root = r] IN
      Brings(s, n) /\ n.root = r /\ n.work = s.work /\ n.apps = s.apps /\ n.tasks = s.tasks
  <2>1. s.root.module => r.module
    BY <1>1
  <2>2. LET n == [s EXCEPT !.root = r] IN
        /\ Brings(s, n) /\ n.root = r /\ n.work = s.work
        /\ n.apps = s.apps /\ n.tasks = s.tasks
    BY <2>1, OtherRootBrings
  <2> QED BY <2>2
<1> QED BY <1>2, <1>3

LEMMA StopLoginBrings ==
  ASSUME NEW s, Sound(s), Traced(s)
  PROVE  LET n == StopLogin(s) IN Brings(s, n) /\ n.tasks = s.tasks
<1>1. PICK r \in Root : r = [s.root EXCEPT !.login = FALSE] /\ r.module = s.root.module
  <2> DEFINE q == [s.root EXCEPT !.login = FALSE]
  <2>1. q \in Root /\ q.module = s.root.module
    BY DEF Sound, World, Root
  <2> QED BY <2>1
<1>2. StopLogin(s) = [s EXCEPT !.root = r]
  BY <1>1 DEF StopLogin, Sound, World
<1>3. LET n == [s EXCEPT !.root = r] IN
      Brings(s, n) /\ n.root = r /\ n.work = s.work /\ n.apps = s.apps /\ n.tasks = s.tasks
  <2>1. s.root.module => r.module
    BY <1>1
  <2>2. LET n == [s EXCEPT !.root = r] IN
        /\ Brings(s, n) /\ n.root = r /\ n.work = s.work
        /\ n.apps = s.apps /\ n.tasks = s.tasks
    BY <2>1, OtherRootBrings
  <2> QED BY <2>2
<1> QED BY <1>2, <1>3

LEMMA OtherIdentityHeads ==
  ASSUME Inv, Heading, root.up, OtherIdentity
  PROVE  Heading'
<1>1. PICK h : h = Now /\ Heads(h)
  BY Ahead
<1>2. PICK k : k = Wishing(Home) /\ Like(k)
  BY Wishes, Routed
<1>3. Traced(k) /\ Sound(k) /\ k.root.up
  BY <1>1, <1>2, LikeTraced DEF Like
<1>4. PICK c : /\ c = Count(k, "epoch") /\ Kin(k, c) /\ Brings(k, c) /\ Following(c) = {}
  BY <1>3, Counts, CountBrings DEF Counters
<1>5. Sound(c) /\ Traced(c) /\ c.root.up
  BY <1>3, <1>4 DEF Kin, Brings
<1>6. PICK p : /\ p = StopWork(c) /\ Kin(c, p) /\ Brings(c, p) /\ p.work.life = "stopped"
  BY <1>5, StopsWork, StopWorkBrings
<1>7. Sound(p) /\ Traced(p) /\ p.root.up /\ Following(p) = {}
  BY <1>4, <1>5, <1>6 DEF Kin, Brings, Descends
<1>8. PICK q : /\ q = [p EXCEPT !.root.destination = ""]
               /\ Kin(p, q) /\ Brings(p, q) /\ q.work = p.work /\ q.tasks = p.tasks
  <2>1. LET n == [p EXCEPT !.root.destination = ""] IN
        Kin(p, n) /\ Calm(p, n) /\ n.work = p.work /\ n.tasks = p.tasks
    BY <1>7, Forgets
  <2>2. LET n == [p EXCEPT !.root.destination = ""] IN
        Brings(p, n) /\ n.work = p.work /\ n.apps = p.apps /\ n.tasks = p.tasks
    BY <1>7, ForgetsBrings
  <2> QED BY <2>1, <2>2
<1>9. PICK n : n = [q EXCEPT !.status = "loading"] /\ Become(n)
  BY <1>2, <1>4, <1>6, <1>8 DEF OtherIdentity, Changing, Become
<1>10. /\ n \in World /\ n.work = q.work /\ n.apps = q.apps /\ n.tasks = q.tasks /\ n.root = q.root
       /\ n.status = "loading"
  BY <1>8, <1>9 DEF Kin, Sound, World
<1>11. Sound(q) /\ Traced(q) /\ q.root.up /\ Following(q) = {}
  BY <1>7, <1>8 DEF Kin, Brings, Descends
<1>12. Sound(n) /\ Traced(n) /\ Following(n) = {} /\ n.root.up
  BY <1>10, <1>11, SameContent, SameTraced
<1>13. n.work.life = "stopped"
  BY <1>6, <1>8, <1>10
<1>14. Heads(n)
  BY <1>10, <1>12, <1>13, StoppedHeads
<1> QED BY <1>9, <1>12, <1>14, Ends

LEMMA SessionReadHeads ==
  ASSUME Inv, Heading, root.up, SessionRead
  PROVE  Heading'
<1>1. PICK k : k = Now /\ Heads(k) /\ k.status = status
  BY Ahead
<1>2. PICK s : /\ s = [Wishing(Home) EXCEPT !.status = "authenticated"]
               /\ Like(s) /\ s.status = "authenticated" /\ s.online = online
  BY OtherStatus, Routed
<1>3. s.wish = Home
  BY <1>2 DEF Wishing
<1>4. ~Permitted(k) /\ Idle
  BY <1>1 DEF SessionRead, Permitted
<1>5. Errandless(k) /\ Following(k) = {}
  BY <1>1, <1>4, Quiet, Nowhere
<1>6. Traced(s) /\ Closes(s) = {} /\ Following(s) = {} /\ Sound(s)
  BY <1>1, <1>2, <1>5, LikeTraced DEF Errandless, Like
<1>7. PICK p : /\ p = StopWork(s) /\ Kin(s, p) /\ Calm(s, p) /\ p.work.life = "stopped"
               /\ p.root = s.root /\ Brings(s, p)
  BY <1>6, StopsWork, StopWorkBrings
<1>8. Sound(p) /\ Traced(p) /\ Closes(p) = {} /\ Following(p) = {} /\ p.wish = Home
  BY <1>3, <1>6, <1>7 DEF Kin, Brings, Descends
<1>9. PICK q : /\ q = [p EXCEPT !.root.destination = ""]
               /\ Kin(p, q) /\ Calm(p, q) /\ q.work = p.work /\ Brings(p, q)
  <2>1. LET n == [p EXCEPT !.root.destination = ""] IN
        Kin(p, n) /\ Calm(p, n) /\ n.work = p.work /\ n.tasks = p.tasks
    BY <1>8, Forgets
  <2>2. LET n == [p EXCEPT !.root.destination = ""] IN
        Brings(p, n) /\ n.work = p.work /\ n.apps = p.apps /\ n.tasks = p.tasks
    BY <1>8, ForgetsBrings
  <2> QED BY <2>1, <2>2
<1>10. PICK n : n = Commit(q, Home) /\ Become(n)
  BY <1>2, <1>7, <1>9 DEF SessionRead, Become
<1>11. Sound(q) /\ Ready(q) /\ q.root.up
  BY <1>2, <1>7, <1>9, ImportsPermitted DEF SessionRead, Kin, Calm, Like, Ready, Permitted
<1>12. Traced(q) /\ Closes(q) = {} /\ Following(q) = {} /\ q.wish = Home
  BY <1>8, <1>9 DEF Brings, Descends
<1>13. Clear(q) /\ ~Flushes(q) /\ Aims(q, Home)
  BY <1>7, <1>9, <1>12 DEF Clear, Flushes, Aims
<1>14. Heads(n)
  BY <1>10, <1>11, <1>12, <1>13, CommitArrives, Routed
<1>15. Sound(n)
  BY <1>10, <1>11, Commits, Routed DEF Kin
<1> QED BY <1>10, <1>14, <1>15, Ends

LEMMA TurnedBrings ==
  ASSUME NEW s, Sound(s), Traced(s)
  PROVE  LET n == Turned(s) IN
         /\ Brings(s, n) /\ Sound(n)
         /\ Following(n) = {} /\ Latests(n) = {}
         /\ n.status = s.status /\ n.online = s.online /\ n.root.up = s.root.up
<1>1. PICK c : c = Count(s, "epoch") /\ Kin(s, c) /\ Brings(s, c) /\ Following(c) = {}
  BY Counts, CountBrings DEF Counters
<1>2. Sound(c) /\ Traced(c)
  BY <1>1 DEF Kin, Brings
<1>3. PICK d : /\ d = Count(c, "navigation") /\ Kin(c, d) /\ Brings(c, d) /\ Latests(d) = {}
  BY <1>2, Counts, CountBrings DEF Counters
<1>4. Sound(d) /\ Traced(d) /\ Following(d) = {}
  BY <1>1, <1>3 DEF Kin, Brings, Descends
<1>5. PICK n : n = [d EXCEPT !.root.destination = ""] /\ Kin(d, n) /\ Brings(d, n)
  <2>1. LET n == [d EXCEPT !.root.destination = ""] IN
        Kin(d, n) /\ Calm(d, n) /\ n.work = d.work /\ n.tasks = d.tasks
    BY <1>4, Forgets
  <2>2. LET n == [d EXCEPT !.root.destination = ""] IN
        Brings(d, n) /\ n.work = d.work /\ n.apps = d.apps /\ n.tasks = d.tasks
    BY <1>4, ForgetsBrings
  <2> QED BY <2>1, <2>2
<1>6. n = Turned(s)
  BY <1>1, <1>3, <1>5 DEF Turned
<1>7. Brings(s, n)
  BY <1>1, <1>3, <1>5, Chains
<1>8. Following(n) = {} /\ Latests(n) = {}
  BY <1>3, <1>4, <1>5 DEF Brings, Descends
<1>9. Sound(n) /\ n.status = s.status /\ n.online = s.online /\ n.root.up = s.root.up
  BY <1>1, <1>3, <1>5 DEF Kin
<1> QED BY <1>6, <1>7, <1>8, <1>9

LEMMA GoOfflineHeads ==
  ASSUME Inv, Heading, root.up, GoOffline
  PROVE  Heading'
<1>1. PICK h : h = Now /\ Heads(h)
  BY Ahead
<1>2. PICK k \in World : /\ k = Wishing(url) /\ Like(k) /\ k.url = url
  <2>1. url \in Routes \cup {Login}
    BY Before DEF World
  <2> QED BY <2>1, Wishes DEF Like
<1>3. k.wish = url
  BY <1>2 DEF Wishing
<1>4. PICK s : s = [k EXCEPT !.online = FALSE]
  OBVIOUS
<1>5. /\ s \in World /\ s.work = k.work /\ s.apps = k.apps /\ s.tasks = k.tasks /\ s.root = k.root
      /\ s.online = FALSE /\ s.url = url /\ s.wish = url
  BY <1>2, <1>3, <1>4 DEF World
<1>6. Like(s)
  BY <1>2, <1>5, Likes DEF Like
<1>7. Sound(s) /\ Traced(s) /\ s.root.up
  BY <1>1, <1>6, LikeTraced DEF Like
<1>8. PICK d : /\ d = Turned(s) /\ Brings(s, d) /\ Sound(d) /\ Following(d) = {} /\ Latests(d) = {}
               /\ d.online = s.online /\ d.root.up = s.root.up
  BY <1>7, TurnedBrings
<1>9. Traced(d)
  BY <1>8 DEF Brings
<1>10. PICK p : p = StopWork(d) /\ Kin(d, p) /\ Brings(d, p) /\ p.work.life = "stopped"
  BY <1>8, <1>9, StopsWork, StopWorkBrings
<1>11. Sound(p) /\ Traced(p)
  BY <1>10 DEF Kin, Brings
<1>12. PICK n : n = StopLogin(p) /\ Kin(p, n) /\ n.work = p.work /\ Brings(p, n)
  BY <1>11, StopsLogin, StopLoginBrings
<1>13. Become(n)
  BY <1>2, <1>4, <1>8, <1>10, <1>12 DEF GoOffline, Become
<1>14. Sound(n) /\ n.root.up /\ ~n.online
  BY <1>5, <1>7, <1>8, <1>10, <1>12 DEF Kin
<1>15. Traced(n) /\ Following(n) = {} /\ Latests(n) = {}
  BY <1>8, <1>10, <1>12 DEF Brings, Descends
<1>16. Aims(n, n.url)
  BY <1>5, <1>8, <1>10, <1>12 DEF Brings, Aims
<1>17. n.work.life = "stopped"
  BY <1>10, <1>12
<1>18. Heads(n)
  BY <1>14, <1>15, <1>16, <1>17, StoppedHeads
<1> QED BY <1>13, <1>14, <1>18, Ends

LEMMA GoOnlineHeads ==
  ASSUME Inv, Heading, root.up, GoOnline
  PROVE  Heading'
<1>1. PICK k \in World :
         /\ k = Now /\ Heads(k) /\ k.work = work /\ k.apps = apps /\ k.tasks = tasks
         /\ k.root = root /\ k.status = status /\ k.online = online
  BY Ahead
<1>2. PICK s : s = [k EXCEPT !.online = TRUE]
  OBVIOUS
<1>3. /\ s \in World /\ s.work = k.work /\ s.apps = k.apps /\ s.tasks = k.tasks /\ s.root = k.root
      /\ s.online = TRUE /\ s.url = k.url /\ s.wish = k.wish /\ s.status = k.status
  BY <1>1, <1>2 DEF World
<1>4. Like(s)
  BY <1>1, <1>3, Likes
<1>5. ~Permitted(k) /\ Idle
  BY <1>1 DEF GoOnline, Act, Permitted
<1>6. Errandless(k)
  BY <1>1, <1>5, Quiet
<1>7. Sound(s) /\ Traced(s) /\ Closes(s) = {} /\ s.root.up
  BY <1>1, <1>4, <1>6, LikeTraced DEF Like, Errandless
<1>8. k.status = "authenticated" => Aims(k, k.url)
  BY <1>1, <1>6 DEF Heads, Bound, Errandless
<1>9. PICK d : /\ d = Turned(s) /\ Brings(s, d) /\ Sound(d) /\ Latests(d) = {}
               /\ d.status = s.status /\ d.online = s.online /\ d.root.up = s.root.up
  BY <1>7, TurnedBrings
<1>10. Traced(d) /\ Closes(d) = {} /\ d.url = s.url /\ d.wish = s.wish
  BY <1>7, <1>9 DEF Brings, Descends
<1>11. d.status = "authenticated" => Aims(d, d.url)
  BY <1>3, <1>8, <1>9, <1>10 DEF Aims
<1>12. PICK e : /\ e = Turned(s) /\ e.work = s.work
  BY <1>4, Turning
<1>13. Clear(d) /\ Ready(d)
  <2>1. work.life = "stopped"
    BY ImportsPermitted DEF GoOnline
  <2>2. d.work.life = "stopped" /\ d.online
    BY <1>1, <1>3, <1>9, <1>12, <2>1
  <2> QED BY <1>10, <2>2 DEF Clear, Ready
<1>14. PICK n : n = Dispatch(d) /\ Become(n)
  BY <1>1, <1>2, <1>9 DEF GoOnline, Become
<1>15. Heads(n)
  BY <1>7, <1>9, <1>10, <1>11, <1>13, <1>14, DispatchArrives
<1>16. Sound(n)
  BY <1>9, <1>13, <1>14, Dispatches DEF Kin
<1> QED BY <1>14, <1>15, <1>16, Ends

-----------------------------------------------------------------------------
(* Continuations keep the heading.                                         *)

LEMMA StillHeads ==
  ASSUME NEW k, Heads(k), k.root.up, NEW n, Traced(n), n.root.up, Latests(n) = Latests(k),
         n.url = k.url, n.wish = k.wish, n.status = k.status, n.online = k.online,
         n.work.route \in {None, k.work.route},
         \A u \in Following(n) : \E t \in Following(k) : u.route = t.route,
         Closes(n) # {} /\ n.work.life = "running" <=> Closes(k) # {} /\ k.work.life = "running"
  PROVE  Heads(n)
<1>1. \A a : Aims(n, a) <=> Aims(k, a)
  BY DEF Aims
<1>2. Bound(n)
  BY <1>1 DEF Heads, Bound, Permitted
<1>3. Addressed(n)
  BY DEF Heads, Addressed, Permitted
<1> QED BY <1>2, <1>3 DEF Heads, Unborn

\* Fewer continuations, none of them an errand.
LEMMA FewerHeads ==
  ASSUME NEW k, Heads(k), k.root.up, NEW n, n.tasks \subseteq k.tasks,
         n.url = k.url, n.wish = k.wish, n.status = k.status, n.online = k.online,
         n.work = k.work, n.apps = k.apps, n.root = k.root,
         Latests(n) = Latests(k), k.work.life = "running" => Closes(n) = Closes(k)
  PROVE  Heads(n)
<1>1. Traced(k)
  BY DEF Heads
<1>2. Descends(k, n) /\ \A t \in n.tasks : t.at = "flush" => Edited(n.apps)
  BY <1>1, LessTasks DEF Traced, Placed
<1>3. Traced(n)
  BY <1>1, <1>2, Places DEF Brings
<1>4. Following(n) \subseteq Following(k)
  BY DEF Following
<1> QED BY <1>3, <1>4, StillHeads

\* The same continuations, of a workspace of the same life and route.
Alike(s, n) ==
  /\ Traced(n) /\ n.tasks = s.tasks
  /\ n.url = s.url /\ n.wish = s.wish /\ n.status = s.status /\ n.online = s.online
  /\ n.root.up = s.root.up /\ n.work.life = s.work.life /\ n.work.route = s.work.route

LEMMA AlikeHeads ==
  ASSUME NEW s, NEW n, Heads(s), s.root.up, Alike(s, n)
  PROVE  Heads(n) /\ n.root.up
<1>1. Ordered(s) /\ n.tasks = s.tasks
  BY DEF Heads, Traced, Alike
<1>2. Following(n) = Following(s) /\ Latests(n) = Latests(s) /\ Closes(n) = Closes(s)
  BY <1>1, SameTasks
<1> QED BY <1>2, StillHeads DEF Alike

LEMMA LeadsAlike ==
  ASSUME NEW s, NEW n, Kin(s, n), Leads(s, n), n.tasks = s.tasks,
         n.work.life = s.work.life, n.work.route = s.work.route
  PROVE  Alike(s, n)
  BY DEF Kin, Leads, Alike

LEMMA ReportsAlike ==
  ASSUME NEW s, Sound(s), Traced(s)
  PROVE  Alike(s, Reported(s))
<1>1. s \in World /\ s.work \in Work
  BY DEF Sound, World
<1>2. PICK w \in Work : /\ w = [s.work EXCEPT !.reported = TRUE]
                        /\ w.life = s.work.life /\ w.current = s.work.current
                        /\ w.route = s.work.route
  <2> DEFINE q == [s.work EXCEPT !.reported = TRUE]
  <2>1. /\ q \in Work /\ q.life = s.work.life /\ q.current = s.work.current
        /\ q.route = s.work.route
    BY <1>1 DEF Work
  <2> QED BY <2>1
<1>3. /\ w.life # "stopped" => s.root.module
      /\ Following(s) # {} => w.current = None
      /\ w.route = s.work.route \/ Pending(s) = {}
  BY <1>2 DEF Traced, Placed
<1>4. PICK n : n = [s EXCEPT !.work = w] /\ Leads(s, n) /\ n.work = w /\ n.tasks = s.tasks
  <2>1. LET n == [s EXCEPT !.work = w] IN
        /\ Leads(s, n) /\ n.work = w /\ n.tasks = s.tasks /\ n.root = s.root
        /\ Following(n) = Following(s) /\ Pending(n) = Pending(s)
        /\ Latests(n) = Latests(s) /\ Closes(n) = Closes(s)
    BY <1>3, OtherWorkLeads
  <2> QED BY <2>1
<1>5. n = Reported(s)
  BY <1>1, <1>2, <1>4 DEF Reported, World
<1>6. Kin(s, n)
  BY <1>5, Reports
<1> QED BY <1>2, <1>4, <1>5, <1>6, LeadsAlike

LEMMA ForgetsAlike ==
  ASSUME NEW s, Sound(s), Traced(s)
  PROVE  Alike(s, [s EXCEPT !.root.destination = ""])
<1>1. PICK n : /\ n = [s EXCEPT !.root.destination = ""]
               /\ Kin(s, n) /\ Brings(s, n) /\ n.work = s.work /\ n.tasks = s.tasks
  <2>1. LET n == [s EXCEPT !.root.destination = ""] IN
        Kin(s, n) /\ Calm(s, n) /\ n.work = s.work /\ n.tasks = s.tasks
    BY Forgets
  <2>2. LET n == [s EXCEPT !.root.destination = ""] IN
        Brings(s, n) /\ n.work = s.work /\ n.apps = s.apps /\ n.tasks = s.tasks
    BY ForgetsBrings
  <2> QED BY <2>1, <2>2
<1> QED BY <1>1, BringsLeads, LeadsAlike

\* The world without a continuation.
LEMMA Leaves ==
  ASSUME Inv, Heading, NEW t \in tasks, NEW k, k = Now
  PROVE  \E d : /\ d = Done(t) /\ Sound(d) /\ Ready(d) /\ Traced(d) /\ d.tasks = tasks \ {t}
                /\ d.work = k.work /\ d.apps = k.apps /\ d.root = k.root
                /\ d.status = k.status /\ d.online = k.online
                /\ d.url = k.url /\ d.wish = k.wish
                /\ Following(d) = Following(k) \ {t} /\ Pending(d) = Pending(k) \ {t}
                /\ Latests(d) = Latests(k) \ {t} /\ Closes(d) = Closes(k) \ {t}
<1>1. /\ Heads(k) /\ k \in World /\ k.tasks = tasks /\ k.work = work /\ k.apps = apps
      /\ k.root = root /\ k.status = status /\ k.online = online
  BY Ahead
<1>2. PICK d : /\ d = Done(t) /\ Sound(d) /\ Ready(d)
               /\ d.tasks = tasks \ {t} /\ d.work = work /\ d.apps = apps /\ d.root = root
               /\ d.status = status /\ d.online = online
  BY Dones
<1>3. d.url = k.url /\ d.wish = k.wish
  BY <1>1, <1>2 DEF Done, World
<1>4. /\ Following(d) = Following(k) \ {t} /\ Pending(d) = Pending(k) \ {t}
      /\ Latests(d) = Latests(k) \ {t} /\ Closes(d) = Closes(k) \ {t}
  BY <1>1, <1>2 DEF Following, Pending, Latests, Closes
<1>5. Traced(k) /\ Descends(k, d)
  BY <1>1, <1>2, LessTasks DEF Heads, Traced
<1>6. \A u \in d.tasks : u.at = "flush" => Edited(d.apps)
  BY <1>1, <1>2, <1>5 DEF Traced, Placed
<1>7. Traced(d)
  <2>1. /\ d.work = k.work /\ d.root = k.root /\ d.apps = k.apps
    BY <1>1, <1>2
  <2> QED BY <1>3, <1>5, <1>6, <2>1, Places DEF Brings
<1> QED BY <1>1, <1>2, <1>3, <1>4, <1>7

LEMMA DoneHeads ==
  ASSUME Inv, Heading, root.up, NEW t \in tasks, NEW k, k = Now,
         t \notin Latests(k), t \in Closes(k) => work.life # "running"
  PROVE  \E d : d = Done(t) /\ Sound(d) /\ Heads(d) /\ d.root.up
<1>1. Heads(k) /\ k.tasks = tasks /\ k.work = work /\ k.root = root
  BY Ahead
<1>2. PICK d : /\ d = Done(t) /\ Sound(d) /\ d.tasks = tasks \ {t}
               /\ d.work = k.work /\ d.apps = k.apps /\ d.root = k.root
               /\ d.status = k.status /\ d.online = k.online
               /\ d.url = k.url /\ d.wish = k.wish
               /\ Latests(d) = Latests(k) \ {t} /\ Closes(d) = Closes(k) \ {t}
  BY Leaves
<1>3. /\ d.tasks \subseteq k.tasks /\ Latests(d) = Latests(k)
      /\ k.work.life = "running" => Closes(d) = Closes(k)
  BY <1>1, <1>2
<1>4. Heads(d)
  BY <1>1, <1>2, <1>3, FewerHeads
<1> QED BY <1>1, <1>2, <1>4

\* An error that reaches dispatch().
LEMMA ThrownHeads ==
  ASSUME NEW s, Sound(s), Heads(s), s.root.up, NEW t
  PROVE  Sound(Thrown(s, t)) /\ Heads(Thrown(s, t))
<1>1. CASE t.epoch
  <2>1. PICK p : p = Reported(s) /\ Alike(s, p) /\ Kin(s, p)
    BY ReportsAlike, Reports DEF Heads
  <2>2. Heads(p) /\ Sound(p) /\ p.root.up
    BY <2>1, AlikeHeads DEF Kin
  <2>3. PICK n : n = [p EXCEPT !.root.destination = ""] /\ Alike(p, n) /\ Sound(n)
    <3>1. LET n == [p EXCEPT !.root.destination = ""] IN
          Kin(p, n) /\ Calm(p, n) /\ n.work = p.work /\ n.tasks = p.tasks
      BY <2>2, Forgets
    <3>2. Alike(p, [p EXCEPT !.root.destination = ""])
      BY <2>2, ForgetsAlike DEF Heads
    <3> QED BY <3>1, <3>2 DEF Kin
  <2>4. Heads(n)
    BY <2>2, <2>3, AlikeHeads
  <2> QED BY <1>1, <2>1, <2>3, <2>4 DEF Thrown
<1>2. CASE ~t.epoch
  BY <1>2 DEF Thrown
<1> QED BY <1>1, <1>2

LEMMA DropHeads ==
  ASSUME Inv, Heading, root.up, NEW t \in tasks, Become(Done(t)),
         t \in Committing => ~t.navigation, t \in Closing => work.life # "running"
  PROVE  Heading'
<1>1. PICK k : k = Now /\ k.tasks = tasks
  BY Ahead
<1>2. t \notin Latests(k) /\ (t \in Closes(k) => work.life # "running")
  BY DEF Latests, Closes
<1>3. PICK d : d = Done(t) /\ Sound(d) /\ Heads(d)
  BY <1>1, <1>2, DoneHeads
<1>4. Become(d)
  BY <1>3
<1> QED BY <1>3, <1>4, Ends

LEMMA ThrowHeads ==
  ASSUME Inv, Heading, root.up, NEW t \in tasks, t.is \in {"dispatch", "show"},
         Become(Thrown(Done(t), t))
  PROVE  Heading'
<1>1. PICK k : k = Now /\ k.tasks = tasks
  BY Ahead
<1>2. t \notin Latests(k) /\ t \notin Closes(k)
  BY TasksTyped, Kinds DEF Latests, Closes
<1>3. PICK d : d = Done(t) /\ Sound(d) /\ Heads(d) /\ d.root.up
  BY <1>1, <1>2, DoneHeads
<1>4. PICK n : n = Thrown(d, t) /\ Become(n)
  BY <1>3
<1>5. Sound(n) /\ Heads(n)
  BY <1>3, <1>4, ThrownHeads
<1> QED BY <1>4, <1>5, Ends

\* The workspace shows the address, or is about to.
LEMMA ShowsHeads ==
  ASSUME NEW k, Heads(k), k.root.up, Permitted(k), Errandless(k),
         NEW n, Traced(n), n.root.up, Errandless(n), Shows(n, k.url),
         n.url = k.url, n.wish = k.wish, n.status = k.status, n.online = k.online
  PROVE  Heads(n)
<1>1. Aims(n, n.url) /\ n.url # Login
  BY DEF Heads, Bound, Permitted, Errandless, Aims
<1>2. Bound(n)
  BY <1>1 DEF Bound, Errandless
<1>3. Addressed(n)
  BY DEF Addressed, Shows, Permitted
<1> QED BY <1>2, <1>3 DEF Heads, Unborn

\* The one dispatch that goes on.
LEMMA Followed ==
  ASSUME Inv, Heading, NEW t \in tasks, t.is = "dispatch", t.epoch, NEW k, k = Now
  PROVE  /\ Permitted(k) /\ Errandless(k) /\ t.route = k.url /\ Following(k) = {t}
         /\ t \in Dispatching /\ t.route \in Routes
<1>1. Heads(k) /\ k.tasks = tasks
  BY Ahead
<1>2. t \in Dispatching /\ t.route \in Routes
  BY TasksTyped, Kinds, Routed
<1>3. t \in Following(k)
  BY <1>1, <1>2 DEF Following
<1>4. Errands(k) = {} /\ Following(k) = {t}
  BY <1>1, <1>3 DEF Heads, Traced, Ordered
<1>5. Permitted(k) /\ t.route = k.url
  BY <1>1, <1>3 DEF Heads, Addressed
<1> QED BY <1>2, <1>4, <1>5 DEF Errands, Errandless

LEMMA WorkspaceLoadsHeads ==
  ASSUME Inv, Heading, root.up, NEW t \in tasks, WorkspaceLoads(t)
  PROVE  Heading'
<1>1. t.is = "dispatch" /\ t \notin Committing /\ t \notin Closing
  BY TasksTyped, Kinds DEF WorkspaceLoads
<1>2. CASE Newest(t)
  <2>1. PICK k : k = Now /\ Heads(k) /\ k.root = root
    BY Ahead
  <2>2. /\ Permitted(k) /\ Errandless(k) /\ t.route = k.url /\ Following(k) = {t}
        /\ t.route \in Routes
    BY <1>1, <1>2, <2>1, Followed DEF Newest
  <2>3. PICK d : /\ d = Done(t) /\ Sound(d) /\ Traced(d) /\ d.root = k.root
                 /\ d.status = k.status /\ d.online = k.online
                 /\ d.url = k.url /\ d.wish = k.wish
                 /\ Following(d) = {} /\ Errandless(d)
    BY <2>1, <2>2, Leaves DEF Errandless
  <2>4. PICK r \in Root : r = [d.root EXCEPT !.module = TRUE] /\ r.up = d.root.up /\ r.module = TRUE
    <3> DEFINE q == [d.root EXCEPT !.module = TRUE]
    <3>1. q \in Root /\ q.up = d.root.up /\ q.module = TRUE
      BY <2>3 DEF Sound, World, Root
    <3> QED BY <3>1
  <2>5. PICK e : e = [d EXCEPT !.root = r] /\ Kin(d, e) /\ Brings(d, e) /\ e.root = r
    <3>1. LET e == [d EXCEPT !.root = r] IN Kin(d, e)
      BY <2>3, <2>4, OtherRoot
    <3>2. d.root.module => r.module
      BY <2>4
    <3>3. LET e == [d EXCEPT !.root = r] IN
          /\ Brings(d, e) /\ e.root = r /\ e.work = d.work
          /\ e.apps = d.apps /\ e.tasks = d.tasks
      BY <2>3, <3>2, OtherRootBrings
    <3> QED BY <3>1, <3>3
  <2>6. e = [Done(t) EXCEPT !.root.module = TRUE]
    BY <2>3, <2>4, <2>5 DEF Sound, World
  <2>7. PICK n : n = StartWork(e, t.route) /\ Become(n)
    BY <1>2, <2>6 DEF WorkspaceLoads, Become
  <2>8. Sound(e) /\ Traced(e) /\ Following(e) = {} /\ Errandless(e) /\ e.root.module = TRUE
    BY <2>3, <2>4, <2>5 DEF Kin, Brings, Descends, Errandless
  <2>9. PICK to \in Routes : to = t.route /\ to = k.url
    BY <2>2
  <2>10. Kin(e, n) /\ Leads(e, n) /\ Shows(n, k.url)
    BY <2>7, <2>8, <2>9, StartsWork, StartWorkLeads
  <2>11. /\ Traced(n) /\ Errandless(n) /\ n.url = k.url /\ n.wish = k.wish
    BY <2>3, <2>5, <2>8, <2>10 DEF Leads, Brings, Errandless
  <2>12. Sound(n) /\ n.status = k.status /\ n.online = k.online /\ n.root.up = k.root.up
    BY <2>3, <2>4, <2>5, <2>10 DEF Kin
  <2>13. Heads(n)
    BY <2>1, <2>2, <2>10, <2>11, <2>12, ShowsHeads
  <2> QED BY <2>7, <2>12, <2>13, Ends
<1>3. CASE ~Newest(t)
  BY <1>1, <1>3, DropHeads DEF WorkspaceLoads
<1> QED BY <1>2, <1>3

LEMMA ResumeHeads ==
  ASSUME Inv, Heading, root.up, NEW t \in tasks, Resume(t)
  PROVE  Heading'
<1>1. t.is = "dispatch" /\ t \notin Committing /\ t \notin Closing
  BY TasksTyped, Kinds DEF Resume
<1>2. CASE Newest(t) /\ work.life = "running"
  <2>1. PICK k : k = Now /\ Heads(k) /\ k.root = root /\ k.work = work
    BY Ahead
  <2>2. /\ Permitted(k) /\ Errandless(k) /\ t.route = k.url /\ Following(k) = {t}
        /\ t.route \in Routes
    BY <1>1, <1>2, <2>1, Followed DEF Newest
  <2>3. PICK d : /\ d = Done(t) /\ Sound(d) /\ Traced(d) /\ d.root = k.root /\ d.work = k.work
                 /\ d.status = k.status /\ d.online = k.online
                 /\ d.url = k.url /\ d.wish = k.wish
                 /\ Following(d) = {} /\ Errandless(d)
    BY <2>1, <2>2, Leaves DEF Errandless
  <2>4. PICK n : n = ShowRoute(d, t.route) /\ Become(n)
    BY <1>2, <2>3 DEF Resume, Become
  <2>5. PICK to \in Routes : to = t.route /\ to = k.url
    BY <2>2
  <2>6. d.work.life = "running"
    BY <1>2, <2>1, <2>3
  <2>7. /\ Kin(d, n) /\ Leads(d, n) /\ Following(n) = {} /\ n.work.route = k.url
    BY <2>3, <2>4, <2>5, <2>6, ShowsRoute, ShowRouteLeads
  <2>8. /\ Traced(n) /\ Errandless(n) /\ n.url = k.url /\ n.wish = k.wish /\ Shows(n, k.url)
    BY <2>3, <2>7 DEF Leads, Errandless, Shows
  <2>9. Sound(n) /\ n.status = k.status /\ n.online = k.online /\ n.root.up = k.root.up
    BY <2>3, <2>7 DEF Kin
  <2>10. Heads(n)
    BY <2>1, <2>2, <2>8, <2>9, ShowsHeads
  <2> QED BY <2>4, <2>9, <2>10, Ends
<1>3. CASE ~(Newest(t) /\ work.life = "running")
  BY <1>1, <1>3, DropHeads DEF Resume
<1> QED BY <1>2, <1>3

\* Worlds that differ by what no heading is about.
LEMMA Restyled ==
  ASSUME NEW s, Heads(s), s.root.up, NEW n, n.tasks = s.tasks,
         n.url = s.url, n.wish = s.wish, n.status = s.status, n.online = s.online,
         n.root.up = s.root.up, s.root.module => n.root.module,
         n.work.life = s.work.life, n.work.route = s.work.route,
         n.work.current \in {None, s.work.current}, Edited(s.apps) => Edited(n.apps)
  PROVE  Heads(n)
<1>1. Traced(s)
  BY DEF Heads
<1>2. Descends(s, n) /\ \A t \in n.tasks : t.at = "flush" => Edited(n.apps)
  BY <1>1, SameTasks DEF Traced, Placed
<1>3. Traced(n)
  BY <1>1, <1>2, Places DEF Brings
<1> QED BY <1>3, AlikeHeads DEF Alike

\* The end of a step that is known to be sound.
LEMMA EndsThere ==
  ASSUME NEW n \in World, Heads(n), Become(n), Inv'
  PROVE  Heading'
<1>1. Now' = n
  BY DEF Now, Become, World
<1>2. Sound(n)
  BY <1>1
     DEF Inv, Sound, World, Kept, Alone, Single, Pending
<1> QED BY <1>2, Ends

LEMMA WorkspaceStartsHeads ==
  ASSUME Inv, Heading, root.up, WorkspaceStarts
  PROVE  Heading'
<1> DEFINE resumed(t) == IF t.is = "dispatch" /\ t.at = "start" THEN [t EXCEPT !.at = "resumed"] ELSE t
<1>1. PICK k \in World :
         /\ k = Now /\ Sound(k) /\ Heads(k) /\ k.tasks \subseteq Task /\ k.work \in Work
         /\ k.work = work /\ k.tasks = tasks /\ k.root = root
  BY Ahead DEF World
<1>2. PICK g \in [k.tasks -> Task] : \A t \in k.tasks :
        g[t] = resumed(t) /\ Stems(g[t], t) /\ (g[t].at = "flush" => t.at = "flush")
  <2> DEFINE h == [t \in k.tasks |-> resumed(t)]
  <2>1. \A t \in k.tasks : t.is = "dispatch" /\ t.at = "start" =>
          LET u == [t EXCEPT !.at = "resumed"] IN u \in Task /\ Stems(u, t) /\ u.at = "resumed"
    BY <1>1, Kinds DEF Dispatching, Task, Stems
  <2>2. /\ h \in [k.tasks -> Task]
        /\ \A t \in k.tasks :
             h[t] = resumed(t) /\ Stems(h[t], t) /\ (h[t].at = "flush" => t.at = "flush")
    BY <1>1, <2>1 DEF Stems
  <2> QED BY <2>2
<1>3. PICK ts \in SUBSET Task : ts = { resumed(t) : t \in k.tasks } /\ ts = { g[t] : t \in k.tasks }
  <2>1. \A t \in k.tasks : g[t] = resumed(t) /\ g[t] \in Task
    BY <1>2
  <2> HIDE DEF resumed
  <2>2. { resumed(t) : t \in k.tasks } = { g[t] : t \in k.tasks }
    BY <2>1
  <2>3. { g[t] : t \in k.tasks } \in SUBSET Task
    BY <2>1
  <2> QED BY <2>2, <2>3
<1>4. PICK w \in Work : /\ w = [k.work EXCEPT !.life = "running"]
                        /\ w.life = "running" /\ w.current = k.work.current
                        /\ w.route = k.work.route
  <2> DEFINE q == [k.work EXCEPT !.life = "running"]
  <2>1. q \in Work /\ q.life = "running" /\ q.current = k.work.current /\ q.route = k.work.route
    BY <1>1 DEF Work, Lives
  <2> QED BY <2>1
<1>5. PICK n : n = [k EXCEPT !.work = w, !.tasks = ts]
  OBVIOUS
<1>6. /\ n \in World /\ n.work = w /\ n.tasks = ts /\ n.apps = k.apps /\ n.root = k.root
      /\ n.status = k.status /\ n.online = k.online /\ n.url = k.url /\ n.wish = k.wish
  BY <1>1, <1>3, <1>4, <1>5 DEF World
<1>7. n = [Now EXCEPT
       !.work.life = "running",
       !.tasks = { IF t.is = "dispatch" /\ t.at = "start" THEN [t EXCEPT !.at = "resumed"] ELSE t :
                   t \in @ }]
  BY <1>1, <1>3, <1>4, <1>5 DEF World
<1>8. Become(n)
  BY <1>7 DEF WorkspaceStarts, Become
<1>9. Traced(k) /\ k.work.life = "starting" /\ Idle
  BY <1>1 DEF Heads, WorkspaceStarts
<1>10. Errandless(k)
  BY <1>1, <1>9, Quiet
<1>11. n.tasks = { g[t] : t \in k.tasks } /\ \A t \in k.tasks : Stems(g[t], t)
  BY <1>2, <1>3, <1>6
<1>12. Descends(k, n)
  <2>1. k.tasks \in SUBSET k.tasks /\ k.tasks \subseteq Task /\ Ordered(k)
    BY <1>1, <1>9 DEF Traced
  <2> QED BY <1>11, <2>1, Mapped
<1>13. \A u \in n.tasks : u.at = "flush" => Edited(n.apps)
  <2>1. \A t \in k.tasks : g[t].at = "flush" => t.at = "flush"
    BY <1>2
  <2>2. \A u \in n.tasks : u.at = "flush" => \E t \in k.tasks : t.at = "flush"
    BY <1>11, <2>1
  <2> QED BY <1>6, <1>9, <2>2 DEF Traced, Placed
<1>14. Traced(n)
  <2>1. /\ n.work.life # "stopped" => k.work.life # "stopped"
        /\ n.work.route = k.work.route /\ n.work.current = k.work.current
        /\ k.root.module => n.root.module
    BY <1>4, <1>6, <1>9
  <2> QED BY <1>6, <1>9, <1>12, <1>13, <2>1, Places DEF Brings
<1>15. \A u \in Following(n) : \E t \in Following(k) : u.route = t.route
  <2> SUFFICES ASSUME NEW u \in Following(n)
               PROVE  \E t \in Following(k) : u.route = t.route
    OBVIOUS
  <2>1. PICK t \in k.tasks : u = g[t] /\ Stems(u, t) /\ u \in Task /\ t \in Task
    BY <1>1, <1>2, <1>11 DEF Following
  <2>2. u \in Dispatching /\ u.epoch /\ u.is = "dispatch"
    BY <2>1, Kinds DEF Following
  <2>3. t.is = "dispatch" /\ t.epoch /\ u.route = t.route
    BY <2>2, <2>1 DEF Stems
  <2> QED BY <2>1, <2>3, Kinds DEF Following
<1>16. Closes(n) = {} /\ Closes(k) = {} /\ Latests(n) = Latests(k)
  BY <1>10, <1>12 DEF Descends, Errandless
<1>17. Heads(n)
  <2>1. n.work.route = k.work.route
    BY <1>4, <1>6
  <2> QED BY <1>1, <1>6, <1>14, <1>15, <1>16, <2>1, StillHeads
<1> QED BY <1>6, <1>8, <1>17, WorkspaceStartsKeepsInv, EndsThere

LEMMA PageLoadsHeads ==
  ASSUME Inv, Heading, root.up, NEW t \in tasks, PageLoads(t)
  PROVE  Heading'
<1>1. t \in Showing /\ t \notin Committing /\ t \notin Closing
  BY TasksTyped, Kinds DEF PageLoads
<1>2. CASE Current(t)
  <2>1. PICK k : k = Now /\ Heads(k) /\ k.tasks = tasks /\ k.root = root /\ k.work = work
    BY Ahead
  <2>2. t \in Pending(k)
    BY <1>1, <1>2, <2>1 DEF Pending, Current
  <2>3. Following(k) = {} /\ t.route = k.work.route
    BY <2>1, <2>2 DEF Heads, Traced, Placed
  <2>4. t \notin Latests(k) /\ t \notin Closes(k)
    BY <1>1 DEF Latests, Closes
  <2>5. PICK d : /\ d = Done(t) /\ Sound(d) /\ Traced(d) /\ d.root = k.root /\ d.work = k.work
                 /\ d.status = k.status /\ d.online = k.online
                 /\ d.url = k.url /\ d.wish = k.wish /\ Following(d) = {}
                 /\ Latests(d) = Latests(k) /\ Closes(d) = Closes(k)
    <3>1. PICK d : /\ d = Done(t) /\ Sound(d) /\ Traced(d) /\ d.root = k.root
                   /\ d.work = k.work /\ d.status = k.status /\ d.online = k.online
                   /\ d.url = k.url /\ d.wish = k.wish /\ Following(d) = Following(k) \ {t}
                   /\ Latests(d) = Latests(k) \ {t} /\ Closes(d) = Closes(k) \ {t}
      BY <2>1, Leaves
    <3>2. Following(d) = {} /\ Latests(d) = Latests(k) /\ Closes(d) = Closes(k)
      BY <2>3, <2>4, <3>1
    <3> QED BY <3>1, <3>2
  <2>6. PICK a : a = Done(t) /\ Pending(a) = {}
    BY <1>2, Alones DEF PageLoads, Current
  <2>7. Pending(d) = {} /\ d \in World /\ d.work \in Work /\ PageOf[t.route] \in Pages
    <3>1. t.route \in Routes
      BY <1>1 DEF Showing
    <3>2. Pending(d) = {}
      BY <2>5, <2>6
    <3> QED BY <2>5, <3>1, <3>2, NavigationAssumption DEF Sound, World
  <2>8. PICK w \in Work : /\ w = [d.work EXCEPT !.added = @ \cup {PageOf[t.route]}]
                          /\ w.life = d.work.life /\ w.key = d.work.key
                          /\ w.current = d.work.current /\ w.route = d.work.route
    <3> DEFINE q == [d.work EXCEPT !.added = @ \cup {PageOf[t.route]}]
    <3>1. /\ q \in Work /\ q.life = d.work.life /\ q.key = d.work.key
          /\ q.current = d.work.current /\ q.route = d.work.route
      BY <2>7 DEF Work
    <3> QED BY <3>1
  <2>9. /\ Kept(w) /\ Alone(w, d.apps)
        /\ w.life # "stopped" => d.root.module
        /\ Following(d) # {} => w.current = None
        /\ w.route = d.work.route \/ Pending(d) = {}
    BY <2>5, <2>8 DEF Sound, Kept, Alone, Traced, Placed
  <2>10. PICK e : /\ e = [d EXCEPT !.work = w] /\ Kin(d, e) /\ e.work = w /\ e.tasks = d.tasks
                  /\ Leads(d, e) /\ e.root = d.root
                  /\ Following(e) = {} /\ Pending(e) = {}
                  /\ Latests(e) = Latests(d) /\ Closes(e) = Closes(d)
    <3>1. LET e == [d EXCEPT !.work = w] IN Kin(d, e) /\ e.work = w /\ e.tasks = d.tasks
      BY <2>5, <2>7, <2>9, OtherWork
    <3>2. LET e == [d EXCEPT !.work = w] IN
          /\ Leads(d, e) /\ e.work = w /\ e.tasks = d.tasks /\ e.root = d.root
          /\ Following(e) = Following(d) /\ Pending(e) = Pending(d)
          /\ Latests(e) = Latests(d) /\ Closes(e) = Closes(d)
      BY <2>5, <2>9, OtherWorkLeads
    <3> QED BY <2>5, <2>7, <3>1, <3>2
  <2>11. e = [Done(t) EXCEPT !.work.added = @ \cup {PageOf[t.route]}]
    BY <2>5, <2>7, <2>8, <2>10 DEF World
  <2>12. PICK u \in Showing : /\ u = [t EXCEPT !.at = "start"] /\ u.at = "start"
                              /\ u.revision = t.revision /\ u.route = t.route
    <3> DEFINE q == [t EXCEPT !.at = "start"]
    <3>1. q \in Showing /\ q.at = "start" /\ q.revision = t.revision /\ q.route = t.route
      BY <1>1 DEF Showing
    <3> QED BY <3>1
  <2>13. Sound(e) /\ Traced(e)
    BY <2>10 DEF Kin, Leads
  <2>14. Fresh(e, u) /\ u.route = e.work.route
    <3>1. u.revision
      BY <1>2, <2>12 DEF Current
    <3>2. e.work.life = "running" /\ e.work.key = u.route
      <4>1. e.work = w /\ w.life = d.work.life /\ w.key = d.work.key /\ d.work = work
        BY <2>1, <2>5, <2>8, <2>10
      <4>2. u.route = t.route /\ work.life = "running" /\ work.key = t.route
        BY <1>2, <2>12 DEF Current
      <4> QED BY <4>1, <4>2
    <3>3. u.route = e.work.route
      BY <2>3, <2>5, <2>8, <2>10, <2>12
    <3> QED BY <2>10, <3>1, <3>2, <3>3 DEF Fresh
  <2>15. PICK n : n = StartPage(e, u) /\ Become(n)
    BY <1>2, <2>11, <2>12 DEF PageLoads, Become
  <2>16. Kin(e, n)
    BY <2>12, <2>13, <2>14, <2>15, StartsPage
  <2>17. /\ Leads(e, n) /\ n.root = e.root
         /\ n.work.life = e.work.life /\ n.work.route = e.work.route
         /\ Following(n) = {} /\ Latests(n) = Latests(e) /\ Closes(n) = Closes(e)
    <3>1. LET m == StartPage(e, u) IN
          /\ Leads(e, m) /\ m.root = e.root
          /\ m.work.life = e.work.life /\ m.work.route = e.work.route
          /\ Following(m) = {} /\ Latests(m) = Latests(e) /\ Closes(m) = Closes(e)
      <4>1. u.at = "start" /\ Following(e) = {}
        BY <2>10, <2>12
      <4> QED BY <2>13, <2>14, <4>1, StartPageLeads
    <3> QED BY <2>15, <3>1
  <2>18. /\ Traced(n) /\ n.url = k.url /\ n.wish = k.wish
         /\ n.status = k.status /\ n.online = k.online /\ n.root.up = k.root.up
    BY <2>5, <2>10, <2>16, <2>17 DEF Kin, Leads
  <2>19. /\ n.work.life = k.work.life /\ n.work.route = k.work.route
         /\ Latests(n) = Latests(k) /\ Closes(n) = Closes(k)
    BY <2>5, <2>8, <2>10, <2>17
  <2>20. Heads(n)
    BY <2>1, <2>17, <2>18, <2>19, StillHeads
  <2>21. Sound(n)
    BY <2>16 DEF Kin
  <2> QED BY <2>15, <2>20, <2>21, Ends
<1>3. CASE ~Current(t)
  BY <1>1, <1>3, DropHeads DEF PageLoads
<1> QED BY <1>2, <1>3

LEMMA PageLoadFailsHeads ==
  ASSUME Inv, Heading, root.up, NEW t \in tasks, PageLoadFails(t)
  PROVE  Heading'
<1>1. t \notin Committing /\ t \notin Closing
  BY TasksTyped, Kinds DEF PageLoadFails
<1>2. CASE Current(t)
  <2>1. PICK k : k = Now /\ k.tasks = tasks
    BY Ahead
  <2>2. t \notin Latests(k) /\ t \notin Closes(k)
    BY <1>1 DEF Latests, Closes
  <2>3. PICK d : d = Done(t) /\ Sound(d) /\ Heads(d) /\ d.root.up
    BY <2>1, <2>2, DoneHeads
  <2>4. d \in World /\ d.work \in Work
    BY <2>3 DEF Sound, World
  <2>5. PICK w \in Work : /\ w = [d.work EXCEPT !.reported = TRUE, !.key = None]
                          /\ w.life = d.work.life /\ w.route = d.work.route
                          /\ w.current = d.work.current
    <3> DEFINE q == [d.work EXCEPT !.reported = TRUE, !.key = None]
    <3>1. /\ q \in Work /\ q.life = d.work.life /\ q.current = d.work.current
          /\ q.route = d.work.route
      BY <2>4 DEF Work
    <3> QED BY <3>1
  <2>6. PICK n : n = [d EXCEPT !.work = w]
    OBVIOUS
  <2>7. /\ n \in World /\ n.work = w /\ n.tasks = d.tasks /\ n.apps = d.apps /\ n.root = d.root
        /\ n.status = d.status /\ n.online = d.online /\ n.url = d.url /\ n.wish = d.wish
    BY <2>4, <2>6 DEF World
  <2>8. n = [Reported(Done(t)) EXCEPT !.work.key = None]
    BY <2>3, <2>4, <2>5, <2>6 DEF World, Work, Reported
  <2>9. Become(n)
    BY <1>2, <2>8 DEF PageLoadFails, Become
  <2>10. Heads(n)
    <3>1. /\ n.work.life = d.work.life /\ n.work.route = d.work.route
          /\ n.work.current = d.work.current
      BY <2>5, <2>7
    <3>2. /\ n.tasks = d.tasks /\ n.url = d.url /\ n.wish = d.wish /\ n.status = d.status
          /\ n.online = d.online /\ n.root.up = d.root.up /\ (d.root.module => n.root.module)
          /\ (Edited(d.apps) => Edited(n.apps))
      BY <2>7
    <3> QED BY <2>3, <3>1, <3>2, Restyled
  <2> QED BY <2>7, <2>9, <2>10, PageLoadFailsKeepsInv, EndsThere
<1>3. CASE ~Current(t)
  BY <1>1, <1>3, DropHeads DEF PageLoadFails
<1> QED BY <1>2, <1>3

\* The world once nobody waits any more for the start of f.
LEMMA WokenHeads ==
  ASSUME Inv, Heading, root.up, NEW f \in Pages
  PROVE  \E d : /\ d = [Now EXCEPT !.tasks = @ \ WaitingFor(f)]
                /\ d \in World /\ Heads(d) /\ d.root = root /\ d.work = work /\ d.apps = apps
<1>1. PICK k : /\ k = Now /\ Heads(k) /\ k \in World /\ k.tasks \subseteq Task
               /\ k.work = work /\ k.apps = apps /\ k.tasks = tasks /\ k.root = root
  BY Ahead DEF World
<1>2. PICK ts \in SUBSET k.tasks : ts = tasks \ WaitingFor(f)
  BY <1>1
<1>3. PICK d : d = [k EXCEPT !.tasks = ts]
  OBVIOUS
<1>4. /\ d \in World /\ d.work = k.work /\ d.tasks = ts /\ d.apps = k.apps /\ d.root = k.root
      /\ d.status = k.status /\ d.online = k.online /\ d.url = k.url /\ d.wish = k.wish
  BY <1>1, <1>2, <1>3 DEF World
<1>5. \A t \in WaitingFor(f) : t \notin Committing /\ t \notin Closing
  BY <1>1, Kinds DEF WaitingFor
<1>6. Latests(d) = Latests(k) /\ Closes(d) = Closes(k)
  BY <1>1, <1>2, <1>4, <1>5 DEF Latests, Closes
<1>7. Heads(d)
  BY <1>1, <1>4, <1>6, FewerHeads
<1>8. d = [Now EXCEPT !.tasks = @ \ WaitingFor(f)]
  BY <1>1, <1>2, <1>3
<1> QED BY <1>1, <1>4, <1>7, <1>8

LEMMA PageStartsHeads ==
  ASSUME Inv, Heading, root.up, NEW f \in Pages, PageStarts(f)
  PROVE  Heading'
<1>1. PICK d : /\ d = [Now EXCEPT !.tasks = @ \ WaitingFor(f)]
               /\ d \in World /\ Heads(d) /\ d.root = root /\ d.apps = apps
  BY WokenHeads
<1>2. PICK as : as = [d.apps EXCEPT ![f].life = "running"]
  OBVIOUS
<1>3. as \in [Pages -> App] /\ (Edited(d.apps) => Edited(as))
  <2>1. d.apps \in [Pages -> App]
    BY <1>1 DEF World
  <2>2. \A g \in Pages : d.apps[g].life = "running" => as[g].life = "running"
    BY <1>2, <2>1 DEF App
  <2>3. as \in [Pages -> App]
    BY <1>2, <2>1 DEF App, Lives
  <2> QED BY <2>2, <2>3, NavigationAssumption DEF Edited
<1>4. PICK n : n = [d EXCEPT !.apps = as]
  OBVIOUS
<1>5. /\ n \in World /\ n.work = d.work /\ n.tasks = d.tasks /\ n.apps = as /\ n.root = d.root
      /\ n.status = d.status /\ n.online = d.online /\ n.url = d.url /\ n.wish = d.wish
  BY <1>1, <1>3, <1>4 DEF World
<1>6. n = [Now EXCEPT !.apps[f].life = "running", !.tasks = @ \ WaitingFor(f)]
  BY <1>1, <1>2, <1>4 DEF World, Now
<1>7. Become(n)
  BY <1>6 DEF PageStarts, Become
<1>8. Heads(n)
  BY <1>1, <1>3, <1>5, Restyled
<1> QED BY <1>5, <1>7, <1>8, PageStartsKeepsInv, EndsThere

LEMMA PageFailsHeads ==
  ASSUME Inv, Heading, root.up, NEW f \in Pages, PageFails(f)
  PROVE  Heading'
<1> DEFINE waiting == WaitingFor(f)
           guarded == { t \in waiting : f \in Guarded /\ ~t.again }
           handled == { t \in guarded : work.current = f /\ work.key = t.route }
           thrown == { t \in waiting \ guarded : t.epoch }
           left == [work EXCEPT !.reported = @ \/ handled \cup thrown # {},
                                !.key = IF handled # {} THEN None ELSE @]
           told == work.reported \/ handled \cup thrown # {}
           key == IF handled # {} THEN None ELSE work.key
<1>1. PICK d : /\ d = [Now EXCEPT !.tasks = @ \ waiting]
               /\ d \in World /\ Heads(d) /\ d.root = root /\ d.work = work /\ d.apps = apps
  BY WokenHeads
<1>2. d.work \in Work /\ d.root \in Root /\ d.apps \in [Pages -> App]
  BY <1>1 DEF World
<1>3. PICK as : as = [d.apps EXCEPT ![f] = Stopped]
  OBVIOUS
<1>4. as \in [Pages -> App] /\ (Edited(d.apps) => Edited(as))
  <2>1. Stopped \in App
    BY DEF Stopped, App, Lives
  <2>2. as \in [Pages -> App]
    BY <1>2, <1>3, <2>1
  <2>3. d.apps[f].life = "starting"
    BY <1>1 DEF PageFails
  <2>4. \A g \in Pages : d.apps[g].life = "running" => as[g].life = "running"
    BY <1>2, <1>3, <2>3
  <2> QED BY <2>2, <2>4, NavigationAssumption DEF Edited
<1>5. PICK w \in Work : /\ w = [d.work EXCEPT !.reported = told, !.key = key]
                        /\ w.life = d.work.life /\ w.current = d.work.current
                        /\ w.route = d.work.route
  <2>1. told \in BOOLEAN /\ key \in Routes \cup {None}
    <3>1. work \in Work
      BY <1>1, <1>2
    <3> HIDE DEF handled, thrown
    <3> QED BY <3>1 DEF Work
  <2> DEFINE q == [d.work EXCEPT !.reported = told, !.key = key]
  <2> HIDE DEF told, key
  <2>2. /\ q \in Work /\ q.life = d.work.life /\ q.current = d.work.current
        /\ q.route = d.work.route
    BY <1>2, <2>1 DEF Work
  <2> QED BY <2>2
<1>6. PICK r \in Root : /\ r = [d.root EXCEPT !.destination = IF thrown # {} THEN "" ELSE @]
                        /\ r.up = d.root.up /\ r.module = d.root.module
  <2> DEFINE q == [d.root EXCEPT !.destination = IF thrown # {} THEN "" ELSE @]
  <2>1. q \in Root /\ q.up = d.root.up /\ q.module = d.root.module
    <3> HIDE DEF thrown
    <3> QED BY <1>2 DEF Root
  <2> QED BY <2>1
<1>7. PICK n : n = [d EXCEPT !.apps = as, !.work = w, !.root = r]
  OBVIOUS
<1>8. /\ n \in World /\ n.work = w /\ n.tasks = d.tasks /\ n.apps = as /\ n.root = r
      /\ n.status = d.status /\ n.online = d.online /\ n.url = d.url /\ n.wish = d.wish
  BY <1>1, <1>4, <1>7 DEF World
<1>9. n = [Now EXCEPT
         !.apps[f] = Stopped, !.tasks = @ \ waiting, !.work = left,
         !.root.destination = IF thrown # {} THEN "" ELSE @]
  <2>1. Now.work = work /\ Now.root = root /\ Now.apps = apps
    BY DEF Now
  <2>2. w = left
    <3> HIDE DEF handled, thrown
    <3> QED BY <1>1, <1>2, <1>5, <2>1 DEF Work
  <2>3. r = [Now.root EXCEPT !.destination = IF thrown # {} THEN "" ELSE @]
    <3>1. Now.root = d.root
      BY <1>1, <2>1
    <3> HIDE DEF thrown
    <3> QED BY <1>6, <3>1
  <2>4. n = [Now EXCEPT !.apps = as, !.tasks = @ \ waiting, !.work = w, !.root = r]
    <3> HIDE DEF waiting
    <3> QED BY <1>1, <1>7 DEF Now
  <2>5. n = [Now EXCEPT !.apps[f] = Stopped, !.tasks = @ \ waiting, !.work = w, !.root = r]
    BY <1>1, <1>3, <2>1, <2>4
  <2>6. n = [Now EXCEPT !.apps[f] = Stopped, !.tasks = @ \ waiting, !.work = w,
                        !.root.destination = IF thrown # {} THEN "" ELSE @]
    <3> HIDE DEF thrown, waiting
    <3> QED BY <2>3, <2>5
  <2> HIDE DEF thrown, left, waiting
  <2> QED BY <2>2, <2>6
<1>12. Become(n)
  BY <1>9 DEF PageFails
<1>13. Heads(n)
  <2>1. /\ n.work.life = d.work.life /\ n.work.route = d.work.route
        /\ n.work.current = d.work.current
    BY <1>5, <1>8
  <2>2. /\ n.tasks = d.tasks /\ n.url = d.url /\ n.wish = d.wish /\ n.status = d.status
        /\ n.online = d.online /\ n.root.up = d.root.up /\ (d.root.module => n.root.module)
        /\ (Edited(d.apps) => Edited(n.apps))
    BY <1>4, <1>6, <1>8
  <2>3. Heads(d) /\ d.root.up
    BY <1>1
  <2> QED BY <2>1, <2>2, <2>3, Restyled
<1> QED BY <1>8, <1>12, <1>13, PageFailsKeepsInv, EndsThere

\* The view a default address leads to is what was asked for.
LEMMA DefaultAims ==
  ASSUME NEW k, NEW a \in DOMAIN Default, Aims(k, a)
  PROVE  Aims(k, Default[a])
<1>1. a \in Routes /\ a # Login
  BY NavigationAssumption
<1>2. CASE a = k.wish \/ a = Target(k.wish)
  <2>1. Target(k.wish) = a
    BY <1>1, <1>2 DEF Target
  <2> QED BY <2>1 DEF Aims
<1>3. CASE Target(k.wish) \in DOMAIN Default /\ a = Default[Target(k.wish)]
  BY <1>3, DefaultsAssumption
<1> QED BY <1>2, <1>3 DEF Aims

LEMMA DefaultFoundHeads ==
  ASSUME Inv, Heading, root.up, NEW t \in tasks, DefaultFound(t)
  PROVE  Heading'
<1>1. t \in Showing /\ t \notin Committing /\ t \notin Closing /\ t.at = "default"
  BY TasksTyped, Kinds DEF DefaultFound
<1>2. CASE t.revision
  <2>1. PICK k : k = Now /\ Heads(k) /\ k.tasks = tasks /\ k.root = root
    BY Ahead
  <2>2. t \in Pending(k)
    BY <1>1, <1>2, <2>1 DEF Pending
  <2>3. Following(k) = {} /\ t.route = k.work.route /\ Errands(k) = {}
    BY <1>1, <2>1, <2>2 DEF Heads, Traced, Placed, Ordered
  <2>4. PICK b \in DOMAIN Default : b = t.route /\ b \in Routes
    BY <1>1, NavigationAssumption DEF Showing
  <2>5. b = k.url
    BY <2>1, <2>3, <2>4, NavigationAssumption DEF Heads, Addressed
  <2>6. PICK to \in Routes \cup {Login} : to = Default[b]
    BY <2>4, Routed
  <2>7. k.status = "authenticated" => Aims(k, to)
    <3>1. k.status = "authenticated" => Aims(k, k.url)
      BY <2>1, <2>3 DEF Heads, Bound, Errands
    <3> QED BY <2>5, <2>6, <3>1, DefaultAims
  <2>8. PICK d : /\ d = Done(t) /\ Sound(d) /\ Ready(d) /\ Traced(d) /\ d.root = k.root
                 /\ d.work = k.work /\ d.status = k.status /\ d.online = k.online
                 /\ d.url = k.url /\ d.wish = k.wish /\ Following(d) = Following(k) \ {t}
                 /\ Closes(d) = Closes(k) \ {t}
    BY <2>1, Leaves
  <2>9. Following(d) = {} /\ Closes(d) = {}
    BY <2>3, <2>8 DEF Errands
  <2>10. Clear(d) /\ d.root.up /\ (d.status = "authenticated" => Aims(d, to))
    BY <2>1, <2>7, <2>8, <2>9 DEF Clear, Aims
  <2>11. Addressed(d)
    BY <2>1, <2>8, <2>9 DEF Heads, Addressed
  <2>12. PICK n : n = Commit(d, to) /\ Become(n)
    BY <1>2, <2>4, <2>6, <2>8 DEF DefaultFound, Become
  <2>13. Heads(n)
    BY <2>8, <2>10, <2>11, <2>12, CommitArrives
  <2>14. Sound(n)
    BY <2>8, <2>12, Commits DEF Kin
  <2> QED BY <2>12, <2>13, <2>14, Ends
<1>3. CASE ~t.revision
  BY <1>1, <1>3, DropHeads DEF DefaultFound
<1> QED BY <1>2, <1>3

\* An errand is the only one, and leaves nothing behind.
LEMMA Errand ==
  ASSUME Inv, Heading, NEW t \in tasks, NEW k, k = Now, t \in Errands(k)
  PROVE  \E d : /\ d = Done(t) /\ Sound(d) /\ Ready(d) /\ Traced(d) /\ d.tasks = tasks \ {t}
                /\ d.work = k.work /\ d.apps = k.apps /\ d.root = k.root
                /\ d.status = k.status /\ d.online = k.online
                /\ d.url = k.url /\ d.wish = k.wish
                /\ Following(d) = {} /\ Errandless(d) /\ Clear(d) /\ Addressed(d)
<1>1. Heads(k)
  BY Ahead
<1>2. \A u \in Errands(k) : u = t
  BY <1>1 DEF Heads, Traced, Ordered
<1>3. Following(k) = {}
  BY <1>1 DEF Heads, Traced, Ordered
<1>4. PICK d : /\ d = Done(t) /\ Sound(d) /\ Ready(d) /\ Traced(d) /\ d.tasks = tasks \ {t}
               /\ d.work = k.work /\ d.apps = k.apps /\ d.root = k.root
               /\ d.status = k.status /\ d.online = k.online
               /\ d.url = k.url /\ d.wish = k.wish
               /\ Following(d) = Following(k) \ {t}
               /\ Latests(d) = Latests(k) \ {t} /\ Closes(d) = Closes(k) \ {t}
  BY Leaves
<1>5. Following(d) = {} /\ Latests(d) = {} /\ Closes(d) = {}
  BY <1>2, <1>3, <1>4 DEF Errands
<1>6. Addressed(d)
  BY <1>1, <1>4, <1>5 DEF Heads, Addressed
<1> QED BY <1>4, <1>5, <1>6 DEF Errandless, Clear

LEMMA FlushedHeads ==
  ASSUME Inv, Heading, root.up, NEW t \in tasks, Flushed(t)
  PROVE  Heading'
<1>1. t \in Committing /\ t \notin Closing /\ t.route \in Routes \cup {Login}
  BY TasksTyped, Kinds, Routed DEF Flushed
<1>2. CASE Latest(t)
  <2>1. PICK k : k = Now /\ Heads(k) /\ k.tasks = tasks /\ k.root = root
    BY Ahead
  <2>2. t \in Latests(k) /\ t \in Errands(k)
    BY <1>1, <1>2, <2>1 DEF Latests, Latest, Errands
  <2>3. PICK d : /\ d = Done(t) /\ Sound(d) /\ Ready(d) /\ Traced(d) /\ d.root = k.root
                 /\ d.status = k.status /\ d.wish = k.wish
                 /\ Errandless(d) /\ Clear(d)
    BY <2>1, <2>2, Errand
  <2>4. PICK to \in Routes \cup {Login} : to = t.route
    BY <1>1
  <2>5. d.status = "authenticated" => Aims(d, to)
    <3>1. k.status = "authenticated" => Aims(k, to)
      BY <2>1, <2>2, <2>4 DEF Heads, Bound
    <3> QED BY <2>3, <3>1 DEF Aims
  <2>6. PICK n : n = Go(d, to) /\ Become(n)
    BY <1>2, <2>3, <2>4 DEF Flushed, Become
  <2>7. Latests(d) = {} /\ d.root.up
    BY <2>1, <2>3 DEF Errandless
  <2>8. Heads(n)
    BY <2>3, <2>5, <2>6, <2>7, GoArrives
  <2>9. Sound(n)
    BY <2>3, <2>6, Goes DEF Kin
  <2> QED BY <2>6, <2>8, <2>9, Ends
<1>3. CASE ~Latest(t)
  BY <1>1, <1>3, DropHeads DEF Flushed, Latest
<1> QED BY <1>2, <1>3

\* A save is refused: the user stays, and asks for nothing.
LEMMA StaysHeads ==
  ASSUME Inv, Heading, root.up, NEW t \in tasks, Become([Done(t) EXCEPT !.wish = url]),
         \/ t \in Committing /\ t.navigation
         \/ t \in Closing
  PROVE  Heading'
<1>1. PICK k : k = Now /\ Heads(k) /\ k.tasks = tasks /\ k.root = root /\ k.url = url /\ k \in World
  BY Ahead
<1>2. t \in Errands(k)
  BY <1>1 DEF Latests, Closes, Errands
<1>3. PICK d : /\ d = Done(t) /\ Sound(d) /\ Traced(d) /\ d.root = k.root
               /\ d.status = k.status /\ d.online = k.online /\ d.url = k.url
               /\ Following(d) = {} /\ Errandless(d) /\ Addressed(d)
  BY <1>1, <1>2, Errand
<1>4. PICK n : n = [d EXCEPT !.wish = url]
  OBVIOUS
<1>5. /\ n \in World /\ n.work = d.work /\ n.apps = d.apps /\ n.tasks = d.tasks /\ n.root = d.root
      /\ n.status = d.status /\ n.online = d.online /\ n.url = d.url /\ n.wish = url
  <2>1. url \in Routes \cup {Login}
    BY <1>1 DEF World
  <2> QED BY <1>3, <1>4, <2>1 DEF Sound, World
<1>6. Sound(n) /\ Traced(n) /\ Following(n) = {} /\ Latests(n) = {} /\ Closes(n) = {}
  <2>1. Sound(n)
    BY <1>3, <1>5, SameContent
  <2>2. /\ Traced(n) /\ Following(n) = Following(d) /\ Latests(n) = Latests(d)
        /\ Closes(n) = Closes(d)
    BY <1>3, <1>5, SameTraced
  <2> QED BY <1>3, <2>1, <2>2 DEF Errandless
<1>7. Bound(n)
  BY <1>1, <1>3, <1>5, <1>6 DEF Heads, Bound, Permitted, Aims
<1>8. Addressed(n)
  BY <1>3, <1>5, <1>6 DEF Addressed
<1>9. Heads(n)
  <2>1. n.root.up
    BY <1>1, <1>3, <1>5
  <2> QED BY <1>6, <1>7, <1>8, <2>1 DEF Heads, Unborn
<1>10. Become(n)
  BY <1>3, <1>4
<1> QED BY <1>6, <1>9, <1>10, Ends

LEMMA FlushFailsHeads ==
  ASSUME Inv, Heading, root.up, NEW t \in tasks, FlushFails(t)
  PROVE  Heading'
<1>1. t \in Committing /\ t \notin Closing
  BY TasksTyped, Kinds DEF FlushFails
<1>2. CASE Latest(t)
  BY <1>1, <1>2, StaysHeads DEF FlushFails, Latest
<1>3. CASE ~Latest(t)
  BY <1>1, <1>3, DropHeads DEF FlushFails, Latest
<1> QED BY <1>2, <1>3

LEMMA CloseFlushedHeads ==
  ASSUME Inv, Heading, root.up, NEW t \in tasks, CloseFlushed(t)
  PROVE  Heading'
<1>1. t \in Closing /\ t \notin Committing
  BY TasksTyped, Kinds DEF CloseFlushed
<1>2. CASE work.life = "running"
  <2>1. PICK k : /\ k = Now /\ Heads(k) /\ k.tasks = tasks /\ k.root = root /\ k.work = work
    BY Ahead
  <2>2. t \in Closes(k) /\ t \in Errands(k)
    BY <1>1, <2>1 DEF Closes, Errands
  <2>3. k.wish = Parent
    BY <1>2, <2>1, <2>2 DEF Heads, Bound
  <2>4. PICK d : /\ d = Done(t) /\ Sound(d) /\ Ready(d) /\ Traced(d) /\ d.root = k.root
                 /\ d.wish = k.wish /\ Clear(d) /\ Addressed(d)
    BY <2>1, <2>2, Errand
  <2>5. Aims(d, Parent) /\ d.root.up
    BY <2>1, <2>3, <2>4 DEF Aims
  <2>6. PICK n : n = Commit(d, Parent) /\ Become(n)
    BY <1>2, <2>4 DEF CloseFlushed, Become
  <2>7. Heads(n)
    BY <2>4, <2>5, <2>6, CommitArrives, Routed
  <2>8. Sound(n)
    BY <2>4, <2>6, Commits, Routed DEF Kin
  <2> QED BY <2>6, <2>7, <2>8, Ends
<1>3. CASE work.life # "running"
  BY <1>1, <1>3, DropHeads DEF CloseFlushed
<1> QED BY <1>2, <1>3

LEMMA StartHeads ==
  ASSUME Inv, Heading, Start
  PROVE  Heading'
<1>1. PICK st \in {"authenticated", "anonymous"} :
        Become(Dispatch([Now EXCEPT !.status = st, !.root.up = TRUE]))
  BY DEF Start
<1>2. PICK k \in World :
        /\ k = Now /\ Sound(k) /\ Secure(k) /\ Heads(k) /\ k.root \in Root
        /\ k.root = root
  BY Ahead DEF World
<1>3. k.tasks = {} /\ k.url = k.wish /\ k.work.life = "stopped"
  BY <1>2 DEF Start, Heads, Unborn
<1>4. PICK r \in Root : r = [k.root EXCEPT !.up = TRUE] /\ r.up
  <2> DEFINE q == [k.root EXCEPT !.up = TRUE]
  <2>1. q \in Root /\ q.up
    BY <1>2 DEF Root
  <2> QED BY <2>1
<1>5. PICK s : s = [k EXCEPT !.status = st, !.root = r]
  OBVIOUS
<1>6. /\ s \in World /\ s.work = k.work /\ s.apps = k.apps /\ s.tasks = k.tasks /\ s.root = r
      /\ s.url = k.url /\ s.wish = k.wish
  BY <1>5 DEF World
<1>7. s = [Now EXCEPT !.status = st, !.root.up = TRUE]
  BY <1>2, <1>4, <1>5 DEF World
<1>8. /\ Following(s) = {} /\ Latests(s) = {} /\ Closes(s) = {} /\ Pending(s) = {}
      /\ Traced(s) /\ ~Imports(s)
  BY <1>3, <1>6 DEF Following, Latests, Closes, Pending, Traced, Ordered, Placed, Errands, Imports
<1>9. Sound(s) /\ Ready(s) /\ Clear(s) /\ Aims(s, s.url) /\ s.root.up
  <2>1. Sound(s)
    BY <1>2, <1>6, SameContent
  <2> QED BY <1>3, <1>4, <1>6, <1>8, <2>1 DEF Ready, Clear, Aims
<1>10. PICK n : n = Dispatch(s) /\ Become(n)
  BY <1>1, <1>7 DEF Become
<1>11. Heads(n)
  BY <1>8, <1>9, <1>10, DispatchArrives
<1>12. Sound(n)
  BY <1>9, <1>10, Dispatches DEF Kin
<1> QED BY <1>10, <1>11, <1>12, Ends

LEMMA InitHeads ==
  ASSUME Init
  PROVE  Heading
<1>1. PICK k : k = Now
  OBVIOUS
<1>2. /\ k.tasks = {} /\ k.url = k.wish /\ k.status = "loading" /\ k.root.up = FALSE
      /\ k.work.life = "stopped" /\ k.work.route = None
  BY <1>1 DEF Now, Init
<1>3. /\ Following(k) = {} /\ Latests(k) = {} /\ Closes(k) = {} /\ Pending(k) = {}
  BY <1>2 DEF Following, Latests, Closes, Pending
<1>4. Traced(k) /\ Bound(k) /\ Addressed(k) /\ Unborn(k)
  BY <1>2, <1>3
     DEF Traced, Ordered, Placed, Errands, Bound, Permitted, Addressed, Unborn
<1> QED BY <1>1, <1>4 DEF Heading, Heads

LEMMA UsersHead ==
  ASSUME Inv, Heading, root.up, ~Impatient, Users
  PROVE  Heading'
<1>1. ASSUME NEW to \in Routes, Navigate(to) \/ Back(to)
      PROVE  Heading'
  BY <1>1, NavigateHeads, BackHeads
<1>2. CASE Back(Login)
  BY <1>2, BackHeads
<1> QED
  BY <1>1, <1>2, CloseTaskHeads, SignInHeads, SignsOutHeads, OtherIdentityHeads,
     GoOfflineHeads, GoOnlineHeads DEF Users, SignOut

LEMMA ContinuesHead ==
  ASSUME Inv, Heading, root.up, Continues
  PROVE  Heading'
<1>1. CASE SessionRead \/ SessionFails \/ WorkspaceStarts
  BY <1>1, SessionReadHeads, SignsOutHeads, WorkspaceStartsHeads DEF SessionFails
<1>2. ASSUME NEW t \in tasks
      PROVE  /\ WorkspaceLoads(t) \/ WorkspaceLoadFails(t) \/ Resume(t) => Heading'
             /\ PageLoads(t) \/ PageLoadFails(t) => Heading'
             /\ DefaultFound(t) \/ DefaultFails(t) => Heading'
             /\ Flushed(t) \/ FlushFails(t) \/ CloseFlushed(t) \/ CloseFails(t) => Heading'
  <2>1. WorkspaceLoads(t) \/ WorkspaceLoadFails(t) \/ Resume(t) => Heading'
    BY WorkspaceLoadsHeads, ThrowHeads, ResumeHeads DEF WorkspaceLoadFails
  <2>2. PageLoads(t) \/ PageLoadFails(t) => Heading'
    BY PageLoadsHeads, PageLoadFailsHeads
  <2>3. ASSUME DefaultFails(t) PROVE Heading'
    <3>1. t.is = "show" /\ t \notin Committing /\ t \notin Closing
      BY <2>3, TasksTyped, Kinds DEF DefaultFails
    <3> QED BY <2>3, <3>1, ThrowHeads, DropHeads DEF DefaultFails
  <2>4. ASSUME CloseFails(t) PROVE Heading'
    <3>1. t \in Closing
      BY <2>4, TasksTyped, Kinds DEF CloseFails
    <3> QED BY <2>4, <3>1, StaysHeads DEF CloseFails
  <2> QED BY <2>1, <2>2, <2>3, <2>4, DefaultFoundHeads, FlushedHeads, FlushFailsHeads,
             CloseFlushedHeads
<1>3. ASSUME NEW f \in Pages, PageStarts(f) \/ PageFails(f)
      PROVE  Heading'
  BY <1>3, PageStartsHeads, PageFailsHeads
<1> QED BY <1>1, <1>2, <1>3 DEF Continues

LEMMA NextHeads ==
  ASSUME Inv, Heading, ~Impatient, [Next]_vars
  PROVE  Heading'
<1>1. CASE Start
  BY <1>1, StartHeads
<1>2. CASE root.up /\ Users
  BY <1>2, UsersHead
<1>3. CASE root.up /\ Continues
  BY <1>3, ContinuesHead
<1>4. CASE UNCHANGED vars
  <2>1. Now' = Now
    BY <1>4 DEF vars, Now
  <2> QED BY <2>1
       DEF Heading, Heads, Traced, Bound, Addressed, Unborn, Ordered, Placed, Pending, Errands,
           Latests, Closes, Following, Permitted, Aims, Target, Edited
<1> QED BY <1>1, <1>2, <1>3, <1>4 DEF Next

LEMMA HeadingArrives ==
  ASSUME Inv, Heading
  PROVE  ArrivesWhereAsked
<1>1. PICK k : /\ k = Now /\ Heads(k) /\ Begun(k) /\ k.url = url /\ k.status = status
               /\ k.online = online /\ k.root = root /\ k.tasks = tasks /\ k.wish = wish
               /\ k \in World
  <2>1. \A k : k = Now => Begun(k)
    BY DEF Inv
  <2> QED BY <2>1, Ahead
<1>2. SUFFICES ASSUME tasks = {}, status = "authenticated", online
               PROVE  \/ url = Target(wish)
                      \/ Target(wish) \in DOMAIN Default /\ url = Default[Target(wish)]
  BY DEF ArrivesWhereAsked
<1>3. k.root.up
  BY <1>1, <1>2 DEF Begun
<1>4. Latests(k) = {} /\ Closes(k) = {}
  BY <1>1, <1>2 DEF Latests, Closes
<1>5. Aims(k, k.url) /\ k.url # Login
  BY <1>1, <1>2, <1>3, <1>4 DEF Heads, Bound, Permitted
<1> QED BY <1>1, <1>5 DEF Aims, Target

-----------------------------------------------------------------------------
(* The theorem.                                                            *)

\* Who asks for no other page while a task that is being closed is still
\* saved, and does not go back while anything is, arrives at the address
\* asked for last, or the view it leads to, whatever fails, comes late or is
\* overtaken (commitNavigation(), dispatch() and closeTask()).
THEOREM ArrivesWhereAskedHolds ==
  ASSUME Impatient = FALSE
  PROVE  Spec => []ArrivesWhereAsked
<1>1. Init => Inv /\ Heading
  BY InitInv, InitHeads
<1>2. Inv /\ Heading /\ [Next]_vars => (Inv /\ Heading)'
  BY NextKeepsInv, NextHeads
<1>3. Inv /\ Heading => ArrivesWhereAsked
  BY HeadingArrives
<1> QED BY <1>1, <1>2, <1>3, PTL DEF Spec

=============================================================================
