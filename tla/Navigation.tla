----------------------------- MODULE Navigation -----------------------------
(***************************************************************************)
(* Which page a browser tab shows: the root application                    *)
(* (src/frontend/src/app/application.ts), which follows the address, the   *)
(* session and the network, and the workspace (app/workspace.ts), which    *)
(* starts the application of the page in its content region.               *)
(*                                                                         *)
(* Both work with promises: modules are imported when first needed, an     *)
(* application loads its data before it runs, a description is flushed     *)
(* before the user leaves.  Whatever was started for an earlier            *)
(* destination goes on in the background and finds out, from a counter     *)
(* that has changed, that nobody waits for it.  `tasks` are these          *)
(* continuations; in place of the counter's value they hold whether it is  *)
(* still the newest, which is all that is asked of it.                     *)
(*                                                                         *)
(* What the Marionette library does is taken from how it is used here: to  *)
(* start what runs or starts changes nothing, to stop an application stops *)
(* its children and ends a start that is under way.                        *)
(***************************************************************************)
EXTENDS Naturals

CONSTANTS
  Routes,     \* the addresses of pages in the workspace
  Login,      \* the address of the login page
  Home,       \* the address where a session begins
  Parent,     \* the address where a closed task leads
  Pages,      \* the applications of the content region
  PageOf,     \* the one that shows a route
  Default,    \* addresses of a project without a view -> address of a view
  Eager,      \* pages whose modules are loaded with the workspace
  Guarded,    \* pages whose failed start the workspace handles itself
  Restarts,   \* pages that are started again for the route they show
  Editing,    \* pages that are flushed before they are left
  None,       \* no page, no route
  Impatient,  \* whether users go on while a task is being saved
  MaxActs     \* bound: what users, other tabs and the network do

ASSUME NavigationAssumption ==
  /\ {Home, Parent} \cup DOMAIN Default \cup {Default[b] : b \in DOMAIN Default} \subseteq Routes
  /\ Login \notin Routes /\ None \notin Routes \cup Pages
  /\ PageOf \in [Routes -> Pages]
  /\ Eager \cup Guarded \cup Restarts \cup Editing \subseteq Pages
  /\ Impatient \in BOOLEAN /\ MaxActs \in Nat

\* A view has a number, a project without one is waited for; what is flushed
\* of a project is a task opened over its board, which is left out.
ASSUME DefaultsAssumption ==
  \A b \in DOMAIN Default : Default[b] \notin DOMAIN Default /\ PageOf[b] \notin Editing

VARIABLES
  url,        \* the address
  status,     \* of the session
  online,
  root,       \* the root application: whether it runs, which child it shows,
              \* whether the workspace's module is there, the login form
  work,       \* the workspace: its life, its route, the key of its content,
              \* the page it runs, the modules that are there, whether an error has
              \* been reported of the page
  apps,       \* of every page its life and the route it was started with
  tasks,      \* continuations that wait
  acts,
  wish,       \* history: the address last asked for
  hasty       \* history: it was asked for again before it was there

vars == <<url, status, online, root, work, apps, tasks, acts, wish, hasty>>

Now == [url |-> url, status |-> status, online |-> online, root |-> root,
        work |-> work, apps |-> apps, tasks |-> tasks, wish |-> wish]

Become(next) ==
  \E s \in {next} :
    /\ url' = s.url /\ status' = s.status /\ online' = s.online /\ root' = s.root
    /\ work' = s.work /\ apps' = s.apps /\ tasks' = s.tasks /\ wish' = s.wish

Stopped == [life |-> "stopped", at |-> None]

Waiting(s, t) == [s EXCEPT !.tasks = @ \cup {t}]

\* A counter goes up.
Count(s, counter) ==
  [s EXCEPT !.tasks = { IF counter \in DOMAIN t THEN [t EXCEPT ![counter] = FALSE] ELSE t : t \in @ }]

-----------------------------------------------------------------------------
(* Stopping.                                                               *)

\* The views of a page that is stopped are gone: nobody waits any more for
\* its start, and a flush of it has nothing left to save.
StopPages(s, stopped) ==
  LET waits(t) == t.is = "show" /\ t.at = "start" /\ PageOf[t.route] \in stopped
      ends(t) == t.at = "flush" /\ \E f \in stopped \cap Editing : s.apps[f].life = "running"
  IN [s EXCEPT
        !.apps = [f \in Pages |-> IF f \in stopped THEN Stopped ELSE @[f]],
        !.tasks = { IF ends(t) THEN [t EXCEPT !.at = "flushed"] ELSE t :
                    t \in { u \in @ : ~waits(u) } }]

\* Mutated: the key of the content stays.
KeptKey(w) == [w EXCEPT !.life = "stopped", !.route = None, !.current = None]

\* onBeforeStop() of the workspace.
Reset(w) ==
  [w EXCEPT !.life = "stopped", !.route = None, !.key = None, !.current = None,
            !.reported = FALSE]

\* A start that is under way ends some time later, with nothing done.
StopWork(s) ==
  IF s.work.life = "running" THEN [Count(StopPages(s, Pages), "revision") EXCEPT !.work = Reset(@)]
  ELSE [s EXCEPT !.work.life = "stopped",
                 !.tasks = { IF t.is = "dispatch" /\ t.at = "start"
                             THEN [t EXCEPT !.at = "late"] ELSE t : t \in @ }]

StopLogin(s) == [s EXCEPT !.root.login = FALSE]

StopDestination(s) ==
  CASE s.root.destination = "workspace"      -> StopWork(s)
    [] s.root.destination = "authentication" -> StopLogin(s)
    [] OTHER                                 -> s

-----------------------------------------------------------------------------
(* showRoute(): the workspace shows a route.                               *)

StartPage(s, t) ==
  LET f == PageOf[t.route]
      n == [s EXCEPT !.work.current = f]
  IN CASE s.apps[f].life = "running"  -> n
       [] s.apps[f].life = "starting" -> Waiting(n, t)
       [] s.apps[f].life = "stopped"  ->
            Waiting([n EXCEPT !.apps[f] = [life |-> "starting", at |-> t.route]], t)

\* The content's region is for another route now.
OpenPage(s, t) ==
  LET n == [IF s.work.current = None THEN s ELSE StopPages(s, {s.work.current}) EXCEPT
              !.work.current = None, !.work.key = t.route, !.work.reported = FALSE]
  IN IF PageOf[t.route] \in s.work.added THEN StartPage(n, t)
     ELSE Waiting(n, [t EXCEPT !.at = "module"])

ShowRoute(s, route) ==
  LET n == [Count(s, "revision") EXCEPT !.work.route = route]
      t == [is |-> "show", at |-> "start", route |-> route, epoch |-> TRUE,
            revision |-> TRUE, again |-> FALSE]
  IN CASE route \in DOMAIN Default -> Waiting(n, [t EXCEPT !.at = "default"])
       [] route \notin DOMAIN Default /\ route # s.work.key -> OpenPage(n, t)
       [] OTHER -> IF PageOf[route] \in Restarts /\ s.work.current # None
                   THEN StartPage(n, [t EXCEPT !.again = TRUE])
                   ELSE n

-----------------------------------------------------------------------------
(* dispatch(): the root application follows the address.                   *)

\* Without a session there is the login page, with one there is not.
Redirected(s) ==
  CASE s.status = "anonymous"                      -> Login
    [] s.status = "authenticated" /\ s.url = Login -> Home
    [] OTHER                                       -> s.url

StartWork(s, route) ==
  IF s.work.life = "running" THEN ShowRoute(s, route)
  ELSE Waiting([s EXCEPT !.work.life = "starting"],
               [is |-> "dispatch", at |-> "start", route |-> route, epoch |-> TRUE])

Enter(s, kind) ==
  IF s.root.destination = kind THEN s
  ELSE [StopDestination(s) EXCEPT !.root.destination = kind]

Follow(s, route) ==
  IF route = Login
  THEN [Enter(s, "authentication") EXCEPT !.root.login = TRUE]
  ELSE LET n == Enter(s, "workspace") IN
       IF s.root.module THEN StartWork(n, route)
       ELSE Waiting(n, [is |-> "dispatch", at |-> "module", route |-> route, epoch |-> TRUE])

Dispatch(s) ==
  LET n == Count(s, "epoch") IN
  CASE ~s.online                              -> s
    [] s.online /\ s.status = "loading"       -> n
    [] OTHER -> Follow([n EXCEPT !.url = Redirected(s)], Redirected(s))

\* commitNavigation(), once nothing is left to be flushed.
Go(s, to) == Dispatch([s EXCEPT !.url = to])

Flushes(s) ==
  /\ s.work.life = "running" /\ s.status = "authenticated"
  /\ s.work.route # None /\ PageOf[s.work.route] \in Editing
  /\ s.apps[PageOf[s.work.route]].life = "running"

\* commitNavigation().
Commit(s, to) ==
  LET n == Count(s, "navigation") IN
  IF Flushes(s)
  THEN Waiting(n, [is |-> "commit", at |-> "flush", route |-> to, navigation |-> TRUE])
  ELSE Go(n, to)

-----------------------------------------------------------------------------
(* Users, other tabs and the network.  What follows from a promise that is *)
(* settled comes before the next event.                                    *)

Idle == \A t \in tasks : t.at \notin {"flushed", "resumed"}
Act == Idle /\ acts < MaxActs /\ acts' = acts + 1
Wishing(to) == [Now EXCEPT !.wish = to]

\* Where an address leads who is signed in.
Target(to) == IF to = Login THEN Home ELSE to

Flushing(kinds) == \E t \in tasks : t.is \in kinds /\ t.at = "flush"

\* The page is not there yet: its module is not, or an unguarded one does not run.
Missing(to) ==
  /\ work.key = Target(to)
  /\ \/ work.current = None
     \/ work.current \notin Guarded /\ apps[work.current].life # "running"

\* A link of the workspace.
Navigate(to) ==
  /\ Act
  /\ status = "authenticated" /\ work.life = "running"
  /\ ~Impatient => ~Flushing({"close"})
  /\ Become(Commit(Wishing(to), to))
  /\ hasty' = Missing(to)

\* The browser's back and forward buttons.
Back(to) ==
  /\ Act
  /\ ~Impatient => ~Flushing({"close", "commit"})
  /\ Become(Dispatch([Wishing(to) EXCEPT !.url = to]))
  /\ hasty' = Missing(to)

\* closeTask().
CloseTask ==
  /\ Act
  /\ Flushes(Now) /\ ~Flushing({"close"})
  /\ ~Impatient => ~Flushing({"commit"})
  /\ Become(Waiting(Wishing(Parent), [is |-> "close", at |-> "flush"]))

\* The login form: acceptIdentity() and finishLogin().
SignIn ==
  /\ Act
  /\ online /\ status = "anonymous" /\ root.login
  /\ Become(Commit([Wishing(Home) EXCEPT !.status = "authenticated"], Home))

\* The listener to signed:out.
SignedOut(s) == Commit(StopWork([s EXCEPT !.status = "anonymous"]), Login)

\* Here or in another tab.
SignOut ==
  /\ Act
  /\ status = "authenticated"
  /\ Become(SignedOut(Wishing(Login)))

Changing(s) == [StopWork(Count(s, "epoch")) EXCEPT !.root.destination = ""]

\* Somebody else signs in in another tab: the session is read again.
OtherIdentity ==
  /\ Act
  /\ status \in {"authenticated", "anonymous"}
  /\ Become([Changing(Wishing(Home)) EXCEPT !.status = "loading"])

\* The listener to signed:in.
SessionRead ==
  /\ Idle /\ status = "loading"
  /\ Become(Commit([StopWork([Wishing(Home) EXCEPT !.status = "authenticated"]) EXCEPT
                      !.root.destination = ""], Home))

SessionFails ==
  /\ Idle /\ status = "loading"
  /\ Become(SignedOut(Wishing(Login)))

\* connectionChanged().
Turned(s) == [Count(Count(s, "epoch"), "navigation") EXCEPT !.root.destination = ""]

GoOffline ==
  /\ Act
  /\ online
  /\ Become(StopLogin(StopWork(Turned([Wishing(url) EXCEPT !.online = FALSE]))))

GoOnline ==
  /\ Act
  /\ ~online
  /\ Become(Dispatch(Turned([Now EXCEPT !.online = TRUE])))

-----------------------------------------------------------------------------
(* Continuations.                                                          *)

Done(t) == [Now EXCEPT !.tasks = @ \ {t}]
Reported(s) == [s EXCEPT !.work.reported = TRUE]

\* Mutated: an error that reaches dispatch() is lost.
Swallowed(s, t) == s

\* An error that reaches dispatch().
Thrown(s, t) ==
  IF t.epoch THEN [Reported(s) EXCEPT !.root.destination = ""] ELSE s

\* Mutated: an import goes on whatever has happened meanwhile.
GoesOn(t) == TRUE

\* After an import or a start dispatch() goes on if no later one came.
Newest(t) == t.epoch

WorkspaceLoads(t) ==
  /\ Idle /\ t.is = "dispatch" /\ t.at = "module"
  /\ Become(IF Newest(t)
            THEN StartWork([Done(t) EXCEPT !.root.module = TRUE], t.route)
            ELSE Done(t))

WorkspaceLoadFails(t) ==
  /\ Idle /\ t.is = "dispatch" /\ t.at = "module"
  /\ Become(Thrown(Done(t), t))

WorkspaceStarts ==
  /\ Idle /\ work.life = "starting"
  /\ Become([Now EXCEPT
       !.work.life = "running",
       !.tasks = { IF t.is = "dispatch" /\ t.at = "start" THEN [t EXCEPT !.at = "resumed"] ELSE t :
                   t \in @ }])

Resume(t) ==
  /\ t.is = "dispatch"
  /\ t.at = "resumed" \/ (t.at = "late" /\ Idle)
  /\ Become(IF Newest(t) /\ work.life = "running" THEN ShowRoute(Done(t), t.route) ELSE Done(t))

\* Mutated: only the life of the workspace counts.
StillRunning(t) == work.life = "running"

\* current() of showRoute().
Current(t) ==
  t.revision /\ work.key = t.route /\ work.life = "running"

PageLoads(t) ==
  /\ Idle /\ t.is = "show" /\ t.at = "module"
  /\ Become(IF Current(t)
            THEN StartPage([Done(t) EXCEPT !.work.added = @ \cup {PageOf[t.route]}],
                           [t EXCEPT !.at = "start"])
            ELSE Done(t))

PageLoadFails(t) ==
  /\ Idle /\ t.is = "show" /\ t.at = "module"
  /\ Become(IF Current(t) THEN [Reported(Done(t)) EXCEPT !.work.key = None] ELSE Done(t))

WaitingFor(f) == { t \in tasks : t.is = "show" /\ t.at = "start" /\ PageOf[t.route] = f }

PageStarts(f) ==
  /\ Idle /\ apps[f].life = "starting"
  /\ Become([Now EXCEPT !.apps[f].life = "running", !.tasks = @ \ WaitingFor(f)])

\* Of a guarded page the first to wait handles the error, unless something else
\* is shown by now, and who joined throws it; of the others everyone does.
PageFails(f) ==
  LET waiting == WaitingFor(f)
      guarded == { t \in waiting : f \in Guarded /\ ~t.again }
      handled == { t \in guarded : work.current = f /\ work.key = t.route }
      thrown == { t \in waiting \ guarded : t.epoch }
      left == [work EXCEPT !.reported = @ \/ handled \cup thrown # {},
                           !.key = IF handled # {} THEN None ELSE @]
  IN
  /\ Idle /\ apps[f].life = "starting"
  /\ Become([Now EXCEPT
       !.apps[f] = Stopped, !.tasks = @ \ waiting, !.work = left,
       !.root.destination = IF thrown # {} THEN "" ELSE @])

\* The project is known, and has a view: the address of one of its views replaces
\* this one, unless another route was shown meanwhile.
DefaultFound(t) ==
  /\ Idle /\ t.is = "show" /\ t.at = "default"
  /\ Become(IF t.revision THEN Commit(Done(t), Default[t.route]) ELSE Done(t))

DefaultFails(t) ==
  /\ Idle /\ t.is = "show" /\ t.at = "default"
  /\ Become(IF t.revision THEN Thrown(Done(t), t) ELSE Done(t))

\* Mutated: every navigation is carried out once it is flushed.
EveryOne(t) == TRUE

\* No later navigation was asked for.
Latest(t) == t.navigation

Flushed(t) ==
  /\ t.is = "commit" /\ (Idle \/ t.at = "flushed")
  /\ Become(IF Latest(t) THEN Go(Done(t), t.route) ELSE Done(t))

\* The save is refused: the user stays.
FlushFails(t) ==
  /\ Idle /\ t.is = "commit"
  /\ Become(IF Latest(t) THEN [Done(t) EXCEPT !.wish = url] ELSE Done(t))

CloseFlushed(t) ==
  /\ t.is = "close" /\ (Idle \/ t.at = "flushed")
  /\ Become(IF work.life = "running" THEN Commit(Done(t), Parent) ELSE Done(t))

CloseFails(t) ==
  /\ Idle /\ t.is = "close"
  /\ Become([Done(t) EXCEPT !.wish = url])

-----------------------------------------------------------------------------
Init ==
  /\ url \in Routes \cup {Login}
  /\ status = "loading" /\ online = TRUE
  /\ root = [up |-> FALSE, destination |-> "", module |-> FALSE, login |-> FALSE]
  /\ work = [life |-> "stopped", route |-> None, key |-> None, current |-> None,
             added |-> Eager, reported |-> FALSE]
  /\ apps = [f \in Pages |-> Stopped]
  /\ tasks = {} /\ acts = 0
  /\ wish = url /\ hasty = FALSE

\* onStart(), when the session has been read.
Start ==
  /\ ~root.up
  /\ \E s \in {"authenticated", "anonymous"} :
       Become(Dispatch([Now EXCEPT !.status = s, !.root.up = TRUE]))
  /\ UNCHANGED <<acts, hasty>>

Users ==
  \/ \E to \in Routes : Navigate(to) \/ Back(to)
  \/ Back(Login)
  \/ /\ CloseTask \/ SignIn \/ SignOut \/ OtherIdentity \/ GoOffline \/ GoOnline
     /\ hasty' = FALSE

Continues ==
  /\ \/ SessionRead \/ SessionFails \/ WorkspaceStarts
     \/ \E t \in tasks :
          \/ WorkspaceLoads(t) \/ WorkspaceLoadFails(t) \/ Resume(t)
          \/ PageLoads(t) \/ PageLoadFails(t)
          \/ DefaultFound(t) \/ DefaultFails(t)
          \/ Flushed(t) \/ FlushFails(t) \/ CloseFlushed(t) \/ CloseFails(t)
     \/ \E f \in Pages : PageStarts(f) \/ PageFails(f)
  /\ UNCHANGED <<acts, hasty>>

Next == Start \/ (root.up /\ (Users \/ Continues))

Spec == Init /\ [][Next]_vars /\ WF_vars(Start) /\ WF_vars(root.up /\ Continues)

-----------------------------------------------------------------------------
Lives == {"stopped", "starting", "running"}

(* Types; a workspace that does not run has no page and no content.        *)
TypeOK ==
  /\ url \in Routes \cup {Login} /\ wish \in Routes \cup {Login}
  /\ status \in {"loading", "authenticated", "anonymous"} /\ online \in BOOLEAN
  /\ root \in [up : BOOLEAN, destination : {"", "workspace", "authentication"},
               module : BOOLEAN, login : BOOLEAN]
  /\ work \in [life : Lives, route : Routes \cup {None}, key : Routes \cup {None},
               current : Pages \cup {None}, added : SUBSET Pages, reported : BOOLEAN]
  /\ apps \in [Pages -> [life : Lives, at : Routes \cup {None}]]
  /\ work.life # "running" => {work.route, work.key, work.current} = {None}

(* Without a session, or a network, the workspace does not run and is not  *)
(* being started, whatever was under way: no import or load that is        *)
(* finished late brings back pages of who has signed out (dispatch,        *)
(* connectionChanged and the listeners to the session).                    *)
SignedOutShowsNothing ==
  status # "authenticated" \/ ~online => work.life = "stopped"

(* Two pages never run or load at once, and the one that does was started  *)
(* for the route the content region belongs to: a page whose module or     *)
(* data comes late does not replace a later one (showRoute).               *)
OnlyTheRoutesPage ==
  \A f \in Pages :
    apps[f].life # "stopped" =>
      work.life = "running" /\ work.current = f /\ work.key = apps[f].at

(* When nothing is under way the address is the one asked for last, or the *)
(* view it leads to.  orchestration.test.ts: "an older navigation flush    *)
(* cannot replace newer committed history and dispatch".                   *)
ArrivesWhereAsked ==
  tasks = {} /\ status = "authenticated" /\ online =>
    \/ url = Target(wish)
    \/ Target(wish) \in DOMAIN Default /\ url = Default[Target(wish)]

Shown(to) ==
  \E f \in Pages : apps[f].life = "running" /\ apps[f].at = url /\ url \in {to} \cup {Default[b] : b \in DOMAIN Default \cap {to}}

(* The page asked for last appears, or the user is told of an error,       *)
(* unless the session or the network goes: no stop, restart or import      *)
(* under way leaves the content region without a page (dispatch and        *)
(* showRoute).  Two cases of `hasty` are the exception: a page asked for   *)
(* again while its module is imported is not started, and the error of an  *)
(* unguarded page asked for again while it starts is dropped; nor is one   *)
(* which has failed started again (README, section 4).                     *)
PageAppears ==
  \A to \in Routes :
    (status = "authenticated" /\ online /\ wish = to)
      ~> \/ Shown(to) \/ work.reported \/ hasty
         \/ wish # to \/ status # "authenticated" \/ ~online

=============================================================================
