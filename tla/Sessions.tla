------------------------------ MODULE Sessions ------------------------------
(***************************************************************************)
(* Signing in, staying signed in and signing out in the tabs of one        *)
(* browser (src/frontend/src/app/session.ts, helpers/auth.ts and           *)
(* helpers/fetcher.ts) against the sessions of the server                  *)
(* (src/pkg/modules/auth/auth.go, src/pkg/models/sessions.go).             *)
(*                                                                         *)
(* All tabs share the token in localStorage, the refresh cookie and a web  *)
(* lock.  Each tab keeps a token in memory, hears of the others' writes    *)
(* from storage events that arrive later, and has requests of its own in   *)
(* flight.  A refresh token can be spent once: the server replaces it with *)
(* every refresh.  Link shares and the desktop shell are left out.         *)
(***************************************************************************)
EXTENDS Naturals, Sequences

CONSTANTS
  Tabs, Users,
  None,          \* no token, no cookie, nobody
  Locks,         \* the browser has navigator.locks (a secure context)
  Reliable,      \* no answer is lost, the server answers every logout
  MaxLogins,     \* bound: sessions the server creates
  MaxRefreshes,  \* bound: refreshes that are in progress at a time
  MaxActs        \* bound: pages loaded, logins, logouts, calls, expiries

Token == [who : Users, sid : 1 .. MaxLogins, gen : Nat]
Cookie == [sid : 1 .. MaxLogins, gen : Nat]

\* A refresh in progress: for whom, with what and to what end.
Refreshing == [tab : Tabs, at : {"queued", "sent", "answered"}, request : Token \cup {None},
               before : Token \cup {None}, cookie : Cookie \cup {None},
               answer : Token \cup {None}, version : 1 .. 2]

ASSUME SessionsAssumption ==
  /\ {Locks, Reliable} \subseteq BOOLEAN
  /\ MaxLogins \in Nat \ {0} /\ MaxRefreshes \in Nat /\ MaxActs \in Nat
  /\ None \notin Tabs \cup Users \cup Token \cup Cookie \cup Refreshing

VARIABLES
  rows,    \* the server's sessions: user, generation of the refresh token,
           \* whether the row still exists, tokens below `dead` have expired
  jar,     \* the refresh cookie: a session and a generation, or None
  disk,    \* localStorage: the token, and the events not yet delivered
  page,    \* what each tab keeps
  ops,     \* the refreshes in progress
  lock,    \* the refresh that holds the web lock, 0 when it is free
  acts,    \* acts of people and clocks so far, for the bound
  spent    \* history: a refresh was refused because its cookie was spent

vars == <<rows, jar, disk, page, ops, lock, acts, spent>>

OpIds == 1 .. MaxRefreshes
Callers == {"start", "call"}

Who(token) == IF token = None THEN None ELSE token.who
Expired(token) == token.gen < rows[token.sid].dead

\* The token a tab uses: the one in memory, else the one in localStorage.
Held(w) == IF w.p.saved # None THEN w.p.saved ELSE w.d.store

IdleCall == [at |-> "idle", token |-> None, who |-> None, op |-> 0, own |-> FALSE]
NoPromise == [at |-> "idle", token |-> None, op |-> 0]
NoLogin == [at |-> "idle", who |-> None, token |-> None, own |-> FALSE]

\* `own`: the tab's session has not changed since (the code compares the
\* number of transitions).
Closed == [at |-> "closed", saved |-> None, flight |-> 0,
           status |-> "loading", user |-> None,
           start |-> IdleCall, call |-> IdleCall, prom |-> NoPromise,
           login |-> NoLogin]

-----------------------------------------------------------------------------
(* A tab at work is a record w of its page p and of the disk d.            *)

World(t) == [p |-> page[t], d |-> disk]

\* A write of localStorage; the other tabs that listen will hear of it, if
\* it changes the value.
Put(w, t, value) ==
  [w EXCEPT !.d = [store |-> value,
                   mail |-> [u \in Tabs |->
                      IF value # w.d.store /\ u # t /\ page[u].at = "running"
                      THEN Append(w.d.mail[u], value) ELSE w.d.mail[u]]]]

\* Another identity makes every refresh that is under way a thing of the past:
\* the code counts an epoch whenever it forgets the one in flight, so a
\* refresh is of the current epoch exactly while it is the one in flight.
SaveToken(w, t, token, persist) ==
  LET other == Who(Held(w)) # Who(token)
      kept  == [w EXCEPT !.p.saved = token, !.p.flight = IF other THEN 0 ELSE @]
  IN  IF persist THEN Put(kept, t, token) ELSE kept

RemoveToken(w, t) ==
  Put([w EXCEPT !.p.saved = None, !.p.flight = 0], t, None)

\* The session of the tab has changed.
Turn(w) == [w EXCEPT !.p.start.own = FALSE, !.p.login.own = FALSE]

SignedOut(w, t) ==
  LET gone == RemoveToken(w, t)
  IN  [gone EXCEPT !.p.user = None, !.p.status = "anonymous"]

Started(w, user) ==
  [w EXCEPT !.p.start = IdleCall, !.p.at = "running", !.p.user = user,
            !.p.status = IF user = None THEN "anonymous" ELSE "authenticated"]

\* A page that cannot start shows the error; a restart that fails signs out,
\* unless the session has moved on since it began.
StartFailed(w, t) ==
  LET idle == [w EXCEPT !.p.start = IdleCall] IN
  CASE w.p.at = "starting" -> [w EXCEPT !.p = Closed]
    [] w.p.at # "starting" /\ w.p.start.own -> SignedOut(idle, t)
    [] OTHER -> idle

Reject(w, t, k) ==
  IF k = "start" THEN StartFailed(w, t) ELSE [w EXCEPT !.p.call = IdleCall]

Send(w, k) ==
  [w EXCEPT !.p.saved = Held(w),
            !.p[k].at = "sent", !.p[k].token = Held(w), !.p[k].who = Who(Held(w))]

\* prepareStart after its attempt at a silent refresh.
AskForUser(w) == IF Held(w) = None THEN Started(w, None) ELSE Send(w, "start")

\* Mutated: whoever is signed in may send the request again.
OwnedByAnyone(w, call) == Held(w) # None

\* The tab is still that of the user the request was sent for.
StillOwned(w, call) == Who(Held(w)) = call.who

\* Mutated: a request that cannot be sent again is left alone.
ResumeIfOwned(w, t, k, token) ==
  IF w.p[k].at = "waiting" /\ token # None /\ StillOwned(w, w.p[k])
  THEN [w EXCEPT !.p[k].at = "resent", !.p[k].token = token] ELSE w

\* A request that waits is sent again with the new token if it is still
\* this user's, and rejected otherwise.
Resume(w, t, k, token) ==
  IF w.p[k].at # "waiting" THEN w
  ELSE IF token = None \/ ~StillOwned(w, w.p[k]) THEN Reject(w, t, k)
  ELSE [w EXCEPT !.p[k].at = "resent", !.p[k].token = token]

\* The promise the interceptor's requests share is settled, with a token or
\* with None.
Settle(w, t, token) ==
  Resume(Resume([w EXCEPT !.p.prom = NoPromise], t, "call", token), t, "start", token)

\* Mutated: a refresh that has ended stays the one in flight.
LandedInFlight(w, o) == w

\* The next refresh is a new one.
Landed(w, o) == [w EXCEPT !.p.flight = IF @ = o THEN 0 ELSE @]

\* The interceptor asked for the refresh: a failure is tried again later, once.
Answer(w, t, o, ok) ==
  LET asked == w.p.prom.op = o /\ w.p.prom.at \in {"first", "second"} IN
  CASE asked /\ ok -> Settle(w, t, Held(w))
    [] asked /\ ~ok /\ w.p.prom.at = "first" ->
         [w EXCEPT !.p.prom.at = "sleep", !.p.prom.op = 0]
    [] asked /\ ~ok /\ w.p.prom.at = "second" -> Settle(w, t, None)
    [] OTHER -> w

\* A refresh has ended, well or not; whoever waits for it goes on.
Finish(w, t, o, ok) ==
  LET heard == Answer(Landed(w, o), t, o, ok)
  IN  IF heard.p.start.at = "refresh" /\ heard.p.start.op = o
      THEN AskForUser(heard) ELSE heard

Become(t, w) == page' = [page EXCEPT ![t] = w.p] /\ disk' = w.d

-----------------------------------------------------------------------------
Init ==
  /\ \E who \in Users \cup {None} :
       LET token == [who |-> who, sid |-> 1, gen |-> 0] IN
       IF who = None
       THEN /\ rows = <<>> /\ jar = None
            /\ disk = [store |-> None, mail |-> [t \in Tabs |-> <<>>]]
            /\ page = [t \in Tabs |-> [Closed EXCEPT !.at = "running", !.status = "anonymous"]]
       ELSE /\ rows = << [who |-> who, gen |-> 0, live |-> TRUE, dead |-> 0] >>
            /\ jar = [sid |-> 1, gen |-> 0]
            /\ disk = [store |-> token, mail |-> [t \in Tabs |-> <<>>]]
            /\ page = [t \in Tabs |-> [Closed EXCEPT !.at = "running",
                         !.status = "authenticated", !.user = who, !.saved = token]]
  /\ ops = [o \in OpIds |-> None]
  /\ lock = 0
  /\ acts = 0
  /\ spent = FALSE

\* refreshToken(): join the refresh of this tab or begin one.  `k` is who
\* waits for it: "start" (prepareStart) or "prom" (the interceptor).
Refresh(w, t, k, request) ==
  IF w.p.flight # 0
  THEN /\ Become(t, [w EXCEPT !.p[k].op = w.p.flight])
       /\ UNCHANGED ops
  ELSE \E o \in OpIds :
       /\ ops[o] = None /\ \A i \in 1 .. o - 1 : ops[i] # None
       /\ ops' = [ops EXCEPT ![o] =
            [tab |-> t, at |-> "queued", request |-> request,
             before |-> IF request # None THEN request ELSE w.d.store,
             cookie |-> None, answer |-> None, version |-> 2]]
       /\ Become(t, [w EXCEPT !.p[k].op = o, !.p.flight = o])

\* One more of the acts of people and clocks.
Act == acts < MaxActs /\ acts' = acts + 1

(* A page is loaded, or loaded again: what the old one had in memory is    *)
(* gone.  When answers can be lost, so is that of a refresh it had sent.   *)
Load(t) ==
  /\ Reliable => \A o \in OpIds : ops[o] # None => ops[o].tab # t
  /\ page' = [page EXCEPT ![t] = [Closed EXCEPT !.at = "starting",
                                  !.start = [IdleCall EXCEPT !.at = "info"]]]
  /\ disk' = [disk EXCEPT !.mail[t] = <<>>]
  /\ ops' = [o \in OpIds |-> IF ops[o] # None /\ ops[o].tab = t THEN None ELSE ops[o]]
  /\ lock' = IF lock # 0 /\ ops[lock].tab = t THEN 0 ELSE lock
  /\ \E lost \in SUBSET {o \in OpIds : ops[o] # None /\ ops[o].tab = t /\ ops[o].at = "sent"} :
       rows' = [s \in DOMAIN rows |->
          IF \E o \in lost : ops[o].cookie = [sid |-> s, gen |-> rows[s].gen]
          THEN [rows[s] EXCEPT !.gen = @ + 1] ELSE rows[s]]
  /\ Act /\ UNCHANGED <<jar, spent>>

(* prepareStart, once the server's configuration is there: without a token *)
(* try the cookie, with one ask who its user is.                           *)
Prepare(t) ==
  LET w == World(t) IN
  /\ page[t].start.at = "info"
  /\ IF Held(w) = None
     THEN Refresh([w EXCEPT !.p.start.at = "refresh"], t, "start", None)
     ELSE Become(t, Send(w, "start")) /\ UNCHANGED ops
  /\ UNCHANGED <<rows, jar, lock, acts, spent>>

(* The signed-in user does something that needs the server.                *)
Call(t) ==
  /\ page[t].at = "running" /\ page[t].status = "authenticated"
  /\ page[t].call.at = "idle" /\ Held(World(t)) # None
  /\ Become(t, Send(World(t), "call"))
  /\ Act /\ UNCHANGED <<rows, jar, ops, lock, spent>>

(* The server answers a request.  A token that has expired is refused and  *)
(* the interceptor asks for another one, once per request.                 *)
Answered(t, k) ==
  LET w == World(t) IN
  /\ page[t][k].at \in {"sent", "resent"}
  /\ \/ /\ ~Expired(page[t][k].token)
        /\ Become(t, IF k = "start" THEN Started(w, page[t].start.token.who)
                     ELSE [w EXCEPT !.p.call = IdleCall])
        /\ UNCHANGED ops
     \/ /\ Expired(page[t][k].token)
        /\ page[t][k].at = "sent" /\ StillOwned(w, page[t][k])
        /\ LET waiting == [w EXCEPT !.p[k].at = "waiting", !.p.saved = Held(w)] IN
           IF w.p.prom.at # "idle"
           THEN Become(t, waiting) /\ UNCHANGED ops
           ELSE Refresh([waiting EXCEPT !.p.prom.at = "first",
                                        !.p.prom.token = w.p[k].token],
                        t, "prom", w.p[k].token)
     \/ /\ \/ Expired(page[t][k].token)
              /\ (page[t][k].at = "resent" \/ ~StillOwned(w, page[t][k]))
           \/ ~Reliable
        /\ Become(t, Reject(w, t, k))
        /\ UNCHANGED ops
  /\ UNCHANGED <<rows, jar, lock, acts, spent>>

(* A second after a failed refresh the interceptor tries once more.        *)
RefreshAgain(t) ==
  LET w == World(t) IN
  /\ page[t].prom.at = "sleep"
  /\ IF Who(Held(w)) # Who(page[t].prom.token)
     THEN Become(t, Settle(w, t, None)) /\ UNCHANGED ops
     ELSE Refresh([w EXCEPT !.p.saved = Held(w), !.p.prom.at = "second"],
                  t, "prom", page[t].prom.token)
  /\ UNCHANGED <<rows, jar, lock, acts, spent>>

-----------------------------------------------------------------------------
(* A refresh.                                                              *)

Done(o) == /\ ops' = [ops EXCEPT ![o] = None]
           /\ lock' = IF lock = o THEN 0 ELSE lock

\* Mutated: the lock is not asked for.
EnterAtOnce == TRUE

\* navigator.locks grants the lock to one tab at a time.
MayEnter == Locks => lock = 0

\* Mutated: the answer is saved, whoever signed out meanwhile.
KeepAnswer(w, t, o) == SaveToken(w, t, ops[o].answer, TRUE)

\* The token is kept only if nobody signed in or out since it was asked for.
KeepIfCurrent(w, t, o) ==
  IF w.p.flight = o THEN SaveToken(w, t, ops[o].answer, TRUE) ELSE w

\* Another tab has put a new token into localStorage meanwhile.
Renewed(o) == disk.store # None /\ disk.store # ops[o].before

(* It has the lock: give up after a logout, adopt the token of another tab *)
(* if that is this user's, or send the cookie.                             *)
Enter(o) ==
  LET op == ops[o]  t == op.tab  w == World(t) IN
  /\ op # None /\ op.at = "queued" /\ MayEnter
  /\ \/ /\ w.p.flight # o
        /\ Become(t, Finish(w, t, o, TRUE)) /\ Done(o)
     \/ /\ w.p.flight = o /\ Renewed(o)
        /\ IF op.request # None /\ Who(disk.store) # Who(op.request)
           THEN Become(t, Finish(w, t, o, FALSE))
           ELSE Become(t, Finish([w EXCEPT !.p.saved = disk.store], t, o, TRUE))
        /\ Done(o)
     \/ /\ w.p.flight = o /\ ~Renewed(o)
        /\ ops' = [ops EXCEPT ![o].at = "sent", ![o].cookie = jar]
        /\ lock' = IF Locks THEN o ELSE 0
        /\ UNCHANGED <<page, disk>>
  /\ UNCHANGED <<rows, jar, acts, spent>>

(* The server exchanges a refresh token that is the current one of its     *)
(* session.                                                                *)
RefreshSession(o) ==
  LET op == ops[o]  c == op.cookie IN
  /\ op # None /\ op.at = "sent"
  /\ IF c # None /\ rows[c.sid].live /\ rows[c.sid].gen = c.gen
     THEN /\ rows' = [rows EXCEPT ![c.sid].gen = @ + 1]
          /\ ops' = [ops EXCEPT ![o].at = "answered",
               ![o].answer = [who |-> rows[c.sid].who, sid |-> c.sid, gen |-> c.gen + 1]]
          /\ UNCHANGED spent
     ELSE /\ ops' = [ops EXCEPT ![o].at = "answered"]
          /\ spent' = (spent \/ (c # None /\ rows[c.sid].live))
          /\ UNCHANGED rows
  /\ UNCHANGED <<jar, disk, page, lock, acts>>

(* The answer is there.  The browser takes the cookie at once, whatever    *)
(* becomes of the token.  A failure is tried once with the older endpoint. *)
Return(o) ==
  LET op == ops[o]  t == op.tab  w == World(t) IN
  /\ op # None /\ op.at = "answered"
  /\ \/ /\ op.answer # None
        /\ jar' = [sid |-> op.answer.sid, gen |-> op.answer.gen]
        /\ Become(t, Finish(KeepIfCurrent(w, t, o), t, o, TRUE))
        /\ Done(o)
     \/ /\ op.answer = None \/ ~Reliable
        /\ UNCHANGED jar
        /\ IF w.p.flight = o /\ op.version = 2
           THEN /\ ops' = [ops EXCEPT ![o].at = "sent", ![o].version = 1,
                                      ![o].cookie = jar, ![o].answer = None]
                /\ UNCHANGED <<page, disk, lock>>
           ELSE /\ Become(t, Finish(w, t, o, w.p.flight # o /\ op.version = 2))
                /\ Done(o)
  /\ UNCHANGED <<rows, acts, spent>>

-----------------------------------------------------------------------------
(* Signing in and out, and hearing of it in the other tabs.                *)

(* One person uses the browser: there is one login under way, and none is  *)
(* sent before the tabs have heard of the last one.                        *)
Login(t, who) ==
  /\ page[t].at = "running" /\ page[t].status = "anonymous"
  /\ Len(rows) < MaxLogins
  /\ \A u \in Tabs : page[u].login.at = "idle" /\ disk.mail[u] = <<>>
  /\ page' = [page EXCEPT ![t].login = [at |-> "posted", who |-> who,
                                        token |-> None, own |-> TRUE]]
  /\ Act /\ UNCHANGED <<rows, jar, disk, ops, lock, spent>>

(* The server creates the session; its answer sets the cookie at once.     *)
CreateSession(t) ==
  LET sid == Len(rows) + 1 IN
  /\ page[t].login.at = "posted"
  /\ rows' = Append(rows, [who |-> page[t].login.who, gen |-> 0, live |-> TRUE, dead |-> 0])
  /\ jar' = [sid |-> sid, gen |-> 0]
  /\ page' = [page EXCEPT ![t].login.at = "identity",
       ![t].login.token = [who |-> page[t].login.who, sid |-> sid, gen |-> 0]]
  /\ UNCHANGED <<disk, ops, lock, acts, spent>>

(* acceptIdentity, when the user is known: the login is dropped if the     *)
(* session of this tab has changed since it was sent.                      *)
AcceptIdentity(t) ==
  LET w == World(t)  login == page[t].login IN
  /\ login.at = "identity"
  /\ IF ~login.own
     THEN Become(t, [w EXCEPT !.p.login = NoLogin])
     ELSE Become(t, SaveToken([w EXCEPT !.p.login = NoLogin, !.p.user = login.who,
                                        !.p.status = "authenticated"],
                              t, login.token, TRUE))
  /\ UNCHANGED <<rows, jar, ops, lock, acts, spent>>

(* The tab is signed out at once.  The server deletes the session and the  *)
(* cookie if the token is still good and the request reaches it.           *)
Logout(t) ==
  LET w == World(t)  token == Held(w) IN
  /\ page[t].at = "running" /\ page[t].status = "authenticated" /\ token # None
  /\ Become(t, SignedOut(Turn(w), t))
  /\ \/ /\ ~Expired(token)
        /\ rows' = [rows EXCEPT ![token.sid].live = FALSE]
        /\ jar' = None
     \/ /\ Expired(token) \/ ~Reliable
        /\ UNCHANGED <<rows, jar>>
  /\ Act /\ UNCHANGED <<ops, lock, spent>>

(* A storage event: the token of another tab, or its removal.              *)
StorageChanged(t) ==
  LET token == Head(disk.mail[t])
      w     == Turn([p |-> page[t], d |-> [disk EXCEPT !.mail[t] = Tail(@)]])
      saved == SaveToken(w, t, token, FALSE)
  IN
  /\ disk.mail[t] # <<>>
  /\ Become(t, CASE token = None -> SignedOut(w, t)
                 [] token # None /\ Who(Held(w)) = Who(token) -> saved
                 [] OTHER -> [saved EXCEPT !.p.status = "loading",
                      !.p.start = [IdleCall EXCEPT !.at = "info", !.own = TRUE]])
  /\ UNCHANGED <<rows, jar, ops, lock, acts, spent>>

(* The tokens issued so far for a session expire.                          *)
Expire(s) ==
  /\ rows[s].dead <= rows[s].gen
  /\ rows' = [rows EXCEPT ![s].dead = rows[s].gen + 1]
  /\ Act /\ UNCHANGED <<jar, disk, page, ops, lock, spent>>

-----------------------------------------------------------------------------
(* What a tab, the server and the network do by themselves; what people    *)
(* and clocks do is left to them.                                          *)
Progress ==
  \/ \E t \in Tabs : \/ Prepare(t) \/ Answered(t, "start") \/ Answered(t, "call")
                     \/ RefreshAgain(t) \/ StorageChanged(t)
                     \/ CreateSession(t) \/ AcceptIdentity(t)
  \/ \E o \in OpIds : Enter(o) \/ RefreshSession(o) \/ Return(o)

Next ==
  \/ Progress
  \/ \E t \in Tabs : Load(t) \/ Call(t) \/ Logout(t) \/ \E who \in Users : Login(t, who)
  \/ \E s \in DOMAIN rows : Expire(s)

Fairness == WF_vars(Progress)

Spec == Init /\ [][Next]_vars /\ Fairness

-----------------------------------------------------------------------------
(* Types; the refresh a tab has in flight is a refresh of that tab.        *)
TypeOK ==
  /\ \A s \in DOMAIN rows : rows[s] \in [who : Users, gen : Nat, live : BOOLEAN, dead : Nat]
  /\ jar \in Cookie \cup {None}
  /\ disk.store \in Token \cup {None}
  /\ \A t \in Tabs :
       /\ disk.mail[t] \in Seq(Token \cup {None})
       /\ page[t].at \in {"closed", "starting", "running"}
       /\ page[t].saved \in Token \cup {None}
       /\ page[t].status \in {"loading", "anonymous", "authenticated"}
       /\ page[t].flight # 0 => /\ ops[page[t].flight] # None
                                /\ ops[page[t].flight].tab = t
  /\ \A o \in OpIds : ops[o] \in Refreshing \cup {None}
  /\ lock \in OpIds \cup {0}

(* While the browser has locks and no answer is lost, no tab spends a      *)
(* refresh token a second time: whoever is given the lock sends the cookie *)
(* the last answer has left, whatever was signed in, signed out or loaded  *)
(* meanwhile (helpers/auth.ts, doRefresh).                                 *)
CookieSpentOnce == Locks /\ Reliable => ~spent

(* A request that is sent again after a refresh carries a token of the     *)
(* user it was first sent for, although the session may have passed to     *)
(* somebody else while the refresh was under way (fetcher.ts).             *)
RetryKeepsIdentity ==
  \A t \in Tabs, k \in Callers :
    page[t][k].at = "resent" => Who(page[t][k].token) = page[t][k].who

\* Signed out, with nothing on its way but what was begun before.
LeftOver(t) ==
  /\ page[t].at = "running" /\ page[t].status = "anonymous"
  /\ page[t].saved = None /\ disk.mail[t] = <<>>
  /\ page[t].start.at = "idle" /\ page[t].login.at = "idle"

(* Nothing a tab had under way when it was signed out - refreshes, their   *)
(* second tries, requests waiting for them - gives it a token again, or    *)
(* puts one into localStorage (the epoch of helpers/auth.ts).              *)
SignOutHolds ==
  [][\A t \in Tabs : LeftOver(t) /\ disk.store = None
       => /\ page'[t].saved = None
          /\ disk'.store = None \/ disk'.mail[t] # <<>>]_vars

(* A request that waits for the refresh of its tab does not wait for ever: *)
(* every refresh ends, gives back the lock and settles the promise the     *)
(* requests share (fetcher.ts, refreshPromise).                            *)
NobodyWaitsForever ==
  \A t \in Tabs, k \in Callers : page[t][k].at = "waiting" ~> page[t][k].at # "waiting"

=============================================================================
