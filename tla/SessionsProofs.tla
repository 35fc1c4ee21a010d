--------------------------- MODULE SessionsProofs ---------------------------
(***************************************************************************)
(* What is proved of Sessions, for any tabs and users and any number of    *)
(* sessions, refreshes and acts: a refresh token is spent once, a request  *)
(* is repeated only as the user it was sent for, nothing a tab had under   *)
(* way when it was signed out gives it a token again, and nobody waits for *)
(* a refresh that has ended or for a lock that nobody will give back.      *)
(*                                                                         *)
(* The invariant has two parts.  Fit is about what one tab keeps in        *)
(* memory, and every operator on a tab at work keeps it.  Server is about  *)
(* the sessions, the cookies and the lock.  The last section adds Waiters, *)
(* which relates those who wait to the refreshes in progress.              *)
(***************************************************************************)
EXTENDS Sessions, SequenceTheorems, TLAPS

Maybe == Token \cup {None}
Somebody == Users \cup {None}
Op == OpIds \cup {0}

Request == [at : {"idle", "info", "refresh", "sent", "waiting", "resent"}, token : Maybe,
            who : Somebody, op : Op, own : BOOLEAN]
Promise == [at : {"idle", "first", "second", "sleep"}, token : Maybe, op : Op]
Entry == [at : {"idle", "posted", "identity"}, who : Somebody, token : Maybe, own : BOOLEAN]

Page == [at : {"closed", "starting", "running"}, saved : Maybe, flight : Op,
         status : {"loading", "anonymous", "authenticated"}, user : Somebody,
         start : Request, call : Request, prom : Promise, login : Entry]

Disk == [store : Maybe, mail : [Tabs -> Seq(Maybe)]]
Worlds == [p : Page, d : Disk]

\* A request that is under way is somebody's, and is repeated as theirs.
Owned(c) ==
  /\ c.at \in {"sent", "waiting", "resent"} => c.token \in Token /\ c.who \in Users
  /\ c.at = "resent" => Who(c.token) = c.who

\* A tab without a token has a refresh in flight only to start with.
Fit(p) ==
  /\ Owned(p.start) /\ Owned(p.call)
  /\ p.prom.at # "idle" => p.prom.token \in Token
  /\ p.login.at # "idle" => p.login.who \in Users
  /\ p.login.at = "identity" => p.login.token \in Token
  /\ p.flight # 0 /\ p.saved = None => p.start.at = "refresh" /\ p.start.op = p.flight

Sound(w) == w \in Worlds /\ Fit(w.p)

\* The other tabs hear of a change of localStorage.
Heard(w, n, t) ==
  \A u \in Tabs \ {t} :
    /\ w.d.mail[u] # <<>> => n.d.mail[u] # <<>>
    /\ page[u].at = "running" => n.d.store = w.d.store \/ n.d.mail[u] # <<>>

\* n is sound, has no refresh in flight and no login but those of w, and the
\* other tabs know.
Leads(w, n, t) ==
  /\ Sound(n) /\ Heard(w, n, t)
  /\ n.p.flight \in {0, w.p.flight} /\ n.p.login.at \in {"idle", w.p.login.at}

-----------------------------------------------------------------------------
(* A tab at work.                                                          *)

LEMMA Leaders ==
  ASSUME NEW t \in Tabs, NEW w, Sound(w)
  PROVE  /\ Leads(w, w, t)
         /\ \A n, m : Leads(w, n, t) /\ Leads(n, m, t) => Leads(w, m, t)
  BY DEF Leads, Heard

LEMMA Tokens ==
  /\ None \notin Token /\ None \notin Users /\ Who(None) = None
  /\ \A x \in Maybe : Who(x) \in Somebody /\ (Who(x) = None <=> x = None)
  /\ \A x \in Token : Who(x) = x.who /\ x.who \in Users
  BY SessionsAssumption DEF Token, Maybe, Somebody, Who

LEMMA Holds ==
  ASSUME NEW w, Sound(w)
  PROVE  /\ Held(w) \in Maybe
         /\ Held(w) = None <=> w.p.saved = None /\ w.d.store = None
  BY DEF Sound, Worlds, Page, Disk, Held

LEMMA Idles ==
  /\ IdleCall \in Request /\ Owned(IdleCall) /\ IdleCall.at = "idle"
  /\ NoPromise \in Promise /\ NoPromise.at = "idle"
  /\ NoLogin \in Entry /\ NoLogin.at = "idle"
  /\ Closed \in Page /\ Fit(Closed) /\ Closed.saved = None /\ Closed.flight = 0
  /\ Closed.login.at = "idle"
<1>1. IdleCall \in Request /\ Owned(IdleCall) /\ IdleCall.at = "idle"
  BY DEF IdleCall, Request, Owned, Maybe, Somebody, Op
<1>2. NoPromise \in Promise /\ NoPromise.at = "idle" /\ NoLogin \in Entry /\ NoLogin.at = "idle"
  BY DEF NoPromise, NoLogin, Promise, Entry, Maybe, Somebody, Op
<1>3. /\ Closed \in Page /\ Closed.saved = None /\ Closed.flight = 0
      /\ Closed.start = IdleCall /\ Closed.call = IdleCall
      /\ Closed.prom = NoPromise /\ Closed.login = NoLogin
  BY <1>1, <1>2 DEF Closed, Page, Maybe, Somebody, Op
<1> QED BY <1>1, <1>2, <1>3 DEF Fit

\* Another page for the same localStorage.
LEMMA Changes ==
  ASSUME NEW t \in Tabs, NEW w, Sound(w), NEW p \in Page, Fit(p),
         p.flight \in {0, w.p.flight}, p.login.at \in {"idle", w.p.login.at}
  PROVE  LET n == [w EXCEPT !.p = p] IN Leads(w, n, t) /\ n.p = p /\ n.d = w.d
<1> DEFINE n == [w EXCEPT !.p = p]
<1>1. n \in Worlds /\ n.p = p /\ n.d = w.d
  BY DEF Sound, Worlds
<1> HIDE DEF n
<1>2. Leads(w, n, t)
  BY <1>1 DEF Leads, Sound, Heard
<1> QED BY <1>1, <1>2 DEF n

LEMMA Puts ==
  ASSUME NEW t \in Tabs, NEW w, Sound(w), NEW value \in Maybe
  PROVE  LET n == Put(w, t, value) IN
         Leads(w, n, t) /\ n.p = w.p /\ n.d.store = value /\ n.d.mail[t] = w.d.mail[t]
<1> DEFINE sent == [u \in Tabs |->
                      IF value # w.d.store /\ u # t /\ page[u].at = "running"
                      THEN Append(w.d.mail[u], value) ELSE w.d.mail[u]]
           d == [store |-> value, mail |-> sent]
           n == Put(w, t, value)
<1>1. w.d.mail \in [Tabs -> Seq(Maybe)]
  BY DEF Sound, Worlds, Disk
<1>2. ASSUME NEW u \in Tabs
      PROVE  Append(w.d.mail[u], value) \in Seq(Maybe) /\ Append(w.d.mail[u], value) # <<>>
  BY <1>1, AppendProperties
<1>3. sent \in [Tabs -> Seq(Maybe)]
  BY <1>1, <1>2
<1>4. /\ n \in Worlds /\ n.p = w.p /\ n.d.store = value
      /\ \A u \in Tabs : n.d.mail[u] = sent[u]
  BY <1>3 DEF Put, Sound, Worlds, Disk
<1> HIDE DEF n
<1>5. Heard(w, n, t)
  BY <1>1, <1>2, <1>4 DEF Heard
<1> QED BY <1>4, <1>5 DEF Leads, Sound, n

LEMMA SavesToken ==
  ASSUME NEW t \in Tabs, NEW w, Sound(w), NEW token \in Token, NEW persist \in BOOLEAN
  PROVE  LET n == SaveToken(w, t, token, persist) IN
         /\ Leads(w, n, t) /\ n.p.saved = token /\ n.p.start = w.p.start
         /\ Who(Held(w)) # Who(token) => n.p.flight = 0
<1> DEFINE other == Who(Held(w)) # Who(token)
<1>1. PICK p \in Page : /\ p = [w.p EXCEPT !.saved = token, !.flight = IF other THEN 0 ELSE @]
                        /\ p.saved = token /\ p.flight \in {0, w.p.flight}
                        /\ other => p.flight = 0
                        /\ p.start = w.p.start /\ p.call = w.p.call
                        /\ p.prom = w.p.prom /\ p.login = w.p.login
  <2> DEFINE q == [w.p EXCEPT !.saved = token, !.flight = IF other THEN 0 ELSE @]
  <2>1. /\ q \in Page /\ q.saved = token /\ q.flight \in {0, w.p.flight}
        /\ other => q.flight = 0
        /\ q.start = w.p.start /\ q.call = w.p.call /\ q.prom = w.p.prom /\ q.login = w.p.login
    BY DEF Sound, Worlds, Page, Op, Maybe
  <2> QED BY <2>1
<1>2. token \in Maybe /\ token # None
  BY Tokens DEF Maybe
<1>3. Fit(p)
  BY <1>1, <1>2 DEF Sound, Fit
<1>4. PICK n : n = [w EXCEPT !.p = p] /\ Leads(w, n, t) /\ n.p = p
  <2>1. LET n == [w EXCEPT !.p = p] IN Leads(w, n, t) /\ n.p = p
    <3>1. p.flight \in {0, w.p.flight} /\ p.login.at \in {"idle", w.p.login.at}
      BY <1>1
    <3> QED BY <1>3, <3>1, Changes
  <2> QED BY <2>1
<1>5. n = [w EXCEPT !.p.saved = token, !.p.flight = IF other THEN 0 ELSE @]
  BY <1>1, <1>4 DEF Sound, Worlds
<1>6. CASE persist
  <2>1. SaveToken(w, t, token, persist) = Put(n, t, token)
    BY <1>5, <1>6 DEF SaveToken
  <2>2. Sound(n)
    BY <1>4 DEF Leads
  <2>3. LET m == Put(n, t, token) IN Leads(n, m, t) /\ m.p = n.p
    BY <1>2, <2>2, Puts
  <2> QED BY <1>1, <1>4, <2>1, <2>3, Leaders
<1>7. CASE ~persist
  <2>1. SaveToken(w, t, token, persist) = n
    BY <1>5, <1>7 DEF SaveToken
  <2> QED BY <1>1, <1>4, <2>1
<1> QED BY <1>6, <1>7

LEMMA RemovesToken ==
  ASSUME NEW t \in Tabs, NEW w, Sound(w)
  PROVE  LET n == RemoveToken(w, t) IN
         /\ Leads(w, n, t) /\ n.p.saved = None /\ n.p.flight = 0 /\ n.d.store = None
         /\ n.p.start = w.p.start /\ n.p.call = w.p.call
         /\ n.p.at = w.p.at
<1>1. PICK p \in Page : /\ p = [w.p EXCEPT !.saved = None, !.flight = 0]
                        /\ p.saved = None /\ p.flight = 0 /\ p.at = w.p.at
                        /\ p.start = w.p.start /\ p.call = w.p.call
                        /\ p.prom = w.p.prom /\ p.login = w.p.login
  <2> DEFINE q == [w.p EXCEPT !.saved = None, !.flight = 0]
  <2>1. /\ q \in Page /\ q.saved = None /\ q.flight = 0 /\ q.at = w.p.at
        /\ q.start = w.p.start /\ q.call = w.p.call /\ q.prom = w.p.prom /\ q.login = w.p.login
    BY DEF Sound, Worlds, Page, Op, Maybe
  <2> QED BY <2>1
<1>2. Fit(p)
  BY <1>1 DEF Sound, Fit
<1>3. PICK n : n = [w EXCEPT !.p = p] /\ Leads(w, n, t) /\ n.p = p
  <2>1. LET n == [w EXCEPT !.p = p] IN Leads(w, n, t) /\ n.p = p
    <3>1. p.flight \in {0, w.p.flight} /\ p.login.at \in {"idle", w.p.login.at}
      BY <1>1
    <3> QED BY <1>2, <3>1, Changes
  <2> QED BY <2>1
<1>4. RemoveToken(w, t) = Put(n, t, None)
  BY <1>1, <1>3 DEF Sound, Worlds, RemoveToken
<1>5. Sound(n)
  BY <1>3 DEF Leads
<1>6. LET m == Put(n, t, None) IN Leads(n, m, t) /\ m.p = n.p /\ m.d.store = None
  BY <1>5, Puts DEF Maybe
<1> QED BY <1>1, <1>3, <1>4, <1>6, Leaders

LEMMA Turns ==
  ASSUME NEW t \in Tabs, NEW w, Sound(w)
  PROVE  LET n == Turn(w) IN Leads(w, n, t) /\ n.d = w.d
<1>1. PICK p \in Page : /\ p = [w.p EXCEPT !.start.own = FALSE, !.login.own = FALSE]
                        /\ p.flight = w.p.flight /\ p.saved = w.p.saved
                        /\ p.start.at = w.p.start.at /\ p.start.op = w.p.start.op
                        /\ p.start.token = w.p.start.token /\ p.start.who = w.p.start.who
                        /\ p.call = w.p.call /\ p.prom = w.p.prom /\ p.login.at = w.p.login.at
                        /\ p.login.who = w.p.login.who /\ p.login.token = w.p.login.token
  <2> DEFINE q == [w.p EXCEPT !.start.own = FALSE, !.login.own = FALSE]
  <2>1. /\ q \in Page /\ q.flight = w.p.flight /\ q.saved = w.p.saved
        /\ q.start.at = w.p.start.at /\ q.start.op = w.p.start.op
        /\ q.start.token = w.p.start.token /\ q.start.who = w.p.start.who
        /\ q.call = w.p.call /\ q.prom = w.p.prom /\ q.login.at = w.p.login.at
        /\ q.login.who = w.p.login.who /\ q.login.token = w.p.login.token
    BY DEF Sound, Worlds, Page, Request, Entry
  <2> QED BY <2>1
<1>2. Fit(p)
  BY <1>1 DEF Sound, Fit, Owned
<1>3. p.flight \in {0, w.p.flight} /\ p.login.at \in {"idle", w.p.login.at}
  BY <1>1
<1>4. LET n == [w EXCEPT !.p = p] IN Leads(w, n, t) /\ n.d = w.d
  BY <1>2, <1>3, Changes
<1>5. Turn(w) = [w EXCEPT !.p = p]
  BY <1>1 DEF Sound, Worlds, Page, Turn
<1> QED BY <1>4, <1>5

LEMMA SignsOut ==
  ASSUME NEW t \in Tabs, NEW w, Sound(w)
  PROVE  Leads(w, SignedOut(w, t), t)
<1>1. PICK g : g = RemoveToken(w, t) /\ Leads(w, g, t)
  BY RemovesToken
<1>2. Sound(g)
  BY <1>1 DEF Leads
<1>3. PICK p \in Page : /\ p = [g.p EXCEPT !.user = None, !.status = "anonymous"]
                        /\ p.flight = g.p.flight /\ p.saved = g.p.saved /\ p.start = g.p.start
                        /\ p.call = g.p.call /\ p.prom = g.p.prom /\ p.login = g.p.login
  <2> DEFINE q == [g.p EXCEPT !.user = None, !.status = "anonymous"]
  <2>1. /\ q \in Page /\ q.flight = g.p.flight /\ q.saved = g.p.saved /\ q.start = g.p.start
        /\ q.call = g.p.call /\ q.prom = g.p.prom /\ q.login = g.p.login
    BY <1>2 DEF Sound, Worlds, Page, Somebody
  <2> QED BY <2>1
<1>4. Fit(p)
  BY <1>2, <1>3 DEF Sound, Fit
<1>5. p.flight \in {0, g.p.flight} /\ p.login.at \in {"idle", g.p.login.at}
  BY <1>3
<1>6. LET n == [g EXCEPT !.p = p] IN Leads(g, n, t)
  BY <1>2, <1>4, <1>5, Changes
<1>7. SignedOut(w, t) = [g EXCEPT !.p = p]
  BY <1>1, <1>2, <1>3 DEF Sound, Worlds, SignedOut
<1> QED BY <1>1, <1>6, <1>7, Leaders

\* A request of the tab ends.
LEMMA Ends ==
  ASSUME NEW t \in Tabs, NEW w, Sound(w)
  PROVE  /\ LET n == [w EXCEPT !.p.call = IdleCall] IN
            Leads(w, n, t) /\ n.d = w.d /\ n.p.saved = w.p.saved /\ n.p.start = w.p.start
         /\ w.p.start.at # "refresh" => Leads(w, [w EXCEPT !.p.start = IdleCall], t)
<1>1. LET n == [w EXCEPT !.p.call = IdleCall] IN
      Leads(w, n, t) /\ n.d = w.d /\ n.p.saved = w.p.saved /\ n.p.start = w.p.start
  <2>1. PICK p \in Page : /\ p = [w.p EXCEPT !.call = IdleCall]
                          /\ p.flight = w.p.flight /\ p.saved = w.p.saved /\ p.start = w.p.start
                          /\ p.call = IdleCall /\ p.prom = w.p.prom /\ p.login = w.p.login
    <3> DEFINE q == [w.p EXCEPT !.call = IdleCall]
    <3>1. /\ q \in Page /\ q.flight = w.p.flight /\ q.saved = w.p.saved /\ q.start = w.p.start
          /\ q.call = IdleCall /\ q.prom = w.p.prom /\ q.login = w.p.login
      BY Idles DEF Sound, Worlds, Page
    <3> QED BY <3>1
  <2>2. Fit(p)
    BY <2>1, Idles DEF Sound, Fit
  <2>3. p.flight \in {0, w.p.flight} /\ p.login.at \in {"idle", w.p.login.at}
    BY <2>1
  <2>4. LET n == [w EXCEPT !.p = p] IN Leads(w, n, t) /\ n.d = w.d /\ n.p = p
    BY <2>2, <2>3, Changes
  <2>5. [w EXCEPT !.p.call = IdleCall] = [w EXCEPT !.p = p]
    BY <2>1 DEF Sound, Worlds
  <2> QED BY <2>1, <2>4, <2>5
<1>2. ASSUME w.p.start.at # "refresh"
      PROVE  Leads(w, [w EXCEPT !.p.start = IdleCall], t)
  <2>1. PICK p \in Page : /\ p = [w.p EXCEPT !.start = IdleCall]
                          /\ p.flight = w.p.flight /\ p.saved = w.p.saved /\ p.start = IdleCall
                          /\ p.call = w.p.call /\ p.prom = w.p.prom /\ p.login = w.p.login
    <3> DEFINE q == [w.p EXCEPT !.start = IdleCall]
    <3>1. /\ q \in Page /\ q.flight = w.p.flight /\ q.saved = w.p.saved /\ q.start = IdleCall
          /\ q.call = w.p.call /\ q.prom = w.p.prom /\ q.login = w.p.login
      BY Idles DEF Sound, Worlds, Page
    <3> QED BY <3>1
  <2>2. Fit(p)
    BY <1>2, <2>1, Idles DEF Sound, Fit
  <2>3. p.flight \in {0, w.p.flight} /\ p.login.at \in {"idle", w.p.login.at}
    BY <2>1
  <2>4. LET n == [w EXCEPT !.p = p] IN Leads(w, n, t)
    BY <2>2, <2>3, Changes
  <2>5. [w EXCEPT !.p.start = IdleCall] = [w EXCEPT !.p = p]
    BY <2>1 DEF Sound, Worlds
  <2> QED BY <2>4, <2>5
<1> QED BY <1>1, <1>2

LEMMA StartFails ==
  ASSUME NEW t \in Tabs, NEW w, Sound(w), w.p.start.at # "refresh"
  PROVE  Leads(w, StartFailed(w, t), t)
<1>1. PICK i : i = [w EXCEPT !.p.start = IdleCall] /\ Leads(w, i, t)
  BY Ends
<1>2. Sound(i)
  BY <1>1 DEF Leads
<1>3. Leads(w, [w EXCEPT !.p = Closed], t)
  BY Idles, Changes
<1>4. Leads(w, SignedOut(i, t), t)
  BY <1>1, <1>2, SignsOut, Leaders
<1>5. StartFailed(w, t) \in {[w EXCEPT !.p = Closed], SignedOut(i, t), i}
  BY <1>1 DEF StartFailed
<1> QED BY <1>1, <1>3, <1>4, <1>5

LEMMA Rejects ==
  ASSUME NEW t \in Tabs, NEW w, Sound(w)
  PROVE  /\ LET n == Reject(w, t, "call") IN
            Leads(w, n, t) /\ n.d = w.d /\ n.p.saved = w.p.saved /\ n.p.start = w.p.start
         /\ w.p.start.at # "refresh" => Leads(w, Reject(w, t, "start"), t)
  BY Ends, StartFails DEF Reject

\* A request of the tab goes on, for somebody and with a token of theirs.
LEMMA CallGoesOn ==
  ASSUME NEW t \in Tabs, NEW w, Sound(w), NEW c \in Request, Owned(c), NEW saved \in Maybe,
         saved = None => w.p.saved = None
  PROVE  LET n == [w EXCEPT !.p = [w.p EXCEPT !.saved = saved, !.call = c]] IN
         /\ Leads(w, n, t) /\ n.d = w.d /\ n.p.saved = saved /\ n.p.start = w.p.start
         /\ n.p.flight = w.p.flight /\ n.p.prom = w.p.prom
<1>1. PICK p \in Page : /\ p = [w.p EXCEPT !.saved = saved, !.call = c]
                        /\ p.flight = w.p.flight /\ p.saved = saved /\ p.start = w.p.start
                        /\ p.call = c /\ p.prom = w.p.prom /\ p.login = w.p.login
  <2> DEFINE q == [w.p EXCEPT !.saved = saved, !.call = c]
  <2>1. /\ q \in Page /\ q.flight = w.p.flight /\ q.saved = saved /\ q.start = w.p.start
        /\ q.call = c /\ q.prom = w.p.prom /\ q.login = w.p.login
    BY DEF Sound, Worlds, Page
  <2> QED BY <2>1
<1>2. Fit(p)
  BY <1>1 DEF Sound, Fit
<1>3. p.flight \in {0, w.p.flight} /\ p.login.at \in {"idle", w.p.login.at}
  BY <1>1
<1>4. LET n == [w EXCEPT !.p = p] IN Leads(w, n, t) /\ n.d = w.d /\ n.p = p
  BY <1>2, <1>3, Changes
<1> QED BY <1>1, <1>4

LEMMA StartGoesOn ==
  ASSUME NEW t \in Tabs, NEW w, Sound(w), NEW c \in Request, Owned(c), NEW saved \in Maybe,
         saved = None => w.p.saved = None,
         (c.at = "refresh" /\ c.op = w.p.flight) \/ w.p.flight = 0 \/ saved # None
  PROVE  LET n == [w EXCEPT !.p = [w.p EXCEPT !.saved = saved, !.start = c]] IN
         /\ Leads(w, n, t) /\ n.d = w.d /\ n.p.saved = saved /\ n.p.start = c
         /\ n.p.flight = w.p.flight /\ n.p.prom = w.p.prom
<1>1. PICK p \in Page : /\ p = [w.p EXCEPT !.saved = saved, !.start = c]
                        /\ p.flight = w.p.flight /\ p.saved = saved /\ p.start = c
                        /\ p.call = w.p.call /\ p.prom = w.p.prom /\ p.login = w.p.login
  <2> DEFINE q == [w.p EXCEPT !.saved = saved, !.start = c]
  <2>1. /\ q \in Page /\ q.flight = w.p.flight /\ q.saved = saved /\ q.start = c
        /\ q.call = w.p.call /\ q.prom = w.p.prom /\ q.login = w.p.login
    BY DEF Sound, Worlds, Page
  <2> QED BY <2>1
<1>2. Fit(p)
  BY <1>1 DEF Sound, Fit
<1>3. p.flight \in {0, w.p.flight} /\ p.login.at \in {"idle", w.p.login.at}
  BY <1>1
<1>4. LET n == [w EXCEPT !.p = p] IN Leads(w, n, t) /\ n.d = w.d /\ n.p = p
  BY <1>2, <1>3, Changes
<1> QED BY <1>1, <1>4

LEMMA Sends ==
  ASSUME NEW t \in Tabs, NEW w, Sound(w), Held(w) # None
  PROVE  Leads(w, Send(w, "start"), t) /\ Leads(w, Send(w, "call"), t)
<1>1. Held(w) \in Token /\ Held(w) \in Maybe /\ Who(Held(w)) \in Users
  BY Holds, Tokens DEF Maybe
<1>2. ASSUME NEW c \in Request
      PROVE  LET d == [c EXCEPT !.at = "sent", !.token = Held(w), !.who = Who(Held(w))] IN
             d \in Request /\ Owned(d)
  BY <1>1 DEF Request, Owned, Maybe, Somebody
<1>3. PICK c \in Request :
        /\ c = [w.p.call EXCEPT !.at = "sent", !.token = Held(w), !.who = Who(Held(w))]
        /\ Owned(c)
  BY <1>2 DEF Sound, Worlds, Page
<1>4. PICK d \in Request :
        /\ d = [w.p.start EXCEPT !.at = "sent", !.token = Held(w), !.who = Who(Held(w))]
        /\ Owned(d)
  BY <1>2 DEF Sound, Worlds, Page
<1>5. Send(w, "call") = [w EXCEPT !.p = [w.p EXCEPT !.saved = Held(w), !.call = c]]
  BY <1>3 DEF Sound, Worlds, Page, Send
<1>6. Send(w, "start") = [w EXCEPT !.p = [w.p EXCEPT !.saved = Held(w), !.start = d]]
  BY <1>4 DEF Sound, Worlds, Page, Send
<1>7. Leads(w, [w EXCEPT !.p = [w.p EXCEPT !.saved = Held(w), !.call = c]], t)
  BY <1>1, <1>3, CallGoesOn
<1>8. Leads(w, [w EXCEPT !.p = [w.p EXCEPT !.saved = Held(w), !.start = d]], t)
  BY <1>1, <1>4, StartGoesOn
<1> QED BY <1>5, <1>6, <1>7, <1>8

LEMMA Starts ==
  ASSUME NEW t \in Tabs, NEW w, Sound(w), NEW user \in Somebody,
         w.p.flight = 0 \/ w.p.saved # None
  PROVE  Leads(w, Started(w, user), t)
<1>1. PICK p \in Page :
        /\ p = [w.p EXCEPT !.start = IdleCall, !.at = "running", !.user = user,
                           !.status = IF user = None THEN "anonymous" ELSE "authenticated"]
        /\ p.flight = w.p.flight /\ p.saved = w.p.saved /\ p.start = IdleCall
        /\ p.call = w.p.call /\ p.prom = w.p.prom /\ p.login = w.p.login
  <2> DEFINE q == [w.p EXCEPT !.start = IdleCall, !.at = "running", !.user = user,
                              !.status = IF user = None THEN "anonymous" ELSE "authenticated"]
  <2>1. /\ q \in Page /\ q.flight = w.p.flight /\ q.saved = w.p.saved /\ q.start = IdleCall
        /\ q.call = w.p.call /\ q.prom = w.p.prom /\ q.login = w.p.login
    BY Idles DEF Sound, Worlds, Page
  <2> QED BY <2>1
<1>2. Fit(p)
  BY <1>1, Idles DEF Sound, Fit
<1>3. p.flight \in {0, w.p.flight} /\ p.login.at \in {"idle", w.p.login.at}
  BY <1>1
<1>4. Leads(w, [w EXCEPT !.p = p], t)
  BY <1>2, <1>3, Changes
<1>5. Started(w, user) = [w EXCEPT !.p = p]
  BY <1>1 DEF Sound, Worlds, Started
<1> QED BY <1>4, <1>5

LEMMA AsksForUser ==
  ASSUME NEW t \in Tabs, NEW w, Sound(w), w.p.flight = 0 \/ w.p.saved # None
  PROVE  Leads(w, AskForUser(w), t)
<1>1. CASE Held(w) = None
  BY <1>1, Starts DEF AskForUser, Somebody
<1>2. CASE Held(w) # None
  BY <1>2, Sends DEF AskForUser
<1> QED BY <1>1, <1>2

LEMMA Resumes ==
  ASSUME NEW t \in Tabs, NEW w, Sound(w), NEW token, token = None \/ token = Held(w)
  PROVE  /\ LET n == Resume(w, t, "call", token) IN
            Leads(w, n, t) /\ n.d = w.d /\ n.p.saved = w.p.saved /\ n.p.start = w.p.start
         /\ Leads(w, Resume(w, t, "start", token), t)
<1>1. PICK saved \in Maybe : saved = w.p.saved
  BY DEF Sound, Worlds, Page
<1>0. w.p.call \in Request /\ w.p.start \in Request
  BY DEF Sound, Worlds, Page
<1>2. ASSUME NEW r \in Request, Owned(r), r.at = "waiting", token # None, StillOwned(w, r)
      PROVE  LET c == [r EXCEPT !.at = "resent", !.token = token] IN c \in Request /\ Owned(c)
  <2>1. token \in Token /\ Who(token) = r.who /\ r.who \in Users
    BY <1>2, Holds, Tokens DEF Maybe, StillOwned, Owned
  <2> QED BY <1>2, <2>1 DEF Request, Owned, Maybe
<1>3. LET n == Resume(w, t, "call", token) IN
      Leads(w, n, t) /\ n.d = w.d /\ n.p.saved = w.p.saved /\ n.p.start = w.p.start
  <2>1. CASE w.p.call.at # "waiting"
    BY <2>1, Leaders DEF Resume
  <2>2. CASE w.p.call.at = "waiting" /\ (token = None \/ ~StillOwned(w, w.p.call))
    BY <2>2, Rejects DEF Resume
  <2>3. CASE w.p.call.at = "waiting" /\ token # None /\ StillOwned(w, w.p.call)
    <3>1. PICK c \in Request : /\ c = [w.p.call EXCEPT !.at = "resent", !.token = token]
                               /\ Owned(c)
      BY <1>0, <1>2, <2>3 DEF Sound, Fit
    <3>2. Resume(w, t, "call", token) = [w EXCEPT !.p = [w.p EXCEPT !.saved = saved, !.call = c]]
      BY <1>1, <2>3, <3>1 DEF Sound, Worlds, Page, Resume
    <3>3. Leads(w, [w EXCEPT !.p = [w.p EXCEPT !.saved = saved, !.call = c]], t)
      BY <1>1, <3>1, CallGoesOn
    <3>4. LET n == [w EXCEPT !.p = [w.p EXCEPT !.saved = saved, !.call = c]] IN
          n.d = w.d /\ n.p.saved = saved /\ n.p.start = w.p.start
      BY DEF Sound, Worlds, Page
    <3> QED BY <1>1, <3>2, <3>3, <3>4
  <2> QED BY <2>1, <2>2, <2>3
<1>4. Leads(w, Resume(w, t, "start", token), t)
  <2>1. CASE w.p.start.at # "waiting"
    BY <2>1, Leaders DEF Resume
  <2>2. CASE w.p.start.at = "waiting" /\ (token = None \/ ~StillOwned(w, w.p.start))
    BY <2>2, Rejects DEF Resume
  <2>3. CASE w.p.start.at = "waiting" /\ token # None /\ StillOwned(w, w.p.start)
    <3>1. PICK c \in Request : /\ c = [w.p.start EXCEPT !.at = "resent", !.token = token]
                               /\ Owned(c)
      BY <1>0, <1>2, <2>3 DEF Sound, Fit
    <3>2. Resume(w, t, "start", token) = [w EXCEPT !.p = [w.p EXCEPT !.saved = saved, !.start = c]]
      BY <1>1, <2>3, <3>1 DEF Sound, Worlds, Page, Resume
    <3>3. w.p.flight = 0 \/ saved # None
      BY <1>1, <2>3 DEF Sound, Fit
    <3>4. Leads(w, [w EXCEPT !.p = [w.p EXCEPT !.saved = saved, !.start = c]], t)
      BY <1>1, <3>1, <3>3, StartGoesOn
    <3> QED BY <3>2, <3>4
  <2> QED BY <2>1, <2>2, <2>3
<1> QED BY <1>3, <1>4

\* Another promise, that of somebody's token if it is not settled.
LEMMA Promises ==
  ASSUME NEW t \in Tabs, NEW w, Sound(w), NEW q \in Promise, q.at # "idle" => q.token \in Token
  PROVE  LET n == [w EXCEPT !.p = [w.p EXCEPT !.prom = q]] IN
         /\ Leads(w, n, t) /\ n.d = w.d /\ n.p.saved = w.p.saved
         /\ n.p.start = w.p.start /\ n.p.call = w.p.call /\ n.p.flight = w.p.flight
<1>1. PICK p \in Page : /\ p = [w.p EXCEPT !.prom = q]
                        /\ p.flight = w.p.flight /\ p.saved = w.p.saved /\ p.start = w.p.start
                        /\ p.call = w.p.call /\ p.prom = q /\ p.login = w.p.login
  <2> DEFINE o == [w.p EXCEPT !.prom = q]
  <2>1. /\ o \in Page /\ o.flight = w.p.flight /\ o.saved = w.p.saved /\ o.start = w.p.start
        /\ o.call = w.p.call /\ o.prom = q /\ o.login = w.p.login
    BY DEF Sound, Worlds, Page
  <2> QED BY <2>1
<1>2. Fit(p)
  BY <1>1 DEF Sound, Fit
<1>3. p.flight \in {0, w.p.flight} /\ p.login.at \in {"idle", w.p.login.at}
  BY <1>1
<1>4. LET n == [w EXCEPT !.p = p] IN Leads(w, n, t) /\ n.d = w.d /\ n.p = p
  BY <1>2, <1>3, Changes
<1> QED BY <1>1, <1>4

LEMMA Settles ==
  ASSUME NEW t \in Tabs, NEW w, Sound(w), NEW token, token = None \/ token = Held(w)
  PROVE  LET n == Settle(w, t, token) IN
         /\ Leads(w, n, t)
         /\ w.p.start.at = "idle" => n.p.saved = w.p.saved /\ n.d = w.d /\ n.p.start.at = "idle"
<1>1. PICK q : /\ q = [w EXCEPT !.p = [w.p EXCEPT !.prom = NoPromise]]
               /\ Leads(w, q, t) /\ q.d = w.d /\ q.p.saved = w.p.saved /\ q.p.start = w.p.start
  <2>1. LET q == [w EXCEPT !.p = [w.p EXCEPT !.prom = NoPromise]] IN
        Leads(w, q, t) /\ q.d = w.d /\ q.p.saved = w.p.saved /\ q.p.start = w.p.start
    BY Idles, Promises
  <2> QED BY <2>1
<1>2. Sound(q) /\ (token = None \/ token = Held(q))
  BY <1>1 DEF Leads, Held
<1>3. PICK c : /\ c = Resume(q, t, "call", token)
               /\ Leads(q, c, t) /\ c.d = q.d /\ c.p.saved = q.p.saved /\ c.p.start = q.p.start
  BY <1>2, Resumes
<1>4. Sound(c) /\ (token = None \/ token = Held(c))
  BY <1>2, <1>3 DEF Leads, Held
<1>5. PICK s : s = Resume(c, t, "start", token) /\ Leads(c, s, t)
  BY <1>4, Resumes
<1>6. Settle(w, t, token) = s
  BY <1>1, <1>3, <1>5 DEF Settle, Sound, Worlds
<1>7. w.p.start.at = "idle" => s = c
  BY <1>1, <1>3, <1>5 DEF Resume
<1> QED BY <1>1, <1>3, <1>5, <1>6, <1>7, Leaders

LEMMA Lands ==
  ASSUME NEW t \in Tabs, NEW w, Sound(w), NEW o \in OpIds
  PROVE  LET n == Landed(w, o) IN
         /\ Leads(w, n, t) /\ n.d = w.d /\ n.p.saved = w.p.saved /\ n.p.flight # o
         /\ n.p.start = w.p.start /\ n.p.prom = w.p.prom
<1>1. PICK p \in Page : /\ p = [w.p EXCEPT !.flight = IF @ = o THEN 0 ELSE @]
                        /\ p.flight \in {0, w.p.flight} /\ p.flight # o
                        /\ p.saved = w.p.saved /\ p.start = w.p.start
                        /\ p.call = w.p.call /\ p.prom = w.p.prom /\ p.login = w.p.login
  <2> DEFINE q == [w.p EXCEPT !.flight = IF @ = o THEN 0 ELSE @]
  <2>1. /\ q \in Page /\ q.flight \in {0, w.p.flight} /\ q.flight # o
        /\ q.saved = w.p.saved /\ q.start = w.p.start
        /\ q.call = w.p.call /\ q.prom = w.p.prom /\ q.login = w.p.login
    BY DEF Sound, Worlds, Page, Op, OpIds
  <2> QED BY <2>1
<1>2. Fit(p)
  BY <1>1 DEF Sound, Fit
<1>3. p.flight \in {0, w.p.flight} /\ p.login.at \in {"idle", w.p.login.at}
  BY <1>1
<1>4. LET n == [w EXCEPT !.p = p] IN Leads(w, n, t) /\ n.d = w.d /\ n.p = p
  BY <1>2, <1>3, Changes
<1>5. Landed(w, o) = [w EXCEPT !.p = p]
  BY <1>1 DEF Sound, Worlds, Landed
<1> QED BY <1>1, <1>4, <1>5

LEMMA Answers ==
  ASSUME NEW t \in Tabs, NEW w, Sound(w), NEW o \in OpIds, NEW ok \in BOOLEAN
  PROVE  LET n == Answer(w, t, o, ok) IN
         /\ Leads(w, n, t)
         /\ w.p.start.at = "idle" => n.p.saved = w.p.saved /\ n.d = w.d /\ n.p.start.at = "idle"
<1> DEFINE asked == w.p.prom.op = o /\ w.p.prom.at \in {"first", "second"}
<1>1. CASE asked /\ ok
  BY <1>1, Settles DEF Answer
<1>2. CASE asked /\ ~ok /\ w.p.prom.at = "first"
  <2>1. PICK q \in Promise : /\ q = [w.p.prom EXCEPT !.at = "sleep", !.op = 0]
                             /\ q.token = w.p.prom.token
    <3> DEFINE q == [w.p.prom EXCEPT !.at = "sleep", !.op = 0]
    <3>1. q \in Promise /\ q.token = w.p.prom.token
      BY DEF Sound, Worlds, Page, Promise, Op
    <3> QED BY <3>1
  <2>2. q.token \in Token
    BY <1>2, <2>1 DEF Sound, Fit
  <2>3. Answer(w, t, o, ok) = [w EXCEPT !.p = [w.p EXCEPT !.prom = q]]
    BY <1>2, <2>1 DEF Sound, Worlds, Page, Answer
  <2>4. LET n == [w EXCEPT !.p = [w.p EXCEPT !.prom = q]] IN
        Leads(w, n, t) /\ n.d = w.d /\ n.p.saved = w.p.saved /\ n.p.start = w.p.start
    BY <2>1, <2>2, Promises
  <2> QED BY <2>3, <2>4
<1>3. CASE asked /\ ~ok /\ w.p.prom.at = "second"
  BY <1>3, Settles DEF Answer
<1>4. CASE ~asked
  BY <1>4, Leaders DEF Answer
<1> QED BY <1>1, <1>2, <1>3, <1>4

\* A refresh that has ended is not the one in flight, and who has nothing of
\* their own under way notices nothing.
LEMMA Finishes ==
  ASSUME NEW t \in Tabs, NEW w, Sound(w), NEW o \in OpIds, NEW ok \in BOOLEAN
  PROVE  LET n == Finish(w, t, o, ok) IN
         /\ Leads(w, n, t) /\ n.p.flight # o
         /\ w.p.start.at = "idle" => n.p.saved = w.p.saved /\ n.d = w.d
<1>1. PICK f : /\ f = Landed(w, o)
               /\ Leads(w, f, t) /\ f.d = w.d /\ f.p.saved = w.p.saved /\ f.p.flight # o
               /\ f.p.start = w.p.start
  BY Lands
<1>2. Sound(f)
  BY <1>1 DEF Leads
<1>3. PICK h : /\ h = Answer(f, t, o, ok)
               /\ Leads(f, h, t)
               /\ f.p.start.at = "idle" => /\ h.p.saved = f.p.saved /\ h.d = f.d
                                           /\ h.p.start.at = "idle"
  BY <1>2, Answers
<1>4. Finish(w, t, o, ok) =
        IF h.p.start.at = "refresh" /\ h.p.start.op = o THEN AskForUser(h) ELSE h
  BY <1>1, <1>3 DEF Finish
<1>5. h.p.flight \in {0, f.p.flight} /\ o # 0
  BY <1>3 DEF Leads, OpIds
<1>6. Sound(h) /\ h.p.flight # o
  BY <1>1, <1>3, <1>5 DEF Leads
<1>7. CASE h.p.start.at = "refresh" /\ h.p.start.op = o
  <2>1. h.p.flight = 0 \/ h.p.saved # None
    BY <1>6, <1>7 DEF Sound, Fit
  <2>2. Leads(h, AskForUser(h), t)
    BY <1>6, <2>1, AsksForUser
  <2>3. w.p.start.at # "idle"
    BY <1>1, <1>3, <1>7
  <2>4. AskForUser(h).p.flight # o
    BY <1>5, <1>6, <2>2 DEF Leads
  <2> QED BY <1>1, <1>3, <1>4, <1>7, <2>2, <2>3, <2>4, Leaders
<1>8. CASE ~(h.p.start.at = "refresh" /\ h.p.start.op = o)
  BY <1>1, <1>3, <1>4, <1>6, <1>8, Leaders
<1> QED BY <1>7, <1>8

-----------------------------------------------------------------------------
(* The invariant.                                                          *)

\* A refresh in flight is one in progress, of that tab.
Flying ==
  \A t \in Tabs : page[t].flight # 0 =>
    ops[page[t].flight] # None /\ ops[page[t].flight].tab = t

\* There is one login under way, and room for its session.
Entering ==
  /\ \A t, u \in Tabs : page[t].login.at # "idle" /\ page[u].login.at # "idle" => t = u
  /\ \A t \in Tabs : page[t].login.at = "posted" => Len(rows) < MaxLogins

Client ==
  /\ page \in [Tabs -> Page] /\ disk \in Disk
  /\ \A t \in Tabs : Fit(page[t])
  /\ Flying /\ Entering

Row == [who : Users, gen : Nat, live : BOOLEAN, dead : Nat]

\* Cookies and answers are of sessions that exist, or have existed.
Server ==
  /\ rows \in Seq(Row) /\ Len(rows) <= MaxLogins
  /\ jar \in Cookie \cup {None} /\ (jar # None => jar.sid \in 1 .. Len(rows))
  /\ ops \in [OpIds -> Refreshing \cup {None}]
  /\ lock \in Op /\ (lock # 0 => ops[lock] # None)
  /\ \A o \in OpIds : ops[o] # None =>
       /\ ops[o].cookie # None => ops[o].cookie.sid \in 1 .. Len(rows)
       /\ ops[o].answer # None => ops[o].answer.sid \in 1 .. Len(rows)
       /\ ops[o].at # "answered" => ops[o].answer = None

\* One refresh at a time has left the tab, and the cookie is the newest of its
\* session but while the answer with the next one is on its way.
Line ==
  /\ \A o \in OpIds : ops[o] # None /\ ops[o].at # "queued" => lock = o
  /\ \A o \in OpIds : ops[o] # None /\ ops[o].at = "sent" /\ ops[o].cookie # None
       => rows[ops[o].cookie.sid].gen = ops[o].cookie.gen
  /\ \A o \in OpIds : ops[o] # None /\ ops[o].answer # None
       => rows[ops[o].answer.sid].gen = ops[o].answer.gen
  /\ jar # None /\ (\A o \in OpIds : ops[o] # None /\ ops[o].answer # None
                                       => ops[o].answer.sid # jar.sid)
       => rows[jar.sid].gen = jar.gen
  /\ ~spent

Inv == Client /\ Server /\ (Locks /\ Reliable => Line)

-----------------------------------------------------------------------------
(* Steps of a tab.                                                         *)

LEMMA Work ==
  ASSUME Client, NEW t \in Tabs
  PROVE  \E w : w = World(t) /\ Sound(w) /\ w.p = page[t] /\ w.d = disk
<1>1. World(t) \in Worlds /\ World(t).p = page[t] /\ World(t).d = disk
  BY DEF Client, World, Worlds
<1>2. Sound(World(t))
  BY <1>1 DEF Client, Sound
<1> QED BY <1>1, <1>2

LEMMA TabSteps ==
  ASSUME Client, NEW t \in Tabs, NEW n, Sound(n), Become(t, n),
         n.p.login.at \in {"idle", page[t].login.at}, Len(rows') = Len(rows),
         n.p.flight # 0 => ops'[n.p.flight] # None /\ ops'[n.p.flight].tab = t,
         \A o \in OpIds : ops[o] # None /\ ops[o].tab # t
           => ops'[o] # None /\ ops'[o].tab = ops[o].tab
  PROVE  Client'
<1>1. n.p \in Page /\ n.d \in Disk /\ Fit(n.p)
  BY DEF Sound, Worlds
<1>2. /\ page' \in [Tabs -> Page] /\ disk' \in Disk
      /\ page'[t] = n.p /\ \A u \in Tabs \ {t} : page'[u] = page[u]
  BY <1>1 DEF Become, Client
<1>3. \A u \in Tabs : Fit(page'[u])
  BY <1>1, <1>2 DEF Client
<1>4. Flying'
  <2> SUFFICES ASSUME NEW u \in Tabs, page'[u].flight # 0
               PROVE  ops'[page'[u].flight] # None /\ ops'[page'[u].flight].tab = u
    BY DEF Flying
  <2>1. CASE u = t
    BY <1>2, <2>1
  <2>2. CASE u # t
    <3>1. page[u].flight \in OpIds
      BY <1>2, <2>2 DEF Client, Page, Op
    <3> QED BY <1>2, <2>2, <3>1 DEF Client, Flying
  <2> QED BY <2>1, <2>2
<1>5. Entering'
  BY <1>2 DEF Client, Entering
<1> QED BY <1>2, <1>3, <1>4, <1>5 DEF Client, Fit, Owned

\* The other tabs keep their pages, and hear of a change of localStorage.
Told(t) ==
  \A u \in Tabs \ {t} :
    /\ page'[u] = page[u]
    /\ page[u].at = "running" => disk'.store = disk.store \/ disk'.mail[u] # <<>>

LEMMA Tells ==
  ASSUME Client, NEW t \in Tabs, NEW n, Heard(World(t), n, t), Become(t, n)
  PROVE  Told(t)
<1>1. disk' = n.d /\ World(t).d = disk /\ \A u \in Tabs \ {t} : page'[u] = page[u]
  BY DEF Become, World, Client
<1> QED BY <1>1 DEF Told, Heard

\* A step of a tab alone.
LEMMA Alone ==
  ASSUME Client, NEW t \in Tabs, NEW n, Leads(World(t), n, t), Become(t, n), UNCHANGED ops,
         Len(rows') = Len(rows)
  PROVE  Client'
<1>1. PICK w : w = World(t) /\ Sound(w) /\ w.p = page[t]
  BY Work
<1>2. Sound(n) /\ n.p.login.at \in {"idle", page[t].login.at} /\ n.p.flight \in {0, page[t].flight}
  BY <1>1 DEF Leads
<1>3. n.p.flight # 0 => ops'[n.p.flight] # None /\ ops'[n.p.flight].tab = t
  BY <1>2 DEF Client, Flying
<1> QED BY <1>2, <1>3, TabSteps

\* A tab ends a refresh of its own.
LEMMA Ended ==
  ASSUME Client, Server, NEW t \in Tabs, NEW o \in OpIds, ops[o] # None, ops[o].tab = t,
         NEW n, Leads(World(t), n, t), n.p.flight # o, Become(t, n), Done(o),
         Len(rows') = Len(rows)
  PROVE  Client'
<1>1. PICK w : w = World(t) /\ Sound(w) /\ w.p = page[t]
  BY Work
<1>2. Sound(n) /\ n.p.login.at \in {"idle", page[t].login.at} /\ n.p.flight \in {0, page[t].flight}
  BY <1>1 DEF Leads
<1>3. \A q \in OpIds : q # o => ops'[q] = ops[q]
  BY DEF Done, Server
<1>4. n.p.flight # 0 => ops'[n.p.flight] # None /\ ops'[n.p.flight].tab = t
  <2>1. n.p.flight \in Op
    BY <1>2 DEF Sound, Worlds, Page
  <2> QED BY <1>2, <1>3, <2>1 DEF Client, Flying, Op
<1> QED BY <1>2, <1>3, <1>4, TabSteps

\* The server's side stays.
LEMMA Serves ==
  ASSUME Server, Locks /\ Reliable => Line, UNCHANGED <<rows, jar, ops, lock, spent>>
  PROVE  Server' /\ (Locks /\ Reliable => Line')
  BY DEF Server, Line

\* A refresh in progress ends without an answer that changes the cookie.
LEMMA Ceases ==
  ASSUME Server, Locks /\ Reliable => Line, NEW o \in OpIds, ops[o] # None, Done(o),
         UNCHANGED <<rows, jar, spent>>, Reliable => ops[o].answer = None
  PROVE  Server' /\ (Locks /\ Reliable => Line')
<1>1. /\ ops' \in [OpIds -> Refreshing \cup {None}] /\ lock' \in Op
      /\ ops'[o] = None /\ \A q \in OpIds : q # o => ops'[q] = ops[q]
  BY DEF Server, Done, Op
<1>2. lock' # 0 => ops'[lock'] # None
  BY <1>1 DEF Server, Done, Op
<1>3. Server'
  BY <1>1, <1>2 DEF Server
<1>4. ASSUME Locks, Reliable PROVE Line'
  <2>1. Line /\ ops[o].answer = None
    BY <1>4
  <2>2. \A q \in OpIds : ops'[q] # None /\ ops'[q].at # "queued" => lock' = q
    BY <1>1, <2>1 DEF Line, Done
  <2> QED BY <1>1, <2>1, <2>2 DEF Line
<1> QED BY <1>3, <1>4

\* A tab with another refresh in flight.
LEMMA Flies ==
  ASSUME NEW w, Sound(w), NEW p \in Page, Fit(p)
  PROVE  LET n == [w EXCEPT !.p = p] IN Sound(n) /\ n.d = w.d /\ n.p = p
  BY DEF Sound, Worlds

LEMMA Begins ==
  ASSUME NEW w, Sound(w), NEW o \in OpIds
  PROVE  /\ w.p.start.at = "refresh" =>
              LET n == [w EXCEPT !.p["start"].op = o, !.p.flight = o] IN
              Sound(n) /\ n.d = w.d /\ n.p.flight = o /\ n.p.login = w.p.login
         /\ w.p.saved # None =>
              LET n == [w EXCEPT !.p["prom"].op = o, !.p.flight = o] IN
              Sound(n) /\ n.d = w.d /\ n.p.flight = o /\ n.p.login = w.p.login
<1>1. ASSUME w.p.start.at = "refresh"
      PROVE  LET n == [w EXCEPT !.p["start"].op = o, !.p.flight = o] IN
             Sound(n) /\ n.d = w.d /\ n.p.flight = o /\ n.p.login = w.p.login
  <2>1. PICK c \in Request : /\ c = [w.p.start EXCEPT !.op = o]
                             /\ c.at = "refresh" /\ c.op = o
    <3> DEFINE r == [w.p.start EXCEPT !.op = o]
    <3>1. r \in Request /\ r.at = "refresh" /\ r.op = o
      BY <1>1 DEF Sound, Worlds, Page, Request, Op
    <3> QED BY <3>1
  <2>2. PICK p \in Page : /\ p = [w.p EXCEPT !.start = c, !.flight = o]
                          /\ p.flight = o /\ p.saved = w.p.saved /\ p.start = c
                          /\ p.call = w.p.call /\ p.prom = w.p.prom /\ p.login = w.p.login
    <3> DEFINE q == [w.p EXCEPT !.start = c, !.flight = o]
    <3>1. /\ q \in Page /\ q.flight = o /\ q.saved = w.p.saved /\ q.start = c
          /\ q.call = w.p.call /\ q.prom = w.p.prom /\ q.login = w.p.login
      BY DEF Sound, Worlds, Page, Op
    <3> QED BY <3>1
  <2>3. Fit(p)
    BY <2>1, <2>2 DEF Sound, Fit, Owned
  <2>4. LET n == [w EXCEPT !.p = p] IN Sound(n) /\ n.d = w.d /\ n.p = p
    BY <2>3, Flies
  <2>5. [w EXCEPT !.p["start"].op = o, !.p.flight = o] = [w EXCEPT !.p = p]
    BY <2>1, <2>2 DEF Sound, Worlds, Page
  <2> QED BY <2>2, <2>4, <2>5
<1>2. ASSUME w.p.saved # None
      PROVE  LET n == [w EXCEPT !.p["prom"].op = o, !.p.flight = o] IN
             Sound(n) /\ n.d = w.d /\ n.p.flight = o /\ n.p.login = w.p.login
  <2>1. PICK c \in Promise : /\ c = [w.p.prom EXCEPT !.op = o]
                             /\ c.at = w.p.prom.at /\ c.token = w.p.prom.token
    <3> DEFINE r == [w.p.prom EXCEPT !.op = o]
    <3>1. r \in Promise /\ r.at = w.p.prom.at /\ r.token = w.p.prom.token
      BY DEF Sound, Worlds, Page, Promise, Op
    <3> QED BY <3>1
  <2>2. PICK p \in Page : /\ p = [w.p EXCEPT !.prom = c, !.flight = o]
                          /\ p.flight = o /\ p.saved = w.p.saved /\ p.start = w.p.start
                          /\ p.call = w.p.call /\ p.prom = c /\ p.login = w.p.login
    <3> DEFINE q == [w.p EXCEPT !.prom = c, !.flight = o]
    <3>1. /\ q \in Page /\ q.flight = o /\ q.saved = w.p.saved /\ q.start = w.p.start
          /\ q.call = w.p.call /\ q.prom = c /\ q.login = w.p.login
      BY DEF Sound, Worlds, Page, Op
    <3> QED BY <3>1
  <2>3. Fit(p)
    BY <1>2, <2>1, <2>2 DEF Sound, Fit
  <2>4. LET n == [w EXCEPT !.p = p] IN Sound(n) /\ n.d = w.d /\ n.p = p
    BY <2>3, Flies
  <2>5. [w EXCEPT !.p["prom"].op = o, !.p.flight = o] = [w EXCEPT !.p = p]
    BY <2>1, <2>2 DEF Sound, Worlds, Page
  <2> QED BY <2>2, <2>4, <2>5
<1> QED BY <1>1, <1>2

\* A request waits for the refresh that is in flight already.
LEMMA Joins ==
  ASSUME NEW t \in Tabs, NEW w, Sound(w)
  PROVE  Leads(w, [w EXCEPT !.p["prom"].op = w.p.flight], t)
<1>1. PICK c \in Promise : /\ c = [w.p.prom EXCEPT !.op = w.p.flight]
                           /\ c.at = w.p.prom.at /\ c.token = w.p.prom.token
  <2> DEFINE r == [w.p.prom EXCEPT !.op = w.p.flight]
  <2>1. r \in Promise /\ r.at = w.p.prom.at /\ r.token = w.p.prom.token
    BY DEF Sound, Worlds, Page, Promise, Op
  <2> QED BY <2>1
<1>2. c.at # "idle" => c.token \in Token
  BY <1>1 DEF Sound, Fit
<1>3. Leads(w, [w EXCEPT !.p = [w.p EXCEPT !.prom = c]], t)
  BY <1>2, Promises
<1>4. [w EXCEPT !.p["prom"].op = w.p.flight] = [w EXCEPT !.p = [w.p EXCEPT !.prom = c]]
  BY <1>1 DEF Sound, Worlds, Page
<1> QED BY <1>3, <1>4

\* A refresh is new in the list.
LEMMA Begun ==
  ASSUME Client, Server, Locks /\ Reliable => Line, NEW t \in Tabs, NEW o \in OpIds,
         ops[o] = None, NEW request \in Maybe, NEW before \in Maybe,
         NEW n, Sound(n), n.p.flight = o, n.p.login.at \in {"idle", page[t].login.at},
         Heard(World(t), n, t), Become(t, n),
         ops' = [ops EXCEPT ![o] =
           [tab |-> t, at |-> "queued", request |-> request, before |-> before,
            cookie |-> None, answer |-> None, version |-> 2]],
         UNCHANGED <<rows, jar, lock, spent>>
  PROVE  Inv' /\ Told(t)
<1>1. PICK new \in Refreshing :
        /\ new = [tab |-> t, at |-> "queued", request |-> request, before |-> before,
                  cookie |-> None, answer |-> None, version |-> 2]
        /\ new.tab = t /\ new.at = "queued" /\ new.cookie = None /\ new.answer = None
  <2> DEFINE r == [tab |-> t, at |-> "queued", request |-> request, before |-> before,
                   cookie |-> None, answer |-> None, version |-> 2]
  <2>1. r \in Refreshing /\ r.tab = t /\ r.at = "queued" /\ r.cookie = None /\ r.answer = None
    BY DEF Refreshing, Maybe
  <2> QED BY <2>1
<1>2. new # None
  BY SessionsAssumption
<1>3. /\ ops' \in [OpIds -> Refreshing \cup {None}] /\ ops'[o] = new
      /\ \A q \in OpIds : q # o => ops'[q] = ops[q]
  BY <1>1 DEF Server
<1>4. \A q \in OpIds : ops[q] # None => ops'[q] = ops[q]
  BY <1>3
<1>5. Client'
  BY <1>1, <1>2, <1>3, <1>4, TabSteps
<1>6. Server'
  BY <1>1, <1>3 DEF Server
<1>7. Line => Line'
  BY <1>1, <1>3, <1>4 DEF Line
<1> QED BY <1>5, <1>6, <1>7, Tells DEF Inv

LEMMA Refreshes ==
  ASSUME Inv, NEW t \in Tabs, NEW w, Leads(World(t), w, t), NEW request \in Maybe,
         UNCHANGED <<rows, jar, lock, spent>>
  PROVE  /\ /\ w.p.start.at = "refresh" /\ w.p.flight = 0
            /\ Refresh(w, t, "start", request)
            => Inv' /\ Told(t)
         /\ w.p.saved # None /\ Refresh(w, t, "prom", request) => Inv' /\ Told(t)
<1>1. /\ Client /\ Server /\ (Locks /\ Reliable => Line)
      /\ Sound(w) /\ w.p.login.at \in {"idle", page[t].login.at}
  <2>1. World(t).p = page[t]
    BY DEF World
  <2> QED BY <2>1 DEF Inv, Leads
<1>2. w.p.flight \in Op /\ w.d.store \in Maybe
  BY <1>1 DEF Sound, Worlds, Page, Disk
<1>3. PICK before \in Maybe : before = IF request # None THEN request ELSE w.d.store
  BY <1>2
<1>4. ASSUME w.p.start.at = "refresh", w.p.flight = 0, Refresh(w, t, "start", request)
      PROVE  Inv' /\ Told(t)
  <2>1. PICK o \in OpIds :
          /\ ops[o] = None
          /\ ops' = [ops EXCEPT ![o] =
               [tab |-> t, at |-> "queued", request |-> request, before |-> before,
                cookie |-> None, answer |-> None, version |-> 2]]
          /\ Become(t, [w EXCEPT !.p["start"].op = o, !.p.flight = o])
    BY <1>3, <1>4 DEF Refresh
  <2>2. PICK n : /\ n = [w EXCEPT !.p["start"].op = o, !.p.flight = o]
                 /\ Sound(n) /\ n.d = w.d /\ n.p.flight = o /\ n.p.login = w.p.login
    <3>1. LET n == [w EXCEPT !.p["start"].op = o, !.p.flight = o] IN
          Sound(n) /\ n.d = w.d /\ n.p.flight = o /\ n.p.login = w.p.login
      BY <1>1, <1>4, Begins
    <3> QED BY <3>1
  <2>3. /\ n.p.login.at \in {"idle", page[t].login.at} /\ Become(t, n)
        /\ Heard(World(t), n, t)
    BY <1>1, <2>1, <2>2 DEF Leads, Heard
  <2> QED BY <1>1, <2>1, <2>2, <2>3, Begun
<1>5. ASSUME w.p.saved # None, w.p.flight = 0, Refresh(w, t, "prom", request)
      PROVE  Inv' /\ Told(t)
  <2>1. PICK o \in OpIds :
          /\ ops[o] = None
          /\ ops' = [ops EXCEPT ![o] =
               [tab |-> t, at |-> "queued", request |-> request, before |-> before,
                cookie |-> None, answer |-> None, version |-> 2]]
          /\ Become(t, [w EXCEPT !.p["prom"].op = o, !.p.flight = o])
    BY <1>3, <1>5 DEF Refresh
  <2>2. PICK n : /\ n = [w EXCEPT !.p["prom"].op = o, !.p.flight = o]
                 /\ Sound(n) /\ n.d = w.d /\ n.p.flight = o /\ n.p.login = w.p.login
    <3>1. LET n == [w EXCEPT !.p["prom"].op = o, !.p.flight = o] IN
          Sound(n) /\ n.d = w.d /\ n.p.flight = o /\ n.p.login = w.p.login
      BY <1>1, <1>5, Begins
    <3> QED BY <3>1
  <2>3. /\ n.p.login.at \in {"idle", page[t].login.at} /\ Become(t, n)
        /\ Heard(World(t), n, t)
    BY <1>1, <2>1, <2>2 DEF Leads, Heard
  <2> QED BY <1>1, <2>1, <2>2, <2>3, Begun
<1>6. ASSUME w.p.flight # 0, Refresh(w, t, "prom", request)
      PROVE  Inv' /\ Told(t)
  <2>1. PICK n : n = [w EXCEPT !.p["prom"].op = w.p.flight] /\ Leads(w, n, t)
    BY <1>1, Joins
  <2>2. Become(t, n) /\ UNCHANGED ops
    BY <1>6, <2>1 DEF Refresh
  <2>3. Leads(World(t), n, t)
    BY <1>1, <2>1, Work, Leaders
  <2>4. Client'
    BY <1>1, <2>2, <2>3, Alone
  <2>5. Server' /\ (Locks /\ Reliable => Line')
    BY <1>1, <2>2, Serves
  <2>6. Told(t)
    BY <1>1, <2>2, <2>3, Tells DEF Leads
  <2> QED BY <2>4, <2>5, <2>6 DEF Inv
<1> QED BY <1>4, <1>5, <1>6

LEMMA AloneKeeps ==
  ASSUME Inv, NEW t \in Tabs, NEW n, Leads(World(t), n, t), Become(t, n),
         UNCHANGED <<rows, jar, ops, lock, spent>>
  PROVE  Inv' /\ Told(t)
<1>1. Client'
  BY Alone DEF Inv
<1>2. Server' /\ (Locks /\ Reliable => Line')
  BY Serves DEF Inv
<1>3. Told(t)
  BY Tells DEF Inv, Leads
<1> QED BY <1>1, <1>2, <1>3 DEF Inv

-----------------------------------------------------------------------------
(* The steps.                                                              *)

LEMMA PrepareKeeps ==
  ASSUME Inv, NEW t \in Tabs, Prepare(t)
  PROVE  Inv' /\ Told(t)
<1>1. PICK w : w = World(t) /\ Sound(w) /\ w.p = page[t]
  BY Work DEF Inv
<1>2. CASE Held(w) = None
  <2>1. w.p.saved = None /\ w.p.start.at = "info"
    BY <1>1, <1>2, Holds DEF Prepare
  <2>2. w.p.flight = 0
    BY <1>1, <2>1 DEF Sound, Fit
  <2>3. PICK c \in Request : c = [w.p.start EXCEPT !.at = "refresh"] /\ c.at = "refresh"
    <3> DEFINE r == [w.p.start EXCEPT !.at = "refresh"]
    <3>1. r \in Request /\ r.at = "refresh"
      BY <1>1 DEF Sound, Worlds, Page, Request
    <3> QED BY <3>1
  <2>4. Owned(c) /\ None \in Maybe
    BY <1>1, <2>3 DEF Owned, Maybe
  <2>5. PICK v : /\ v = [w EXCEPT !.p = [w.p EXCEPT !.saved = None, !.start = c]]
                 /\ Leads(w, v, t) /\ v.p.start = c /\ v.p.flight = w.p.flight
    <3>1. PICK saved \in Maybe : saved = None
      BY <2>4
    <3>2. saved = None => w.p.saved = None
      BY <2>1
    <3>3. LET n == [w EXCEPT !.p = [w.p EXCEPT !.saved = saved, !.start = c]] IN
          /\ Leads(w, n, t) /\ n.d = w.d /\ n.p.saved = saved /\ n.p.start = c
          /\ n.p.flight = w.p.flight /\ n.p.prom = w.p.prom
      <4>1. Sound(w) /\ Owned(c)
        BY <1>1, <2>4
      <4>2. (c.at = "refresh" /\ c.op = w.p.flight) \/ w.p.flight = 0 \/ saved # None
        BY <2>2
      <4> QED BY <3>2, <4>1, <4>2, StartGoesOn
    <3> QED BY <3>1, <3>3
  <2>6. [w EXCEPT !.p.start.at = "refresh"] = v
    BY <1>1, <2>1, <2>3, <2>5 DEF Sound, Worlds, Page
  <2>7. Refresh(v, t, "start", None) /\ UNCHANGED <<rows, jar, lock, spent>>
    BY <1>1, <1>2, <2>6 DEF Prepare
  <2> QED BY <1>1, <2>2, <2>3, <2>5, <2>7, Refreshes DEF Maybe
<1>3. CASE Held(w) # None
  <2>1. Become(t, Send(w, "start")) /\ UNCHANGED <<rows, jar, ops, lock, spent>>
    BY <1>1, <1>3 DEF Prepare
  <2>2. Leads(World(t), Send(w, "start"), t)
    BY <1>1, <1>3, Sends
  <2> QED BY <2>1, <2>2, AloneKeeps
<1> QED BY <1>2, <1>3

LEMMA CallKeeps ==
  ASSUME Inv, NEW t \in Tabs, Call(t)
  PROVE  Inv' /\ Told(t)
<1>1. PICK w : w = World(t) /\ Sound(w) /\ w.p = page[t]
  BY Work DEF Inv
<1>2. Held(w) # None /\ Become(t, Send(w, "call")) /\ UNCHANGED <<rows, jar, ops, lock, spent>>
  BY <1>1 DEF Call
<1>3. Leads(World(t), Send(w, "call"), t)
  BY <1>1, <1>2, Sends
<1> QED BY <1>2, <1>3, AloneKeeps

\* The interceptor asks for a refresh for a request that waits.
LEMMA Intercepts ==
  ASSUME Inv, NEW t \in Tabs, NEW w, Leads(World(t), w, t), w.p.saved # None,
         NEW token \in Token,
         Refresh([w EXCEPT !.p.prom.at = "first", !.p.prom.token = token], t, "prom", token),
         UNCHANGED <<rows, jar, lock, spent>>
  PROVE  Inv' /\ Told(t)
<1>1. Sound(w)
  BY DEF Leads
<1>2. PICK c \in Promise : /\ c = [w.p.prom EXCEPT !.at = "first", !.token = token]
                           /\ c.token = token
  <2> DEFINE r == [w.p.prom EXCEPT !.at = "first", !.token = token]
  <2>1. r \in Promise /\ r.token = token
    BY <1>1 DEF Sound, Worlds, Page, Promise, Maybe
  <2> QED BY <2>1
<1>3. PICK v : /\ v = [w EXCEPT !.p = [w.p EXCEPT !.prom = c]]
               /\ Leads(w, v, t) /\ v.p.saved = w.p.saved
  <2>1. LET n == [w EXCEPT !.p = [w.p EXCEPT !.prom = c]] IN
        /\ Leads(w, n, t) /\ n.d = w.d /\ n.p.saved = w.p.saved
        /\ n.p.start = w.p.start /\ n.p.call = w.p.call /\ n.p.flight = w.p.flight
    BY <1>1, <1>2, Promises
  <2> QED BY <2>1
<1>4. [w EXCEPT !.p.prom.at = "first", !.p.prom.token = token] = v
  BY <1>1, <1>2, <1>3 DEF Sound, Worlds, Page
<1>5. Leads(World(t), v, t)
  BY <1>1, <1>3, Work, Leaders DEF Inv
<1> QED BY <1>3, <1>4, <1>5, Refreshes DEF Maybe

\* A request waits: its tab keeps the token it has, for somebody.
LEMMA Waits ==
  ASSUME NEW t \in Tabs, NEW w, Sound(w)
  PROVE  /\ w.p.call.at = "sent" /\ StillOwned(w, w.p.call) =>
              LET n == [w EXCEPT !.p["call"].at = "waiting", !.p.saved = Held(w)] IN
              Leads(w, n, t) /\ n.p.saved # None /\ n.p.prom = w.p.prom
         /\ w.p.start.at = "sent" /\ StillOwned(w, w.p.start) =>
              LET n == [w EXCEPT !.p["start"].at = "waiting", !.p.saved = Held(w)] IN
              Leads(w, n, t) /\ n.p.saved # None /\ n.p.prom = w.p.prom
<1>1. ASSUME NEW c \in Request, Owned(c), c.at = "sent"
      PROVE  LET d == [c EXCEPT !.at = "waiting"] IN d \in Request /\ Owned(d)
  BY <1>1 DEF Request, Owned
<1>2. /\ w.p.call \in Request /\ Owned(w.p.call) /\ w.p.start \in Request /\ Owned(w.p.start)
      /\ Held(w) \in Maybe /\ (Held(w) = None => w.p.saved = None)
  BY Holds DEF Sound, Fit, Worlds, Page
<1>3. ASSUME NEW c \in Request, Owned(c), c.at = "sent", StillOwned(w, c)
      PROVE  Held(w) # None
  BY <1>2, <1>3, Tokens DEF Owned, StillOwned
<1>4. ASSUME w.p.call.at = "sent", StillOwned(w, w.p.call)
      PROVE  LET n == [w EXCEPT !.p["call"].at = "waiting", !.p.saved = Held(w)] IN
             Leads(w, n, t) /\ n.p.saved # None /\ n.p.prom = w.p.prom
  <2>1. PICK c \in Request : c = [w.p.call EXCEPT !.at = "waiting"] /\ Owned(c)
    BY <1>1, <1>2, <1>4
  <2>2. [w EXCEPT !.p["call"].at = "waiting", !.p.saved = Held(w)]
          = [w EXCEPT !.p = [w.p EXCEPT !.saved = Held(w), !.call = c]]
    BY <2>1 DEF Sound, Worlds, Page
  <2>3. LET n == [w EXCEPT !.p = [w.p EXCEPT !.saved = Held(w), !.call = c]] IN
        /\ Leads(w, n, t) /\ n.d = w.d /\ n.p.saved = Held(w) /\ n.p.start = w.p.start
        /\ n.p.flight = w.p.flight /\ n.p.prom = w.p.prom
    <3>1. PICK saved \in Maybe : saved = Held(w)
      BY <1>2
    <3>2. Owned(c) /\ Sound(w)
      BY <2>1
    <3>3. saved = None => w.p.saved = None
      BY <1>2, <3>1
    <3>4. LET n == [w EXCEPT !.p = [w.p EXCEPT !.saved = saved, !.call = c]] IN
          /\ Leads(w, n, t) /\ n.d = w.d /\ n.p.saved = saved /\ n.p.start = w.p.start
          /\ n.p.flight = w.p.flight /\ n.p.prom = w.p.prom
      BY <3>2, <3>3, CallGoesOn
    <3> QED BY <3>1, <3>4
  <2> QED BY <1>2, <1>3, <1>4, <2>2, <2>3
<1>5. ASSUME w.p.start.at = "sent", StillOwned(w, w.p.start)
      PROVE  LET n == [w EXCEPT !.p["start"].at = "waiting", !.p.saved = Held(w)] IN
             Leads(w, n, t) /\ n.p.saved # None /\ n.p.prom = w.p.prom
  <2>1. PICK c \in Request : c = [w.p.start EXCEPT !.at = "waiting"] /\ Owned(c)
    BY <1>1, <1>2, <1>5
  <2>2. [w EXCEPT !.p["start"].at = "waiting", !.p.saved = Held(w)]
          = [w EXCEPT !.p = [w.p EXCEPT !.saved = Held(w), !.start = c]]
    BY <2>1 DEF Sound, Worlds, Page
  <2>3. Held(w) # None
    BY <1>2, <1>3, <1>5
  <2>4. LET n == [w EXCEPT !.p = [w.p EXCEPT !.saved = Held(w), !.start = c]] IN
        /\ Leads(w, n, t) /\ n.d = w.d /\ n.p.saved = Held(w) /\ n.p.start = c
        /\ n.p.flight = w.p.flight /\ n.p.prom = w.p.prom
    <3>1. PICK saved \in Maybe : saved = Held(w)
      BY <1>2
    <3>2. saved # None /\ Owned(c) /\ Sound(w)
      BY <2>1, <2>3, <3>1
    <3>3. LET n == [w EXCEPT !.p = [w.p EXCEPT !.saved = saved, !.start = c]] IN
          /\ Leads(w, n, t) /\ n.d = w.d /\ n.p.saved = saved /\ n.p.start = c
          /\ n.p.flight = w.p.flight /\ n.p.prom = w.p.prom
      BY <3>2, StartGoesOn
    <3> QED BY <3>1, <3>3
  <2> QED BY <2>2, <2>3, <2>4
<1> QED BY <1>4, <1>5

LEMMA CallAnsweredKeeps ==
  ASSUME Inv, NEW t \in Tabs, Answered(t, "call")
  PROVE  Inv' /\ Told(t)
<1>1. PICK w : w = World(t) /\ Sound(w) /\ w.p = page[t]
  BY Work DEF Inv
<1>2. UNCHANGED <<rows, jar, lock, spent>>
  BY DEF Answered
<1>3. CASE Become(t, [w EXCEPT !.p.call = IdleCall]) /\ UNCHANGED ops
  <2>1. PICK n : n = [w EXCEPT !.p.call = IdleCall] /\ Leads(w, n, t)
    BY <1>1, Ends
  <2> QED BY <1>1, <1>2, <1>3, <2>1, AloneKeeps
<1>4. CASE /\ w.p.call.at = "sent" /\ StillOwned(w, w.p.call)
           /\ LET waiting == [w EXCEPT !.p["call"].at = "waiting", !.p.saved = Held(w)] IN
              IF w.p.prom.at # "idle"
              THEN Become(t, waiting) /\ UNCHANGED ops
              ELSE Refresh([waiting EXCEPT !.p.prom.at = "first",
                                           !.p.prom.token = w.p.call.token],
                           t, "prom", w.p.call.token)
  <2>1. PICK n : /\ n = [w EXCEPT !.p["call"].at = "waiting", !.p.saved = Held(w)]
                 /\ Leads(w, n, t) /\ n.p.saved # None
    <3>1. LET n == [w EXCEPT !.p["call"].at = "waiting", !.p.saved = Held(w)] IN
          Leads(w, n, t) /\ n.p.saved # None /\ n.p.prom = w.p.prom
      BY <1>1, <1>4, Waits
    <3> QED BY <3>1
  <2>2. w.p.call.token \in Token
    BY <1>1, <1>4 DEF Sound, Fit, Owned
  <2>3. CASE w.p.prom.at # "idle"
    BY <1>1, <1>2, <1>4, <2>1, <2>3, AloneKeeps
  <2>4. CASE w.p.prom.at = "idle"
    BY <1>1, <1>2, <1>4, <2>1, <2>2, <2>4, Intercepts
  <2> QED BY <2>3, <2>4
<1>5. CASE Become(t, Reject(w, t, "call")) /\ UNCHANGED ops
  <2>1. PICK n : n = Reject(w, t, "call") /\ Leads(w, n, t)
    BY <1>1, Rejects
  <2> QED BY <1>1, <1>2, <1>5, <2>1, AloneKeeps
<1> QED BY <1>1, <1>3, <1>4, <1>5 DEF Answered

LEMMA StartAnsweredKeeps ==
  ASSUME Inv, NEW t \in Tabs, Answered(t, "start")
  PROVE  Inv' /\ Told(t)
<1>1. PICK w : w = World(t) /\ Sound(w) /\ w.p = page[t]
  BY Work DEF Inv
<1>2. UNCHANGED <<rows, jar, lock, spent>> /\ w.p.start.at \in {"sent", "resent"}
  BY <1>1 DEF Answered
<1>3. /\ w.p.start.token \in Token /\ w.p.start.token.who \in Somebody
      /\ w.p.flight = 0 \/ w.p.saved # None
  BY <1>1, <1>2, Tokens DEF Sound, Fit, Owned, Somebody
<1>4. CASE Become(t, Started(w, page[t].start.token.who)) /\ UNCHANGED ops
  <2>1. Leads(w, Started(w, w.p.start.token.who), t)
    BY <1>1, <1>3, Starts
  <2> QED BY <1>1, <1>2, <1>4, <2>1, AloneKeeps
<1>5. CASE /\ w.p.start.at = "sent" /\ StillOwned(w, w.p.start)
           /\ LET waiting == [w EXCEPT !.p["start"].at = "waiting", !.p.saved = Held(w)] IN
              IF w.p.prom.at # "idle"
              THEN Become(t, waiting) /\ UNCHANGED ops
              ELSE Refresh([waiting EXCEPT !.p.prom.at = "first",
                                           !.p.prom.token = w.p.start.token],
                           t, "prom", w.p.start.token)
  <2>1. PICK n : /\ n = [w EXCEPT !.p["start"].at = "waiting", !.p.saved = Held(w)]
                 /\ Leads(w, n, t) /\ n.p.saved # None
    <3>1. LET n == [w EXCEPT !.p["start"].at = "waiting", !.p.saved = Held(w)] IN
          Leads(w, n, t) /\ n.p.saved # None /\ n.p.prom = w.p.prom
      BY <1>1, <1>5, Waits
    <3> QED BY <3>1
  <2>2. CASE w.p.prom.at # "idle"
    BY <1>1, <1>2, <1>5, <2>1, <2>2, AloneKeeps
  <2>3. CASE w.p.prom.at = "idle"
    BY <1>1, <1>2, <1>3, <1>5, <2>1, <2>3, Intercepts
  <2> QED BY <2>2, <2>3
<1>6. CASE Become(t, Reject(w, t, "start")) /\ UNCHANGED ops
  <2>1. Leads(w, Reject(w, t, "start"), t)
    BY <1>1, <1>2, Rejects
  <2> QED BY <1>1, <1>2, <1>6, <2>1, AloneKeeps
<1> QED BY <1>1, <1>4, <1>5, <1>6 DEF Answered

LEMMA RefreshAgainKeeps ==
  ASSUME Inv, NEW t \in Tabs, RefreshAgain(t)
  PROVE  Inv' /\ Told(t)
<1>1. PICK w : w = World(t) /\ Sound(w) /\ w.p = page[t]
  BY Work DEF Inv
<1>2. UNCHANGED <<rows, jar, lock, spent>> /\ w.p.prom.at = "sleep"
  BY <1>1 DEF RefreshAgain
<1>3. CASE Become(t, Settle(w, t, None)) /\ UNCHANGED ops
  <2>1. PICK n : n = Settle(w, t, None) /\ Leads(w, n, t)
    BY <1>1, Settles
  <2> QED BY <1>1, <1>2, <1>3, <2>1, AloneKeeps
<1>4. CASE /\ Who(Held(w)) = Who(w.p.prom.token)
           /\ Refresh([w EXCEPT !.p.saved = Held(w), !.p.prom.at = "second"],
                      t, "prom", w.p.prom.token)
  <2>1. w.p.prom.token \in Token /\ w.p.prom.token \in Maybe
    BY <1>1, <1>2 DEF Sound, Fit, Maybe
  <2>2. Held(w) # None /\ Held(w) \in Maybe
    BY <1>1, <1>4, <2>1, Holds, Tokens
  <2>3. w.p.call \in Request /\ Owned(w.p.call)
    BY <1>1 DEF Sound, Fit, Worlds, Page
  <2>4. PICK v : /\ v = [w EXCEPT !.p = [w.p EXCEPT !.saved = Held(w), !.call = w.p.call]]
                 /\ Leads(w, v, t) /\ v.p.saved = Held(w) /\ v.p.prom = w.p.prom
    <3>1. PICK c \in Request, saved \in Maybe : c = w.p.call /\ Owned(c) /\ saved = Held(w)
      BY <2>2, <2>3
    <3>2. Owned(c) /\ Sound(w)
      BY <1>1, <3>1
    <3>3. saved = None => w.p.saved = None
      BY <2>2, <3>1
    <3>4. LET n == [w EXCEPT !.p = [w.p EXCEPT !.saved = saved, !.call = c]] IN
          /\ Leads(w, n, t) /\ n.d = w.d /\ n.p.saved = saved /\ n.p.start = w.p.start
          /\ n.p.flight = w.p.flight /\ n.p.prom = w.p.prom
      BY <3>2, <3>3, CallGoesOn
    <3> QED BY <3>1, <3>4
  <2>5. PICK c \in Promise : c = [w.p.prom EXCEPT !.at = "second"] /\ c.token \in Token
    <3> DEFINE r == [w.p.prom EXCEPT !.at = "second"]
    <3>1. r \in Promise /\ r.token \in Token
      BY <1>1, <2>1 DEF Sound, Worlds, Page, Promise
    <3> QED BY <3>1
  <2>6. PICK n : /\ n = [v EXCEPT !.p = [v.p EXCEPT !.prom = c]]
                 /\ Leads(v, n, t) /\ n.p.saved = v.p.saved
    <3>1. Sound(v)
      BY <2>4 DEF Leads
    <3>2. LET n == [v EXCEPT !.p = [v.p EXCEPT !.prom = c]] IN
          /\ Leads(v, n, t) /\ n.d = v.d /\ n.p.saved = v.p.saved
          /\ n.p.start = v.p.start /\ n.p.call = v.p.call /\ n.p.flight = v.p.flight
      BY <2>5, <3>1, Promises
    <3> QED BY <3>2
  <2>7. [w EXCEPT !.p.saved = Held(w), !.p.prom.at = "second"] = n
    BY <1>1, <2>4, <2>5, <2>6 DEF Sound, Worlds, Page
  <2>8. Leads(World(t), n, t)
    BY <1>1, <2>4, <2>6, Leaders
  <2>9. Refresh(n, t, "prom", w.p.prom.token)
    BY <1>4, <2>7
  <2>10. n.p.saved # None
    BY <2>2, <2>4, <2>6
  <2> QED BY <1>2, <2>1, <2>8, <2>9, <2>10, Refreshes
<1> QED BY <1>1, <1>3, <1>4 DEF RefreshAgain

\* A step that leaves the pages and localStorage alone.
LEMMA StillClient ==
  ASSUME Client, UNCHANGED <<page, disk>>, Len(rows') = Len(rows),
         \A o \in OpIds : ops[o] # None => ops'[o] # None /\ ops'[o].tab = ops[o].tab
  PROVE  Client'
<1>1. Flying'
  <2> SUFFICES ASSUME NEW t \in Tabs, page[t].flight # 0
               PROVE  ops'[page[t].flight] # None /\ ops'[page[t].flight].tab = t
    BY DEF Flying
  <2>1. page[t].flight \in OpIds
    BY DEF Client, Page, Op
  <2> QED BY <2>1 DEF Client, Flying
<1>2. Entering'
  BY DEF Client, Entering
<1>3. \A t \in Tabs : Fit(page'[t])
  BY DEF Client
<1> QED BY <1>1, <1>2, <1>3 DEF Client

LEMMA EnterKeeps ==
  ASSUME Inv, NEW o \in OpIds, Enter(o)
  PROVE  Inv' /\ Told(ops[o].tab)
<1>1. /\ Client /\ Server /\ (Locks /\ Reliable => Line)
      /\ ops[o] \in Refreshing /\ ops[o] # None /\ ops[o].at = "queued"
      /\ ops[o].answer = None /\ MayEnter /\ UNCHANGED <<rows, jar, spent>>
  BY DEF Inv, Server, Enter
<1>2. PICK t \in Tabs : t = ops[o].tab
  BY <1>1 DEF Refreshing
<1>3. PICK w : w = World(t) /\ Sound(w) /\ w.p = page[t] /\ w.d = disk
  BY <1>1, Work
<1>4. ASSUME NEW v, Leads(w, v, t), NEW ok \in BOOLEAN, Become(t, Finish(v, t, o, ok)), Done(o)
      PROVE  Inv' /\ Told(t)
  <2>1. Sound(v)
    BY <1>4 DEF Leads
  <2>2. PICK n : n = Finish(v, t, o, ok) /\ Leads(v, n, t) /\ n.p.flight # o
    BY <2>1, Finishes
  <2>3. Leads(World(t), n, t) /\ Become(t, n)
    BY <1>3, <1>4, <2>2, Leaders
  <2>4. Client'
    BY <1>1, <1>2, <1>4, <2>2, <2>3, Ended
  <2>5. Server' /\ (Locks /\ Reliable => Line')
    BY <1>1, <1>4, Ceases
  <2>6. Told(t)
    BY <1>1, <2>3, Tells DEF Leads
  <2> QED BY <2>4, <2>5, <2>6 DEF Inv
<1>5. CASE Become(t, Finish(w, t, o, TRUE)) /\ Done(o)
  BY <1>2, <1>3, <1>4, <1>5, Leaders
<1>6. CASE Become(t, Finish(w, t, o, FALSE)) /\ Done(o)
  BY <1>2, <1>3, <1>4, <1>6, Leaders
<1>7. CASE Renewed(o) /\ Become(t, Finish([w EXCEPT !.p.saved = disk.store], t, o, TRUE)) /\ Done(o)
  <2>1. PICK c \in Request, saved \in Maybe : c = w.p.call /\ Owned(c) /\ saved = disk.store
    BY <1>3 DEF Sound, Fit, Worlds, Page, Disk
  <2>2. Owned(c) /\ Sound(w)
    BY <1>3, <2>1
  <2>3. saved = None => w.p.saved = None
    BY <1>7, <2>1 DEF Renewed
  <2>4. PICK v : v = [w EXCEPT !.p = [w.p EXCEPT !.saved = saved, !.call = c]] /\ Leads(w, v, t)
    <3>1. LET n == [w EXCEPT !.p = [w.p EXCEPT !.saved = saved, !.call = c]] IN
          /\ Leads(w, n, t) /\ n.d = w.d /\ n.p.saved = saved /\ n.p.start = w.p.start
          /\ n.p.flight = w.p.flight /\ n.p.prom = w.p.prom
      BY <2>2, <2>3, CallGoesOn
    <3> QED BY <3>1
  <2>5. [w EXCEPT !.p.saved = disk.store] = v
    BY <2>1, <2>2, <2>4 DEF Sound, Worlds, Page
  <2> QED BY <1>2, <1>4, <1>7, <2>4, <2>5
<1>8. CASE /\ ops' = [ops EXCEPT ![o].at = "sent", ![o].cookie = jar]
           /\ lock' = IF Locks THEN o ELSE 0
           /\ UNCHANGED <<page, disk>>
  <2>1. PICK new \in Refreshing :
          /\ new = [ops[o] EXCEPT !.at = "sent", !.cookie = jar]
          /\ new.tab = t /\ new.at = "sent" /\ new.cookie = jar /\ new.answer = None
    <3> DEFINE r == [ops[o] EXCEPT !.at = "sent", !.cookie = jar]
    <3>1. r \in Refreshing /\ r.tab = t /\ r.at = "sent" /\ r.cookie = jar /\ r.answer = None
      BY <1>1, <1>2 DEF Refreshing, Server
    <3> QED BY <3>1
  <2>2. /\ ops' \in [OpIds -> Refreshing \cup {None}] /\ ops'[o] = new /\ new # None
        /\ \A q \in OpIds : q # o => ops'[q] = ops[q]
    BY <1>1, <1>8, <2>1, SessionsAssumption DEF Server
  <2>3. lock' \in Op /\ (lock' # 0 => ops'[lock'] # None)
    BY <1>8, <2>2 DEF Op
  <2>4. Client'
    BY <1>1, <1>2, <1>8, <2>1, <2>2, StillClient
  <2>5. Server'
    BY <1>1, <2>1, <2>2, <2>3 DEF Server
  <2>6. ASSUME Locks, Reliable PROVE Line'
    <3>1. Line /\ lock = 0 /\ lock' = o
      BY <1>1, <1>8, <2>6 DEF MayEnter
    <3>2. \A q \in OpIds : ops[q] # None => ops[q].at = "queued" /\ ops[q].answer = None
      BY <1>1, <3>1 DEF Line, OpIds, Server
    <3>3. jar # None => rows[jar.sid].gen = jar.gen
      BY <3>1, <3>2 DEF Line
    <3>4. \A q \in OpIds : ops'[q] # None => ops'[q].answer = None
      BY <2>1, <2>2, <3>2
    <3>5. \A q \in OpIds : ops'[q] # None /\ ops'[q].at # "queued" => q = o
      BY <2>2, <3>2
    <3>6. ~spent' /\ rows' = rows /\ jar' = jar
      BY <1>1, <3>1 DEF Line
    <3>7. /\ \A q \in OpIds : ops'[q] # None /\ ops'[q].at # "queued" => lock' = q
          /\ \A q \in OpIds : ops'[q] # None /\ ops'[q].at = "sent" /\ ops'[q].cookie # None
               => rows'[ops'[q].cookie.sid].gen = ops'[q].cookie.gen
      BY <2>1, <2>2, <3>1, <3>3, <3>5, <3>6
    <3>8. jar' # None => rows'[jar'.sid].gen = jar'.gen
      BY <3>3, <3>6
    <3> QED BY <3>4, <3>6, <3>7, <3>8 DEF Line
  <2>7. Told(t)
    BY <1>8 DEF Told
  <2> QED BY <1>2, <2>4, <2>5, <2>6, <2>7 DEF Inv
<1> QED BY <1>1, <1>2, <1>3, <1>5, <1>6, <1>7, <1>8 DEF Enter

LEMMA RefreshSessionKeeps ==
  ASSUME Inv, NEW o \in OpIds, RefreshSession(o)
  PROVE  /\ Inv'
         /\ ops'[o] # None /\ ops'[o].tab = ops[o].tab /\ ops'[o].at = "answered"
         /\ \A q \in OpIds : q # o => ops'[q] = ops[q]
<1>1. /\ Client /\ Server /\ (Locks /\ Reliable => Line)
      /\ ops[o] \in Refreshing /\ ops[o] # None /\ ops[o].at = "sent"
      /\ ops[o].answer = None /\ UNCHANGED <<jar, disk, page, lock>>
  BY DEF Inv, Server, RefreshSession
<1>2. PICK c : c = ops[o].cookie /\ c \in Cookie \cup {None}
  BY <1>1 DEF Refreshing
<1>3. CASE /\ c # None /\ rows[c.sid].live /\ rows[c.sid].gen = c.gen
           /\ rows' = [rows EXCEPT ![c.sid].gen = @ + 1]
           /\ ops' = [ops EXCEPT ![o].at = "answered",
                ![o].answer = [who |-> rows[c.sid].who, sid |-> c.sid, gen |-> c.gen + 1]]
           /\ UNCHANGED spent
  <2>1. c \in Cookie /\ c.sid \in 1 .. Len(rows) /\ rows \in Seq(Row) /\ Len(rows) <= MaxLogins
    BY <1>1, <1>2, <1>3 DEF Server
  <2>2. rows[c.sid] \in Row
    BY <2>1, ElementOfSeq
  <2>3. PICK row \in Row : row = [rows[c.sid] EXCEPT !.gen = @ + 1] /\ row.gen = c.gen + 1
    <3> DEFINE r == [rows[c.sid] EXCEPT !.gen = @ + 1]
    <3>1. r \in Row /\ r.gen = c.gen + 1
      BY <1>3, <2>2 DEF Row
    <3> QED BY <3>1
  <2>4. /\ rows' \in Seq(Row) /\ Len(rows') = Len(rows)
        /\ \A s \in 1 .. Len(rows) : rows'[s] = IF s = c.sid THEN row ELSE rows[s]
    <3>1. rows' = [rows EXCEPT ![c.sid] = row]
      BY <1>3, <2>3
    <3> QED BY <2>1, <3>1, ExceptSeq
  <2>5. PICK token \in Token :
          /\ token = [who |-> rows[c.sid].who, sid |-> c.sid, gen |-> c.gen + 1]
          /\ token.sid = c.sid /\ token.gen = c.gen + 1
    <3> DEFINE r == [who |-> rows[c.sid].who, sid |-> c.sid, gen |-> c.gen + 1]
    <3>1. c.sid \in 1 .. MaxLogins /\ c.gen \in Nat /\ rows[c.sid].who \in Users
      BY <2>1, <2>2 DEF Cookie, Row
    <3>2. r \in Token /\ r.sid = c.sid /\ r.gen = c.gen + 1
      BY <3>1 DEF Token
    <3> QED BY <3>2
  <2>6. PICK new \in Refreshing :
          /\ new = [ops[o] EXCEPT !.at = "answered", !.answer = token]
          /\ new.tab = ops[o].tab /\ new.at = "answered" /\ new.cookie = c /\ new.answer = token
    <3> DEFINE r == [ops[o] EXCEPT !.at = "answered", !.answer = token]
    <3>1. /\ r \in Refreshing /\ r.tab = ops[o].tab /\ r.at = "answered"
          /\ r.cookie = c /\ r.answer = token
      BY <1>1, <1>2 DEF Refreshing
    <3> QED BY <3>1
  <2>7. /\ ops' \in [OpIds -> Refreshing \cup {None}] /\ ops'[o] = new /\ new # None
        /\ \A q \in OpIds : q # o => ops'[q] = ops[q]
    BY <1>1, <1>3, <2>5, <2>6, SessionsAssumption DEF Server
  <2>8. Client'
    <3>1. \A q \in OpIds : ops[q] # None => ops'[q] # None /\ ops'[q].tab = ops[q].tab
      BY <2>6, <2>7
    <3> QED BY <1>1, <2>4, <3>1, StillClient
  <2>9. Server'
    <3>1. rows' \in Seq(Row) /\ Len(rows') = Len(rows) /\ Len(rows) <= MaxLogins
      BY <2>1, <2>4
    <3>2. lock' \in Op /\ (lock' # 0 => ops'[lock'] # None)
      BY <1>1, <2>7 DEF Server, Op
    <3>3. ASSUME NEW q \in OpIds, ops'[q] # None
          PROVE  /\ ops'[q].cookie # None => ops'[q].cookie.sid \in 1 .. Len(rows)
                 /\ ops'[q].answer # None => ops'[q].answer.sid \in 1 .. Len(rows)
                 /\ ops'[q].at # "answered" => ops'[q].answer = None
      <4>1. CASE q = o
        BY <2>1, <2>5, <2>6, <2>7, <4>1
      <4>2. CASE q # o
        BY <1>1, <2>7, <3>3, <4>2 DEF Server
      <4> QED BY <4>1, <4>2
    <3> QED BY <1>1, <2>7, <3>1, <3>2, <3>3 DEF Server
  <2>10. ASSUME Locks, Reliable PROVE Line'
    <3>1. Line /\ lock = o
      BY <1>1, <2>10 DEF Line
    <3>2. \A q \in OpIds \ {o} : ops[q] # None => ops[q].at = "queued" /\ ops[q].answer = None
      BY <1>1, <3>1 DEF Line, Server
    <3>3. jar # None /\ jar.sid # c.sid => rows'[jar.sid].gen = jar.gen
      BY <1>1, <2>4, <3>1, <3>2 DEF Line, Server
    <3>4. \A q \in OpIds : ops'[q] # None /\ ops'[q].at # "queued" => q = o
      BY <2>7, <3>2
    <3>5. \A q \in OpIds : ops'[q] # None /\ ops'[q].answer # None => q = o
      BY <2>7, <3>2
    <3>6. rows'[token.sid].gen = token.gen /\ lock' = o /\ ~spent'
      BY <1>1, <1>3, <2>1, <2>3, <2>4, <2>5, <3>1 DEF Line
    <3>7. ops'[o] # None /\ ops'[o].answer = token /\ ops'[o].at = "answered" /\ token # None
      BY <2>6, <2>7, SessionsAssumption
    <3>8. (\A q \in OpIds : ops'[q] # None /\ ops'[q].answer # None => ops'[q].answer.sid # jar.sid)
            => jar.sid # c.sid
      BY <2>5, <3>7
    <3> QED BY <1>1, <3>3, <3>4, <3>5, <3>6, <3>7, <3>8 DEF Line
  <2> QED BY <2>6, <2>7, <2>8, <2>9, <2>10 DEF Inv
<1>4. CASE /\ ~(c # None /\ rows[c.sid].live /\ rows[c.sid].gen = c.gen)
           /\ ops' = [ops EXCEPT ![o].at = "answered"]
           /\ spent' = (spent \/ (c # None /\ rows[c.sid].live))
           /\ UNCHANGED rows
  <2>1. PICK new \in Refreshing :
          /\ new = [ops[o] EXCEPT !.at = "answered"]
          /\ new.tab = ops[o].tab /\ new.at = "answered" /\ new.cookie = c /\ new.answer = None
    <3> DEFINE r == [ops[o] EXCEPT !.at = "answered"]
    <3>1. /\ r \in Refreshing /\ r.tab = ops[o].tab /\ r.at = "answered"
          /\ r.cookie = c /\ r.answer = None
      BY <1>1, <1>2 DEF Refreshing
    <3> QED BY <3>1
  <2>2. /\ ops' \in [OpIds -> Refreshing \cup {None}] /\ ops'[o] = new /\ new # None
        /\ \A q \in OpIds : q # o => ops'[q] = ops[q]
    BY <1>1, <1>4, <2>1, SessionsAssumption DEF Server
  <2>3. Client'
    BY <1>1, <1>4, <2>1, <2>2, StillClient
  <2>4. Server'
    BY <1>1, <1>2, <1>4, <2>1, <2>2 DEF Server
  <2>5. ASSUME Locks, Reliable PROVE Line'
    <3>1. Line
      BY <1>1, <2>5
    <3>2. c # None => rows[c.sid].gen = c.gen
      BY <1>1, <1>2, <3>1 DEF Line
    <3>3. ~spent'
      BY <1>4, <3>1, <3>2 DEF Line
    <3> QED BY <1>1, <1>4, <2>1, <2>2, <3>1, <3>3 DEF Line
  <2> QED BY <2>1, <2>2, <2>3, <2>4, <2>5 DEF Inv
<1> QED BY <1>2, <1>3, <1>4 DEF RefreshSession

LEMMA ReturnKeeps ==
  ASSUME Inv, NEW o \in OpIds, Return(o)
  PROVE  Inv' /\ Told(ops[o].tab)
<1>1. /\ Client /\ Server /\ (Locks /\ Reliable => Line)
      /\ ops[o] \in Refreshing /\ ops[o] # None /\ ops[o].at = "answered"
      /\ UNCHANGED <<rows, spent>>
  BY DEF Inv, Server, Return
<1>2. PICK t \in Tabs : t = ops[o].tab
  BY <1>1 DEF Refreshing
<1>3. PICK w : w = World(t) /\ Sound(w) /\ w.p = page[t]
  BY <1>1, Work
<1>4. ASSUME NEW v, Leads(w, v, t), NEW ok \in BOOLEAN, Become(t, Finish(v, t, o, ok)), Done(o)
      PROVE  Client' /\ Told(t)
  <2>1. Sound(v)
    BY <1>4 DEF Leads
  <2>2. PICK n : n = Finish(v, t, o, ok) /\ Leads(v, n, t) /\ n.p.flight # o
    BY <2>1, Finishes
  <2>3. Leads(World(t), n, t) /\ Become(t, n)
    BY <1>3, <1>4, <2>2, Leaders
  <2>4. Client'
    BY <1>1, <1>2, <1>4, <2>2, <2>3, Ended
  <2> QED BY <1>1, <2>3, <2>4, Tells DEF Leads
<1>5. ASSUME Locks, Reliable
      PROVE  /\ Line /\ lock = o
             /\ \A q \in OpIds \ {o} : ops[q] # None => ops[q].at = "queued" /\ ops[q].answer = None
  <2>1. Line /\ lock = o
    BY <1>1, <1>5 DEF Line
  <2> QED BY <1>1, <2>1 DEF Line, Server
<1>6. CASE /\ ops[o].answer # None
           /\ jar' = [sid |-> ops[o].answer.sid, gen |-> ops[o].answer.gen]
           /\ Become(t, Finish(KeepIfCurrent(w, t, o), t, o, TRUE))
           /\ Done(o)
  <2>1. PICK token \in Token : token = ops[o].answer
    BY <1>1, <1>6 DEF Refreshing
  <2>2. Leads(w, KeepIfCurrent(w, t, o), t)
    <3>1. Leads(w, SaveToken(w, t, token, TRUE), t) /\ Leads(w, w, t)
      BY <1>3, SavesToken, Leaders
    <3> QED BY <2>1, <3>1 DEF KeepIfCurrent
  <2>3. Client' /\ Told(t)
    BY <1>4, <1>6, <2>2
  <2>4. /\ jar' \in Cookie /\ jar'.sid = token.sid /\ jar'.gen = token.gen
        /\ jar'.sid \in 1 .. Len(rows)
    <3>1. token.sid \in 1 .. MaxLogins /\ token.gen \in Nat /\ token.sid \in 1 .. Len(rows)
      BY <1>1, <1>6, <2>1 DEF Token, Server
    <3> QED BY <1>6, <2>1, <3>1 DEF Cookie
  <2>5. /\ ops' \in [OpIds -> Refreshing \cup {None}] /\ lock' \in Op
        /\ ops'[o] = None /\ \A q \in OpIds : q # o => ops'[q] = ops[q]
        /\ lock' # 0 => ops'[lock'] # None
    BY <1>1, <1>6 DEF Server, Done, Op
  <2>6. Server'
    BY <1>1, <2>4, <2>5 DEF Server
  <2>7. ASSUME Locks, Reliable PROVE Line'
    <3>1. \A q \in OpIds : ops'[q] # None => ops'[q].at = "queued" /\ ops'[q].answer = None
      BY <1>5, <2>5, <2>7
    <3>2. rows'[jar'.sid].gen = jar'.gen /\ ~spent'
      BY <1>1, <1>5, <1>6, <2>1, <2>4, <2>7 DEF Line
    <3> QED BY <3>1, <3>2 DEF Line
  <2> QED BY <1>2, <2>3, <2>6, <2>7 DEF Inv
<1>7. CASE /\ ops[o].answer = None \/ ~Reliable
           /\ UNCHANGED jar
           /\ ops' = [ops EXCEPT ![o].at = "sent", ![o].version = 1,
                                 ![o].cookie = jar, ![o].answer = None]
           /\ UNCHANGED <<page, disk, lock>>
  <2>1. PICK new \in Refreshing :
          /\ new = [ops[o] EXCEPT !.at = "sent", !.version = 1, !.cookie = jar, !.answer = None]
          /\ new.tab = ops[o].tab /\ new.at = "sent" /\ new.cookie = jar /\ new.answer = None
    <3> DEFINE r == [ops[o] EXCEPT !.at = "sent", !.version = 1, !.cookie = jar, !.answer = None]
    <3>1. /\ r \in Refreshing /\ r.tab = ops[o].tab /\ r.at = "sent"
          /\ r.cookie = jar /\ r.answer = None
      <4>1. jar \in Cookie \cup {None} /\ 1 \in 1 .. 2
        BY <1>1 DEF Server
      <4> QED BY <1>1, <4>1 DEF Refreshing
    <3> QED BY <3>1
  <2>2. /\ ops' \in [OpIds -> Refreshing \cup {None}] /\ ops'[o] = new /\ new # None
        /\ \A q \in OpIds : q # o => ops'[q] = ops[q]
    BY <1>1, <1>7, <2>1, SessionsAssumption DEF Server
  <2>3. Client'
    <3>1. \A q \in OpIds : ops[q] # None => ops'[q] # None /\ ops'[q].tab = ops[q].tab
      BY <2>1, <2>2
    <3> QED BY <1>1, <1>7, <3>1, StillClient
  <2>4. Server'
    <3>1. lock' \in Op /\ (lock' # 0 => ops'[lock'] # None)
      BY <1>1, <1>7, <2>2 DEF Server, Op
    <3>2. ASSUME NEW q \in OpIds, ops'[q] # None
          PROVE  /\ ops'[q].cookie # None => ops'[q].cookie.sid \in 1 .. Len(rows)
                 /\ ops'[q].answer # None => ops'[q].answer.sid \in 1 .. Len(rows)
                 /\ ops'[q].at # "answered" => ops'[q].answer = None
      <4>1. CASE q = o
        BY <1>1, <2>1, <2>2, <4>1 DEF Server
      <4>2. CASE q # o
        BY <1>1, <2>2, <3>2, <4>2 DEF Server
      <4> QED BY <4>1, <4>2
    <3> QED BY <1>1, <1>7, <2>2, <3>1, <3>2 DEF Server
  <2>5. ASSUME Locks, Reliable PROVE Line'
    <3>1. ops[o].answer = None
      BY <1>7, <2>5
    <3>2. jar # None => rows[jar.sid].gen = jar.gen
      BY <1>5, <2>5, <3>1 DEF Line
    <3>3. \A q \in OpIds : ops'[q] # None => ops'[q].answer = None
      <4>1. ASSUME NEW q \in OpIds, q # o, ops[q] # None PROVE ops[q].answer = None
        BY <1>5, <2>5, <4>1
      <4> QED BY <2>1, <2>2, <4>1
    <3>4. \A q \in OpIds : ops'[q] # None /\ ops'[q].at # "queued" => q = o
      BY <1>5, <2>2, <2>5
    <3>5. ~spent' /\ rows' = rows /\ jar' = jar /\ lock' = o
      BY <1>1, <1>5, <1>7, <2>5 DEF Line
    <3> QED BY <2>1, <2>2, <3>2, <3>3, <3>4, <3>5 DEF Line
  <2>6. Told(t)
    BY <1>7 DEF Told
  <2> QED BY <1>2, <2>3, <2>4, <2>5, <2>6 DEF Inv
<1>8. CASE /\ ops[o].answer = None \/ ~Reliable
           /\ UNCHANGED jar
           /\ Become(t, Finish(w, t, o, w.p.flight # o /\ ops[o].version = 2))
           /\ Done(o)
  <2>1. (w.p.flight # o /\ ops[o].version = 2) \in BOOLEAN /\ Leads(w, w, t)
    BY <1>3, Leaders
  <2>2. Client' /\ Told(t)
    BY <1>4, <1>8, <2>1
  <2>3. Server' /\ (Locks /\ Reliable => Line')
    BY <1>1, <1>8, Ceases
  <2> QED BY <1>2, <2>2, <2>3 DEF Inv
<1> QED BY <1>2, <1>3, <1>6, <1>7, <1>8 DEF Return

\* The generations stay; the cookie stays, or is gone.
LEMMA SameGenerations ==
  ASSUME Server, Locks /\ Reliable => Line, rows' \in Seq(Row), Len(rows') = Len(rows),
         \A s \in 1 .. Len(rows) : rows'[s].gen = rows[s].gen,
         jar' \in {None, jar}, UNCHANGED <<ops, lock, spent>>
  PROVE  Server' /\ (Locks /\ Reliable => Line')
<1>1. Server'
  BY DEF Server
<1>2. ASSUME Locks, Reliable PROVE Line'
  <2>1. Line
    BY <1>2
  <2>2. \A o \in OpIds : ops[o] # None =>
          /\ ops[o].cookie # None => rows'[ops[o].cookie.sid].gen = rows[ops[o].cookie.sid].gen
          /\ ops[o].answer # None => rows'[ops[o].answer.sid].gen = rows[ops[o].answer.sid].gen
    BY DEF Server
  <2>3. jar # None => rows'[jar.sid].gen = rows[jar.sid].gen
    BY DEF Server
  <2> QED BY <2>1, <2>2, <2>3 DEF Line
<1> QED BY <1>1, <1>2

LEMMA LoginKeeps ==
  ASSUME Inv, NEW t \in Tabs, NEW who \in Users, Login(t, who)
  PROVE  Inv' /\ Told(t)
<1>1. /\ Client /\ Server /\ (Locks /\ Reliable => Line)
      /\ Len(rows) < MaxLogins /\ \A u \in Tabs : page[u].login.at = "idle"
      /\ UNCHANGED <<rows, jar, disk, ops, lock, spent>>
  BY DEF Inv, Login
<1>2. PICK entry \in Entry : /\ entry = [at |-> "posted", who |-> who, token |-> None, own |-> TRUE]
                             /\ entry.at = "posted" /\ entry.who = who
  <2> DEFINE e == [at |-> "posted", who |-> who, token |-> None, own |-> TRUE]
  <2>1. e \in Entry /\ e.at = "posted" /\ e.who = who
    BY DEF Entry, Maybe, Somebody
  <2> QED BY <2>1
<1>3. PICK p \in Page : /\ p = [page[t] EXCEPT !.login = entry]
                        /\ p.flight = page[t].flight /\ p.saved = page[t].saved
                        /\ p.start = page[t].start /\ p.call = page[t].call
                        /\ p.prom = page[t].prom /\ p.login = entry
  <2> DEFINE q == [page[t] EXCEPT !.login = entry]
  <2>1. /\ q \in Page /\ q.flight = page[t].flight /\ q.saved = page[t].saved
        /\ q.start = page[t].start /\ q.call = page[t].call
        /\ q.prom = page[t].prom /\ q.login = entry
    BY <1>1 DEF Client, Page
  <2> QED BY <2>1
<1>4. page' \in [Tabs -> Page] /\ page'[t] = p /\ \A u \in Tabs \ {t} : page'[u] = page[u]
  BY <1>1, <1>2, <1>3 DEF Client, Login
<1>5. Fit(p)
  BY <1>1, <1>2, <1>3 DEF Client, Fit
<1>6. \A u \in Tabs : Fit(page'[u]) /\ page'[u].flight = page[u].flight
  BY <1>1, <1>3, <1>4, <1>5 DEF Client
<1>7. Flying'
  BY <1>1, <1>6 DEF Client, Flying
<1>8. Entering'
  BY <1>1, <1>4 DEF Entering
<1>9. Client'
  BY <1>1, <1>4, <1>6, <1>7, <1>8 DEF Client
<1>10. Told(t)
  BY <1>1, <1>4 DEF Told
<1> QED BY <1>1, <1>9, <1>10, Serves DEF Inv

LEMMA CreateSessionKeeps ==
  ASSUME Inv, NEW t \in Tabs, CreateSession(t)
  PROVE  Inv' /\ Told(t)
<1>1. /\ Client /\ Server /\ (Locks /\ Reliable => Line) /\ page[t].login.at = "posted"
      /\ UNCHANGED <<disk, ops, lock, spent>>
  BY DEF Inv, CreateSession
<1>2. /\ page[t] \in Page /\ page[t].login \in Entry /\ Fit(page[t])
      /\ page[t].login.who \in Users /\ rows \in Seq(Row) /\ Len(rows) < MaxLogins
  BY <1>1 DEF Client, Page, Fit, Entering, Server
<1>3. PICK sid \in 1 .. MaxLogins : sid = Len(rows) + 1 /\ Len(rows) \in Nat
  <2>1. Len(rows) \in Nat
    BY <1>2, LenProperties
  <2>2. Len(rows) + 1 \in 1 .. MaxLogins
    BY <1>2, <2>1, SessionsAssumption
  <2> QED BY <2>1, <2>2
<1>4. PICK row \in Row : /\ row = [who |-> page[t].login.who, gen |-> 0, live |-> TRUE, dead |-> 0]
                         /\ row.gen = 0
  <2> DEFINE r == [who |-> page[t].login.who, gen |-> 0, live |-> TRUE, dead |-> 0]
  <2>1. r \in Row /\ r.gen = 0
    BY <1>2 DEF Row
  <2> QED BY <2>1
<1>5. PICK token \in Token : token = [who |-> page[t].login.who, sid |-> sid, gen |-> 0]
  BY <1>2 DEF Token
<1>6. PICK entry \in Entry : /\ entry = [page[t].login EXCEPT !.at = "identity", !.token = token]
                             /\ entry.at = "identity" /\ entry.token = token
                             /\ entry.who = page[t].login.who
  <2> DEFINE e == [page[t].login EXCEPT !.at = "identity", !.token = token]
  <2>1. e \in Entry /\ e.at = "identity" /\ e.token = token /\ e.who = page[t].login.who
    BY <1>2 DEF Entry, Maybe
  <2> QED BY <2>1
<1>7. PICK p \in Page : /\ p = [page[t] EXCEPT !.login = entry]
                        /\ p.flight = page[t].flight /\ p.saved = page[t].saved
                        /\ p.start = page[t].start /\ p.call = page[t].call
                        /\ p.prom = page[t].prom /\ p.login = entry
  <2> DEFINE q == [page[t] EXCEPT !.login = entry]
  <2>1. /\ q \in Page /\ q.flight = page[t].flight /\ q.saved = page[t].saved
        /\ q.start = page[t].start /\ q.call = page[t].call
        /\ q.prom = page[t].prom /\ q.login = entry
    BY <1>2 DEF Page
  <2> QED BY <2>1
<1>8. page' = [page EXCEPT ![t] = p]
  <2>1. page' = [page EXCEPT ![t].login.at = "identity", ![t].login.token = token]
    BY <1>3, <1>5 DEF CreateSession
  <2> QED BY <1>1, <1>2, <1>6, <1>7, <2>1 DEF Client, Page
<1>9. page' \in [Tabs -> Page] /\ page'[t] = p /\ \A u \in Tabs \ {t} : page'[u] = page[u]
  BY <1>1, <1>8 DEF Client
<1>10. Fit(p)
  BY <1>2, <1>6, <1>7 DEF Fit
<1>11. \A u \in Tabs : Fit(page'[u]) /\ page'[u].flight = page[u].flight
  BY <1>1, <1>7, <1>9, <1>10 DEF Client
<1>12. Flying'
  BY <1>1, <1>11 DEF Client, Flying
<1>13. Entering'
  <2>1. \A u \in Tabs : page'[u].login.at # "idle" => u = t
    BY <1>1, <1>9 DEF Client, Entering
  <2>2. ASSUME NEW u \in Tabs PROVE page'[u].login.at # "posted"
    <3>1. CASE u = t
      BY <1>6, <1>7, <1>9, <3>1
    <3>2. CASE u # t
      BY <2>1, <3>2
    <3> QED BY <3>1, <3>2
  <2> QED BY <2>1, <2>2 DEF Entering
<1>14. Client'
  BY <1>1, <1>9, <1>11, <1>12, <1>13 DEF Client
<1>15. /\ rows' \in Seq(Row) /\ Len(rows') = Len(rows) + 1 /\ rows'[sid] = row
       /\ \A s \in 1 .. Len(rows) : rows'[s] = rows[s]
  <2>1. rows' = Append(rows, row)
    BY <1>4 DEF CreateSession
  <2> QED BY <1>2, <1>3, <2>1, AppendProperties
<1>16. jar' \in Cookie /\ jar'.sid = sid /\ jar'.gen = 0
  <2>1. jar' = [sid |-> sid, gen |-> 0]
    BY <1>3 DEF CreateSession
  <2> QED BY <2>1 DEF Cookie
<1>17. Len(rows') <= MaxLogins /\ sid \in 1 .. Len(rows') /\ 1 .. Len(rows) \subseteq 1 .. Len(rows')
  BY <1>3, <1>15, SessionsAssumption
<1>18. Server'
  BY <1>1, <1>15, <1>16, <1>17 DEF Server
<1>19. ASSUME Locks, Reliable PROVE Line'
  <2>1. Line
    BY <1>1, <1>19
  <2>2. \A o \in OpIds : ops[o] # None =>
          /\ ops[o].cookie # None => rows'[ops[o].cookie.sid] = rows[ops[o].cookie.sid]
          /\ ops[o].answer # None => rows'[ops[o].answer.sid] = rows[ops[o].answer.sid]
    BY <1>1, <1>15 DEF Server
  <2>3. rows'[jar'.sid].gen = jar'.gen
    BY <1>4, <1>15, <1>16
  <2> QED BY <1>1, <2>1, <2>2, <2>3 DEF Line
<1>20. Told(t)
  BY <1>1, <1>9 DEF Told
<1> QED BY <1>14, <1>18, <1>19, <1>20 DEF Inv

LEMMA AcceptIdentityKeeps ==
  ASSUME Inv, NEW t \in Tabs, AcceptIdentity(t)
  PROVE  Inv' /\ Told(t)
<1>1. PICK w : w = World(t) /\ Sound(w) /\ w.p = page[t]
  BY Work DEF Inv
<1>2. UNCHANGED <<rows, jar, ops, lock, spent>> /\ w.p.login.at = "identity"
  BY <1>1 DEF AcceptIdentity
<1>3. w.p.login.who \in Users /\ w.p.login.token \in Token
  BY <1>1, <1>2 DEF Sound, Fit
<1>4. CASE Become(t, [w EXCEPT !.p.login = NoLogin])
  <2>1. PICK p \in Page : /\ p = [w.p EXCEPT !.login = NoLogin]
                          /\ p.flight = w.p.flight /\ p.saved = w.p.saved /\ p.start = w.p.start
                          /\ p.call = w.p.call /\ p.prom = w.p.prom /\ p.login = NoLogin
    <3> DEFINE q == [w.p EXCEPT !.login = NoLogin]
    <3>1. /\ q \in Page /\ q.flight = w.p.flight /\ q.saved = w.p.saved /\ q.start = w.p.start
          /\ q.call = w.p.call /\ q.prom = w.p.prom /\ q.login = NoLogin
      BY <1>1, Idles DEF Sound, Worlds, Page
    <3> QED BY <3>1
  <2>2. Fit(p) /\ p.flight \in {0, w.p.flight} /\ p.login.at \in {"idle", w.p.login.at}
    BY <1>1, <2>1, Idles DEF Sound, Fit
  <2>3. PICK n : n = [w EXCEPT !.p = p] /\ Leads(w, n, t)
    BY <1>1, <2>2, Changes
  <2>4. [w EXCEPT !.p.login = NoLogin] = n
    BY <1>1, <2>1, <2>3 DEF Sound, Worlds
  <2> QED BY <1>1, <1>2, <1>4, <2>3, <2>4, AloneKeeps
<1>5. CASE Become(t, SaveToken([w EXCEPT !.p.login = NoLogin, !.p.user = w.p.login.who,
                                         !.p.status = "authenticated"],
                               t, w.p.login.token, TRUE))
  <2>1. PICK p \in Page : /\ p = [w.p EXCEPT !.login = NoLogin, !.user = w.p.login.who,
                                             !.status = "authenticated"]
                          /\ p.flight = w.p.flight /\ p.saved = w.p.saved /\ p.start = w.p.start
                          /\ p.call = w.p.call /\ p.prom = w.p.prom /\ p.login = NoLogin
    <3> DEFINE q == [w.p EXCEPT !.login = NoLogin, !.user = w.p.login.who,
                                !.status = "authenticated"]
    <3>1. /\ q \in Page /\ q.flight = w.p.flight /\ q.saved = w.p.saved /\ q.start = w.p.start
          /\ q.call = w.p.call /\ q.prom = w.p.prom /\ q.login = NoLogin
      BY <1>1, <1>3, Idles DEF Sound, Worlds, Page, Somebody
    <3> QED BY <3>1
  <2>2. Fit(p) /\ p.flight \in {0, w.p.flight} /\ p.login.at \in {"idle", w.p.login.at}
    BY <1>1, <2>1, Idles DEF Sound, Fit
  <2>3. PICK v : v = [w EXCEPT !.p = p] /\ Leads(w, v, t)
    BY <1>1, <2>2, Changes
  <2>4. [w EXCEPT !.p.login = NoLogin, !.p.user = w.p.login.who, !.p.status = "authenticated"] = v
    BY <1>1, <2>1, <2>3 DEF Sound, Worlds
  <2>5. Sound(v)
    BY <2>3 DEF Leads
  <2>6. PICK n : n = SaveToken(v, t, w.p.login.token, TRUE) /\ Leads(v, n, t)
    BY <1>3, <2>5, SavesToken
  <2>7. Leads(World(t), n, t)
    BY <1>1, <2>3, <2>6, Leaders
  <2> QED BY <1>2, <1>5, <2>4, <2>6, <2>7, AloneKeeps
<1> QED BY <1>1, <1>4, <1>5 DEF AcceptIdentity

LEMMA LogoutKeeps ==
  ASSUME Inv, NEW t \in Tabs, Logout(t)
  PROVE  Inv' /\ Told(t)
<1>1. PICK w : w = World(t) /\ Sound(w) /\ w.p = page[t]
  BY Work DEF Inv
<1>2. PICK token : token = Held(w)
  OBVIOUS
<1>3. /\ Become(t, SignedOut(Turn(w), t)) /\ UNCHANGED <<ops, lock, spent>>
      /\ \/ rows' = [rows EXCEPT ![token.sid].live = FALSE] /\ jar' = None
         \/ UNCHANGED <<rows, jar>>
  BY <1>1, <1>2 DEF Logout
<1>4. rows \in Seq(Row) /\ rows \in [1 .. Len(rows) -> Row] /\ Len(rows) \in Nat
  BY LenProperties DEF Inv, Server
<1>5. /\ rows' \in Seq(Row) /\ Len(rows') = Len(rows)
      /\ \A s \in 1 .. Len(rows) : rows'[s].gen = rows[s].gen
  <2>1. CASE rows' = [rows EXCEPT ![token.sid].live = FALSE] /\ token.sid \in 1 .. Len(rows)
    <3>1. PICK s \in 1 .. Len(rows) : s = token.sid
      BY <2>1
    <3>2. PICK row \in Row : row = [rows[s] EXCEPT !.live = FALSE] /\ row.gen = rows[s].gen
      <4> DEFINE r == [rows[s] EXCEPT !.live = FALSE]
      <4>1. r \in Row /\ r.gen = rows[s].gen
        BY <1>4 DEF Row
      <4> QED BY <4>1
    <3>3. rows' = [rows EXCEPT ![s] = row]
      BY <2>1, <3>1, <3>2
    <3> QED BY <1>4, <3>2, <3>3, ExceptSeq
  <2>2. CASE rows' = [rows EXCEPT ![token.sid].live = FALSE] /\ token.sid \notin 1 .. Len(rows)
    <3>1. rows' = rows
      BY <1>4, <2>2
    <3> QED BY <1>4, <3>1
  <2>3. CASE UNCHANGED rows
    BY <1>4, <2>3
  <2> QED BY <1>3, <2>1, <2>2, <2>3
<1>6. PICK v : v = Turn(w) /\ Leads(w, v, t)
  BY <1>1, Turns
<1>7. Sound(v)
  BY <1>6 DEF Leads
<1>8. PICK n : n = SignedOut(v, t) /\ Leads(v, n, t)
  BY <1>7, SignsOut
<1>9. Leads(World(t), n, t) /\ Become(t, n)
  BY <1>1, <1>3, <1>6, <1>8, Leaders
<1>10. Client'
  BY <1>3, <1>5, <1>9, Alone DEF Inv
<1>11. Server' /\ (Locks /\ Reliable => Line')
  BY <1>3, <1>5, SameGenerations DEF Inv
<1>12. Told(t)
  BY <1>9, Tells DEF Inv, Leads
<1> QED BY <1>10, <1>11, <1>12 DEF Inv

LEMMA ExpireKeeps ==
  ASSUME Inv, NEW s \in DOMAIN rows, Expire(s)
  PROVE  Inv'
<1>1. rows \in Seq(Row) /\ rows \in [1 .. Len(rows) -> Row] /\ s \in 1 .. Len(rows)
  BY LenProperties DEF Inv, Server
<1>2. PICK row \in Row : row = [rows[s] EXCEPT !.dead = rows[s].gen + 1] /\ row.gen = rows[s].gen
  <2> DEFINE r == [rows[s] EXCEPT !.dead = rows[s].gen + 1]
  <2>1. rows[s] \in Row /\ rows[s].gen + 1 \in Nat
    BY <1>1 DEF Row
  <2>2. r \in Row /\ r.gen = rows[s].gen
    BY <2>1 DEF Row
  <2> QED BY <2>2
<1>3. rows' = [rows EXCEPT ![s] = row]
  BY <1>2 DEF Expire
<1>4. /\ rows' \in Seq(Row) /\ Len(rows') = Len(rows)
      /\ \A i \in 1 .. Len(rows) : rows'[i].gen = rows[i].gen
  BY <1>1, <1>2, <1>3, ExceptSeq
<1>5. UNCHANGED <<jar, disk, page, ops, lock, spent>>
  BY DEF Expire
<1>6. Client'
  BY <1>4, <1>5, StillClient DEF Inv
<1>7. Server' /\ (Locks /\ Reliable => Line')
  BY <1>4, <1>5, SameGenerations DEF Inv
<1> QED BY <1>6, <1>7 DEF Inv

LEMMA StorageChangedKeeps ==
  ASSUME Inv, NEW t \in Tabs, StorageChanged(t)
  PROVE  Inv' /\ Told(t)
<1>1. PICK w : w = World(t) /\ Sound(w) /\ w.p = page[t] /\ w.d = disk
  BY Work DEF Inv
<1>2. UNCHANGED <<rows, jar, ops, lock, spent>> /\ disk.mail[t] # <<>>
  BY DEF StorageChanged
<1>3. disk \in Disk /\ disk.mail[t] \in Seq(Maybe)
  BY <1>1 DEF Sound, Worlds, Disk
<1>4. Head(disk.mail[t]) \in Maybe /\ Tail(disk.mail[t]) \in Seq(Maybe)
  BY <1>2, <1>3, HeadTailProperties
<1>5. PICK token \in Maybe : token = Head(disk.mail[t])
  BY <1>4
<1>6. PICK d \in Disk : /\ d = [disk EXCEPT !.mail[t] = Tail(@)]
                        /\ d.store = disk.store
                        /\ \A u \in Tabs \ {t} : d.mail[u] = disk.mail[u]
  <2> DEFINE e == [disk EXCEPT !.mail[t] = Tail(@)]
  <2>1. /\ e \in Disk /\ e.store = disk.store
        /\ \A u \in Tabs \ {t} : e.mail[u] = disk.mail[u]
    BY <1>3, <1>4 DEF Disk
  <2> QED BY <2>1
<1>7. PICK v : v = [p |-> page[t], d |-> d] /\ Leads(w, v, t) /\ Sound(v)
  <2> DEFINE x == [p |-> page[t], d |-> d]
  <2>1. x \in Worlds /\ x.p = w.p /\ x.d = d
    BY <1>1 DEF Sound, Worlds
  <2> HIDE DEF x
  <2>2. Sound(x) /\ Heard(w, x, t)
    BY <1>1, <1>6, <2>1 DEF Sound, Heard
  <2>3. Leads(w, x, t)
    BY <2>1, <2>2 DEF Leads
  <2> QED BY <2>2, <2>3 DEF x
<1>8. PICK r : r = Turn(v) /\ Leads(w, r, t) /\ Sound(r)
  <2>1. Leads(v, Turn(v), t)
    BY <1>7, Turns
  <2> QED BY <1>1, <1>7, <2>1, Leaders DEF Leads
<1>9. Become(t, CASE token = None -> SignedOut(r, t)
                  [] token # None /\ Who(Held(r)) = Who(token) -> SaveToken(r, t, token, FALSE)
                  [] OTHER -> [SaveToken(r, t, token, FALSE) EXCEPT !.p.status = "loading",
                       !.p.start = [IdleCall EXCEPT !.at = "info", !.own = TRUE]])
  BY <1>5, <1>6, <1>7, <1>8 DEF StorageChanged
<1>10. CASE token = None
  <2>1. PICK n : n = SignedOut(r, t) /\ Leads(r, n, t)
    BY <1>8, SignsOut
  <2>2. Leads(World(t), n, t) /\ Become(t, n)
    BY <1>1, <1>8, <1>9, <1>10, <2>1, Leaders
  <2> QED BY <1>2, <2>2, AloneKeeps
<1>11. CASE token # None
  <2>1. token \in Token
    BY <1>11 DEF Maybe
  <2>2. PICK f : f = SaveToken(r, t, token, FALSE) /\ Leads(r, f, t) /\ f.p.saved = token
    <3>1. PICK good \in Token, persist \in BOOLEAN : good = token /\ persist = FALSE
      BY <2>1
    <3>2. Sound(r)
      BY <1>8
    <3>3. LET f == SaveToken(r, t, good, persist) IN
          /\ Leads(r, f, t) /\ f.p.saved = good /\ f.p.start = r.p.start
          /\ Who(Held(r)) # Who(good) => f.p.flight = 0
      BY <3>2, SavesToken
    <3> QED BY <3>1, <3>3
  <2>3. Leads(w, f, t) /\ Sound(f)
    BY <1>1, <1>8, <2>2, Leaders DEF Leads
  <2>4. CASE Who(Held(r)) = Who(token)
    <3>1. Become(t, f)
      BY <1>9, <1>11, <2>2, <2>4
    <3> QED BY <1>1, <1>2, <2>3, <3>1, AloneKeeps
  <2>5. CASE Who(Held(r)) # Who(token)
    <3>1. PICK c \in Request : c = [IdleCall EXCEPT !.at = "info", !.own = TRUE] /\ Owned(c)
      <4> DEFINE x == [IdleCall EXCEPT !.at = "info", !.own = TRUE]
      <4>1. x \in Request /\ Owned(x)
        BY Idles DEF IdleCall, Request, Owned
      <4> QED BY <4>1
    <3>2. PICK p \in Page : /\ p = [f.p EXCEPT !.status = "loading", !.start = c]
                            /\ p.flight = f.p.flight /\ p.saved = f.p.saved /\ p.start = c
                            /\ p.call = f.p.call /\ p.prom = f.p.prom /\ p.login = f.p.login
      <4> DEFINE q == [f.p EXCEPT !.status = "loading", !.start = c]
      <4>1. /\ q \in Page /\ q.flight = f.p.flight /\ q.saved = f.p.saved /\ q.start = c
            /\ q.call = f.p.call /\ q.prom = f.p.prom /\ q.login = f.p.login
        BY <2>3 DEF Sound, Worlds, Page
      <4> QED BY <4>1
    <3>3. Fit(p) /\ p.flight \in {0, f.p.flight} /\ p.login.at \in {"idle", f.p.login.at}
      BY <1>11, <2>2, <2>3, <3>1, <3>2 DEF Sound, Fit
    <3>4. PICK n : n = [f EXCEPT !.p = p] /\ Leads(f, n, t)
      BY <2>3, <3>3, Changes
    <3>5. [f EXCEPT !.p.status = "loading",
                    !.p.start = [IdleCall EXCEPT !.at = "info", !.own = TRUE]] = n
      BY <2>3, <3>1, <3>2, <3>4 DEF Sound, Worlds, Page
    <3>6. Become(t, n)
      BY <1>9, <1>11, <2>2, <2>5, <3>5
    <3>7. Leads(World(t), n, t)
      BY <1>1, <2>3, <3>4, Leaders
    <3> QED BY <1>2, <3>6, <3>7, AloneKeeps
  <2> QED BY <2>4, <2>5
<1> QED BY <1>10, <1>11

LEMMA LoadKeeps ==
  ASSUME Inv, NEW t \in Tabs, Load(t)
  PROVE  Inv' /\ Told(t)
<1>1. /\ Client /\ Server /\ (Locks /\ Reliable => Line) /\ UNCHANGED <<jar, spent>>
      /\ rows \in Seq(Row) /\ rows \in [1 .. Len(rows) -> Row] /\ Len(rows) \in Nat
      /\ DOMAIN rows = 1 .. Len(rows)
  BY LenProperties DEF Inv, Server, Load
<1>2. PICK w : w = World(t) /\ Sound(w) /\ w.p = page[t] /\ w.d = disk
  BY <1>1, Work
<1>3. PICK c \in Request : c = [IdleCall EXCEPT !.at = "info"] /\ Owned(c)
  <2> DEFINE x == [IdleCall EXCEPT !.at = "info"]
  <2>1. x \in Request /\ Owned(x)
    BY Idles DEF IdleCall, Request, Owned
  <2> QED BY <2>1
<1>4. PICK p \in Page : /\ p = [Closed EXCEPT !.at = "starting", !.start = c]
                        /\ p.flight = 0 /\ p.start = c /\ p.call = Closed.call
                        /\ p.prom = Closed.prom /\ p.login = Closed.login
  <2> DEFINE q == [Closed EXCEPT !.at = "starting", !.start = c]
  <2>1. /\ q \in Page /\ q.flight = 0 /\ q.start = c /\ q.call = Closed.call
        /\ q.prom = Closed.prom /\ q.login = Closed.login
    BY Idles DEF Page
  <2> QED BY <2>1
<1>5. Fit(p) /\ p.login.at = "idle"
  BY <1>3, <1>4, Idles DEF Fit
<1>6. PICK d \in Disk : /\ d = [disk EXCEPT !.mail[t] = <<>>]
                        /\ d.store = disk.store
                        /\ \A u \in Tabs \ {t} : d.mail[u] = disk.mail[u]
  <2> DEFINE e == [disk EXCEPT !.mail[t] = <<>>]
  <2>1. disk \in Disk /\ <<>> \in Seq(Maybe)
    BY <1>1, EmptySeq DEF Client
  <2>2. /\ e \in Disk /\ e.store = disk.store
        /\ \A u \in Tabs \ {t} : e.mail[u] = disk.mail[u]
    BY <2>1 DEF Disk
  <2> QED BY <2>2
<1>7. PICK n : /\ n = [p |-> p, d |-> d] /\ n.p = p /\ n.d = d
               /\ Sound(n) /\ Heard(w, n, t)
  <2> DEFINE x == [p |-> p, d |-> d]
  <2>1. x \in Worlds /\ x.p = p /\ x.d = d
    BY DEF Worlds
  <2> HIDE DEF x
  <2>2. Sound(x) /\ Heard(w, x, t)
    BY <1>2, <1>5, <1>6, <2>1 DEF Sound, Heard
  <2> QED BY <2>1, <2>2 DEF x
<1>8. Become(t, n)
  BY <1>3, <1>4, <1>6, <1>7 DEF Load, Become
<1>9. /\ ops' \in [OpIds -> Refreshing \cup {None}]
      /\ \A o \in OpIds : ops'[o] = IF ops[o] # None /\ ops[o].tab = t THEN None ELSE ops[o]
  BY <1>1 DEF Load, Server
<1>10. PICK lost \in SUBSET {o \in OpIds : ops[o] # None /\ ops[o].tab = t /\ ops[o].at = "sent"} :
         rows' = [s \in DOMAIN rows |->
            IF \E o \in lost : ops[o].cookie = [sid |-> s, gen |-> rows[s].gen]
            THEN [rows[s] EXCEPT !.gen = @ + 1] ELSE rows[s]]
  BY DEF Load
<1>11. rows' \in Seq(Row) /\ Len(rows') = Len(rows)
  <2>1. ASSUME NEW s \in 1 .. Len(rows)
        PROVE  [rows[s] EXCEPT !.gen = @ + 1] \in Row /\ rows[s] \in Row
    <3>1. rows[s] \in Row /\ rows[s].gen + 1 \in Nat
      BY <1>1 DEF Row
    <3> QED BY <3>1 DEF Row
  <2>2. rows' \in [1 .. Len(rows) -> Row]
    BY <1>1, <1>10, <2>1
  <2> QED BY <1>1, <2>2, LenProperties
<1>12. Client'
  <2>1. n.p.login.at \in {"idle", page[t].login.at} /\ n.p.flight = 0
    BY <1>4, <1>5, <1>7
  <2>2. \A o \in OpIds : ops[o] # None /\ ops[o].tab # t => ops'[o] # None /\ ops'[o].tab = ops[o].tab
    BY <1>9
  <2> QED BY <1>1, <1>7, <1>8, <1>11, <2>1, <2>2, TabSteps
<1>13. lock' \in Op /\ (lock' # 0 => ops'[lock'] # None)
  BY <1>1, <1>9 DEF Load, Server, Op
<1>14. Server'
  BY <1>1, <1>9, <1>11, <1>13 DEF Server
<1>15. ASSUME Locks, Reliable PROVE Line'
  <2>1. \A o \in OpIds : ops[o] # None => ops[o].tab # t
    BY <1>15 DEF Load
  <2>2. lost = {} /\ \A o \in OpIds : ops'[o] = ops[o]
    BY <1>9, <2>1
  <2>3. \A s \in 1 .. Len(rows) : rows'[s] = rows[s]
    BY <1>1, <1>10, <2>2
  <2>4. lock' = lock
    BY <1>1, <2>1 DEF Load, Server, Op
  <2>5. Line
    BY <1>1, <1>15
  <2>6. \A o \in OpIds : ops[o] # None =>
          /\ ops[o].cookie # None => rows'[ops[o].cookie.sid] = rows[ops[o].cookie.sid]
          /\ ops[o].answer # None => rows'[ops[o].answer.sid] = rows[ops[o].answer.sid]
    BY <1>1, <2>3 DEF Server
  <2>7. jar # None => rows'[jar.sid] = rows[jar.sid]
    BY <1>1, <2>3 DEF Server
  <2> QED BY <1>1, <2>2, <2>4, <2>5, <2>6, <2>7 DEF Line
<1>16. Told(t)
  BY <1>1, <1>2, <1>7, <1>8, Tells
<1> QED BY <1>12, <1>14, <1>15, <1>16 DEF Inv

LEMMA InitInv ==
  Init => Inv
<1> SUFFICES ASSUME Init PROVE Inv
  OBVIOUS
<1>1. \A o \in OpIds : ops[o] = None
  BY DEF Init
<1>2. PICK who \in Users \cup {None} :
        LET token == [who |-> who, sid |-> 1, gen |-> 0] IN
        IF who = None
        THEN /\ rows = <<>> /\ jar = None
             /\ disk = [store |-> None, mail |-> [t \in Tabs |-> <<>>]]
             /\ page = [t \in Tabs |-> [Closed EXCEPT !.at = "running", !.status = "anonymous"]]
        ELSE /\ rows = << [who |-> who, gen |-> 0, live |-> TRUE, dead |-> 0] >>
             /\ jar = [sid |-> 1, gen |-> 0]
             /\ disk = [store |-> token, mail |-> [t \in Tabs |-> <<>>]]
             /\ page = [t \in Tabs |-> [Closed EXCEPT !.at = "running",
                          !.status = "authenticated", !.user = who, !.saved = token]]
  BY DEF Init
<1>3. ASSUME NEW p \in Page, Fit(p), p.flight = 0, p.login.at = "idle",
             page = [t \in Tabs |-> p],
             NEW token \in Maybe, disk = [store |-> token, mail |-> [t \in Tabs |-> <<>>]]
      PROVE  Client
  <2>1. <<>> \in Seq(Maybe)
    BY EmptySeq
  <2>2. disk \in Disk
    BY <1>3, <2>1 DEF Disk
  <2>3. Flying /\ Entering
    BY <1>3 DEF Flying, Entering
  <2> QED BY <1>3, <2>2, <2>3 DEF Client
<1>4. ops \in [OpIds -> Refreshing \cup {None}] /\ lock = 0 /\ lock \in Op /\ ~spent
  BY DEF Init, Op
<1>5. CASE who = None
  <2>1. PICK p \in Page : /\ p = [Closed EXCEPT !.at = "running", !.status = "anonymous"]
                          /\ p.flight = 0 /\ p.start = Closed.start /\ p.call = Closed.call
                          /\ p.prom = Closed.prom /\ p.login = Closed.login
    <3> DEFINE q == [Closed EXCEPT !.at = "running", !.status = "anonymous"]
    <3>1. /\ q \in Page /\ q.flight = 0 /\ q.start = Closed.start /\ q.call = Closed.call
          /\ q.prom = Closed.prom /\ q.login = Closed.login
      BY Idles DEF Page
    <3> QED BY <3>1
  <2>2. Fit(p) /\ p.login.at = "idle"
    BY <2>1, Idles DEF Fit
  <2>3. Client
    BY <1>2, <1>3, <1>5, <2>1, <2>2 DEF Maybe
  <2>4. rows \in Seq(Row) /\ Len(rows) = 0 /\ jar = None
    BY <1>2, <1>5, EmptySeq
  <2>5. Server
    BY <1>1, <1>4, <2>4, SessionsAssumption DEF Server
  <2>6. Line
    BY <1>1, <1>4, <2>4 DEF Line
  <2> QED BY <2>3, <2>5, <2>6 DEF Inv
<1>6. CASE who # None
  <2>1. PICK token \in Token : token = [who |-> who, sid |-> 1, gen |-> 0]
    <3>1. who \in Users /\ 1 \in 1 .. MaxLogins /\ 0 \in Nat
      BY <1>6, SessionsAssumption
    <3> QED BY <3>1 DEF Token
  <2>2. PICK p \in Page : /\ p = [Closed EXCEPT !.at = "running", !.status = "authenticated",
                                                !.user = who, !.saved = token]
                          /\ p.flight = 0 /\ p.start = Closed.start /\ p.call = Closed.call
                          /\ p.prom = Closed.prom /\ p.login = Closed.login
    <3> DEFINE q == [Closed EXCEPT !.at = "running", !.status = "authenticated",
                                   !.user = who, !.saved = token]
    <3>1. /\ q \in Page /\ q.flight = 0 /\ q.start = Closed.start /\ q.call = Closed.call
          /\ q.prom = Closed.prom /\ q.login = Closed.login
      BY Idles DEF Page, Maybe, Somebody
    <3> QED BY <3>1
  <2>3. Fit(p) /\ p.login.at = "idle"
    BY <2>2, Idles DEF Fit
  <2>4. page = [t \in Tabs |-> p] /\ disk = [store |-> token, mail |-> [t \in Tabs |-> <<>>]]
    BY <1>2, <1>6, <2>1, <2>2
  <2>5. Client
    BY <1>3, <2>2, <2>3, <2>4 DEF Maybe
  <2>6. PICK row \in Row : /\ row = [who |-> who, gen |-> 0, live |-> TRUE, dead |-> 0]
                           /\ row.gen = 0
    <3> DEFINE r == [who |-> who, gen |-> 0, live |-> TRUE, dead |-> 0]
    <3>1. r \in Row /\ r.gen = 0
      BY <1>6 DEF Row
    <3> QED BY <3>1
  <2>7. rows \in Seq(Row) /\ Len(rows) = 1 /\ rows[1] = row
    <3>1. rows = <<row>>
      BY <1>2, <1>6, <2>6
    <3> QED BY <3>1
  <2>8. jar \in Cookie /\ jar.sid = 1 /\ jar.gen = 0
    <3>1. jar = [sid |-> 1, gen |-> 0]
      BY <1>2, <1>6
    <3> QED BY <3>1, SessionsAssumption DEF Cookie
  <2>9. Server
    BY <1>1, <1>4, <2>7, <2>8, SessionsAssumption DEF Server
  <2>10. Line
    BY <1>1, <1>4, <2>6, <2>7, <2>8 DEF Line
  <2> QED BY <2>5, <2>9, <2>10 DEF Inv
<1> QED BY <1>5, <1>6

LEMMA StutterKeeps ==
  ASSUME Inv, UNCHANGED vars
  PROVE  Inv'
<1>1. UNCHANGED <<rows, jar, disk, page, ops, lock, spent>>
  BY DEF vars
<1>2. Client'
  BY <1>1, StillClient DEF Inv
<1>3. Server' /\ (Locks /\ Reliable => Line')
  BY <1>1, Serves DEF Inv
<1> QED BY <1>2, <1>3 DEF Inv

LEMMA NextKeepsInv ==
  Inv /\ [Next]_vars => Inv'
<1> SUFFICES ASSUME Inv, [Next]_vars PROVE Inv'
  OBVIOUS
<1>1. ASSUME NEW t \in Tabs,
             \/ Prepare(t) \/ Answered(t, "start") \/ Answered(t, "call")
             \/ RefreshAgain(t) \/ StorageChanged(t) \/ CreateSession(t) \/ AcceptIdentity(t)
      PROVE  Inv'
  BY <1>1, PrepareKeeps, StartAnsweredKeeps, CallAnsweredKeeps, RefreshAgainKeeps,
     StorageChangedKeeps, CreateSessionKeeps, AcceptIdentityKeeps
<1>2. ASSUME NEW o \in OpIds, Enter(o) \/ RefreshSession(o) \/ Return(o)
      PROVE  Inv'
  BY <1>2, EnterKeeps, RefreshSessionKeeps, ReturnKeeps
<1>3. CASE Progress
  BY <1>1, <1>2, <1>3 DEF Progress
<1>4. ASSUME NEW t \in Tabs, Load(t) \/ Call(t) \/ Logout(t) \/ \E who \in Users : Login(t, who)
      PROVE  Inv'
  BY <1>4, LoadKeeps, CallKeeps, LogoutKeeps, LoginKeeps
<1>5. ASSUME NEW s \in DOMAIN rows, Expire(s)
      PROVE  Inv'
  BY <1>5, ExpireKeeps
<1> QED BY <1>3, <1>4, <1>5, StutterKeeps DEF Next

(* The invariant holds in every state of every behaviour.                  *)
THEOREM Invariance ==
  Spec => []Inv
<1>1. Init => Inv
  BY InitInv
<1>2. Inv /\ [Next]_vars => Inv'
  BY NextKeepsInv
<1> QED BY <1>1, <1>2, PTL DEF Spec

(* Tokens, cookies and refreshes have their types, and the refresh a tab   *)
(* has in flight is one in progress and its own (helpers/auth.ts,          *)
(* refreshInFlight).                                                       *)
THEOREM TypeCorrect ==
  Spec => []TypeOK
<1>1. Inv => TypeOK
  <2> SUFFICES ASSUME Inv PROVE TypeOK
    OBVIOUS
  <2>1. \A s \in DOMAIN rows : rows[s] \in Row
    BY ElementOfSeq, LenProperties DEF Inv, Server
  <2>2. disk.store \in Maybe /\ \A t \in Tabs : disk.mail[t] \in Seq(Maybe)
    BY DEF Inv, Client, Disk
  <2>3. \A t \in Tabs : /\ page[t].at \in {"closed", "starting", "running"}
                        /\ page[t].saved \in Maybe
                        /\ page[t].status \in {"loading", "anonymous", "authenticated"}
    BY DEF Inv, Client, Page
  <2>4. /\ jar \in Cookie \cup {None} /\ lock \in Op
        /\ \A o \in OpIds : ops[o] \in Refreshing \cup {None}
    BY DEF Inv, Server
  <2> QED BY <2>1, <2>2, <2>3, <2>4 DEF Inv, Client, Flying, TypeOK, Row, Maybe, Op
<1> QED BY <1>1, Invariance, PTL

(* Where the browser has locks and answers are not lost, the server never  *)
(* refuses a refresh because its cookie was spent (helpers/auth.ts,        *)
(* doRefresh): the refreshes of all tabs, of every session and of every    *)
(* login form one line, and whoever is first in it has the newest cookie.  *)
THEOREM SpentOnceHolds ==
  Spec => []CookieSpentOnce
<1>1. Inv => CookieSpentOnce
  BY DEF Inv, Line, CookieSpentOnce
<1> QED BY <1>1, Invariance, PTL

(* A request is never sent again with the token of somebody else than the  *)
(* user it was first sent for (helpers/fetcher.ts).                        *)
THEOREM RetryKeepsIdentityHolds ==
  Spec => []RetryKeepsIdentity
<1>1. Inv => RetryKeepsIdentity
  BY DEF Inv, Client, Fit, Owned, RetryKeepsIdentity, Callers
<1> QED BY <1>1, Invariance, PTL

-----------------------------------------------------------------------------
(* A tab that is signed out.                                               *)

\* Tab t has no token afterwards, and will hear of one in localStorage.
Gone(t) == page'[t].saved = None /\ (disk'.store = None \/ disk'.mail[t] # <<>>)

LEMMA OthersDoNot ==
  ASSUME NEW t \in Tabs, LeftOver(t), disk.store = None, NEW u \in Tabs, u # t, Told(u)
  PROVE  Gone(t)
  BY DEF LeftOver, Told, Gone

\* What the tab itself had under way leaves it alone.
LEMMA NothingLeft ==
  ASSUME Inv, NEW t \in Tabs, LeftOver(t), disk.store = None,
         \/ Prepare(t) \/ Answered(t, "start") \/ Answered(t, "call")
         \/ RefreshAgain(t) \/ StorageChanged(t) \/ CreateSession(t) \/ AcceptIdentity(t)
         \/ Call(t) \/ Logout(t)
  PROVE  Gone(t)
<1>1. PICK w : w = World(t) /\ Sound(w) /\ w.p = page[t] /\ w.d = disk
  BY Work DEF Inv
<1>2. Held(w) = None /\ Who(Held(w)) = None /\ w.p.saved = None /\ w.p.start.at = "idle"
  BY <1>1, Tokens DEF LeftOver, Held
<1>3. ASSUME NEW n, n.p.saved = None, n.d = disk, Become(t, n)
      PROVE  Gone(t)
  BY <1>3 DEF Become, Gone, Inv, Client
<1>4. CASE Answered(t, "call")
  <2>1. ~StillOwned(w, w.p.call)
    <3>1. w.p.call.at \in {"sent", "resent"}
      BY <1>1, <1>4 DEF Answered
    <3>2. w.p.call.who \in Users
      BY <1>1, <3>1 DEF Sound, Fit, Owned
    <3> QED BY <1>2, <3>2, Tokens DEF StillOwned
  <2>2. \/ Become(t, [w EXCEPT !.p.call = IdleCall])
        \/ Become(t, Reject(w, t, "call"))
    BY <1>1, <1>4, <2>1 DEF Answered
  <2>3. CASE Become(t, [w EXCEPT !.p.call = IdleCall])
    <3>1. LET n == [w EXCEPT !.p.call = IdleCall] IN
          Leads(w, n, t) /\ n.d = w.d /\ n.p.saved = w.p.saved /\ n.p.start = w.p.start
      BY <1>1, Ends
    <3> QED BY <1>1, <1>2, <1>3, <2>3, <3>1
  <2>4. CASE Become(t, Reject(w, t, "call"))
    <3>1. LET n == Reject(w, t, "call") IN
          Leads(w, n, t) /\ n.d = w.d /\ n.p.saved = w.p.saved /\ n.p.start = w.p.start
      BY <1>1, Rejects
    <3> QED BY <1>1, <1>2, <1>3, <2>4, <3>1
  <2> QED BY <2>2, <2>3, <2>4
<1>5. CASE RefreshAgain(t)
  <2>1. w.p.prom.token \in Token
    BY <1>1, <1>5 DEF RefreshAgain, Sound, Fit
  <2>2. Who(Held(w)) # Who(w.p.prom.token)
    BY <1>2, <2>1, Tokens
  <2>3. Become(t, Settle(w, t, None))
    BY <1>1, <1>5, <2>2 DEF RefreshAgain
  <2>4. LET n == Settle(w, t, None) IN
        /\ Leads(w, n, t)
        /\ w.p.start.at = "idle" => n.p.saved = w.p.saved /\ n.d = w.d /\ n.p.start.at = "idle"
    BY <1>1, Settles
  <2> QED BY <1>1, <1>2, <1>3, <2>3, <2>4
<1>6. CASE Prepare(t) \/ Answered(t, "start") \/ StorageChanged(t)
  BY <1>6 DEF LeftOver, Prepare, Answered, StorageChanged
<1>7. CASE CreateSession(t) \/ AcceptIdentity(t) \/ Call(t) \/ Logout(t)
  BY <1>7 DEF LeftOver, CreateSession, AcceptIdentity, Call, Logout
<1> QED BY <1>4, <1>5, <1>6, <1>7

\* So do the refreshes it had sent.
LEMMA NoRefreshLeft ==
  ASSUME Inv, NEW t \in Tabs, LeftOver(t), disk.store = None,
         NEW o \in OpIds, ops[o].tab = t, Enter(o) \/ Return(o)
  PROVE  Gone(t)
<1>1. PICK w : w = World(t) /\ Sound(w) /\ w.p = page[t] /\ w.d = disk
  BY Work DEF Inv
<1>2. w.p.saved = None /\ w.p.start.at = "idle" /\ o # 0
  BY <1>1 DEF LeftOver, OpIds
<1>3. w.p.flight # o
  BY <1>1, <1>2 DEF Sound, Fit
<1>4. KeepIfCurrent(w, t, o) = w
  BY <1>3 DEF KeepIfCurrent
<1>5. PICK ok \in BOOLEAN : Become(t, Finish(w, t, o, ok))
  <2>1. CASE Enter(o)
    BY <1>1, <1>3, <2>1 DEF Enter
  <2>2. CASE Return(o)
    <3>1. Become(t, Finish(w, t, o, TRUE)) \/ Become(t, Finish(w, t, o, w.p.flight # o /\ ops[o].version = 2))
      BY <1>1, <1>3, <1>4, <2>2 DEF Return
    <3> QED BY <1>3, <3>1
  <2> QED BY <2>1, <2>2
<1>6. PICK n : n = Finish(w, t, o, ok) /\ n.p.saved = None /\ n.d = disk
  <2>1. LET n == Finish(w, t, o, ok) IN
        /\ Leads(w, n, t) /\ n.p.flight # o
        /\ w.p.start.at = "idle" => n.p.saved = w.p.saved /\ n.d = w.d
    BY <1>1, Finishes
  <2> QED BY <1>1, <1>2, <2>1
<1> QED BY <1>5, <1>6 DEF Become, Gone, Inv, Client

LEMMA StaysSignedOut ==
  ASSUME Inv, Next, NEW t \in Tabs, LeftOver(t), disk.store = None
  PROVE  Gone(t)
<1>1. ASSUME UNCHANGED <<page, disk>> PROVE Gone(t)
  BY <1>1 DEF LeftOver, Gone
<1>2. ASSUME NEW u \in Tabs,
             \/ Prepare(u) \/ Answered(u, "start") \/ Answered(u, "call")
             \/ RefreshAgain(u) \/ StorageChanged(u) \/ CreateSession(u) \/ AcceptIdentity(u)
             \/ Call(u) \/ Logout(u)
      PROVE  Gone(t)
  <2>1. Told(u)
    BY <1>2, PrepareKeeps, StartAnsweredKeeps, CallAnsweredKeeps, RefreshAgainKeeps,
       StorageChangedKeeps, CreateSessionKeeps, AcceptIdentityKeeps, CallKeeps, LogoutKeeps
  <2>2. CASE u = t
    BY <1>2, <2>2, NothingLeft
  <2>3. CASE u # t
    BY <2>1, <2>3, OthersDoNot
  <2> QED BY <2>2, <2>3
<1>3. ASSUME NEW o \in OpIds, Enter(o) \/ Return(o)
      PROVE  Gone(t)
  <2>1. ops[o].tab \in Tabs
    BY <1>3 DEF Inv, Server, Refreshing, Enter, Return
  <2>2. Told(ops[o].tab)
    BY <1>3, EnterKeeps, ReturnKeeps
  <2>3. CASE ops[o].tab = t
    BY <1>3, <2>3, NoRefreshLeft
  <2>4. CASE ops[o].tab # t
    BY <2>1, <2>2, <2>4, OthersDoNot
  <2> QED BY <2>3, <2>4
<1>4. ASSUME NEW o \in OpIds, RefreshSession(o) PROVE Gone(t)
  BY <1>1, <1>4 DEF RefreshSession
<1>5. ASSUME NEW u \in Tabs, Load(u) PROVE Gone(t)
  <2>1. CASE u = t
    <3>1. page'[t].saved = None
      BY <1>5, <2>1, Idles DEF Load, Closed, Inv, Client
    <3>2. disk'.store = None
      BY <1>5 DEF Load, Inv, Client, Disk
    <3> QED BY <3>1, <3>2 DEF Gone
  <2>2. CASE u # t
    BY <1>5, <2>2, LoadKeeps, OthersDoNot
  <2> QED BY <2>1, <2>2
<1>6. ASSUME NEW u \in Tabs, NEW who \in Users, Login(u, who) PROVE Gone(t)
  <2>1. page'[t].saved = page[t].saved /\ disk' = disk
    BY <1>6 DEF Login, Inv, Client, Page
  <2> QED BY <2>1 DEF LeftOver, Gone
<1>7. ASSUME NEW s \in DOMAIN rows, Expire(s) PROVE Gone(t)
  BY <1>1, <1>7 DEF Expire
<1> QED BY <1>2, <1>3, <1>4, <1>5, <1>6, <1>7 DEF Next, Progress

(* Signing out holds (helpers/auth.ts, the epoch): whatever a tab had      *)
(* under way when it was signed out - refreshes, their second tries,       *)
(* requests that wait - gives it no token, and a token that another tab    *)
(* puts into localStorage is one it will hear of.                          *)
THEOREM SignedOutHolds ==
  Spec => SignOutHolds
<1>1. Inv /\ [Next]_vars =>
        [\A t \in Tabs : LeftOver(t) /\ disk.store = None
           => /\ page'[t].saved = None
              /\ disk'.store = None \/ disk'.mail[t] # <<>>]_vars
  BY StaysSignedOut DEF Gone
<1> QED BY <1>1, Invariance, PTL DEF Spec, SignOutHolds

-----------------------------------------------------------------------------
(* Whoever waits.                                                          *)

\* The refreshes a tab has in progress.
Mine(t) == {o \in OpIds : ops[o] # None /\ ops[o].tab = t}

\* In page p, whoever waits for the promise of the interceptor waits for one
\* that is not settled, and whoever waits for a refresh waits for one of L.
Served(p, L) ==
  /\ p.start.at = "waiting" \/ p.call.at = "waiting" => p.prom.at # "idle"
  /\ p.prom.at \in {"first", "second"} => p.prom.op \in L
  /\ p.start.at = "refresh" => p.start.op \in L

\* The holder of the lock has left the queue.
LockInUse == lock # 0 => ops[lock] # None /\ ops[lock].at # "queued"

Waiters == LockInUse /\ \A t \in Tabs : Served(page[t], Mine(t))

LEMMA SaveServes ==
  ASSUME NEW t \in Tabs, NEW w, Sound(w), NEW token, NEW persist, NEW L, Served(w.p, L)
  PROVE  Served(SaveToken(w, t, token, persist).p, L)
<1> DEFINE other == Who(Held(w)) # Who(token)
           kept == [w EXCEPT !.p.saved = token, !.p.flight = IF other THEN 0 ELSE @]
<1>1. /\ kept.p = [w.p EXCEPT !.saved = token, !.flight = IF other THEN 0 ELSE @]
      /\ Put(kept, t, token).p = kept.p
  BY DEF Sound, Worlds, Put
<1>2. SaveToken(w, t, token, persist).p = kept.p
  BY <1>1 DEF SaveToken
<1>3. /\ kept.p.start = w.p.start /\ kept.p.call = w.p.call /\ kept.p.prom = w.p.prom
  BY <1>1 DEF Sound, Worlds, Page
<1> QED BY <1>2, <1>3 DEF Served

LEMMA SignedOutAlike ==
  ASSUME NEW t \in Tabs, NEW w, Sound(w)
  PROVE  /\ SignedOut(w, t).p.start = w.p.start /\ SignedOut(w, t).p.call = w.p.call
         /\ SignedOut(w, t).p.prom = w.p.prom
<1>1. RemoveToken(w, t).p = [w.p EXCEPT !.saved = None, !.flight = 0]
  BY DEF Sound, Worlds, Put, RemoveToken
<1>2. SignedOut(w, t).p =
        [[w.p EXCEPT !.saved = None, !.flight = 0] EXCEPT !.user = None, !.status = "anonymous"]
  BY <1>1 DEF Sound, Worlds, Put, RemoveToken, SignedOut
<1> QED BY <1>2 DEF Sound, Worlds, Page

LEMMA TurnServes ==
  ASSUME NEW w, Sound(w), NEW L, Served(w.p, L)
  PROVE  Served(Turn(w).p, L)
<1>1. Turn(w).p = [w.p EXCEPT !.start.own = FALSE, !.login.own = FALSE]
  BY DEF Sound, Worlds, Turn
<1>2. /\ Turn(w).p.start = [w.p.start EXCEPT !.own = FALSE]
      /\ Turn(w).p.call = w.p.call /\ Turn(w).p.prom = w.p.prom
  BY <1>1 DEF Sound, Worlds, Page
<1>3. Turn(w).p.start.at = w.p.start.at /\ Turn(w).p.start.op = w.p.start.op
  BY <1>2 DEF Sound, Worlds, Page, Request
<1> QED BY <1>2, <1>3 DEF Served

LEMMA StartFailedAlike ==
  ASSUME NEW t \in Tabs, NEW w, Sound(w), w.p.start.at # "refresh"
  PROVE  LET n == StartFailed(w, t) IN
         /\ n.p.start = IdleCall
         /\ \/ n.p.call = IdleCall /\ n.p.prom = NoPromise
            \/ n.p.call = w.p.call /\ n.p.prom = w.p.prom
<1>1. PICK i : i = [w EXCEPT !.p.start = IdleCall] /\ Sound(i)
  BY Ends DEF Leads
<1>2. i.p.start = IdleCall /\ i.p.call = w.p.call /\ i.p.prom = w.p.prom
  BY <1>1 DEF Sound, Worlds, Page
<1>3. /\ SignedOut(i, t).p.start = IdleCall /\ SignedOut(i, t).p.call = w.p.call
      /\ SignedOut(i, t).p.prom = w.p.prom
  BY <1>1, <1>2, SignedOutAlike
<1>4. [w EXCEPT !.p = Closed].p = Closed
  BY DEF Sound, Worlds
<1>5. /\ Closed.start = IdleCall /\ Closed.call = IdleCall /\ Closed.prom = NoPromise
  BY DEF Closed
<1>6. StartFailed(w, t) \in {[w EXCEPT !.p = Closed], SignedOut(i, t), i}
  BY <1>1 DEF StartFailed
<1> QED BY <1>2, <1>3, <1>4, <1>5, <1>6

LEMMA CallEndServes ==
  ASSUME NEW w, Sound(w), NEW L, Served(w.p, L)
  PROVE  Served([w EXCEPT !.p.call = IdleCall].p, L)
<1> DEFINE n == [w EXCEPT !.p.call = IdleCall]
<1>1. n.p = [w.p EXCEPT !.call = IdleCall]
  BY DEF Sound, Worlds
<1>2. n.p.start = w.p.start /\ n.p.call = IdleCall /\ n.p.prom = w.p.prom
  BY <1>1 DEF Sound, Worlds, Page
<1> QED BY <1>2, Idles DEF Served

LEMMA RejectServes ==
  ASSUME NEW t \in Tabs, NEW w, Sound(w), NEW L, Served(w.p, L)
  PROVE  /\ Served(Reject(w, t, "call").p, L)
         /\ w.p.start.at # "refresh" => Served(Reject(w, t, "start").p, L)
<1>1. ASSUME w.p.start.at # "refresh" PROVE Served(StartFailed(w, t).p, L)
  <2>1. PICK n : /\ n = StartFailed(w, t)
                 /\ n.p.start = IdleCall
                 /\ \/ n.p.call = IdleCall /\ n.p.prom = NoPromise
                    \/ n.p.call = w.p.call /\ n.p.prom = w.p.prom
    BY <1>1, StartFailedAlike
  <2> QED BY <2>1, Idles DEF Served
<1> QED BY <1>1, CallEndServes DEF Reject

LEMMA SendServes ==
  ASSUME NEW w, Sound(w), NEW L, Served(w.p, L)
  PROVE  Served(Send(w, "start").p, L) /\ Served(Send(w, "call").p, L)
<1>1. /\ Send(w, "start").p.start.at = "sent"
      /\ Send(w, "start").p.call = w.p.call /\ Send(w, "start").p.prom = w.p.prom
  BY DEF Sound, Worlds, Page, Request, Send
<1>2. /\ Send(w, "call").p.call.at = "sent"
      /\ Send(w, "call").p.start = w.p.start /\ Send(w, "call").p.prom = w.p.prom
  BY DEF Sound, Worlds, Page, Request, Send
<1> QED BY <1>1, <1>2 DEF Served

LEMMA StartedServes ==
  ASSUME NEW w, Sound(w), NEW user, NEW L, Served(w.p, L)
  PROVE  Served(Started(w, user).p, L)
<1>1. /\ Started(w, user).p.start = IdleCall
      /\ Started(w, user).p.call = w.p.call /\ Started(w, user).p.prom = w.p.prom
  BY DEF Sound, Worlds, Page, Started
<1> QED BY <1>1, Idles DEF Served

\* Starting is over when the user has been asked for.
LEMMA AskServes ==
  ASSUME NEW w, Sound(w), NEW o, NEW L, Served(w.p, L), w.p.start.at = "refresh",
         w.p.prom.at \in {"first", "second"} => w.p.prom.op # o
  PROVE  Served(AskForUser(w).p, L \ {o})
<1>1. /\ AskForUser(w).p.start.at # "refresh" /\ AskForUser(w).p.start.at # "waiting"
      /\ AskForUser(w).p.prom = w.p.prom /\ AskForUser(w).p.call = w.p.call
  <2>1. CASE Held(w) = None
    <3>1. /\ Started(w, None).p.start = IdleCall
          /\ Started(w, None).p.call = w.p.call /\ Started(w, None).p.prom = w.p.prom
      BY DEF Sound, Worlds, Page, Started
    <3> QED BY <2>1, <3>1, Idles DEF AskForUser
  <2>2. CASE Held(w) # None
    <3>1. /\ Send(w, "start").p.start.at = "sent"
          /\ Send(w, "start").p.call = w.p.call /\ Send(w, "start").p.prom = w.p.prom
      BY DEF Sound, Worlds, Page, Request, Send
    <3> QED BY <2>2, <3>1 DEF AskForUser
  <2> QED BY <2>1, <2>2
<1> QED BY <1>1 DEF Served

\* Nobody waits any more for a promise that is settled.
LEMMA CallResumed ==
  ASSUME NEW t \in Tabs, NEW w, Sound(w), NEW token
  PROVE  LET n == Resume(w, t, "call", token) IN
         n.p.call.at # "waiting" /\ n.p.prom = w.p.prom /\ n.p.start = w.p.start
<1>1. CASE w.p.call.at # "waiting"
  BY <1>1 DEF Resume
<1>2. CASE w.p.call.at = "waiting" /\ (token = None \/ ~StillOwned(w, w.p.call))
  <2> DEFINE n == [w EXCEPT !.p.call = IdleCall]
  <2>1. n.p.start = w.p.start /\ n.p.call = IdleCall /\ n.p.prom = w.p.prom
    BY DEF Sound, Worlds, Page
  <2> QED BY <1>2, <2>1, Idles DEF Resume, Reject
<1>3. CASE w.p.call.at = "waiting" /\ token # None /\ StillOwned(w, w.p.call)
  <2> DEFINE n == [w EXCEPT !.p["call"].at = "resent", !.p["call"].token = token]
  <2>1. n.p.start = w.p.start /\ n.p.call.at = "resent" /\ n.p.prom = w.p.prom
    BY DEF Sound, Worlds, Page, Request
  <2> QED BY <1>3, <2>1 DEF Resume
<1> QED BY <1>1, <1>2, <1>3

LEMMA StartResumed ==
  ASSUME NEW t \in Tabs, NEW w, Sound(w), NEW token, w.p.call.at # "waiting",
         w.p.prom.at = "idle"
  PROVE  LET n == Resume(w, t, "start", token) IN
         /\ n.p.call.at # "waiting" /\ n.p.start.at # "waiting" /\ n.p.prom.at = "idle"
         /\ n.p.start.at = "refresh" => n.p.start = w.p.start
<1>1. CASE w.p.start.at # "waiting"
  BY <1>1 DEF Resume
<1>2. CASE w.p.start.at = "waiting" /\ (token = None \/ ~StillOwned(w, w.p.start))
  BY <1>2, StartFailedAlike, Idles DEF Resume, Reject
<1>3. CASE w.p.start.at = "waiting" /\ token # None /\ StillOwned(w, w.p.start)
  <2> DEFINE n == [w EXCEPT !.p["start"].at = "resent", !.p["start"].token = token]
  <2>1. n.p.call = w.p.call /\ n.p.start.at = "resent" /\ n.p.prom = w.p.prom
    BY DEF Sound, Worlds, Page, Request
  <2> QED BY <1>3, <2>1 DEF Resume
<1> QED BY <1>1, <1>2, <1>3

LEMMA SettleServes ==
  ASSUME NEW t \in Tabs, NEW w, Sound(w), NEW token, token = None \/ token = Held(w),
         NEW L, Served(w.p, L)
  PROVE  LET n == Settle(w, t, token) IN Served(n.p, L) /\ n.p.prom.at = "idle"
<1>1. PICK q : /\ q = [w EXCEPT !.p = [w.p EXCEPT !.prom = NoPromise]]
               /\ Leads(w, q, t) /\ q.p.start = w.p.start
  <2>1. LET q == [w EXCEPT !.p = [w.p EXCEPT !.prom = NoPromise]] IN
        Leads(w, q, t) /\ q.p.start = w.p.start
    BY Idles, Promises
  <2> QED BY <2>1
<1>2. Sound(q) /\ (token = None \/ token = Held(q)) /\ q.p.prom = NoPromise
  <2>1. Sound(q) /\ q.d = w.d /\ q.p.saved = w.p.saved /\ q.p.prom = NoPromise
    BY <1>1 DEF Leads, Sound, Worlds, Page
  <2> QED BY <2>1 DEF Held
<1>3. PICK c : c = Resume(q, t, "call", token) /\ Sound(c)
  <2>1. LET n == Resume(q, t, "call", token) IN
        Leads(q, n, t) /\ n.d = q.d /\ n.p.saved = q.p.saved /\ n.p.start = q.p.start
    BY <1>2, Resumes
  <2> QED BY <2>1 DEF Leads
<1>4. c.p.call.at # "waiting" /\ c.p.prom = NoPromise /\ c.p.start = w.p.start
  <2>1. LET n == Resume(q, t, "call", token) IN
        n.p.call.at # "waiting" /\ n.p.prom = q.p.prom /\ n.p.start = q.p.start
    <3>1. Sound(q)
      BY <1>2
    <3> QED BY <3>1, CallResumed
  <2> QED BY <1>1, <1>2, <1>3, <2>1
<1>5. PICK s : /\ s = Resume(c, t, "start", token)
               /\ s.p.call.at # "waiting" /\ s.p.start.at # "waiting" /\ s.p.prom.at = "idle"
               /\ s.p.start.at = "refresh" => s.p.start = c.p.start
  <2>1. c.p.prom.at = "idle"
    BY <1>4, Idles
  <2>2. LET s == Resume(c, t, "start", token) IN
        /\ s.p.call.at # "waiting" /\ s.p.start.at # "waiting" /\ s.p.prom.at = "idle"
        /\ s.p.start.at = "refresh" => s.p.start = c.p.start
    BY <1>3, <1>4, <2>1, StartResumed
  <2> QED BY <2>2
<1>6. Settle(w, t, token) = s
  BY <1>1, <1>3, <1>5 DEF Settle, Sound, Worlds
<1>7. Served(s.p, L)
  BY <1>4, <1>5 DEF Served
<1> QED BY <1>5, <1>6, <1>7

\* Who asked for refresh o does not wait for it any more.
LEMMA AnswerServes ==
  ASSUME NEW t \in Tabs, NEW w, Sound(w), NEW o \in OpIds, NEW ok \in BOOLEAN,
         NEW L, Served(w.p, L)
  PROVE  LET n == Answer(w, t, o, ok) IN
         Served(n.p, L) /\ (n.p.prom.at \in {"first", "second"} => n.p.prom.op # o)
<1> DEFINE asked == w.p.prom.op = o /\ w.p.prom.at \in {"first", "second"}
<1>1. CASE asked /\ ok
  BY <1>1, SettleServes DEF Answer
<1>2. CASE asked /\ ~ok /\ w.p.prom.at = "first"
  <2> DEFINE n == [w EXCEPT !.p.prom.at = "sleep", !.p.prom.op = 0]
  <2>1. n.p.prom.at = "sleep" /\ n.p.start = w.p.start /\ n.p.call = w.p.call
    BY DEF Sound, Worlds, Page, Promise
  <2>2. Answer(w, t, o, ok) = n
    BY <1>2 DEF Answer
  <2> QED BY <2>1, <2>2 DEF Served
<1>3. CASE asked /\ ~ok /\ w.p.prom.at = "second"
  BY <1>3, SettleServes DEF Answer
<1>4. CASE ~asked
  BY <1>4 DEF Answer
<1> QED BY <1>1, <1>2, <1>3, <1>4

\* Nobody waits for a refresh that has ended.
LEMMA FinishServes ==
  ASSUME NEW t \in Tabs, NEW w, Sound(w), NEW o \in OpIds, NEW ok \in BOOLEAN,
         NEW L, Served(w.p, L)
  PROVE  Served(Finish(w, t, o, ok).p, L \ {o})
<1>1. PICK f : f = Landed(w, o) /\ Sound(f)
  BY Lands DEF Leads
<1>2. f.p.start = w.p.start /\ f.p.prom = w.p.prom /\ f.p.call = w.p.call
  BY <1>1 DEF Landed, Sound, Worlds, Page
<1>3. Served(f.p, L)
  BY <1>2 DEF Served
<1>4. PICK h : /\ h = Answer(f, t, o, ok) /\ Sound(h) /\ Served(h.p, L)
               /\ h.p.prom.at \in {"first", "second"} => h.p.prom.op # o
  <2>1. Sound(Answer(f, t, o, ok))
    BY <1>1, Answers DEF Leads
  <2> QED BY <1>1, <1>3, <2>1, AnswerServes
<1>5. Finish(w, t, o, ok) =
        IF h.p.start.at = "refresh" /\ h.p.start.op = o THEN AskForUser(h) ELSE h
  BY <1>1, <1>4 DEF Finish
<1>6. CASE h.p.start.at = "refresh" /\ h.p.start.op = o
  BY <1>4, <1>5, <1>6, AskServes
<1>7. CASE ~(h.p.start.at = "refresh" /\ h.p.start.op = o)
  BY <1>4, <1>5, <1>7 DEF Served
<1> QED BY <1>6, <1>7

-----------------------------------------------------------------------------
(* Steps.                                                                  *)

LEMMA WaitersStep ==
  ASSUME Client, Waiters, NEW t \in Tabs, Served(page'[t], Mine(t)'), LockInUse',
         \A u \in Tabs \ {t} : page'[u] = page[u],
         \A o \in OpIds : ops[o] # None /\ ops[o].tab # t
           => ops'[o] # None /\ ops'[o].tab = ops[o].tab
  PROVE  Waiters'
<1> SUFFICES ASSUME NEW u \in Tabs PROVE Served(page'[u], Mine(u)')
  BY DEF Waiters, Served
<1>1. CASE u = t
  BY <1>1
<1>2. CASE u # t
  <2>1. Mine(u) \subseteq Mine(u)'
    BY <1>2 DEF Mine
  <2> QED BY <1>2, <2>1 DEF Waiters, Served
<1> QED BY <1>1, <1>2

\* A step of a tab alone.
LEMMA WaitersAlone ==
  ASSUME Client, Waiters, NEW t \in Tabs, NEW n, Become(t, n), Served(n.p, Mine(t)),
         UNCHANGED <<ops, lock>>
  PROVE  Waiters'
<1>1. page'[t] = n.p /\ \A u \in Tabs \ {t} : page'[u] = page[u]
  BY DEF Become, Client
<1>2. Mine(t)' = Mine(t) /\ LockInUse'
  BY DEF Mine, Waiters, LockInUse
<1> QED BY <1>1, <1>2, WaitersStep

\* A step that no tab notices, and that leaves the refreshes where they are.
LEMMA WaitersUnmoved ==
  ASSUME Waiters, UNCHANGED page, LockInUse',
         \A o \in OpIds : ops[o] # None => ops'[o] # None /\ ops'[o].tab = ops[o].tab
  PROVE  Waiters'
<1> SUFFICES ASSUME NEW u \in Tabs PROVE Served(page'[u], Mine(u)')
  BY DEF Waiters, Served
<1>1. Mine(u) \subseteq Mine(u)'
  BY DEF Mine
<1> QED BY <1>1 DEF Waiters, Served

\* A tab ends a refresh of its own.
LEMMA WaitersEnded ==
  ASSUME Client, Server, Waiters, NEW t \in Tabs, NEW o \in OpIds, ops[o] # None, ops[o].tab = t,
         NEW n, Become(t, n), Served(n.p, Mine(t) \ {o}), Done(o)
  PROVE  Waiters'
<1>1. page'[t] = n.p /\ \A u \in Tabs \ {t} : page'[u] = page[u]
  BY DEF Become, Client
<1>2. ops'[o] = None /\ \A q \in OpIds : q # o => ops'[q] = ops[q]
  BY DEF Done, Server
<1>3. Mine(t)' = Mine(t) \ {o}
  BY <1>2 DEF Mine
<1>4. LockInUse'
  <2>1. lock' # 0 => lock' = lock /\ lock # o /\ lock \in OpIds
    BY DEF Done, Server, Op
  <2> QED BY <1>2, <2>1 DEF Waiters, LockInUse
<1> QED BY <1>1, <1>2, <1>3, <1>4, WaitersStep

\* A refresh is new in the list.
LEMMA WaitersBegun ==
  ASSUME Client, Server, Waiters, NEW t \in Tabs, NEW o \in OpIds, ops[o] = None,
         NEW request \in Maybe, NEW before \in Maybe, NEW n, Become(t, n),
         Served(n.p, Mine(t) \cup {o}), UNCHANGED lock,
         ops' = [ops EXCEPT ![o] =
           [tab |-> t, at |-> "queued", request |-> request, before |-> before,
            cookie |-> None, answer |-> None, version |-> 2]]
  PROVE  Waiters'
<1>1. PICK new \in Refreshing :
        /\ new = [tab |-> t, at |-> "queued", request |-> request, before |-> before,
                  cookie |-> None, answer |-> None, version |-> 2]
        /\ new.tab = t
  <2> DEFINE r == [tab |-> t, at |-> "queued", request |-> request, before |-> before,
                   cookie |-> None, answer |-> None, version |-> 2]
  <2>1. r \in Refreshing /\ r.tab = t
    BY DEF Refreshing, Maybe
  <2> QED BY <2>1
<1>2. new # None
  BY SessionsAssumption
<1>3. ops'[o] = new /\ \A q \in OpIds : q # o => ops'[q] = ops[q]
  BY <1>1 DEF Server
<1>4. page'[t] = n.p /\ \A u \in Tabs \ {t} : page'[u] = page[u]
  BY DEF Become, Client
<1>5. Mine(t)' = Mine(t) \cup {o}
  BY <1>1, <1>2, <1>3 DEF Mine
<1>6. LockInUse'
  BY <1>3 DEF Waiters, LockInUse, Server, Op
<1> QED BY <1>3, <1>4, <1>5, <1>6, WaitersStep

\* Who asks for a refresh waits for the one in flight, or for a new one.
LEMMA StartRefreshServes ==
  ASSUME Client, Server, Waiters, NEW t \in Tabs, NEW w, Sound(w), w.p.flight = page[t].flight,
         w.p.start.at = "refresh", w.p.call = page[t].call, w.p.prom = page[t].prom,
         NEW request \in Maybe, Refresh(w, t, "start", request), UNCHANGED lock
  PROVE  Waiters'
<1>0. w.p.flight # 0 => w.p.flight \in Mine(t)
  BY DEF Client, Flying, Mine, Sound, Worlds, Page, Op
<1>1. ASSUME NEW o, NEW L, o \in L, Mine(t) \subseteq L, NEW n,
             n.p.start.at = "refresh", n.p.start.op = o, n.p.call = w.p.call, n.p.prom = w.p.prom
      PROVE  Served(n.p, L)
  <2>1. Served(page[t], Mine(t))
    BY DEF Waiters
  <2> QED BY <1>1, <2>1 DEF Served
<1>2. CASE w.p.flight # 0
  <2> DEFINE n == [w EXCEPT !.p["start"].op = w.p.flight]
  <2>1. /\ n.p.start.at = "refresh" /\ n.p.start.op = w.p.flight
        /\ n.p.call = w.p.call /\ n.p.prom = w.p.prom
    BY DEF Sound, Worlds, Page, Request
  <2>2. Become(t, n) /\ UNCHANGED ops
    BY <1>2 DEF Refresh
  <2> HIDE DEF n
  <2>3. Served(n.p, Mine(t))
    BY <1>0, <1>1, <1>2, <2>1
  <2> QED BY <2>2, <2>3, WaitersAlone
<1>3. CASE w.p.flight = 0
  <2>1. PICK before \in Maybe : before = IF request # None THEN request ELSE w.d.store
    BY DEF Sound, Worlds, Disk
  <2>2. PICK o \in OpIds :
          /\ ops[o] = None
          /\ ops' = [ops EXCEPT ![o] =
               [tab |-> t, at |-> "queued", request |-> request, before |-> before,
                cookie |-> None, answer |-> None, version |-> 2]]
          /\ Become(t, [w EXCEPT !.p["start"].op = o, !.p.flight = o])
    BY <1>3, <2>1 DEF Refresh
  <2> DEFINE n == [w EXCEPT !.p["start"].op = o, !.p.flight = o]
  <2>3. /\ n.p.start.at = "refresh" /\ n.p.start.op = o
        /\ n.p.call = w.p.call /\ n.p.prom = w.p.prom
    BY DEF Sound, Worlds, Page, Request
  <2>4. Become(t, n)
    BY <2>2
  <2> HIDE DEF n
  <2>5. Served(n.p, Mine(t) \cup {o})
    BY <1>1, <2>3
  <2> QED BY <2>2, <2>4, <2>5, WaitersBegun
<1> QED BY <1>2, <1>3

LEMMA PromiseRefreshServes ==
  ASSUME Client, Server, Waiters, NEW t \in Tabs, NEW w, Sound(w), w.p.flight = page[t].flight,
         w.p.prom.at \in {"first", "second"},
         w.p.start.at = "refresh" => w.p.start.op \in Mine(t),
         NEW request \in Maybe, Refresh(w, t, "prom", request), UNCHANGED lock
  PROVE  Waiters'
<1>0. w.p.flight # 0 => w.p.flight \in Mine(t)
  BY DEF Client, Flying, Mine, Sound, Worlds, Page, Op
<1>1. ASSUME NEW o, NEW L, o \in L, Mine(t) \subseteq L, NEW n,
             n.p.prom.at = w.p.prom.at, n.p.prom.op = o, n.p.call = w.p.call, n.p.start = w.p.start
      PROVE  Served(n.p, L)
  BY <1>1 DEF Served
<1>2. CASE w.p.flight # 0
  <2> DEFINE n == [w EXCEPT !.p["prom"].op = w.p.flight]
  <2>1. /\ n.p.prom.at = w.p.prom.at /\ n.p.prom.op = w.p.flight
        /\ n.p.call = w.p.call /\ n.p.start = w.p.start
    BY DEF Sound, Worlds, Page, Promise
  <2>2. Become(t, n) /\ UNCHANGED ops
    BY <1>2 DEF Refresh
  <2> HIDE DEF n
  <2>3. Served(n.p, Mine(t))
    BY <1>0, <1>1, <1>2, <2>1
  <2> QED BY <2>2, <2>3, WaitersAlone
<1>3. CASE w.p.flight = 0
  <2>1. PICK before \in Maybe : before = IF request # None THEN request ELSE w.d.store
    BY DEF Sound, Worlds, Disk
  <2>2. PICK o \in OpIds :
          /\ ops[o] = None
          /\ ops' = [ops EXCEPT ![o] =
               [tab |-> t, at |-> "queued", request |-> request, before |-> before,
                cookie |-> None, answer |-> None, version |-> 2]]
          /\ Become(t, [w EXCEPT !.p["prom"].op = o, !.p.flight = o])
    BY <1>3, <2>1 DEF Refresh
  <2> DEFINE n == [w EXCEPT !.p["prom"].op = o, !.p.flight = o]
  <2>3. /\ n.p.prom.at = w.p.prom.at /\ n.p.prom.op = o
        /\ n.p.call = w.p.call /\ n.p.start = w.p.start
    BY DEF Sound, Worlds, Page, Promise
  <2>4. Become(t, n)
    BY <2>2
  <2> HIDE DEF n
  <2>5. Served(n.p, Mine(t) \cup {o})
    BY <1>1, <2>3
  <2> QED BY <2>2, <2>4, <2>5, WaitersBegun
<1> QED BY <1>2, <1>3

\* What is known of a tab at work.
LEMMA WaitersWork ==
  ASSUME Inv, Waiters, NEW t \in Tabs
  PROVE  \E w : /\ w = World(t) /\ Sound(w) /\ w.p = page[t] /\ w.d = disk
               /\ Served(w.p, Mine(t)) /\ Client /\ Server
  BY Work DEF Inv, Waiters

LEMMA PrepareServes ==
  ASSUME Inv, Waiters, NEW t \in Tabs, Prepare(t)
  PROVE  Waiters'
<1>1. PICK w : /\ w = World(t) /\ Sound(w) /\ w.p = page[t] /\ w.d = disk
               /\ Served(w.p, Mine(t)) /\ Client /\ Server
  BY WaitersWork
<1>2. UNCHANGED lock
  BY DEF Prepare
<1>3. CASE Held(w) = None
  <2> DEFINE v == [w EXCEPT !.p.start.at = "refresh"]
  <2>1. w.p.saved = None /\ w.p.start.at = "info"
    BY <1>1, <1>3, Holds DEF Prepare
  <2>2. w.p.flight = 0
    BY <1>1, <2>1 DEF Sound, Fit
  <2>3. v \in Worlds /\ v.p.flight = w.p.flight /\ v.p.start.at = "refresh" /\ v.p.login = w.p.login
        /\ v.p.call = w.p.call /\ v.p.prom = w.p.prom
    BY <1>1 DEF Sound, Worlds, Page, Request
  <2>4. Refresh(v, t, "start", None)
    BY <1>1, <1>3 DEF Prepare
  <2> HIDE DEF v
  <2>5. Sound(v)
    BY <1>1, <2>2, <2>3 DEF Sound, Fit, Owned
  <2>6. None \in Maybe
    BY DEF Maybe
  <2> QED BY <1>1, <1>2, <2>3, <2>4, <2>5, <2>6, StartRefreshServes
<1>4. CASE Held(w) # None
  <2>1. Become(t, Send(w, "start")) /\ UNCHANGED ops
    BY <1>1, <1>4 DEF Prepare
  <2>2. Served(Send(w, "start").p, Mine(t))
    BY <1>1, SendServes
  <2> QED BY <1>1, <1>2, <2>1, <2>2, WaitersAlone
<1> QED BY <1>3, <1>4

LEMMA CallServes ==
  ASSUME Inv, Waiters, NEW t \in Tabs, Call(t)
  PROVE  Waiters'
<1>1. PICK w : /\ w = World(t) /\ Sound(w) /\ w.p = page[t] /\ w.d = disk
               /\ Served(w.p, Mine(t)) /\ Client /\ Server
  BY WaitersWork
<1>2. Become(t, Send(w, "call")) /\ UNCHANGED <<ops, lock>>
  BY <1>1 DEF Call
<1>3. Served(Send(w, "call").p, Mine(t))
  BY <1>1, SendServes
<1> QED BY <1>1, <1>2, <1>3, WaitersAlone

\* A request waits, for the promise that is there or for a new one.
LEMMA InterceptServes ==
  ASSUME Inv, Waiters, NEW t \in Tabs, NEW w, Leads(World(t), w, t), w.p.flight = page[t].flight,
         w.p.prom = page[t].prom,
         w.p.start.at = "refresh" => w.p.start.op \in Mine(t),
         NEW token \in Token,
         \/ /\ w.p.prom.at # "idle" /\ Become(t, w) /\ UNCHANGED ops
         \/ Refresh([w EXCEPT !.p.prom.at = "first", !.p.prom.token = token], t, "prom", token),
         UNCHANGED lock
  PROVE  Waiters'
<1>1. /\ Sound(w) /\ Client /\ Server /\ Served(page[t], Mine(t))
  BY DEF Leads, Inv, Waiters
<1>2. CASE w.p.prom.at # "idle" /\ Become(t, w) /\ UNCHANGED ops
  <2>1. Served(w.p, Mine(t))
    BY <1>1, <1>2 DEF Served
  <2> QED BY <1>1, <1>2, <2>1, WaitersAlone
<1>3. CASE Refresh([w EXCEPT !.p.prom.at = "first", !.p.prom.token = token], t, "prom", token)
  <2> DEFINE v == [w EXCEPT !.p.prom.at = "first", !.p.prom.token = token]
  <2>1. token \in Maybe
    BY DEF Maybe
  <2>2. /\ v \in Worlds /\ v.p.flight = w.p.flight /\ v.p.prom.at = "first" /\ v.p.login = w.p.login
        /\ v.p.call = w.p.call /\ v.p.start = w.p.start /\ v.p.saved = w.p.saved
        /\ v.p.prom.token = token
    BY <1>1, <2>1 DEF Sound, Worlds, Page, Promise
  <2>3. Refresh(v, t, "prom", token)
    BY <1>3
  <2> HIDE DEF v
  <2>4. Sound(v)
    BY <1>1, <2>2 DEF Sound, Fit
  <2> QED BY <1>1, <2>1, <2>2, <2>3, <2>4, PromiseRefreshServes
<1> QED BY <1>2, <1>3

LEMMA AnsweredServes ==
  ASSUME Inv, Waiters, NEW t \in Tabs, NEW k \in Callers, Answered(t, k)
  PROVE  Waiters'
<1>1. PICK w : /\ w = World(t) /\ Sound(w) /\ w.p = page[t] /\ w.d = disk
               /\ Served(w.p, Mine(t)) /\ Client /\ Server
  BY WaitersWork
<1>2. UNCHANGED lock /\ w.p[k].at \in {"sent", "resent"}
  BY <1>1 DEF Answered
<1>3. ASSUME NEW n, Become(t, n), UNCHANGED ops, Served(n.p, Mine(t)) PROVE Waiters'
  BY <1>1, <1>2, <1>3, WaitersAlone
<1>4. CASE /\ k = "start" /\ Become(t, Started(w, page[t].start.token.who)) /\ UNCHANGED ops
  BY <1>1, <1>3, <1>4, StartedServes
<1>5. CASE k = "call" /\ Become(t, [w EXCEPT !.p.call = IdleCall]) /\ UNCHANGED ops
  BY <1>1, <1>3, <1>5, CallEndServes
<1>6. CASE Become(t, Reject(w, t, k)) /\ UNCHANGED ops
  BY <1>1, <1>2, <1>3, <1>6, RejectServes DEF Callers
<1>7. CASE /\ w.p[k].at = "sent" /\ StillOwned(w, w.p[k])
           /\ LET waiting == [w EXCEPT !.p[k].at = "waiting", !.p.saved = Held(w)] IN
              IF w.p.prom.at # "idle"
              THEN Become(t, waiting) /\ UNCHANGED ops
              ELSE Refresh([waiting EXCEPT !.p.prom.at = "first",
                                           !.p.prom.token = w.p[k].token],
                           t, "prom", w.p[k].token)
  <2>1. PICK token \in Token : token = w.p[k].token
    BY <1>1, <1>7 DEF Sound, Fit, Owned, Callers
  <2>2. PICK n : /\ n = [w EXCEPT !.p[k].at = "waiting", !.p.saved = Held(w)]
                 /\ Leads(w, n, t) /\ n.p.prom = w.p.prom /\ n.p.flight = w.p.flight
                 /\ n.p.start.at = "refresh" => n.p.start = w.p.start
    <3>1. CASE k = "call"
      <4> DEFINE n == [w EXCEPT !.p["call"].at = "waiting", !.p.saved = Held(w)]
      <4>1. Leads(w, n, t) /\ n.p.prom = w.p.prom
        BY <1>1, <1>7, <3>1, Waits
      <4>2. n.p.flight = w.p.flight /\ n.p.start = w.p.start
        BY <1>1 DEF Sound, Worlds, Page
      <4> QED BY <3>1, <4>1, <4>2
    <3>2. CASE k = "start"
      <4> DEFINE n == [w EXCEPT !.p["start"].at = "waiting", !.p.saved = Held(w)]
      <4>1. Leads(w, n, t) /\ n.p.prom = w.p.prom
        BY <1>1, <1>7, <3>2, Waits
      <4>2. n.p.flight = w.p.flight /\ n.p.start.at = "waiting"
        BY <1>1 DEF Sound, Worlds, Page, Request
      <4> QED BY <3>2, <4>1, <4>2
    <3> QED BY <3>1, <3>2 DEF Callers
  <2>3. n.p.start.at = "refresh" => n.p.start.op \in Mine(t)
    BY <1>1, <2>2 DEF Served
  <2>4. \/ /\ n.p.prom.at # "idle" /\ Become(t, n) /\ UNCHANGED ops
        \/ Refresh([n EXCEPT !.p.prom.at = "first", !.p.prom.token = token], t, "prom", token)
    BY <1>7, <2>1, <2>2
  <2>5. Leads(World(t), n, t) /\ n.p.flight = page[t].flight /\ n.p.prom = page[t].prom
    BY <1>1, <2>2
  <2> QED BY <1>2, <2>3, <2>4, <2>5, InterceptServes
<1> QED BY <1>1, <1>4, <1>5, <1>6, <1>7 DEF Answered, Callers

LEMMA RefreshAgainServes ==
  ASSUME Inv, Waiters, NEW t \in Tabs, RefreshAgain(t)
  PROVE  Waiters'
<1>1. PICK w : /\ w = World(t) /\ Sound(w) /\ w.p = page[t] /\ w.d = disk
               /\ Served(w.p, Mine(t)) /\ Client /\ Server
  BY WaitersWork
<1>2. UNCHANGED lock /\ w.p.prom.at = "sleep"
  BY <1>1 DEF RefreshAgain
<1>3. CASE Become(t, Settle(w, t, None)) /\ UNCHANGED ops
  <2>1. Served(Settle(w, t, None).p, Mine(t))
    BY <1>1, SettleServes
  <2> QED BY <1>1, <1>2, <1>3, <2>1, WaitersAlone
<1>4. CASE /\ Who(Held(w)) = Who(w.p.prom.token)
           /\ Refresh([w EXCEPT !.p.saved = Held(w), !.p.prom.at = "second"],
                      t, "prom", w.p.prom.token)
  <2> DEFINE v == [w EXCEPT !.p.saved = Held(w), !.p.prom.at = "second"]
  <2>1. w.p.prom.token \in Token /\ w.p.prom.token \in Maybe
    BY <1>1, <1>2 DEF Sound, Fit, Maybe
  <2>2. Held(w) # None /\ Held(w) \in Maybe
    BY <1>1, <1>4, <2>1, Holds, Tokens
  <2>3. /\ v \in Worlds /\ v.p.flight = w.p.flight /\ v.p.prom.at = "second" /\ v.p.login = w.p.login
        /\ v.p.call = w.p.call /\ v.p.start = w.p.start /\ v.p.saved = Held(w)
        /\ v.p.prom.token = w.p.prom.token
    BY <1>1, <2>2 DEF Sound, Worlds, Page, Promise
  <2>4. Refresh(v, t, "prom", w.p.prom.token)
    BY <1>4
  <2> HIDE DEF v
  <2>5. Sound(v)
    BY <1>1, <2>1, <2>2, <2>3 DEF Sound, Fit
  <2>6. v.p.start.at = "refresh" => v.p.start.op \in Mine(t)
    BY <1>1, <2>3 DEF Served
  <2> QED BY <1>1, <1>2, <2>1, <2>3, <2>4, <2>5, <2>6, PromiseRefreshServes
<1> QED BY <1>1, <1>3, <1>4 DEF RefreshAgain

LEMMA StorageChangedServes ==
  ASSUME Inv, Waiters, NEW t \in Tabs, StorageChanged(t)
  PROVE  Waiters'
<1>1. PICK w : /\ w = World(t) /\ Sound(w) /\ w.p = page[t] /\ w.d = disk
               /\ Served(w.p, Mine(t)) /\ Client /\ Server
  BY WaitersWork
<1>2. UNCHANGED <<ops, lock>> /\ disk.mail[t] # <<>>
  BY DEF StorageChanged
<1>3. disk \in Disk /\ disk.mail[t] \in Seq(Maybe)
  BY <1>1 DEF Sound, Worlds, Disk
<1>4. Tail(disk.mail[t]) \in Seq(Maybe) /\ Head(disk.mail[t]) \in Maybe
  BY <1>2, <1>3, HeadTailProperties
<1>5. PICK d \in Disk : d = [disk EXCEPT !.mail[t] = Tail(@)]
  BY <1>3, <1>4 DEF Disk
<1>6. PICK v : v = [p |-> page[t], d |-> d] /\ Sound(v) /\ v.p = page[t]
  <2>1. [p |-> page[t], d |-> d] \in Worlds /\ Fit(page[t])
    BY <1>1 DEF Sound, Worlds
  <2> QED BY <2>1 DEF Sound
<1>7. PICK r : r = Turn(v) /\ Sound(r) /\ Served(r.p, Mine(t))
  <2>1. Sound(Turn(v))
    BY <1>6, Turns DEF Leads
  <2>2. Served(v.p, Mine(t))
    BY <1>1, <1>6
  <2> QED BY <1>6, <2>1, <2>2, TurnServes
<1>8. PICK token \in Maybe : token = Head(disk.mail[t])
  BY <1>4
<1>9. PICK f \in Worlds : f = SaveToken(r, t, token, FALSE) /\ Served(f.p, Mine(t))
  <2> DEFINE other == Who(Held(r)) # Who(token)
             f == [r EXCEPT !.p.saved = token, !.p.flight = IF other THEN 0 ELSE @]
  <2>1. f \in Worlds
    BY <1>7 DEF Sound, Worlds, Page, Op
  <2>2. SaveToken(r, t, token, FALSE) = f
    BY DEF SaveToken
  <2>3. Served(SaveToken(r, t, token, FALSE).p, Mine(t))
    BY <1>7, SaveServes
  <2> QED BY <2>1, <2>2, <2>3
<1>10. PICK n : /\ Become(t, n)
                /\ \/ n = SignedOut(r, t) \/ n = f
                   \/ n = [f EXCEPT !.p.status = "loading",
                              !.p.start = [IdleCall EXCEPT !.at = "info", !.own = TRUE]]
  <2>1. Become(t, CASE token = None -> SignedOut(r, t)
                  [] token # None /\ Who(Held(r)) = Who(token) -> f
                  [] OTHER -> [f EXCEPT !.p.status = "loading",
                       !.p.start = [IdleCall EXCEPT !.at = "info", !.own = TRUE]])
    BY <1>5, <1>6, <1>7, <1>8, <1>9 DEF StorageChanged
  <2> QED BY <2>1
<1>11. CASE n = SignedOut(r, t)
  <2>1. Served(n.p, Mine(t))
    BY <1>7, <1>11, SignedOutAlike DEF Served
  <2> QED BY <1>1, <1>2, <1>10, <2>1, WaitersAlone
<1>12. CASE n = f
  BY <1>1, <1>2, <1>9, <1>10, <1>12, WaitersAlone
<1>13. CASE n = [f EXCEPT !.p.status = "loading",
                    !.p.start = [IdleCall EXCEPT !.at = "info", !.own = TRUE]]
  <2>1. PICK c : c = [IdleCall EXCEPT !.at = "info", !.own = TRUE] /\ c.at = "info"
    <3> DEFINE x == [IdleCall EXCEPT !.at = "info", !.own = TRUE]
    <3>1. x.at = "info"
      BY DEF IdleCall
    <3> HIDE DEF x
    <3> QED BY <3>1 DEF x
  <2>2. n.p.start = c /\ n.p.call = f.p.call /\ n.p.prom = f.p.prom
    <3>1. n = [f EXCEPT !.p.status = "loading", !.p.start = c]
      BY <1>13, <2>1
    <3> QED BY <3>1 DEF Worlds, Page
  <2>3. Served(n.p, Mine(t))
    BY <1>9, <2>1, <2>2 DEF Served
  <2> QED BY <1>1, <1>2, <1>10, <2>3, WaitersAlone
<1> QED BY <1>10, <1>11, <1>12, <1>13

LEMMA LoginsServe ==
  ASSUME Inv, Waiters, NEW t \in Tabs, CreateSession(t) \/ \E who \in Users : Login(t, who)
  PROVE  Waiters'
<1>1. Client /\ page[t] \in Page /\ Served(page[t], Mine(t)) /\ UNCHANGED <<ops, lock>>
  BY DEF Inv, Client, Waiters, CreateSession, Login
<1>2. /\ page'[t].start = page[t].start /\ page'[t].call = page[t].call
      /\ page'[t].prom = page[t].prom /\ \A u \in Tabs \ {t} : page'[u] = page[u]
  <2>1. CASE CreateSession(t)
    BY <1>1, <2>1 DEF CreateSession, Client, Page
  <2>2. ASSUME NEW who \in Users, Login(t, who)
        PROVE  /\ page'[t].start = page[t].start /\ page'[t].call = page[t].call
               /\ page'[t].prom = page[t].prom /\ \A u \in Tabs \ {t} : page'[u] = page[u]
    BY <1>1, <2>2 DEF Login, Client, Page
  <2> QED BY <2>1, <2>2
<1>3. Mine(t)' = Mine(t) /\ LockInUse'
  BY <1>1 DEF Mine, Waiters, LockInUse
<1>4. Served(page'[t], Mine(t)')
  BY <1>1, <1>2, <1>3 DEF Served
<1> QED BY <1>1, <1>2, <1>3, <1>4, WaitersStep

LEMMA AcceptIdentityServes ==
  ASSUME Inv, Waiters, NEW t \in Tabs, AcceptIdentity(t)
  PROVE  Waiters'
<1>1. PICK w : /\ w = World(t) /\ Sound(w) /\ w.p = page[t] /\ w.d = disk
               /\ Served(w.p, Mine(t)) /\ Client /\ Server
  BY WaitersWork
<1>2. UNCHANGED <<ops, lock>> /\ w.p.login.at = "identity"
  BY <1>1 DEF AcceptIdentity
<1>3. CASE Become(t, [w EXCEPT !.p.login = NoLogin])
  <2> DEFINE n == [w EXCEPT !.p.login = NoLogin]
  <2>1. n.p.start = w.p.start /\ n.p.call = w.p.call /\ n.p.prom = w.p.prom
    BY <1>1 DEF Sound, Worlds, Page
  <2> HIDE DEF n
  <2>2. Served(n.p, Mine(t))
    BY <1>1, <2>1 DEF Served
  <2> QED BY <1>1, <1>2, <1>3, <2>2, WaitersAlone DEF n
<1>4. CASE Become(t, SaveToken([w EXCEPT !.p.login = NoLogin, !.p.user = w.p.login.who,
                                        !.p.status = "authenticated"],
                              t, w.p.login.token, TRUE))
  <2> DEFINE n == [w EXCEPT !.p.login = NoLogin, !.p.user = w.p.login.who,
                            !.p.status = "authenticated"]
  <2>1. w.p.login.who \in Somebody
    BY <1>1 DEF Sound, Worlds, Page, Entry
  <2>2. /\ n \in Worlds /\ n.p.start = w.p.start /\ n.p.call = w.p.call /\ n.p.prom = w.p.prom
        /\ n.p.saved = w.p.saved /\ n.p.flight = w.p.flight /\ n.p.login = NoLogin
    BY <1>1, <2>1, Idles DEF Sound, Worlds, Page
  <2>3. Become(t, SaveToken(n, t, w.p.login.token, TRUE))
    BY <1>4
  <2> HIDE DEF n
  <2>4. Sound(n) /\ Served(n.p, Mine(t))
    BY <1>1, <2>2, Idles DEF Sound, Fit, Served
  <2>5. Served(SaveToken(n, t, w.p.login.token, TRUE).p, Mine(t))
    BY <2>4, SaveServes
  <2> QED BY <1>1, <1>2, <2>3, <2>5, WaitersAlone
<1> QED BY <1>1, <1>3, <1>4 DEF AcceptIdentity

LEMMA LogoutServes ==
  ASSUME Inv, Waiters, NEW t \in Tabs, Logout(t)
  PROVE  Waiters'
<1>1. PICK w : /\ w = World(t) /\ Sound(w) /\ w.p = page[t] /\ w.d = disk
               /\ Served(w.p, Mine(t)) /\ Client /\ Server
  BY WaitersWork
<1>2. UNCHANGED <<ops, lock>> /\ Become(t, SignedOut(Turn(w), t))
  BY <1>1 DEF Logout
<1>3. Sound(Turn(w)) /\ Served(Turn(w).p, Mine(t))
  BY <1>1, Turns, TurnServes DEF Leads
<1>4. Served(SignedOut(Turn(w), t).p, Mine(t))
  BY <1>3, SignedOutAlike DEF Served
<1> QED BY <1>1, <1>2, <1>4, WaitersAlone

LEMMA EnterServes ==
  ASSUME Inv, Waiters, NEW o \in OpIds, Enter(o)
  PROVE  Waiters'
<1>1. ops[o] \in Refreshing /\ ops[o] # None /\ MayEnter
  BY DEF Inv, Server, Enter
<1>2. PICK t \in Tabs : t = ops[o].tab
  BY <1>1 DEF Refreshing
<1>3. PICK w : /\ w = World(t) /\ Sound(w) /\ w.p = page[t] /\ w.d = disk
               /\ Served(w.p, Mine(t)) /\ Client /\ Server
  BY WaitersWork
<1>4. ASSUME NEW v, Sound(v), Served(v.p, Mine(t)), NEW ok \in BOOLEAN,
             Become(t, Finish(v, t, o, ok)), Done(o)
      PROVE  Waiters'
  <2>1. Served(Finish(v, t, o, ok).p, Mine(t) \ {o})
    BY <1>4, FinishServes
  <2> QED BY <1>1, <1>2, <1>3, <1>4, <2>1, WaitersEnded
<1>5. CASE Become(t, Finish(w, t, o, TRUE)) /\ Done(o)
  BY <1>3, <1>4, <1>5
<1>6. CASE Become(t, Finish(w, t, o, FALSE)) /\ Done(o)
  BY <1>3, <1>4, <1>6
<1>7. CASE Renewed(o) /\ Become(t, Finish([w EXCEPT !.p.saved = disk.store], t, o, TRUE)) /\ Done(o)
  <2> DEFINE v == [w EXCEPT !.p.saved = disk.store]
  <2>1. disk.store \in Maybe /\ disk.store # None
    BY <1>3, <1>7 DEF Renewed, Sound, Worlds, Disk
  <2>2. /\ v \in Worlds /\ v.p.start = w.p.start /\ v.p.call = w.p.call /\ v.p.prom = w.p.prom
        /\ v.p.saved = disk.store /\ v.p.flight = w.p.flight /\ v.p.login = w.p.login
    BY <1>3, <2>1 DEF Sound, Worlds, Page
  <2>3. Become(t, Finish(v, t, o, TRUE)) /\ Done(o)
    BY <1>7
  <2> HIDE DEF v
  <2>4. Sound(v) /\ Served(v.p, Mine(t))
    BY <1>3, <2>1, <2>2 DEF Sound, Fit, Served
  <2> QED BY <1>4, <2>3, <2>4
<1>8. CASE /\ ops' = [ops EXCEPT ![o].at = "sent", ![o].cookie = jar]
           /\ lock' = IF Locks THEN o ELSE 0
           /\ UNCHANGED <<page, disk>>
  <2>1. PICK new \in Refreshing :
          /\ new = [ops[o] EXCEPT !.at = "sent", !.cookie = jar]
          /\ new.tab = ops[o].tab /\ new.at = "sent"
    <3> DEFINE r == [ops[o] EXCEPT !.at = "sent", !.cookie = jar]
    <3>1. r \in Refreshing /\ r.tab = ops[o].tab /\ r.at = "sent"
      BY <1>1, <1>3 DEF Refreshing, Server
    <3> QED BY <3>1
  <2>2. ops'[o] = new /\ new # None /\ \A q \in OpIds : q # o => ops'[q] = ops[q]
    BY <1>1, <1>3, <1>8, <2>1, SessionsAssumption DEF Server
  <2>3. LockInUse'
    BY <1>8, <2>1, <2>2 DEF LockInUse
  <2> QED BY <1>8, <2>1, <2>2, <2>3, WaitersUnmoved
<1> QED BY <1>2, <1>3, <1>5, <1>6, <1>7, <1>8 DEF Enter

LEMMA RefreshSessionServes ==
  ASSUME Inv, Waiters, NEW o \in OpIds, RefreshSession(o)
  PROVE  Waiters'
<1>1. Server /\ UNCHANGED <<page, lock>>
  BY DEF Inv, RefreshSession
<1>2. /\ ops'[o] # None /\ ops'[o].tab = ops[o].tab /\ ops'[o].at = "answered"
      /\ \A q \in OpIds : q # o => ops'[q] = ops[q]
  BY RefreshSessionKeeps
<1>3. LockInUse'
  BY <1>1, <1>2 DEF Waiters, LockInUse, Server, Op
<1> QED BY <1>1, <1>2, <1>3, WaitersUnmoved

LEMMA ReturnServes ==
  ASSUME Inv, Waiters, NEW o \in OpIds, Return(o)
  PROVE  Waiters'
<1>1. /\ ops[o] \in Refreshing /\ ops[o] # None
      /\ jar \in Cookie \cup {None}
  BY DEF Inv, Server, Return
<1>2. PICK t \in Tabs : t = ops[o].tab
  BY <1>1 DEF Refreshing
<1>3. PICK w : /\ w = World(t) /\ Sound(w) /\ w.p = page[t] /\ w.d = disk
               /\ Served(w.p, Mine(t)) /\ Client /\ Server
  BY WaitersWork
<1>4. ASSUME NEW v, Sound(v), Served(v.p, Mine(t)), NEW ok \in BOOLEAN,
             Become(t, Finish(v, t, o, ok)), Done(o)
      PROVE  Waiters'
  <2>1. Served(Finish(v, t, o, ok).p, Mine(t) \ {o})
    BY <1>4, FinishServes
  <2> QED BY <1>1, <1>2, <1>3, <1>4, <2>1, WaitersEnded
<1>5. CASE /\ ops[o].answer # None
           /\ Become(t, Finish(KeepIfCurrent(w, t, o), t, o, TRUE))
           /\ Done(o)
  <2>1. PICK token \in Token : token = ops[o].answer
    BY <1>1, <1>5 DEF Refreshing
  <2>2. Sound(SaveToken(w, t, token, TRUE)) /\ Served(SaveToken(w, t, token, TRUE).p, Mine(t))
    BY <1>3, SavesToken, SaveServes DEF Leads
  <2>3. Sound(KeepIfCurrent(w, t, o)) /\ Served(KeepIfCurrent(w, t, o).p, Mine(t))
    BY <1>3, <2>1, <2>2 DEF KeepIfCurrent
  <2> QED BY <1>4, <1>5, <2>3
<1>6. CASE /\ ops' = [ops EXCEPT ![o].at = "sent", ![o].version = 1,
                                 ![o].cookie = jar, ![o].answer = None]
           /\ UNCHANGED <<page, disk, lock>>
  <2>1. PICK new \in Refreshing :
          /\ new = [ops[o] EXCEPT !.at = "sent", !.version = 1, !.cookie = jar, !.answer = None]
          /\ new.tab = ops[o].tab /\ new.at = "sent"
    <3> DEFINE r == [ops[o] EXCEPT !.at = "sent", !.version = 1, !.cookie = jar, !.answer = None]
    <3>1. r \in Refreshing /\ r.tab = ops[o].tab /\ r.at = "sent"
      <4>1. 1 \in 1 .. 2
        OBVIOUS
      <4> QED BY <1>1, <4>1 DEF Refreshing
    <3> QED BY <3>1
  <2>2. ops'[o] = new /\ new # None /\ \A q \in OpIds : q # o => ops'[q] = ops[q]
    BY <1>1, <1>3, <1>6, <2>1, SessionsAssumption DEF Server
  <2>3. LockInUse'
    BY <1>3, <1>6, <2>1, <2>2 DEF Waiters, LockInUse, Server, Op
  <2> QED BY <1>6, <2>1, <2>2, <2>3, WaitersUnmoved
<1>7. CASE Become(t, Finish(w, t, o, w.p.flight # o /\ ops[o].version = 2)) /\ Done(o)
  <2>1. (w.p.flight # o /\ ops[o].version = 2) \in BOOLEAN
    OBVIOUS
  <2> QED BY <1>3, <1>4, <1>7, <2>1
<1> QED BY <1>2, <1>3, <1>5, <1>6, <1>7 DEF Return

LEMMA LoadServes ==
  ASSUME Inv, Waiters, NEW t \in Tabs, Load(t)
  PROVE  Waiters'
<1>1. Client /\ Server
  BY DEF Inv
<1>2. /\ page'[t] = [Closed EXCEPT !.at = "starting", !.start = [IdleCall EXCEPT !.at = "info"]]
      /\ \A u \in Tabs \ {t} : page'[u] = page[u]
  BY <1>1 DEF Load, Client
<1>3. PICK c : c = [IdleCall EXCEPT !.at = "info"] /\ c.at = "info"
  <2> DEFINE x == [IdleCall EXCEPT !.at = "info"]
  <2>1. x.at = "info"
    BY DEF IdleCall
  <2> HIDE DEF x
  <2> QED BY <2>1 DEF x
<1>4. page'[t].start = c /\ page'[t].call = IdleCall /\ page'[t].prom = NoPromise
  <2>1. page'[t] = [Closed EXCEPT !.at = "starting", !.start = c]
    BY <1>2, <1>3
  <2> QED BY <2>1 DEF Closed
<1>5. Served(page'[t], Mine(t)')
  BY <1>3, <1>4, Idles DEF Served
<1>6. \A o \in OpIds : ops'[o] = IF ops[o] # None /\ ops[o].tab = t THEN None ELSE ops[o]
  BY DEF Load
<1>7. LockInUse'
  <2>1. lock' # 0 => lock' = lock /\ lock \in OpIds /\ ops[lock].tab # t
    BY <1>1 DEF Load, Server, Op
  <2> QED BY <1>6, <2>1 DEF Waiters, LockInUse
<1> QED BY <1>1, <1>2, <1>5, <1>6, <1>7, WaitersStep

LEMMA NextServes ==
  Inv /\ Waiters /\ [Next]_vars => Waiters'
<1> SUFFICES ASSUME Inv, Waiters, [Next]_vars PROVE Waiters'
  OBVIOUS
<1>1. ASSUME UNCHANGED <<page, ops, lock>> PROVE Waiters'
  BY <1>1 DEF Waiters, LockInUse, Served, Mine
<1>2. ASSUME NEW t \in Tabs,
             \/ Prepare(t) \/ Answered(t, "start") \/ Answered(t, "call")
             \/ RefreshAgain(t) \/ StorageChanged(t) \/ CreateSession(t) \/ AcceptIdentity(t)
      PROVE  Waiters'
  BY <1>2, PrepareServes, AnsweredServes, RefreshAgainServes, StorageChangedServes,
     LoginsServe, AcceptIdentityServes DEF Callers
<1>3. ASSUME NEW o \in OpIds, Enter(o) \/ RefreshSession(o) \/ Return(o)
      PROVE  Waiters'
  BY <1>3, EnterServes, RefreshSessionServes, ReturnServes
<1>4. ASSUME NEW t \in Tabs, Load(t) \/ Call(t) \/ Logout(t) \/ \E who \in Users : Login(t, who)
      PROVE  Waiters'
  BY <1>4, LoadServes, CallServes, LogoutServes, LoginsServe
<1>5. ASSUME NEW s \in DOMAIN rows, Expire(s)
      PROVE  Waiters'
  BY <1>1, <1>5 DEF Expire
<1>6. CASE UNCHANGED vars
  BY <1>1, <1>6 DEF vars
<1> QED BY <1>2, <1>3, <1>4, <1>5, <1>6 DEF Next, Progress

LEMMA InitServes ==
  Init => Waiters
<1> SUFFICES ASSUME Init PROVE Waiters
  OBVIOUS
<1>1. ASSUME NEW t \in Tabs
      PROVE  page[t].start = IdleCall /\ page[t].call = IdleCall /\ page[t].prom = NoPromise
  <2>1. \/ page = [u \in Tabs |-> [Closed EXCEPT !.at = "running", !.status = "anonymous"]]
        \/ \E who \in Users \cup {None} :
             page = [u \in Tabs |-> [Closed EXCEPT !.at = "running",
                       !.status = "authenticated", !.user = who,
                       !.saved = [who |-> who, sid |-> 1, gen |-> 0]]]
    BY DEF Init
  <2>2. CASE page = [u \in Tabs |-> [Closed EXCEPT !.at = "running", !.status = "anonymous"]]
    BY <1>1, <2>2 DEF Closed
  <2>3. ASSUME NEW who \in Users \cup {None},
               page = [u \in Tabs |-> [Closed EXCEPT !.at = "running",
                         !.status = "authenticated", !.user = who,
                         !.saved = [who |-> who, sid |-> 1, gen |-> 0]]]
        PROVE  page[t].start = IdleCall /\ page[t].call = IdleCall /\ page[t].prom = NoPromise
    BY <1>1, <2>3 DEF Closed
  <2> QED BY <2>1, <2>2, <2>3
<1>2. lock = 0
  BY DEF Init
<1> QED BY <1>1, <1>2, Idles DEF Waiters, LockInUse, Served

(* Whoever waits, waits for something that will come: a request for the    *)
(* promise its tab is about to settle (fetcher.ts, refreshPromise), that   *)
(* promise and the start of a page for a refresh of this very tab that is  *)
(* still in progress, never for one that has ended or belonged to a page   *)
(* that is gone (helpers/auth.ts, refreshInFlight).                        *)
THEOREM NobodyIsForgotten ==
  Spec => [](\A t \in Tabs :
               /\ \A k \in Callers : page[t][k].at = "waiting" => page[t].prom.at # "idle"
               /\ page[t].prom.at \in {"first", "second"} => page[t].prom.op \in Mine(t)
               /\ page[t].start.at = "refresh" => page[t].start.op \in Mine(t))
<1>1. Init => Waiters
  BY InitServes
<1>2. Inv /\ Waiters /\ [Next]_vars => Waiters'
  BY NextServes
<1>3. Waiters =>
        \A t \in Tabs :
          /\ \A k \in Callers : page[t][k].at = "waiting" => page[t].prom.at # "idle"
          /\ page[t].prom.at \in {"first", "second"} => page[t].prom.op \in Mine(t)
          /\ page[t].start.at = "refresh" => page[t].start.op \in Mine(t)
  BY DEF Waiters, Served, Callers
<1> QED BY <1>1, <1>2, <1>3, Invariance, PTL DEF Spec

(* The refreshes never all wait for each other (navigator.locks): while    *)
(* one is in progress in any tab, there is one that has left the queue and *)
(* goes on with the server's answer, or the lock is there to be taken - it *)
(* is not held by a refresh that has ended, nor by a page that is gone.    *)
THEOREM TheQueueMoves ==
  Spec => [](\A o \in OpIds : ops[o] # None =>
               \E q \in OpIds : ops[q] # None /\ (ops[q].at = "queued" => MayEnter))
<1>1. Init => Waiters
  BY InitServes
<1>2. Inv /\ Waiters /\ [Next]_vars => Waiters'
  BY NextServes
<1>3. Inv /\ Waiters =>
        \A o \in OpIds : ops[o] # None =>
          \E q \in OpIds : ops[q] # None /\ (ops[q].at = "queued" => MayEnter)
  <2> SUFFICES ASSUME Inv, Waiters, NEW o \in OpIds, ops[o] # None
               PROVE  \E q \in OpIds : ops[q] # None /\ (ops[q].at = "queued" => MayEnter)
    OBVIOUS
  <2>1. CASE lock = 0
    BY <2>1 DEF MayEnter
  <2>2. CASE lock # 0
    <3>1. lock \in OpIds /\ ops[lock] # None /\ ops[lock].at # "queued"
      BY <2>2 DEF Inv, Server, Op, Waiters, LockInUse
    <3> QED BY <3>1
  <2> QED BY <2>1, <2>2
<1> QED BY <1>1, <1>2, <1>3, Invariance, PTL DEF Spec

=============================================================================
