------------------------------ MODULE Realtime ------------------------------
(***************************************************************************)
(* The websocket hub of the server.  Every connection has two goroutines,  *)
(* ReadLoop and WriteLoop, a timer that gives the client a limited time to *)
(* authenticate, a bounded send buffer and one context the goroutines use  *)
(* to end each other.  The hub keeps the list of connections of every      *)
(* user behind a read-write lock; the event listeners walk such a list     *)
(* while they hold the lock for reading.                                   *)
(*                                                                         *)
(* Connection ids are used once each.  The websocket library and the       *)
(* browser at the other end are modelled from how the code uses them.      *)
(***************************************************************************)
EXTENDS Naturals, Sequences

CONSTANTS
    Conns,      \* connections
    Users,      \* users a token may name
    Topics,     \* the events a client may subscribe to, a listener for each
    BufSize,    \* sendBufSize
    NoUser      \* the user of a connection that is not authenticated

ASSUME ConstantsAssumption ==
    /\ BufSize \in Nat \ {0}
    /\ NoUser \notin Users

VARIABLES
    conn,   \* the connections
    hub,    \* the registered connections of every user, in order
    pub     \* what the listener of every topic is doing

vars == <<conn, hub, pub>>

Welcome == [kind |-> "auth.success"]
Failure == [kind |-> "error"]
EventOf(t, u) == [kind |-> "event", topic |-> t, user |-> u]
Message == {Welcome, Failure} \cup {EventOf(t, u) : t \in Topics, u \in Users}

\* Where ReadLoop is: waiting for a message, in the steps of handleAuth, in
\* those of its deferred function, or over.
ReadPcs == {"off", "read", "register", "welcome", "reject", "leave",
            "unregister", "close", "done"}
WritePcs == {"off", "select", "write", "done"}

\* "lost": the peer is gone and nobody noticed.
Sockets == {"open", "lost", "closed"}
Timers == {"off", "armed", "expired"}   \* "expired": about to close the socket

Connection == [read : ReadPcs, write : WritePcs, user : Users \cup {NoUser},
               subs : SUBSET Topics, send : Seq(Message), cancelled : BOOLEAN,
               ws : Sockets, timer : Timers]

NotConnected == [read |-> "off", write |-> "off", user |-> NoUser, subs |-> {},
                 send |-> <<>>, cancelled |-> FALSE, ws |-> "closed", timer |-> "off"]

\* The listener of a topic walks `conns`, the list of user `user`, at `next`;
\* it does so with the read lock, and does nothing when `busy` is FALSE.
Publication == [busy : BOOLEAN, user : Users \cup {NoUser},
                conns : Seq(Conns), next : Nat]
Silent == [busy |-> FALSE, user |-> NoUser, conns |-> <<>>, next |-> 1]

Members(s) == {s[i] : i \in DOMAIN s}

Init ==
    /\ conn = [c \in Conns |-> NotConnected]
    /\ hub = [u \in Users |-> <<>>]
    /\ pub = [t \in Topics |-> Silent]

-----------------------------------------------------------------------------
(* Connections *)

IsAuthenticated(c) == conn[c].user # NoUser

\* One goroutine or the timer of c changes the connection, not the hub.
Become(c, record) ==
    /\ conn' = [conn EXCEPT ![c] = record]
    /\ UNCHANGED <<hub, pub>>

\* A select with a default: a message for a full buffer is dropped.
Sent(record, m) ==
    IF Len(record.send) < BufSize
    THEN [record EXCEPT !.send = Append(@, m)]
    ELSE record

UpgradeHandler(c) ==
    /\ conn[c].read = "off"
    /\ Become(c, [NotConnected EXCEPT !.read = "read", !.write = "select",
                                      !.ws = "open", !.timer = "armed"])

\* What the other end does: it closes the socket or vanishes.
PeerCloses(c) ==
    /\ conn[c].ws = "open"
    /\ Become(c, [conn[c] EXCEPT !.ws = "closed"])

PeerVanishes(c) ==
    /\ conn[c].ws = "open"
    /\ Become(c, [conn[c] EXCEPT !.ws = "lost"])

(* ReadLoop *)

\* ws.Read returns a message of the client.
Receives(c) ==
    /\ conn[c].read = "read"
    /\ conn[c].ws = "open"

\* The library closes the socket when the context of a Read is cancelled.
ContextEndsRead(c) ==
    /\ conn[c].read = "read"
    /\ conn[c].cancelled
    /\ conn[c].ws # "closed"
    /\ Become(c, [conn[c] EXCEPT !.ws = "closed"])

\* ReadLoop returns.  Stopping a timer that has expired does not stop its function.
Leaving(record) ==
    [record EXCEPT !.read = "leave", !.timer = IF @ = "armed" THEN "off" ELSE @]

ReadFails(c) ==
    /\ conn[c].read = "read"
    /\ conn[c].ws = "closed"
    /\ Become(c, Leaving(conn[c]))

\* Mutated: a client may authenticate again, as somebody else.
AuthAgain(c, u) ==
    /\ Receives(c)
    /\ Become(c, [conn[c] EXCEPT !.user = u, !.read = "register"])

\* handleAuth with a valid token of user u
AuthValid(c, u) ==
    /\ Receives(c)
    /\ ~IsAuthenticated(c)
    /\ Become(c, [conn[c] EXCEPT !.user = u, !.read = "register"])

AuthInvalid(c) ==
    /\ Receives(c)
    /\ ~IsAuthenticated(c)
    /\ Become(c, [conn[c] EXCEPT !.read = "reject"])

\* writeMessageDirect has its own timeout, so it ends either way.
RejectWritten(c) ==
    /\ conn[c].read = "reject"
    /\ Become(c, Leaving(conn[c]))

Subscribe(c, t) ==
    /\ Receives(c)
    /\ IsAuthenticated(c)
    /\ Become(c, [conn[c] EXCEPT !.subs = @ \cup {t}])

Unsubscribe(c, t) ==
    /\ Receives(c)
    /\ IsAuthenticated(c)
    /\ Become(c, [conn[c] EXCEPT !.subs = @ \ {t}])

\* auth_required, invalid_event or already_authenticated
Refuse(c) ==
    /\ Receives(c)
    /\ Become(c, Sent(conn[c], Failure))

(* The hub's lock: whoever waits for it as a writer keeps new readers out. *)

WritersWait == \E c \in Conns : conn[c].read \in {"register", "unregister"}
NoReaders == \A t \in Topics : ~pub[t].busy

Register(c) ==
    /\ conn[c].read = "register"
    /\ NoReaders
    /\ hub' = [hub EXCEPT ![conn[c].user] = Append(@, c)]
    /\ conn' = [conn EXCEPT ![c].read = "welcome"]
    /\ UNCHANGED pub

SendWelcome(c) ==
    /\ conn[c].read = "welcome"
    /\ Become(c, Sent([conn[c] EXCEPT !.read = "read"], Welcome))

(* The deferred function of ReadLoop *)

\* Mutated: the connection stays in the hub.
CancelOnly(c) ==
    /\ conn[c].read = "leave"
    /\ Become(c, [conn[c] EXCEPT !.cancelled = TRUE, !.read = "close"])

Cancel(c) ==
    /\ conn[c].read = "leave"
    /\ Become(c, [conn[c] EXCEPT
          !.cancelled = TRUE,
          !.read = IF IsAuthenticated(c) THEN "unregister" ELSE "close"])

\* The first occurrence of c in s goes, the rest closes up.
Without(s, c) ==
    IF c \in Members(s)
    THEN LET i == CHOOSE k \in DOMAIN s :
                     s[k] = c /\ \A j \in 1..(k - 1) : s[j] # c
         IN SubSeq(s, 1, i - 1) \o SubSeq(s, i + 1, Len(s))
    ELSE s

\* Mutated: the oldest connection of the user goes.
UnregisterOldest(c) ==
    /\ conn[c].read = "unregister"
    /\ NoReaders
    /\ hub' = [hub EXCEPT ![conn[c].user] = IF @ = <<>> THEN @ ELSE Tail(@)]
    /\ conn' = [conn EXCEPT ![c].read = "close"]
    /\ UNCHANGED pub

\* Mutated: the hub does not wait for the listeners that walk its lists.
UnregisterUnlocked(c) ==
    /\ conn[c].read = "unregister"
    /\ hub' = [hub EXCEPT ![conn[c].user] = Without(@, c)]
    /\ conn' = [conn EXCEPT ![c].read = "close"]
    /\ UNCHANGED pub

Unregister(c) ==
    /\ conn[c].read = "unregister"
    /\ NoReaders
    /\ hub' = [hub EXCEPT ![conn[c].user] = Without(@, c)]
    /\ conn' = [conn EXCEPT ![c].read = "close"]
    /\ UNCHANGED pub

CloseSocket(c) ==
    /\ conn[c].read = "close"
    /\ Become(c, [conn[c] EXCEPT !.read = "done", !.ws = "closed"])

(* The timer *)

TimerExpires(c) ==
    /\ conn[c].timer = "armed"
    /\ Become(c, [conn[c] EXCEPT
          !.timer = IF IsAuthenticated(c) THEN "off" ELSE "expired"])

TimerCloses(c) ==
    /\ conn[c].timer = "expired"
    /\ Become(c, [conn[c] EXCEPT !.timer = "off", !.ws = "closed"])

(* WriteLoop: one of the ready cases of its select is taken *)

TakeMessage(c) ==
    /\ conn[c].write = "select"
    /\ conn[c].send # <<>>
    /\ Become(c, [conn[c] EXCEPT !.write = "write", !.send = Tail(@)])

\* A write to a peer that is lost still succeeds until the buffers are full.
WriteDone(c) ==
    /\ conn[c].write = "write"
    /\ conn[c].ws # "closed"
    /\ Become(c, [conn[c] EXCEPT !.write = "select"])

\* Mutated: WriteLoop ends without cancelling the context.
EndsQuietly(record) == [record EXCEPT !.write = "done"]

EndsWrite(record) == [record EXCEPT !.write = "done", !.cancelled = TRUE]

\* The socket is closed, or the peer is too slow.
WriteFails(c) ==
    /\ conn[c].write = "write"
    /\ Become(c, EndsWrite(conn[c]))

PingFails(c) ==
    /\ conn[c].write = "select"
    /\ Become(c, EndsWrite(conn[c]))

ContextDone(c) ==
    /\ conn[c].write = "select"
    /\ conn[c].cancelled
    /\ Become(c, EndsWrite(conn[c]))

-----------------------------------------------------------------------------
(* PublishForUser, called by the listener of topic t *)

StartPublish(t, u) ==
    /\ ~pub[t].busy
    /\ ~WritersWait
    /\ pub' = [pub EXCEPT ![t] = [busy |-> TRUE, user |-> u,
                                  conns |-> hub[u], next |-> 1]]
    /\ UNCHANGED <<conn, hub>>

At(t) == pub[t].conns[pub[t].next]   \* the connection it is at

\* Mutated: the listener waits for room in the buffer.
PublishBlocking(t) ==
    /\ pub[t].busy
    /\ pub[t].next <= Len(pub[t].conns)
    /\ t \in conn[At(t)].subs => Len(conn[At(t)].send) < BufSize
    /\ conn' = IF t \in conn[At(t)].subs
               THEN [conn EXCEPT ![At(t)] = Sent(@, EventOf(t, pub[t].user))]
               ELSE conn
    /\ pub' = [pub EXCEPT ![t].next = @ + 1]
    /\ UNCHANGED hub

PublishToOne(t) ==
    /\ pub[t].busy
    /\ pub[t].next <= Len(pub[t].conns)
    /\ conn' = IF t \in conn[At(t)].subs
               THEN [conn EXCEPT ![At(t)] = Sent(@, EventOf(t, pub[t].user))]
               ELSE conn
    /\ pub' = [pub EXCEPT ![t].next = @ + 1]
    /\ UNCHANGED hub

EndPublish(t) ==
    /\ pub[t].busy
    /\ pub[t].next > Len(pub[t].conns)
    /\ pub' = [pub EXCEPT ![t] = Silent]
    /\ UNCHANGED <<conn, hub>>

-----------------------------------------------------------------------------
(* The specification *)

PeerOf(c) ==
    \/ UpgradeHandler(c)
    \/ PeerCloses(c)
    \/ PeerVanishes(c)
    \/ \E u \in Users : AuthValid(c, u)
    \/ AuthInvalid(c)
    \/ \E t \in Topics : Subscribe(c, t) \/ Unsubscribe(c, t)
    \/ Refuse(c)

ReadLoop(c) ==
    \/ ContextEndsRead(c) \/ ReadFails(c) \/ RejectWritten(c)
    \/ Register(c) \/ SendWelcome(c)
    \/ Cancel(c) \/ Unregister(c) \/ CloseSocket(c)

AuthTimer(c) == TimerExpires(c) \/ TimerCloses(c)

WriteLoop(c) ==
    TakeMessage(c) \/ WriteDone(c) \/ WriteFails(c) \/ ContextDone(c)

PublishForUser(t) == PublishToOne(t) \/ EndPublish(t)

Next ==
    \/ \E c \in Conns :
          PeerOf(c) \/ ReadLoop(c) \/ AuthTimer(c) \/ WriteLoop(c) \/ PingFails(c)
    \/ \E t \in Topics : PublishForUser(t) \/ \E u \in Users : StartPublish(t, u)

\* The server's goroutines and timers go on; nobody has to send anything.  The
\* ticker keeps firing and select takes a ready case at random, so a ping is sent
\* again and again, and no peer that is lost answers it.
Fairness ==
    /\ \A c \in Conns : /\ WF_vars(ReadLoop(c))
                         /\ WF_vars(AuthTimer(c))
                         /\ WF_vars(WriteLoop(c))
                         /\ SF_vars(conn[c].ws = "lost" /\ PingFails(c))
    /\ \A t \in Topics : WF_vars(PublishForUser(t))

Spec == Init /\ [][Next]_vars /\ Fairness

-----------------------------------------------------------------------------
(* Properties *)

\* Every variable has a value of its type and no buffer holds more than BufSize.
TypeOK ==
    /\ conn \in [Conns -> Connection]
    /\ \A c \in Conns : Len(conn[c].send) <= BufSize
    /\ hub \in [Users -> Seq(Conns)]
    /\ pub \in [Topics -> Publication]

Registered(c) == \E u \in Users : c \in Members(hub[u])

\* The hub lists a connection once, for the user it authenticated as, and only
\* until its ReadLoop has passed Unregister: nothing is left behind in the hub.
RegistrationsLive ==
    \A u \in Users :
       /\ \A i, j \in DOMAIN hub[u] : hub[u][i] = hub[u][j] => i = j
       /\ \A c \in Members(hub[u]) :
             /\ conn[c].user = u
             /\ conn[c].read \in {"welcome", "read", "leave", "unregister"}

\* A client only receives the events of the user it authenticated as.
OwnEventsOnly ==
    \A c \in Conns : \A m \in Members(conn[c].send) :
       m.kind = "event" => m.user = conn[c].user

\* The list a listener walks is the hub's list until the listener is done: nobody
\* is skipped or served twice because a connection leaves meanwhile.
WalksTheHubsList ==
    \A t \in Topics : pub[t].busy => pub[t].conns = hub[pub[t].user]

Over(c) == conn[c].read = "done" /\ conn[c].write = "done" /\ ~Registered(c)

\* Connections join, leave and receive as the clients of a feed do: nothing is put
\* into the buffer of one that has not joined yet or has left, nobody joins twice.
TheFeed == INSTANCE Feed WITH
    Clients <- Conns,
    member <- [c \in Conns |-> IF Registered(c) THEN conn[c].user ELSE NoUser],
    left <- {c \in Conns : conn[c].read \in {"close", "done"} /\ IsAuthenticated(c)},
    box <- [c \in Conns |-> [i \in DOMAIN conn[c].send |->
               IF conn[c].send[i].kind = "event" THEN conn[c].send[i].user ELSE NoUser]]

ServesAFeed == TheFeed!Spec

\* A connection whose peer has closed it, vanished without a word or fallen behind
\* is taken down: both goroutines end and the hub forgets it.  So is one whose client
\* does not authenticate in time.
ConnectionsEnd ==
    \A c \in Conns :
       /\ conn[c].read # "off" /\ (conn[c].ws # "open" \/ conn[c].cancelled) ~> Over(c)
       /\ conn[c].read # "off" ~> IsAuthenticated(c) \/ Over(c)

\* A listener always finishes, however slow the clients are: it is the only one
\* that handles the events of its topic, and connections wait for its lock.
ListenersFinish == \A t \in Topics : pub[t].busy ~> ~pub[t].busy
=============================================================================
