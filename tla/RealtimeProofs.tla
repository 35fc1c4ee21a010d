--------------------------- MODULE RealtimeProofs ---------------------------
(***************************************************************************)
(* What is proved of Realtime, for any connections, users and topics and   *)
(* any size of the buffers: the hub lists exactly the connections that     *)
(* should be listed, listeners walk lists that do not change, clients      *)
(* receive their own events only, the goroutines of a connection end each  *)
(* other, and the hub serves a Feed.                                       *)
(*                                                                         *)
(* The inductive invariant describes one connection at a time (Good): the  *)
(* hub lists it for its user if, and only if, its ReadLoop is between      *)
(* Register and Unregister.                                                *)
(***************************************************************************)
EXTENDS Realtime, TLAPS, SequenceTheorems

Listed == {"welcome", "read", "leave", "unregister"}

\* k is what connection c is, h what the hub lists.
Good(c, k, h) ==
  /\ k \in Connection /\ Len(k.send) <= BufSize
  /\ \A m \in Members(k.send) : m.kind = "event" => m.user = k.user
  /\ k.read = "off" => k = NotConnected
  /\ k.read \in {"register", "welcome", "unregister"} => k.user # NoUser
  /\ k.read = "reject" => k.user = NoUser
  /\ \A u \in Users : c \in Members(h[u]) <=> k.user = u /\ k.read \in Listed

NoTwice(s) == \A i, j \in DOMAIN s : s[i] = s[j] => i = j

\* A listener that walks has a list of a user and is at a place of it or past its end.
Walking(p, h) == p.busy => p.user \in Users /\ p.next >= 1 /\ p.conns = h[p.user]

Inv ==
  /\ conn \in [Conns -> Connection]
  /\ hub \in [Users -> Seq(Conns)]
  /\ pub \in [Topics -> Publication]
  /\ \A c \in Conns : Good(c, conn[c], hub)
  /\ \A u \in Users : NoTwice(hub[u])
  /\ \A t \in Topics : Walking(pub[t], hub)

-----------------------------------------------------------------------------
(* Sequences and messages.                                                 *)

LEMMA MembersOfAppend ==
  ASSUME NEW S, NEW s \in Seq(S), NEW x \in S
  PROVE  /\ Append(s, x) \in Seq(S) /\ Len(Append(s, x)) = Len(s) + 1
         /\ Members(Append(s, x)) = Members(s) \cup {x}
<1>1. /\ Append(s, x) \in Seq(S) /\ Len(s) \in Nat /\ Len(Append(s, x)) = Len(s) + 1
      /\ DOMAIN s = 1..Len(s) /\ DOMAIN Append(s, x) = 1..(Len(s) + 1)
      /\ \A i \in 1..Len(s) : Append(s, x)[i] = s[i]
      /\ Append(s, x)[Len(s) + 1] = x
  OBVIOUS
<1> DEFINE a == Append(s, x)  n == Len(s)
<1> HIDE DEF a, n
<1>2. /\ n \in Nat /\ DOMAIN s = 1..n /\ DOMAIN a = 1..(n + 1)
      /\ \A i \in 1..n : a[i] = s[i]
      /\ a[n + 1] = x
  BY <1>1 DEF a, n
<1>3. Members(a) \subseteq Members(s) \cup {x}
  <2> SUFFICES ASSUME NEW i \in 1..(n + 1)
               PROVE  a[i] \in Members(s) \cup {x}
    BY <1>2 DEF Members
  <2>1. i \in 1..n \/ i = n + 1
    BY <1>2
  <2> QED BY <1>2, <2>1 DEF Members
<1>4. Members(s) \cup {x} \subseteq Members(a)
  <2>1. \A i \in 1..n : i \in 1..(n + 1)
    BY <1>2
  <2>2. n + 1 \in 1..(n + 1)
    BY <1>2
  <2> QED BY <1>2, <2>1, <2>2 DEF Members
<1> QED BY <1>1, <1>3, <1>4 DEF a, n

LEMMA MembersOfTail ==
  ASSUME NEW S, NEW s \in Seq(S), s # <<>>
  PROVE  /\ Tail(s) \in Seq(S) /\ Len(Tail(s)) = Len(s) - 1
         /\ Members(Tail(s)) \subseteq Members(s)
<1>1. /\ Tail(s) \in Seq(S) /\ Len(s) \in Nat \ {0} /\ Len(Tail(s)) = Len(s) - 1
      /\ DOMAIN s = 1..Len(s) /\ DOMAIN Tail(s) = 1..(Len(s) - 1)
      /\ \A i \in 1..(Len(s) - 1) : Tail(s)[i] = s[i + 1]
  OBVIOUS
<1>2. \A i \in 1..(Len(s) - 1) : i + 1 \in 1..Len(s)
  BY <1>1
<1> QED BY <1>1, <1>2 DEF Members

\* Unregister takes exactly this connection out of a list without repetitions.
LEMMA MembersWithout ==
  ASSUME NEW S, NEW s \in Seq(S), NEW x, NoTwice(s)
  PROVE  /\ Without(s, x) \in Seq(S) /\ NoTwice(Without(s, x))
         /\ Members(Without(s, x)) = Members(s) \ {x}
<1>1. CASE x \notin Members(s)
  BY <1>1 DEF Without
<1>2. CASE x \in Members(s)
  <2> DEFINE P(k) == s[k] = x /\ \A j \in 1..(k - 1) : s[j] # x
             i == CHOOSE k \in DOMAIN s : P(k)
             n == Len(s)
             w == SubSeq(s, 1, i - 1) \o SubSeq(s, i + 1, n)
  <2>1. n \in Nat /\ DOMAIN s = 1..n
    OBVIOUS
  <2>2. \E k \in DOMAIN s : P(k)
    <3>1. PICK k \in DOMAIN s : s[k] = x
      BY <1>2 DEF Members
    <3>2. \A j \in 1..(k - 1) : j \in DOMAIN s /\ j # k
      BY <2>1
    <3>3. \A j \in 1..(k - 1) : s[j] # x
      BY <3>1, <3>2 DEF NoTwice
    <3> QED BY <3>1, <3>3
  <2>3. i \in 1..n /\ s[i] = x
    <3>1. i \in DOMAIN s /\ P(i)
      BY <2>2
    <3> QED BY <2>1, <3>1
  <2>4. Without(s, x) = w
    BY <1>2 DEF Without
  <2> HIDE DEF i
  <2>5. /\ SubSeq(s, 1, i - 1) \in Seq(S) /\ Len(SubSeq(s, 1, i - 1)) = i - 1
        /\ \A j \in 1..(i - 1) : SubSeq(s, 1, i - 1)[j] = s[j]
    BY <2>1, <2>3
  <2>6. /\ SubSeq(s, i + 1, n) \in Seq(S) /\ Len(SubSeq(s, i + 1, n)) = n - i
        /\ \A j \in 1..(n - i) : SubSeq(s, i + 1, n)[j] = s[i + j]
    <3> DEFINE b == SubSeq(s, i + 1, n)
    <3>1. i \in Int /\ n \in Int /\ i + 1 \in Int /\ \A j \in (i + 1)..n : s[j] \in S
      BY <2>1, <2>3
    <3> HIDE DEF n
    <3>2. /\ b \in Seq(S) /\ Len(b) = IF i + 1 <= n THEN n - (i + 1) + 1 ELSE 0
          /\ \A j \in 1..(n - (i + 1) + 1) : b[j] = s[(i + 1) + j - 1]
      BY <3>1, SubSeqProperties
    <3>3. n - (i + 1) + 1 = n - i /\ (~(i + 1 <= n) => n - i = 0)
      BY <2>1, <2>3
    <3>4. \A j \in 1..(n - i) : (i + 1) + j - 1 = i + j
      BY <3>1
    <3> HIDE DEF b, n
    <3>5. Len(b) = n - i /\ \A j \in 1..(n - i) : b[j] = s[i + j]
      BY <3>2, <3>3, <3>4
    <3> QED BY <3>2, <3>5 DEF b
  <2>7. /\ w \in Seq(S) /\ DOMAIN w = 1..(n - 1)
        /\ \A j \in 1..(n - 1) : w[j] = IF j < i THEN s[j] ELSE s[j + 1]
    <3> DEFINE a == SubSeq(s, 1, i - 1)  b == SubSeq(s, i + 1, n)
    <3>1. /\ a \in Seq(S) /\ Len(a) = i - 1 /\ \A j \in 1..(i - 1) : a[j] = s[j]
          /\ b \in Seq(S) /\ Len(b) = n - i /\ \A j \in 1..(n - i) : b[j] = s[i + j]
      BY <2>5, <2>6
    <3> HIDE DEF a, b, n
    <3>2. /\ a \o b \in Seq(S) /\ Len(a \o b) = n - 1
          /\ \A j \in 1..(n - 1) : (a \o b)[j] = IF j <= i - 1 THEN a[j] ELSE b[j - (i - 1)]
      <4>1. /\ a \o b \in Seq(S) /\ Len(a \o b) = Len(a) + Len(b)
            /\ \A j \in 1..(Len(a) + Len(b)) :
                 (a \o b)[j] = IF j <= Len(a) THEN a[j] ELSE b[j - Len(a)]
        BY <3>1, ConcatProperties
      <4>2. Len(a) + Len(b) = n - 1
        BY <2>1, <2>3, <3>1
      <4> QED BY <3>1, <4>1, <4>2
    <3>3. \A j \in 1..(n - 1) : (a \o b)[j] = IF j < i THEN s[j] ELSE s[j + 1]
      <4> SUFFICES ASSUME NEW j \in 1..(n - 1)
                   PROVE  (a \o b)[j] = IF j < i THEN s[j] ELSE s[j + 1]
        OBVIOUS
      <4>1. CASE j < i
        <5>1. j \in 1..(i - 1) /\ j <= i - 1
          BY <2>1, <2>3, <4>1
        <5> QED BY <3>1, <3>2, <4>1, <5>1
      <4>2. CASE ~(j < i)
        <5>1. j - (i - 1) \in 1..(n - i) /\ ~(j <= i - 1) /\ i + (j - (i - 1)) = j + 1
          BY <2>1, <2>3, <4>2
        <5>2. (a \o b)[j] = b[j - (i - 1)]
          BY <3>2, <5>1
        <5>3. b[j - (i - 1)] = s[i + (j - (i - 1))]
          BY <3>1, <5>1
        <5> QED BY <4>2, <5>1, <5>2, <5>3
      <4> QED BY <4>1, <4>2
    <3>4. DOMAIN (a \o b) = 1..(n - 1)
      BY <3>2
    <3> QED BY <3>2, <3>3, <3>4 DEF a, b
  <2> HIDE DEF w, n
  <2>8. \A j \in 1..(n - 1) : \E k \in 1..n :
           k # i /\ w[j] = s[k] /\ k = IF j < i THEN j ELSE j + 1
    <3> SUFFICES ASSUME NEW j \in 1..(n - 1)
                 PROVE  \E k \in 1..n :
                          k # i /\ w[j] = s[k] /\ k = IF j < i THEN j ELSE j + 1
      OBVIOUS
    <3>1. CASE j < i
      BY <2>1, <2>3, <2>7, <3>1
    <3>2. CASE ~(j < i)
      BY <2>1, <2>3, <2>7, <3>2
    <3> QED BY <3>1, <3>2
  <2>9. NoTwice(w)
    <3> SUFFICES ASSUME NEW j \in 1..(n - 1), NEW l \in 1..(n - 1), w[j] = w[l]
                 PROVE  j = l
      BY <2>7 DEF NoTwice
    <3>1. PICK k \in 1..n : w[j] = s[k] /\ k = IF j < i THEN j ELSE j + 1
      BY <2>8
    <3>2. PICK m \in 1..n : w[l] = s[m] /\ m = IF l < i THEN l ELSE l + 1
      BY <2>8
    <3>3. k = m
      BY <2>1, <3>1, <3>2 DEF NoTwice
    <3> QED BY <2>1, <2>3, <3>1, <3>2, <3>3
  <2>10. Members(w) \subseteq Members(s) \ {x}
    <3> SUFFICES ASSUME NEW j \in 1..(n - 1)
                 PROVE  w[j] \in Members(s) \ {x}
      BY <2>7 DEF Members
    <3>1. PICK k \in 1..n : k # i /\ w[j] = s[k]
      BY <2>8
    <3>2. s[k] # x
      BY <2>1, <2>3, <3>1 DEF NoTwice
    <3> QED BY <2>1, <3>1, <3>2 DEF Members
  <2>11. Members(s) \ {x} \subseteq Members(w)
    <3> SUFFICES ASSUME NEW k \in 1..n, s[k] # x
                 PROVE  \E j \in 1..(n - 1) : w[j] = s[k]
      BY <2>1, <2>7 DEF Members
    <3>1. CASE k < i
      <4>1. k \in 1..(n - 1) /\ w[k] = s[k]
        BY <2>1, <2>3, <2>7, <3>1
      <4> QED BY <4>1
    <3>2. CASE ~(k < i)
      <4>1. k # i
        BY <2>3
      <4>2. k - 1 \in 1..(n - 1) /\ ~(k - 1 < i) /\ k - 1 + 1 = k
        BY <2>1, <2>3, <3>2, <4>1
      <4>3. w[k - 1] = s[k]
        BY <2>7, <4>2
      <4> QED BY <4>2, <4>3
    <3> QED BY <3>1, <3>2
  <2> QED BY <2>4, <2>7, <2>9, <2>10, <2>11
<1> QED BY <1>1, <1>2

LEMMA MessageFacts ==
  /\ Welcome \in Message /\ Welcome.kind # "event"
  /\ Failure \in Message /\ Failure.kind # "event"
  /\ \A t \in Topics, u \in Users :
        EventOf(t, u) \in Message /\ EventOf(t, u).user = u /\ EventOf(t, u).kind = "event"
  /\ \A m \in Message : m.kind = "event" => m.user \in Users
<1>1. Welcome.kind = "auth.success" /\ Failure.kind = "error"
  BY DEF Welcome, Failure
<1>2. \A t \in Topics, u \in Users :
        EventOf(t, u).user = u /\ EventOf(t, u).kind = "event"
  BY DEF EventOf
<1> QED BY <1>1, <1>2 DEF Message

LEMMA NotConnectedGood ==
  /\ NotConnected \in Connection /\ NotConnected.send = <<>>
  /\ NotConnected.user = NoUser /\ NotConnected.read = "off"
  BY DEF NotConnected, Connection, ReadPcs, WritePcs, Sockets, Timers

\* A message is put at the end of the buffer, or dropped.
LEMMA SentFields ==
  ASSUME NEW k \in Connection, Len(k.send) <= BufSize, NEW m \in Message
  PROVE  LET n == Sent(k, m) IN
         /\ n \in Connection /\ Len(n.send) <= BufSize
         /\ n.send = k.send \/ n.send = Append(k.send, m)
         /\ Members(n.send) \subseteq Members(k.send) \cup {m}
         /\ n.read = k.read /\ n.user = k.user /\ n.subs = k.subs /\ n.ws = k.ws
         /\ n.write = k.write /\ n.timer = k.timer /\ (n.cancelled <=> k.cancelled)
<1>1. CASE ~(Len(k.send) < BufSize)
  BY <1>1 DEF Sent
<1>2. CASE Len(k.send) < BufSize
  <2> DEFINE a == Append(k.send, m)
  <2>1. k.send \in Seq(Message)
    BY DEF Connection
  <2>2. a \in Seq(Message) /\ Len(a) = Len(k.send) + 1 /\ Members(a) = Members(k.send) \cup {m}
    BY <2>1, MembersOfAppend
  <2>3. Len(k.send) + 1 <= BufSize
    BY <1>2, <2>1, ConstantsAssumption
  <2>4. Sent(k, m) = [k EXCEPT !.send = a]
    BY <1>2 DEF Sent
  <2> HIDE DEF a
  <2>5. LET n == [k EXCEPT !.send = a] IN
        /\ n \in Connection /\ n.send = a
        /\ n.read = k.read /\ n.user = k.user /\ n.subs = k.subs /\ n.ws = k.ws
        /\ n.write = k.write /\ n.timer = k.timer /\ (n.cancelled <=> k.cancelled)
    BY <2>2 DEF Connection
  <2> QED BY <2>2, <2>3, <2>4, <2>5 DEF a
<1> QED BY <1>1, <1>2

-----------------------------------------------------------------------------
(* One connection changes.                                                 *)

LEMMA BecomeKeepsInv ==
  ASSUME Inv, NEW c \in Conns, NEW k, Become(c, k), Good(c, k, hub)
  PROVE  Inv'
<1>1. /\ conn' = [conn EXCEPT ![c] = k] /\ hub' = hub /\ pub' = pub
      /\ k \in Connection
  BY DEF Become, Good
<1>2. \A d \in Conns : conn'[d] = IF d = c THEN k ELSE conn[d]
  BY <1>1 DEF Inv
<1>3. conn' \in [Conns -> Connection]
  BY <1>1 DEF Inv
<1> QED BY <1>1, <1>2, <1>3 DEF Inv

\* What a change of a connection must not touch, when it stays (or stays not)
\* between Register and Unregister and its buffer does not grow.
LEMMA SameMember ==
  ASSUME Inv, NEW c \in Conns, NEW k \in Connection,
         k.send = conn[c].send \/ k.send = <<>>,
         k.user = conn[c].user,
         k.user # NoUser => (k.read \in Listed <=> conn[c].read \in Listed),
         k.read \in {"register", "welcome", "unregister"} => k.user # NoUser,
         k.read = "reject" => k.user = NoUser,
         k.read # "off"
  PROVE  Good(c, k, hub)
<1>1. Good(c, conn[c], hub) /\ NoUser \notin Users
  BY ConstantsAssumption DEF Inv
<1>2. Len(k.send) <= BufSize
  BY <1>1, ConstantsAssumption DEF Good
<1> QED BY <1>1, <1>2 DEF Good, Members

LEMMA ConnectionFacts ==
  ASSUME Inv, NEW c \in Conns
  PROVE  /\ conn[c] \in Connection /\ Good(c, conn[c], hub) /\ Len(conn[c].send) <= BufSize
         /\ conn[c].read = "off" =>
              conn[c].ws = "closed" /\ conn[c].timer = "off" /\ conn[c].write = "off"
  BY DEF Inv, Good, NotConnected

\* What the other end does, and the timer.
LEMMA PeerKeepsInv ==
  ASSUME Inv, NEW c \in Conns,
         \/ UpgradeHandler(c) \/ PeerCloses(c) \/ PeerVanishes(c)
         \/ TimerExpires(c) \/ TimerCloses(c)
  PROVE  Inv'
<1> DEFINE o == conn[c]
<1>1. /\ o \in Connection /\ Good(c, o, hub)
      /\ o.read = "off" => o.ws = "closed" /\ o.timer = "off"
  BY ConnectionFacts
<1>2. CASE UpgradeHandler(c)
  <2> DEFINE k == [NotConnected EXCEPT !.read = "read", !.write = "select",
                                       !.ws = "open", !.timer = "armed"]
  <2>1. Become(c, k) /\ o = NotConnected
    BY <1>1, <1>2 DEF UpgradeHandler, Good
  <2>2. /\ k \in Connection /\ k.send = <<>> /\ k.user = NoUser /\ k.read = "read"
    BY NotConnectedGood DEF Connection, ReadPcs, WritePcs, Sockets, Timers
  <2>3. o.user = NoUser
    BY <2>1, NotConnectedGood
  <2> HIDE DEF k
  <2>4. Good(c, k, hub)
    BY <2>2, <2>3, SameMember
  <2> QED BY <2>1, <2>4, BecomeKeepsInv
<1>3. ASSUME NEW ws \in Sockets, NEW timer \in Timers, o.read # "off",
             Become(c, [o EXCEPT !.ws = ws, !.timer = timer])
      PROVE  Inv'
  <2> DEFINE k == [o EXCEPT !.ws = ws, !.timer = timer]
  <2>1. k \in Connection /\ k.send = o.send /\ k.user = o.user /\ k.read = o.read
    BY <1>1, <1>3 DEF Connection
  <2> HIDE DEF k, o
  <2>2. /\ k.read \in {"register", "welcome", "unregister"} => k.user # NoUser
        /\ k.read = "reject" => k.user = NoUser
    BY <1>1, <2>1 DEF Good
  <2>3. Good(c, k, hub)
    BY <1>3, <2>1, <2>2, SameMember DEF o
  <2> QED BY <1>3, <2>3, BecomeKeepsInv DEF k
<1>4. CASE PeerCloses(c) \/ PeerVanishes(c)
  <2> DEFINE ws == IF PeerCloses(c) THEN "closed" ELSE "lost"
  <2>1. Become(c, [o EXCEPT !.ws = ws]) /\ o.read # "off"
    BY <1>1, <1>4 DEF PeerCloses, PeerVanishes
  <2>2. [o EXCEPT !.ws = ws] = [o EXCEPT !.ws = ws, !.timer = o.timer]
    BY <1>1 DEF Connection
  <2>3. ws \in Sockets /\ o.timer \in Timers
    BY <1>1 DEF Sockets, Connection
  <2> HIDE DEF o, ws
  <2>4. Become(c, [o EXCEPT !.ws = ws, !.timer = o.timer])
    BY <2>1, <2>2
  <2> QED BY <1>3, <2>1, <2>3, <2>4
<1>5. CASE TimerExpires(c)
  <2> DEFINE timer == IF IsAuthenticated(c) THEN "off" ELSE "expired"
  <2>1. Become(c, [o EXCEPT !.timer = timer]) /\ o.read # "off"
    BY <1>1, <1>5 DEF TimerExpires
  <2>2. [o EXCEPT !.timer = timer] = [o EXCEPT !.ws = o.ws, !.timer = timer]
    BY <1>1 DEF Connection
  <2>3. o.ws \in Sockets /\ timer \in Timers
    BY <1>1 DEF Timers, Connection
  <2> HIDE DEF o, timer
  <2>4. Become(c, [o EXCEPT !.ws = o.ws, !.timer = timer])
    BY <2>1, <2>2
  <2> QED BY <1>3, <2>1, <2>3, <2>4
<1>6. CASE TimerCloses(c)
  <2>1. /\ Become(c, [o EXCEPT !.timer = "off", !.ws = "closed"]) /\ o.read # "off"
    BY <1>1, <1>6 DEF TimerCloses
  <2>2. [o EXCEPT !.timer = "off", !.ws = "closed"] = [o EXCEPT !.ws = "closed", !.timer = "off"]
    BY <1>1 DEF Connection
  <2>3. "closed" \in Sockets /\ "off" \in Timers
    BY DEF Sockets, Timers
  <2> HIDE DEF o
  <2>4. Become(c, [o EXCEPT !.ws = "closed", !.timer = "off"])
    BY <2>1, <2>2
  <2> QED BY <1>3, <2>1, <2>3, <2>4
<1> QED BY <1>2, <1>4, <1>5, <1>6

\* The steps of ReadLoop and the messages that leave the buffer and the user alone.
LEMMA ReadKeepsInv ==
  ASSUME Inv, NEW c \in Conns,
         \/ ContextEndsRead(c) \/ ReadFails(c) \/ RejectWritten(c) \/ AuthInvalid(c)
         \/ Cancel(c) \/ CloseSocket(c)
         \/ \E t \in Topics : Subscribe(c, t) \/ Unsubscribe(c, t)
  PROVE  Inv'
<1> DEFINE o == conn[c]
<1>1. o \in Connection /\ Good(c, o, hub)
  BY ConnectionFacts
<1>2. ASSUME NEW k, Become(c, k), k \in Connection, k.send = o.send, k.user = o.user,
             k.user # NoUser => (k.read \in Listed <=> o.read \in Listed),
             k.read \in {"register", "welcome", "unregister"} => k.user # NoUser,
             k.read = "reject" => k.user = NoUser,
             k.read # "off"
      PROVE  Inv'
  <2>1. Good(c, k, hub)
    BY <1>2, SameMember
  <2> QED BY <1>2, <2>1, BecomeKeepsInv
<1>3. CASE ContextEndsRead(c)
  <2> DEFINE k == [o EXCEPT !.ws = "closed"]
  <2>1. Become(c, k) /\ o.read = "read"
    BY <1>3 DEF ContextEndsRead
  <2>2. k \in Connection /\ k.send = o.send /\ k.user = o.user /\ k.read = o.read
    BY <1>1 DEF Connection, Sockets
  <2> HIDE DEF k
  <2> QED BY <1>2, <2>1, <2>2
<1>4. CASE ReadFails(c) \/ RejectWritten(c)
  <2> DEFINE timer == IF o.timer = "armed" THEN "off" ELSE o.timer
             k == [o EXCEPT !.read = "leave", !.timer = timer]
  <2>1. Become(c, k) /\ (o.read = "read" \/ o.user = NoUser)
    BY <1>1, <1>4 DEF ReadFails, RejectWritten, Leaving, Good
  <2>2. timer \in Timers
    BY <1>1 DEF Connection, Timers
  <2> HIDE DEF timer
  <2>3. k \in Connection /\ k.send = o.send /\ k.user = o.user /\ k.read = "leave"
    BY <1>1, <2>2 DEF Connection, ReadPcs
  <2> HIDE DEF k
  <2> QED BY <1>2, <2>1, <2>3 DEF Listed
<1>5. CASE AuthInvalid(c)
  <2> DEFINE k == [o EXCEPT !.read = "reject"]
  <2>1. Become(c, k) /\ o.user = NoUser
    BY <1>5 DEF AuthInvalid, IsAuthenticated
  <2>2. k \in Connection /\ k.send = o.send /\ k.user = o.user /\ k.read = "reject"
    BY <1>1 DEF Connection, ReadPcs
  <2> HIDE DEF k
  <2> QED BY <1>2, <2>1, <2>2
<1>6. CASE Cancel(c)
  <2> DEFINE pc == IF IsAuthenticated(c) THEN "unregister" ELSE "close"
             k == [o EXCEPT !.cancelled = TRUE, !.read = pc]
  <2>1. Become(c, k) /\ o.read = "leave"
    BY <1>6 DEF Cancel
  <2>2. pc \in ReadPcs /\ pc = IF o.user # NoUser THEN "unregister" ELSE "close"
    BY DEF ReadPcs, IsAuthenticated
  <2> HIDE DEF pc
  <2>3. k \in Connection /\ k.send = o.send /\ k.user = o.user /\ k.read = pc
    BY <1>1, <2>2 DEF Connection
  <2> HIDE DEF k
  <2> QED BY <1>2, <2>1, <2>2, <2>3 DEF Listed
<1>7. CASE CloseSocket(c)
  <2> DEFINE k == [o EXCEPT !.read = "done", !.ws = "closed"]
  <2>1. Become(c, k) /\ o.read = "close"
    BY <1>7 DEF CloseSocket
  <2>2. k \in Connection /\ k.send = o.send /\ k.user = o.user /\ k.read = "done"
    BY <1>1 DEF Connection, ReadPcs, Sockets
  <2> HIDE DEF k
  <2> QED BY <1>2, <2>1, <2>2 DEF Listed
<1>8. ASSUME NEW t \in Topics, Subscribe(c, t) \/ Unsubscribe(c, t)
      PROVE  Inv'
  <2> DEFINE subs == IF Subscribe(c, t) THEN o.subs \cup {t} ELSE o.subs \ {t}
             k == [o EXCEPT !.subs = subs]
  <2>1. Become(c, k) /\ o.read = "read"
    BY <1>8 DEF Subscribe, Unsubscribe, Receives
  <2>2. subs \in SUBSET Topics
    BY <1>1 DEF Connection
  <2> HIDE DEF subs
  <2>3. k \in Connection /\ k.send = o.send /\ k.user = o.user /\ k.read = o.read
    BY <1>1, <2>2 DEF Connection
  <2> HIDE DEF k
  <2> QED BY <1>2, <2>1, <2>3
<1> QED BY <1>3, <1>4, <1>5, <1>6, <1>7, <1>8

\* A connection whose user is not known yet has been sent no event.
LEMMA AuthKeepsInv ==
  ASSUME Inv, NEW c \in Conns, NEW u \in Users, AuthValid(c, u)
  PROVE  Inv'
<1> DEFINE o == conn[c]
           k == [o EXCEPT !.user = u, !.read = "register"]
<1>1. /\ o \in Connection /\ Good(c, o, hub) /\ Become(c, k) /\ o.read = "read" /\ o.user = NoUser
  BY ConnectionFacts DEF AuthValid, Receives, IsAuthenticated
<1>2. k \in Connection /\ k.send = o.send /\ k.user = u /\ k.read = "register"
  BY <1>1 DEF Connection, ReadPcs
<1>3. \A m \in Members(o.send) : m.kind # "event"
  <2>1. o.send \in Seq(Message) /\ NoUser \notin Users
    BY <1>1, ConstantsAssumption DEF Connection
  <2>2. \A m \in Members(o.send) : m \in Message
    BY <2>1 DEF Members
  <2> QED BY <1>1, <2>1, <2>2, MessageFacts DEF Good
<1> HIDE DEF k
<1>4. Good(c, k, hub)
  BY <1>1, <1>2, <1>3, ConstantsAssumption DEF Good, Listed
<1> QED BY <1>1, <1>4, BecomeKeepsInv

\* Answers to the client, and the welcome after Register.
LEMMA AnswerKeepsInv ==
  ASSUME Inv, NEW c \in Conns, Refuse(c) \/ SendWelcome(c)
  PROVE  Inv'
<1> DEFINE o == conn[c]
           n == [o EXCEPT !.read = "read"]
           m == IF SendWelcome(c) THEN Welcome ELSE Failure
           k == Sent(n, m)
<1>1. o \in Connection /\ Good(c, o, hub) /\ o.read \in {"read", "welcome"}
  BY ConnectionFacts DEF Refuse, SendWelcome, Receives
<1>2. Become(c, k)
  <2>1. CASE SendWelcome(c)
    BY <2>1 DEF SendWelcome
  <2>2. CASE ~SendWelcome(c)
    <3>1. Receives(c) /\ Become(c, Sent(o, Failure))
      BY <2>2 DEF Refuse
    <3>2. n = o
      BY <1>1, <3>1 DEF Receives, Connection
    <3> HIDE DEF n
    <3> QED BY <2>2, <3>1, <3>2
  <2> QED BY <2>1, <2>2
<1>3. /\ n \in Connection /\ n.send = o.send /\ n.user = o.user /\ n.read = "read"
      /\ Len(n.send) <= BufSize
  BY <1>1 DEF Connection, ReadPcs, Good
<1>4. m \in Message /\ m.kind # "event"
  BY MessageFacts
<1> HIDE DEF n, m
<1>5. /\ k \in Connection /\ Len(k.send) <= BufSize /\ Members(k.send) \subseteq Members(o.send) \cup {m}
      /\ k.read = "read" /\ k.user = o.user
  BY <1>3, <1>4, SentFields
<1> HIDE DEF k
<1>6. Good(c, k, hub)
  BY <1>1, <1>4, <1>5 DEF Good, Listed
<1> QED BY <1>2, <1>6, BecomeKeepsInv

\* WriteLoop: the buffer may shrink, nothing else matters.
LEMMA WriteKeepsInv ==
  ASSUME Inv, NEW c \in Conns, WriteLoop(c) \/ PingFails(c)
  PROVE  Inv'
<1> DEFINE o == conn[c]
<1>1. o \in Connection /\ Good(c, o, hub) /\ o.write # "off" /\ o.read # "off"
  BY ConnectionFacts DEF WriteLoop, PingFails, TakeMessage, WriteDone, WriteFails, ContextDone
<1>2. ASSUME NEW k, Become(c, k), k \in Connection, k.user = o.user, k.read = o.read,
             Len(k.send) <= BufSize, Members(k.send) \subseteq Members(o.send)
      PROVE  Inv'
  <2>1. Good(c, k, hub)
    BY <1>1, <1>2 DEF Good
  <2> QED BY <1>2, <2>1, BecomeKeepsInv
<1>3. CASE TakeMessage(c)
  <2> DEFINE rest == Tail(o.send)  k == [o EXCEPT !.write = "write", !.send = rest]
  <2>1. Become(c, k) /\ o.send # <<>> /\ o.send \in Seq(Message)
    BY <1>1, <1>3 DEF TakeMessage, Connection
  <2>2. /\ rest \in Seq(Message) /\ Len(rest) <= BufSize /\ Members(rest) \subseteq Members(o.send)
    <3>1. /\ rest \in Seq(Message) /\ Len(rest) = Len(o.send) - 1
          /\ Members(rest) \subseteq Members(o.send)
      BY <2>1, MembersOfTail
    <3>2. Len(o.send) <= BufSize /\ Len(o.send) \in Nat /\ BufSize \in Nat
      BY <1>1, <2>1, ConstantsAssumption DEF Good
    <3> QED BY <3>1, <3>2
  <2> HIDE DEF rest
  <2>3. k \in Connection /\ k.send = rest /\ k.user = o.user /\ k.read = o.read
    BY <1>1, <2>2 DEF Connection, WritePcs
  <2> HIDE DEF k
  <2> QED BY <1>2, <2>1, <2>2, <2>3
<1>4. CASE WriteDone(c)
  <2> DEFINE k == [o EXCEPT !.write = "select"]
  <2>1. Become(c, k)
    BY <1>4 DEF WriteDone
  <2>2. k \in Connection /\ k.send = o.send /\ k.user = o.user /\ k.read = o.read
    BY <1>1 DEF Connection, WritePcs
  <2> HIDE DEF k
  <2> QED BY <1>1, <1>2, <2>1, <2>2 DEF Good
<1>5. CASE WriteFails(c) \/ PingFails(c) \/ ContextDone(c)
  <2> DEFINE k == [o EXCEPT !.write = "done", !.cancelled = TRUE]
  <2>1. Become(c, k)
    BY <1>5 DEF WriteFails, PingFails, ContextDone, EndsWrite
  <2>2. k \in Connection /\ k.send = o.send /\ k.user = o.user /\ k.read = o.read
    BY <1>1 DEF Connection, WritePcs
  <2> HIDE DEF k
  <2> QED BY <1>1, <1>2, <2>1, <2>2 DEF Good
<1> QED BY <1>3, <1>4, <1>5 DEF WriteLoop

-----------------------------------------------------------------------------
(* The hub.                                                                *)

\* One connection and the list of its user change while nobody walks a list.
LEMMA HubKeepsInv ==
  ASSUME Inv, NEW c \in Conns, NEW u \in Users, NEW s \in Seq(Conns), NEW k \in Connection,
         conn' = [conn EXCEPT ![c] = k], hub' = [hub EXCEPT ![u] = s], pub' = pub,
         NoReaders, NoTwice(s),
         conn[c].user = u, k.user = u, k.send = conn[c].send,
         k.read \in {"welcome", "close"},
         k.read = "welcome" => Members(s) = Members(hub[u]) \cup {c},
         k.read = "close" => Members(s) = Members(hub[u]) \ {c}
  PROVE  Inv'
<1>1. /\ \A d \in Conns : conn'[d] = IF d = c THEN k ELSE conn[d]
      /\ \A v \in Users : hub'[v] = IF v = u THEN s ELSE hub[v]
      /\ conn' \in [Conns -> Connection] /\ hub' \in [Users -> Seq(Conns)]
      /\ pub' \in [Topics -> Publication]
  BY DEF Inv
<1>2. u # NoUser
  BY ConstantsAssumption
<1>3. ASSUME NEW d \in Conns
      PROVE  Good(d, conn'[d], hub')
  <2>1. Good(d, conn[d], hub)
    BY DEF Inv
  <2>2. CASE d # c
    <3>1. \A v \in Users : d \in Members(hub'[v]) <=> d \in Members(hub[v])
      BY <1>1, <2>2
    <3> QED BY <1>1, <2>1, <2>2, <3>1 DEF Good
  <2>3. CASE d = c
    <3>1. \A v \in Users : c \in Members(hub'[v]) <=> v = u /\ k.read = "welcome"
      BY <1>1, <2>1, <2>3 DEF Good
    <3>2. k.read = "close" => k.read \notin Listed
      BY DEF Listed
    <3> QED BY <1>1, <1>2, <2>1, <2>3, <3>1, <3>2 DEF Good, Listed
  <2> QED BY <2>2, <2>3
<1>4. \A v \in Users : NoTwice(hub'[v])
  BY <1>1 DEF Inv
<1>5. \A t \in Topics : Walking(pub'[t], hub')
  BY DEF NoReaders, Walking
<1> QED BY <1>1, <1>3, <1>4, <1>5 DEF Inv

LEMMA RegisterKeepsInv ==
  ASSUME Inv, NEW c \in Conns, Register(c)
  PROVE  Inv'
<1> DEFINE o == conn[c]
           k == [o EXCEPT !.read = "welcome"]
           s == Append(hub[o.user], c)
<1>1. o \in Connection /\ Good(c, o, hub) /\ o.read = "register"
  BY ConnectionFacts DEF Register
<1>2. o.user \in Users /\ hub[o.user] \in Seq(Conns) /\ NoTwice(hub[o.user])
  BY <1>1 DEF Good, Connection, Inv
<1>3. /\ conn' = [conn EXCEPT ![c] = k] /\ hub' = [hub EXCEPT ![o.user] = s] /\ pub' = pub
      /\ NoReaders
  BY DEF Register, Inv
<1>4. k \in Connection /\ k.user = o.user /\ k.send = o.send /\ k.read = "welcome"
  BY <1>1 DEF Connection, ReadPcs
<1>5. s \in Seq(Conns) /\ Members(s) = Members(hub[o.user]) \cup {c}
  BY <1>2, MembersOfAppend
<1>6. c \notin Members(hub[o.user])
  BY <1>1, <1>2 DEF Good, Listed
<1>7. NoTwice(s)
  <2> DEFINE h == hub[o.user]  n == Len(h)
  <2>1. /\ n \in Nat /\ DOMAIN h = 1..n /\ DOMAIN s = 1..(n + 1)
        /\ \A i \in 1..n : s[i] = h[i]
        /\ s[n + 1] = c
    BY <1>2
  <2>2. \A i \in 1..n : h[i] # c
    BY <1>6, <2>1 DEF Members
  <2> HIDE DEF s, n, h
  <2> SUFFICES ASSUME NEW i \in 1..(n + 1), NEW j \in 1..(n + 1), s[i] = s[j]
               PROVE  i = j
    BY <2>1 DEF NoTwice
  <2>3. (i \in 1..n \/ i = n + 1) /\ (j \in 1..n \/ j = n + 1)
    BY <2>1
  <2>4. NoTwice(h)
    BY <1>2 DEF h
  <2> QED BY <2>1, <2>2, <2>3, <2>4 DEF NoTwice
<1> HIDE DEF k, s
<1> QED BY <1>2, <1>3, <1>4, <1>5, <1>7, HubKeepsInv

LEMMA UnregisterKeepsInv ==
  ASSUME Inv, NEW c \in Conns, Unregister(c)
  PROVE  Inv'
<1> DEFINE o == conn[c]
           k == [o EXCEPT !.read = "close"]
           s == Without(hub[o.user], c)
<1>1. o \in Connection /\ Good(c, o, hub) /\ o.read = "unregister"
  BY ConnectionFacts DEF Unregister
<1>2. o.user \in Users /\ hub[o.user] \in Seq(Conns) /\ NoTwice(hub[o.user])
  BY <1>1 DEF Good, Connection, Inv
<1>3. /\ conn' = [conn EXCEPT ![c] = k] /\ hub' = [hub EXCEPT ![o.user] = s] /\ pub' = pub
      /\ NoReaders
  BY DEF Unregister, Inv
<1>4. k \in Connection /\ k.user = o.user /\ k.send = o.send /\ k.read = "close"
  BY <1>1 DEF Connection, ReadPcs
<1>5. s \in Seq(Conns) /\ NoTwice(s) /\ Members(s) = Members(hub[o.user]) \ {c}
  BY <1>2, MembersWithout
<1> HIDE DEF k, s
<1> QED BY <1>2, <1>3, <1>4, <1>5, HubKeepsInv

-----------------------------------------------------------------------------
(* Listeners.                                                              *)

LEMMA ListenerKeepsInv ==
  ASSUME Inv, NEW t \in Topics, NEW p \in Publication,
         pub' = [pub EXCEPT ![t] = p], conn' = conn, hub' = hub, Walking(p, hub)
  PROVE  Inv'
<1>1. \A r \in Topics : pub'[r] = IF r = t THEN p ELSE pub[r]
  BY DEF Inv
<1>2. pub' \in [Topics -> Publication]
  BY DEF Inv
<1> QED BY <1>1, <1>2 DEF Inv

LEMMA StartKeepsInv ==
  ASSUME Inv, NEW t \in Topics, NEW u \in Users, StartPublish(t, u)
  PROVE  Inv'
<1> DEFINE p == [busy |-> TRUE, user |-> u, conns |-> hub[u], next |-> 1]
<1>1. p \in Publication /\ Walking(p, hub)
  BY DEF Inv, Publication, Walking
<1> HIDE DEF p
<1>2. pub' = [pub EXCEPT ![t] = p] /\ conn' = conn /\ hub' = hub
  BY DEF StartPublish, p
<1> QED BY <1>1, <1>2, ListenerKeepsInv

LEMMA EndKeepsInv ==
  ASSUME Inv, NEW t \in Topics, EndPublish(t)
  PROVE  Inv'
<1> DEFINE p == Silent
<1>1. p \in Publication /\ Walking(p, hub)
  BY DEF Publication, Walking, Silent
<1> HIDE DEF p
<1>2. pub' = [pub EXCEPT ![t] = p] /\ conn' = conn /\ hub' = hub
  BY DEF EndPublish, p
<1> QED BY <1>1, <1>2, ListenerKeepsInv

\* The connection a listener is at is one of its user.
LEMMA ServesItsUser ==
  ASSUME Inv, NEW t \in Topics, PublishToOne(t)
  PROVE  /\ At(t) \in Conns /\ pub[t].user \in Users
         /\ conn[At(t)].user = pub[t].user /\ conn[At(t)].read \in Listed
         /\ pub[t].next + 1 \in Nat /\ pub[t].next + 1 >= 1
<1> DEFINE p == pub[t]
<1>1. p \in Publication /\ p.busy /\ p.next <= Len(p.conns) /\ Walking(p, hub)
  BY DEF PublishToOne, Inv
<1>2. p.user \in Users /\ p.next >= 1 /\ p.next \in Nat /\ p.conns = hub[p.user]
  BY <1>1 DEF Walking, Publication
<1>3. hub[p.user] \in Seq(Conns)
  BY <1>2 DEF Inv
<1>4. p.next \in DOMAIN hub[p.user]
  BY <1>1, <1>2, <1>3
<1>5. At(t) = hub[p.user][p.next]
  BY <1>2 DEF At
<1>6. At(t) \in Conns /\ At(t) \in Members(hub[p.user])
  BY <1>3, <1>4, <1>5 DEF Members
<1>7. Good(At(t), conn[At(t)], hub)
  BY <1>6 DEF Inv
<1> QED BY <1>2, <1>6, <1>7 DEF Good

LEMMA PublishKeepsInv ==
  ASSUME Inv, NEW t \in Topics, PublishToOne(t)
  PROVE  Inv'
<1> DEFINE p == pub[t]
           c == At(t)
           o == conn[c]
           m == EventOf(t, p.user)
           k == IF t \in o.subs THEN Sent(o, m) ELSE o
           q == [p EXCEPT !.next = p.next + 1]
<1>1. /\ c \in Conns /\ p.user \in Users /\ o.user = p.user /\ p.next + 1 \in Nat
      /\ p.next + 1 >= 1
  BY ServesItsUser
<1>2. o \in Connection /\ Good(c, o, hub) /\ Len(o.send) <= BufSize
  BY <1>1, ConnectionFacts
<1>3. m \in Message /\ m.user = o.user
  BY <1>1, MessageFacts
<1>4. conn' = [conn EXCEPT ![c] = k] /\ hub' = hub /\ pub' = [pub EXCEPT ![t] = q]
  BY <1>1 DEF PublishToOne, Inv
<1> HIDE DEF m, c
<1>5. /\ k \in Connection /\ Len(k.send) <= BufSize /\ Members(k.send) \subseteq Members(o.send) \cup {m}
      /\ k.read = o.read /\ k.user = o.user
  BY <1>2, <1>3, SentFields
<1>6. o.read # "off"
  BY ServesItsUser DEF Listed, c
<1> HIDE DEF k
<1>7. Good(c, k, hub)
  BY <1>2, <1>3, <1>5, <1>6 DEF Good
<1>8. p \in Publication /\ Walking(p, hub) /\ p.busy
  BY DEF Inv, PublishToOne
<1>9. q \in Publication /\ Walking(q, hub)
  <2>1. q \in Publication /\ q.user = p.user /\ q.conns = p.conns /\ q.next = p.next + 1
    BY <1>1, <1>8 DEF Publication
  <2> QED BY <1>1, <1>8, <2>1 DEF Walking
<1> HIDE DEF q
<1>10. \A d \in Conns : conn'[d] = IF d = c THEN k ELSE conn[d]
  BY <1>4 DEF Inv
<1>11. \A r \in Topics : pub'[r] = IF r = t THEN q ELSE pub[r]
  BY <1>4 DEF Inv
<1>12. conn' \in [Conns -> Connection] /\ pub' \in [Topics -> Publication]
  BY <1>4, <1>5, <1>9 DEF Inv
<1> QED BY <1>4, <1>7, <1>9, <1>10, <1>11, <1>12 DEF Inv

-----------------------------------------------------------------------------
(* Theorems.                                                               *)

LEMMA InitInv ==
  ASSUME Init
  PROVE  Inv
<1>1. Members(<<>>) = {} /\ NoTwice(<<>>)
  BY DEF Members, NoTwice
<1>2. /\ conn \in [Conns -> Connection] /\ hub \in [Users -> Seq(Conns)]
      /\ pub \in [Topics -> Publication]
  BY NotConnectedGood DEF Init, Silent, Publication
<1>3. \A c \in Conns : Good(c, conn[c], hub)
  <2> SUFFICES ASSUME NEW c \in Conns
               PROVE  Good(c, NotConnected, hub)
    BY DEF Init
  <2>1. \A u \in Users : hub[u] = <<>>
    BY DEF Init
  <2>2. Len(NotConnected.send) <= BufSize /\ Members(NotConnected.send) = {}
    BY <1>1, NotConnectedGood, ConstantsAssumption
  <2> QED BY <1>1, <2>1, <2>2, NotConnectedGood DEF Good, Listed
<1>4. \A u \in Users : NoTwice(hub[u])
  BY <1>1 DEF Init
<1>5. \A t \in Topics : Walking(pub[t], hub)
  BY DEF Init, Silent, Walking
<1> QED BY <1>2, <1>3, <1>4, <1>5 DEF Inv

LEMMA NextKeepsInv ==
  ASSUME Inv, [Next]_vars
  PROVE  Inv'
<1>1. CASE UNCHANGED vars
  BY <1>1 DEF Inv, vars
<1>2. ASSUME NEW c \in Conns, PeerOf(c)
      PROVE  Inv'
  BY <1>2, PeerKeepsInv, ReadKeepsInv, AuthKeepsInv, AnswerKeepsInv DEF PeerOf
<1>3. ASSUME NEW c \in Conns, ReadLoop(c)
      PROVE  Inv'
  BY <1>3, ReadKeepsInv, AnswerKeepsInv, RegisterKeepsInv, UnregisterKeepsInv DEF ReadLoop
<1>4. ASSUME NEW c \in Conns, AuthTimer(c) \/ WriteLoop(c) \/ PingFails(c)
      PROVE  Inv'
  BY <1>4, PeerKeepsInv, WriteKeepsInv DEF AuthTimer
<1>5. ASSUME NEW t \in Topics, PublishForUser(t) \/ \E u \in Users : StartPublish(t, u)
      PROVE  Inv'
  BY <1>5, PublishKeepsInv, EndKeepsInv, StartKeepsInv DEF PublishForUser
<1> QED BY <1>1, <1>2, <1>3, <1>4, <1>5 DEF Next

\* The invariant holds in every reachable state.
THEOREM Invariance == Spec => []Inv
<1>1. Init => Inv
  BY InitInv
<1>2. Inv /\ [Next]_vars => Inv'
  BY NextKeepsInv
<1> QED BY <1>1, <1>2, PTL DEF Spec

\* Types, and no send buffer ever holds more than BufSize messages: a client that
\* reads nothing loses messages and holds nobody's memory.
THEOREM TypeCorrect == Spec => []TypeOK
<1>1. Inv => TypeOK
  BY DEF Inv, Good, TypeOK
<1> QED BY <1>1, Invariance, PTL

\* The hub lists a connection at most once, for the user it authenticated as, and
\* not after Unregister: however connections come and go, none is left behind.
THEOREM NothingLeftBehind == Spec => []RegistrationsLive
<1>1. Inv => RegistrationsLive
  <2> SUFFICES ASSUME Inv, NEW u \in Users
               PROVE  /\ \A i, j \in DOMAIN hub[u] : hub[u][i] = hub[u][j] => i = j
                      /\ \A c \in Members(hub[u]) :
                            /\ conn[c].user = u
                            /\ conn[c].read \in {"welcome", "read", "leave", "unregister"}
    BY DEF RegistrationsLive
  <2>1. \A c \in Members(hub[u]) : c \in Conns
    <3>1. hub[u] \in Seq(Conns)
      BY DEF Inv
    <3>2. \A i \in DOMAIN hub[u] : hub[u][i] \in Conns
      BY <3>1
    <3> QED BY <3>2 DEF Members
  <2> QED BY <2>1 DEF Inv, NoTwice, Good, Listed
<1> QED BY <1>1, Invariance, PTL

\* No event of one user is ever in the buffer of another one's connection.
THEOREM EventsStayPrivate == Spec => []OwnEventsOnly
<1>1. Inv => OwnEventsOnly
  BY DEF Inv, Good, OwnEventsOnly
<1> QED BY <1>1, Invariance, PTL

\* While a listener walks a list, that list is the hub's: the lock keeps Register and
\* Unregister out although the listener has the hub's own slice.
THEOREM ListsHoldStill == Spec => []WalksTheHubsList
<1>1. Inv => WalksTheHubsList
  BY DEF Inv, Walking, WalksTheHubsList
<1> QED BY <1>1, Invariance, PTL

-----------------------------------------------------------------------------
(* The two goroutines and the timer of a connection.                       *)

\* Of connection k: whoever ends has told the other, and a client that is not
\* authenticated has a timer that runs, until its socket is closed.
Told(k) ==
  /\ k.write = "done" => k.cancelled
  /\ k.read \in {"unregister", "close", "done"} => k.cancelled
  /\ k.read = "done" => k.ws = "closed"
  /\ k.read \in {"read", "reject"} /\ k.user = NoUser => k.timer # "off" \/ k.ws = "closed"

AllTold == \A c \in Conns : Told(conn[c])

LEMMA OneTold ==
  ASSUME Inv, AllTold, NEW c \in Conns, NEW k, conn' = [conn EXCEPT ![c] = k], Told(k)
  PROVE  AllTold'
<1>1. \A d \in Conns : conn'[d] = IF d = c THEN k ELSE conn[d]
  BY DEF Inv
<1> QED BY <1>1 DEF AllTold

\* A message in the buffer tells nobody anything.
LEMMA SentTells ==
  ASSUME NEW k \in Connection, Len(k.send) <= BufSize, Told(k), NEW m \in Message
  PROVE  Told(Sent(k, m))
<1> DEFINE n == Sent(k, m)
<1>1. /\ n.read = k.read /\ n.user = k.user /\ n.ws = k.ws
      /\ n.write = k.write /\ n.timer = k.timer /\ (n.cancelled <=> k.cancelled)
  BY SentFields
<1> HIDE DEF n
<1>2. Told(n)
  BY <1>1 DEF Told
<1> QED BY <1>2 DEF n

LEMMA PeerTells ==
  ASSUME Inv, AllTold, NEW c \in Conns, PeerOf(c)
  PROVE  AllTold'
<1> DEFINE o == conn[c]
<1>1. o \in Connection /\ Len(o.send) <= BufSize /\ Told(o)
      /\ (o.read = "off" => o.ws = "closed")
  BY ConnectionFacts DEF AllTold
<1>2. CASE UpgradeHandler(c)
  <2> DEFINE k == [NotConnected EXCEPT !.read = "read", !.write = "select",
                                       !.ws = "open", !.timer = "armed"]
  <2>1. conn' = [conn EXCEPT ![c] = k]
    BY <1>2 DEF UpgradeHandler, Become
  <2>2. k.read = "read" /\ k.write = "select" /\ k.timer = "armed"
    BY DEF NotConnected
  <2> HIDE DEF k
  <2>3. Told(k)
    BY <2>2 DEF Told
  <2> QED BY <2>1, <2>3, OneTold
<1>3. ASSUME NEW ws \in {"closed", "lost"}, o.ws = "open",
             conn' = [conn EXCEPT ![c] = [o EXCEPT !.ws = ws]]
      PROVE  AllTold'
  <2> DEFINE k == [o EXCEPT !.ws = ws]
  <2>1. /\ k.read = o.read /\ k.write = o.write /\ k.user = o.user /\ k.timer = o.timer
        /\ (k.cancelled <=> o.cancelled)
    BY <1>1 DEF Connection
  <2>2. Told(o) /\ o.ws = "open"
    BY <1>1, <1>3
  <2> HIDE DEF k, o
  <2>3. Told(k)
    BY <2>1, <2>2 DEF Told
  <2>4. conn' = [conn EXCEPT ![c] = k]
    BY <1>3 DEF k
  <2> QED BY <2>3, <2>4, OneTold
<1>4. CASE PeerCloses(c) \/ PeerVanishes(c)
  <2>1. CASE PeerCloses(c)
    BY <1>3, <2>1 DEF PeerCloses, Become
  <2>2. CASE PeerVanishes(c)
    BY <1>3, <2>2 DEF PeerVanishes, Become
  <2> QED BY <1>4, <2>1, <2>2
<1>5. ASSUME NEW u \in Users, AuthValid(c, u)
      PROVE  AllTold'
  <2> DEFINE k == [o EXCEPT !.user = u, !.read = "register"]
  <2>1. k.read = "register" /\ k.write = o.write /\ (k.cancelled <=> o.cancelled)
    BY <1>1 DEF Connection
  <2>2. conn' = [conn EXCEPT ![c] = k]
    BY <1>5 DEF AuthValid, Become
  <2>3. Told(o)
    BY <1>1
  <2> HIDE DEF k, o
  <2>4. Told(k)
    BY <2>1, <2>3 DEF Told
  <2> QED BY <2>2, <2>4, OneTold
<1>6. CASE AuthInvalid(c)
  <2> DEFINE k == [o EXCEPT !.read = "reject"]
  <2>1. /\ k.read = "reject" /\ k.write = o.write /\ (k.cancelled <=> o.cancelled)
        /\ k.user = o.user /\ k.timer = o.timer /\ k.ws = o.ws
    BY <1>1 DEF Connection
  <2>2. conn' = [conn EXCEPT ![c] = k] /\ o.read = "read"
    BY <1>6 DEF AuthInvalid, Receives, Become
  <2>3. Told(o)
    BY <1>1
  <2> HIDE DEF k, o
  <2>4. Told(k)
    BY <2>1, <2>2, <2>3 DEF Told
  <2> QED BY <2>2, <2>4, OneTold
<1>7. ASSUME NEW t \in Topics, Subscribe(c, t) \/ Unsubscribe(c, t)
      PROVE  AllTold'
  <2>1. PICK S : conn' = [conn EXCEPT ![c] = [o EXCEPT !.subs = S]]
    <3>1. \/ Become(c, [o EXCEPT !.subs = o.subs \cup {t}])
          \/ Become(c, [o EXCEPT !.subs = o.subs \ {t}])
      BY <1>7 DEF Subscribe, Unsubscribe
    <3> QED BY <3>1 DEF Become
  <2> DEFINE k == [o EXCEPT !.subs = S]
  <2>2. /\ k.read = o.read /\ k.write = o.write /\ (k.cancelled <=> o.cancelled)
        /\ k.user = o.user /\ k.timer = o.timer /\ k.ws = o.ws
    BY <1>1 DEF Connection
  <2>3. Told(o)
    BY <1>1
  <2>4. conn' = [conn EXCEPT ![c] = k]
    BY <2>1
  <2> HIDE DEF k, o
  <2>5. Told(k)
    BY <2>2, <2>3 DEF Told
  <2> QED BY <2>4, <2>5, OneTold
<1>8. CASE Refuse(c)
  <2>1. conn' = [conn EXCEPT ![c] = Sent(o, Failure)]
    BY <1>8 DEF Refuse, Become
  <2>2. Told(Sent(o, Failure))
    BY <1>1, MessageFacts, SentTells
  <2> QED BY <2>1, <2>2, OneTold
<1> QED BY <1>2, <1>4, <1>5, <1>6, <1>7, <1>8 DEF PeerOf

LEMMA ReadTells ==
  ASSUME Inv, AllTold, NEW c \in Conns, ReadLoop(c)
  PROVE  AllTold'
<1> DEFINE o == conn[c]
<1>1. o \in Connection /\ Len(o.send) <= BufSize /\ Told(o) /\ Good(c, o, hub)
  BY ConnectionFacts DEF AllTold
<1>2. CASE ContextEndsRead(c)
  <2> DEFINE k == [o EXCEPT !.ws = "closed"]
  <2>1. /\ k.read = o.read /\ k.write = o.write /\ (k.cancelled <=> o.cancelled)
        /\ k.ws = "closed"
    BY <1>1 DEF Connection
  <2>2. conn' = [conn EXCEPT ![c] = k] /\ Told(o)
    BY <1>1, <1>2 DEF ContextEndsRead, Become
  <2> HIDE DEF k, o
  <2>3. Told(k)
    BY <2>1, <2>2 DEF Told
  <2> QED BY <2>2, <2>3, OneTold
<1>3. CASE ReadFails(c) \/ RejectWritten(c)
  <2> DEFINE k == Leaving(o)
  <2>1. k.read = "leave" /\ k.write = o.write /\ (k.cancelled <=> o.cancelled)
    BY <1>1 DEF Leaving, Connection
  <2>2. conn' = [conn EXCEPT ![c] = k] /\ Told(o)
    BY <1>1, <1>3 DEF ReadFails, RejectWritten, Become
  <2> HIDE DEF k, o
  <2>3. Told(k)
    BY <2>1, <2>2 DEF Told
  <2> QED BY <2>2, <2>3, OneTold
<1>4. ASSUME NEW pc \in {"welcome", "close"},
             conn' = [conn EXCEPT ![c].read = pc], pc = "close" => o.read = "unregister"
      PROVE  AllTold'
  <2> DEFINE k == [o EXCEPT !.read = pc]
  <2>1. k.read = pc /\ k.write = o.write /\ (k.cancelled <=> o.cancelled)
    BY <1>1 DEF Connection
  <2>2. conn' = [conn EXCEPT ![c] = k] /\ Told(o) /\ (pc = "close" => o.read = "unregister")
    BY <1>1, <1>4
  <2> HIDE DEF k, o
  <2>3. Told(k)
    BY <2>1, <2>2, <1>4 DEF Told
  <2> QED BY <2>2, <2>3, OneTold
<1>5. CASE Register(c)
  BY <1>4, <1>5 DEF Register
<1>6. CASE Unregister(c)
  BY <1>4, <1>6 DEF Unregister
<1>7. CASE SendWelcome(c)
  <2> DEFINE k == [o EXCEPT !.read = "read"]
  <2>1. k \in Connection /\ k.send = o.send
    BY <1>1 DEF Connection, ReadPcs
  <2>2. /\ k.read = "read" /\ k.write = o.write /\ (k.cancelled <=> o.cancelled)
        /\ k.user = o.user
    BY <1>1 DEF Connection
  <2>3. conn' = [conn EXCEPT ![c] = Sent(k, Welcome)] /\ o.read = "welcome"
    BY <1>7 DEF SendWelcome, Become
  <2>4. o.user # NoUser
    BY <1>1, <2>3 DEF Good
  <2>5. Told(o)
    BY <1>1
  <2>6. Len(k.send) <= BufSize
    BY <1>1, <2>1
  <2> HIDE DEF k, o
  <2>7. Told(k)
    BY <2>2, <2>4, <2>5 DEF Told
  <2>8. Told(Sent(k, Welcome))
    BY <2>1, <2>6, <2>7, MessageFacts, SentTells
  <2> QED BY <2>3, <2>8, OneTold
<1>8. CASE Cancel(c)
  <2>1. PICK pc \in {"unregister", "close"} :
          conn' = [conn EXCEPT ![c] = [o EXCEPT !.cancelled = TRUE, !.read = pc]]
    <3>1. PICK pc : /\ pc = IF IsAuthenticated(c) THEN "unregister" ELSE "close"
                    /\ Become(c, [o EXCEPT !.cancelled = TRUE, !.read = pc])
      BY <1>8 DEF Cancel
    <3> QED BY <3>1 DEF Become
  <2> DEFINE k == [o EXCEPT !.cancelled = TRUE, !.read = pc]
  <2>2. k.read = pc /\ k.cancelled
    BY <1>1 DEF Connection
  <2>3. conn' = [conn EXCEPT ![c] = k]
    BY <2>1
  <2> HIDE DEF k, o
  <2>4. Told(k)
    BY <2>2, <2>1 DEF Told
  <2> QED BY <2>3, <2>4, OneTold
<1>9. CASE CloseSocket(c)
  <2> DEFINE k == [o EXCEPT !.read = "done", !.ws = "closed"]
  <2>1. k.read = "done" /\ k.ws = "closed" /\ k.write = o.write /\ (k.cancelled <=> o.cancelled)
    BY <1>1 DEF Connection
  <2>2. conn' = [conn EXCEPT ![c] = k] /\ Told(o) /\ o.read = "close"
    BY <1>1, <1>9 DEF CloseSocket, Become
  <2> HIDE DEF k, o
  <2>3. Told(k)
    BY <2>1, <2>2 DEF Told
  <2> QED BY <2>2, <2>3, OneTold
<1> QED BY <1>2, <1>3, <1>5, <1>6, <1>7, <1>8, <1>9 DEF ReadLoop

LEMMA TimerTells ==
  ASSUME Inv, AllTold, NEW c \in Conns, AuthTimer(c)
  PROVE  AllTold'
<1> DEFINE o == conn[c]
<1>1. o \in Connection /\ Told(o)
  BY ConnectionFacts DEF AllTold
<1>2. CASE TimerExpires(c)
  <2> DEFINE timer == IF IsAuthenticated(c) THEN "off" ELSE "expired"
             k == [o EXCEPT !.timer = timer]
  <2>1. /\ k.read = o.read /\ k.write = o.write /\ (k.cancelled <=> o.cancelled)
        /\ k.user = o.user /\ k.ws = o.ws /\ k.timer = timer
    BY <1>1 DEF Connection
  <2>2. o.user = NoUser => timer # "off"
    BY DEF IsAuthenticated
  <2>3. conn' = [conn EXCEPT ![c] = k] /\ Told(o)
    BY <1>1, <1>2 DEF TimerExpires, Become
  <2> HIDE DEF k, o, timer
  <2>4. Told(k)
    BY <2>1, <2>2, <2>3 DEF Told
  <2> QED BY <2>3, <2>4, OneTold
<1>3. CASE TimerCloses(c)
  <2> DEFINE k == [o EXCEPT !.timer = "off", !.ws = "closed"]
  <2>1. /\ k.read = o.read /\ k.write = o.write /\ (k.cancelled <=> o.cancelled)
        /\ k.ws = "closed"
    BY <1>1 DEF Connection
  <2>2. conn' = [conn EXCEPT ![c] = k] /\ Told(o)
    BY <1>1, <1>3 DEF TimerCloses, Become
  <2> HIDE DEF k, o
  <2>3. Told(k)
    BY <2>1, <2>2 DEF Told
  <2> QED BY <2>2, <2>3, OneTold
<1> QED BY <1>2, <1>3 DEF AuthTimer

LEMMA WriteTells ==
  ASSUME Inv, AllTold, NEW c \in Conns, WriteLoop(c) \/ PingFails(c)
  PROVE  AllTold'
<1> DEFINE o == conn[c]
<1>1. o \in Connection /\ Told(o)
  BY ConnectionFacts DEF AllTold
<1>2. ASSUME NEW pc \in {"write", "select"}, NEW s,
             conn' = [conn EXCEPT ![c] = [o EXCEPT !.write = pc, !.send = s]]
      PROVE  AllTold'
  <2> DEFINE k == [o EXCEPT !.write = pc, !.send = s]
  <2>1. /\ k.write = pc /\ k.read = o.read /\ (k.cancelled <=> o.cancelled)
        /\ k.user = o.user /\ k.ws = o.ws /\ k.timer = o.timer
    BY <1>1 DEF Connection
  <2>2. conn' = [conn EXCEPT ![c] = k] /\ Told(o) /\ pc # "done"
    BY <1>1, <1>2
  <2> HIDE DEF k, o
  <2>3. Told(k)
    BY <2>1, <2>2 DEF Told
  <2> QED BY <2>2, <2>3, OneTold
<1>4. CASE TakeMessage(c)
  BY <1>2, <1>4 DEF TakeMessage, Become
<1>5. CASE WriteDone(c)
  <2>1. [o EXCEPT !.write = "select"] = [o EXCEPT !.write = "select", !.send = o.send]
    BY <1>1 DEF Connection
  <2>2. conn' = [conn EXCEPT ![c] = [o EXCEPT !.write = "select", !.send = o.send]]
    BY <1>5, <2>1 DEF WriteDone, Become
  <2> QED BY <1>2, <2>2
<1>3. CASE WriteFails(c) \/ PingFails(c) \/ ContextDone(c)
  <2> DEFINE k == EndsWrite(o)
  <2>1. /\ k.cancelled /\ k.read = o.read
        /\ k.user = o.user /\ k.ws = o.ws /\ k.timer = o.timer
    BY <1>1 DEF EndsWrite, Connection
  <2>2. conn' = [conn EXCEPT ![c] = k] /\ Told(o)
    BY <1>1, <1>3 DEF WriteFails, PingFails, ContextDone, Become
  <2> HIDE DEF k, o
  <2>3. Told(k)
    BY <2>1, <2>2 DEF Told
  <2> QED BY <2>2, <2>3, OneTold
<1> QED BY <1>3, <1>4, <1>5 DEF WriteLoop

LEMMA PublishTells ==
  ASSUME Inv, AllTold, NEW t \in Topics, PublishToOne(t)
  PROVE  AllTold'
<1> DEFINE c == At(t)
           o == conn[c]
           m == EventOf(t, pub[t].user)
<1>1. c \in Conns /\ m \in Message
  BY ServesItsUser, MessageFacts
<1>2. o \in Connection /\ Len(o.send) <= BufSize /\ Told(o)
  BY <1>1, ConnectionFacts DEF AllTold
<1>3. CASE t \in o.subs
  <2>1. conn' = [conn EXCEPT ![c] = Sent(o, m)]
    BY <1>1, <1>3 DEF PublishToOne, Inv
  <2>2. Told(Sent(o, m))
    BY <1>1, <1>2, SentTells
  <2> QED BY <1>1, <2>1, <2>2, OneTold
<1>4. CASE t \notin o.subs
  BY <1>4 DEF PublishToOne, AllTold
<1> QED BY <1>3, <1>4

\* However a connection ends - its peer closes the socket, vanishes or reads too
\* slowly, or does not authenticate in time - the ends of ReadLoop and WriteLoop are
\* told to the other one by the context they share, before either is gone, and
\* an unauthenticated client has the timer of ReadLoop running.  This is what
\* ConnectionsEnd needs to be true in every state: nobody waits unwoken.
THEOREM EachEndsTheOther ==
  Spec => [](\A c \in Conns :
               /\ conn[c].write = "done" => conn[c].cancelled
               /\ conn[c].read \in {"unregister", "close", "done"} => conn[c].cancelled
               /\ conn[c].read = "done" => conn[c].ws = "closed"
               /\ conn[c].read \in {"read", "reject"} /\ ~IsAuthenticated(c)
                    => conn[c].timer # "off" \/ conn[c].ws = "closed")
<1>1. Init => AllTold
  <2>1. NotConnected.read = "off" /\ NotConnected.write = "off"
    BY DEF NotConnected
  <2>2. Told(NotConnected)
    BY <2>1 DEF Told
  <2> QED BY <2>2 DEF Init, AllTold
<1>2. Inv /\ AllTold /\ [Next]_vars => AllTold'
  <2> SUFFICES ASSUME Inv, AllTold, [Next]_vars
               PROVE  AllTold'
    OBVIOUS
  <2>1. ASSUME NEW c \in Conns,
               PeerOf(c) \/ ReadLoop(c) \/ AuthTimer(c) \/ WriteLoop(c) \/ PingFails(c)
        PROVE  AllTold'
    BY <2>1, PeerTells, ReadTells, TimerTells, WriteTells
  <2>2. ASSUME NEW t \in Topics, PublishForUser(t) \/ \E u \in Users : StartPublish(t, u)
        PROVE  AllTold'
    <3>1. CASE PublishToOne(t)
      BY <3>1, PublishTells
    <3>2. CASE EndPublish(t) \/ \E u \in Users : StartPublish(t, u)
      BY <3>2 DEF EndPublish, StartPublish, AllTold
    <3> QED BY <2>2, <3>1, <3>2 DEF PublishForUser
  <2>3. CASE UNCHANGED vars
    BY <2>3 DEF vars, AllTold
  <2> QED BY <2>1, <2>2, <2>3 DEF Next
<1>3. AllTold =>
        \A c \in Conns :
          /\ conn[c].write = "done" => conn[c].cancelled
          /\ conn[c].read \in {"unregister", "close", "done"} => conn[c].cancelled
          /\ conn[c].read = "done" => conn[c].ws = "closed"
          /\ conn[c].read \in {"read", "reject"} /\ ~IsAuthenticated(c)
               => conn[c].timer # "off" \/ conn[c].ws = "closed"
  BY DEF AllTold, Told, IsAuthenticated
<1> QED BY <1>1, <1>2, <1>3, Invariance, PTL DEF Spec

-----------------------------------------------------------------------------
(* The hub serves a feed.                                                  *)

\* The mapping of Realtime, by name.
Member == [c \in Conns |-> IF Registered(c) THEN conn[c].user ELSE NoUser]
Left == {c \in Conns : conn[c].read \in {"close", "done"} /\ IsAuthenticated(c)}
Box == [c \in Conns |-> [i \in DOMAIN conn[c].send |->
          IF conn[c].send[i].kind = "event" THEN conn[c].send[i].user ELSE NoUser]]

LEMMA Stutters ==
  ASSUME Member' = Member, Left' = Left, Box' = Box
  PROVE  UNCHANGED TheFeed!vars
  BY DEF TheFeed!vars, Member, Left, Box

LEMMA Joins ==
  ASSUME NEW c, NEW u, Member[c] = NoUser, c \notin Left,
         Member' = [Member EXCEPT ![c] = u], Left' = Left, Box' = Box
  PROVE  TheFeed!Join(c, u)
  BY DEF TheFeed!Join, Member, Left, Box

LEMMA Leaves ==
  ASSUME NEW c, Member[c] # NoUser,
         Member' = [Member EXCEPT ![c] = NoUser], Left' = Left \cup {c}, Box' = Box
  PROVE  TheFeed!Leave(c)
  BY DEF TheFeed!Leave, Member, Left, Box

LEMMA Posts ==
  ASSUME NEW c, Member[c] # NoUser,
         Member' = Member, Left' = Left, Box' = [Box EXCEPT ![c] = Append(Box[c], Member[c])]
  PROVE  TheFeed!Post(c)
  BY DEF TheFeed!Post, Member, Left, Box

LEMMA Answers ==
  ASSUME NEW c,
         Member' = Member, Left' = Left, Box' = [Box EXCEPT ![c] = Append(Box[c], NoUser)]
  PROVE  TheFeed!Answer(c)
  BY DEF TheFeed!Answer, Member, Left, Box

LEMMA Takes ==
  ASSUME NEW c, Box[c] # <<>>,
         Member' = Member, Left' = Left, Box' = [Box EXCEPT ![c] = Tail(Box[c])]
  PROVE  TheFeed!Take(c)
  BY DEF TheFeed!Take, Member, Left, Box

Item(m) == IF m.kind = "event" THEN m.user ELSE NoUser
Items(s) == [i \in DOMAIN s |-> Item(s[i])]
Gone(k) == k.read \in {"close", "done"} /\ k.user # NoUser

LEMMA ItemsTyped ==
  ASSUME NEW s \in Seq(Message)
  PROVE  /\ Items(s) \in Seq(Users \cup {NoUser}) /\ Len(Items(s)) = Len(s)
         /\ \A i \in 1..Len(s) : Items(s)[i] = Item(s[i])
<1>1. \A i \in 1..Len(s) : Item(s[i]) \in Users \cup {NoUser}
  BY MessageFacts DEF Item
<1>2. DOMAIN s = 1..Len(s) /\ Len(s) \in Nat
  OBVIOUS
<1> DEFINE n == Len(s)
<1>3. Items(s) = [i \in 1..n |-> Item(s[i])]
  BY <1>2 DEF Items
<1>4. n \in Nat /\ \A i \in 1..n : Item(s[i]) \in Users \cup {NoUser}
  BY <1>1, <1>2
<1> HIDE DEF n
<1>5. /\ Items(s) \in Seq(Users \cup {NoUser}) /\ Len(Items(s)) = n
      /\ \A i \in 1..n : Items(s)[i] = Item(s[i])
  BY <1>3, <1>4
<1> QED BY <1>5 DEF n

LEMMA ItemsOfAppend ==
  ASSUME NEW s \in Seq(Message), NEW m \in Message
  PROVE  Items(Append(s, m)) = Append(Items(s), Item(m))
<1> DEFINE T == Users \cup {NoUser}
           a == Items(Append(s, m))
           b == Append(Items(s), Item(m))
           n == Len(s)
<1>1. Append(s, m) \in Seq(Message) /\ Len(Append(s, m)) = n + 1 /\ n \in Nat
      /\ \A i \in 1..n : Append(s, m)[i] = s[i]
      /\ Append(s, m)[n + 1] = m
  OBVIOUS
<1>2. Items(s) \in Seq(T) /\ Len(Items(s)) = n /\ \A i \in 1..n : Items(s)[i] = Item(s[i])
  BY ItemsTyped
<1>3. a \in Seq(T) /\ Len(a) = n + 1 /\ \A i \in 1..(n + 1) : a[i] = Item(Append(s, m)[i])
  BY <1>1, ItemsTyped
<1>4. Item(m) \in T
  BY MessageFacts DEF Item
<1> HIDE DEF T, n
<1>5. b \in Seq(T) /\ Len(b) = n + 1 /\ (\A i \in 1..n : b[i] = Items(s)[i]) /\ b[n + 1] = Item(m)
  BY <1>1, <1>2, <1>4
<1> HIDE DEF a, b
<1>6. \A i \in 1..(n + 1) : a[i] = b[i]
  <2> SUFFICES ASSUME NEW i \in 1..(n + 1)
               PROVE  a[i] = b[i]
    OBVIOUS
  <2>1. i \in 1..n \/ i = n + 1
    BY <1>1
  <2> QED BY <1>1, <1>2, <1>3, <1>5, <2>1
<1>7. a = b
  BY <1>3, <1>5, <1>6, SeqEqual
<1> QED BY <1>7 DEF a, b

LEMMA ItemsOfTail ==
  ASSUME NEW s \in Seq(Message), s # <<>>
  PROVE  Items(Tail(s)) = Tail(Items(s)) /\ Items(s) # <<>>
<1> DEFINE T == Users \cup {NoUser}
           a == Items(Tail(s))
           b == Tail(Items(s))
           n == Len(s)
<1>1. /\ Tail(s) \in Seq(Message) /\ Len(Tail(s)) = n - 1 /\ n \in Nat \ {0}
      /\ \A i \in 1..(n - 1) : Tail(s)[i] = s[i + 1]
  OBVIOUS
<1>2. Items(s) \in Seq(T) /\ Len(Items(s)) = n /\ \A i \in 1..n : Items(s)[i] = Item(s[i])
  BY ItemsTyped
<1>3. a \in Seq(T) /\ Len(a) = n - 1 /\ \A i \in 1..(n - 1) : a[i] = Item(Tail(s)[i])
  BY <1>1, ItemsTyped
<1> HIDE DEF T, n
<1>4. Items(s) # <<>>
  BY <1>1, <1>2
<1>5. b \in Seq(T) /\ Len(b) = n - 1 /\ \A i \in 1..(n - 1) : b[i] = Items(s)[i + 1]
  BY <1>1, <1>2, <1>4
<1> HIDE DEF a, b
<1>6. \A i \in 1..(n - 1) : a[i] = b[i]
  <2> SUFFICES ASSUME NEW i \in 1..(n - 1)
               PROVE  a[i] = b[i]
    OBVIOUS
  <2>1. i + 1 \in 1..n
    BY <1>1
  <2> QED BY <1>1, <1>2, <1>3, <1>5, <2>1
<1>7. a = b
  BY <1>3, <1>5, <1>6, SeqEqual
<1> QED BY <1>4, <1>7 DEF a, b

\* What the feed sees when one connection changes and the hub's lists do not.
LEMMA OneViewed ==
  ASSUME Inv, NEW c \in Conns, NEW k, conn' = [conn EXCEPT ![c] = k], hub' = hub,
         k.user = conn[c].user \/ conn[c].user = NoUser,
         Gone(k) <=> Gone(conn[c])
  PROVE  /\ Member' = Member /\ Left' = Left
         /\ Box' = [Box EXCEPT ![c] = Items(k.send)] /\ Box[c] = Items(conn[c].send)
<1>1. \A d \in Conns : conn'[d] = IF d = c THEN k ELSE conn[d]
  BY DEF Inv
<1>2. Registered(c) => conn[c].user # NoUser
  <2> SUFFICES ASSUME NEW u \in Users, c \in Members(hub[u])
               PROVE  conn[c].user # NoUser
    BY DEF Registered
  <2> QED BY ConstantsAssumption DEF Inv, Good
<1>3. Member' = Member
  <2>1. \A d \in Conns : Registered(d)' <=> Registered(d)
    BY DEF Registered
  <2>2. \A d \in Conns : (IF Registered(d) THEN conn[d].user ELSE NoUser)'
                           = IF Registered(d) THEN conn[d].user ELSE NoUser
    BY <1>1, <1>2, <2>1
  <2> QED BY <2>2 DEF Member
<1>4. Left' = Left
  BY <1>1 DEF Left, Gone, IsAuthenticated
<1>5. \A d \in Conns : Box[d] = Items(conn[d].send)
  BY DEF Box, Items, Item
<1>6. Box' = [d \in Conns |-> Items(conn'[d].send)]
  BY DEF Box, Items, Item
<1>7. Box = [d \in Conns |-> Items(conn[d].send)]
  BY DEF Box, Items, Item
<1>8. Box' = [Box EXCEPT ![c] = Items(k.send)]
  BY <1>1, <1>6, <1>7
<1> QED BY <1>3, <1>4, <1>5, <1>8

\* Steps of one connection that put nothing into its buffer and take nothing out.
LEMMA QuietSteps ==
  ASSUME Inv, NEW c \in Conns,
         \/ UpgradeHandler(c) \/ PeerCloses(c) \/ PeerVanishes(c) \/ AuthInvalid(c)
         \/ \E u \in Users : AuthValid(c, u)
         \/ \E t \in Topics : Subscribe(c, t) \/ Unsubscribe(c, t)
         \/ ContextEndsRead(c) \/ ReadFails(c) \/ RejectWritten(c) \/ Cancel(c) \/ CloseSocket(c)
         \/ AuthTimer(c) \/ WriteDone(c) \/ WriteFails(c) \/ ContextDone(c) \/ PingFails(c)
  PROVE  UNCHANGED TheFeed!vars
<1> DEFINE o == conn[c]
<1>1. o \in Connection /\ Good(c, o, hub) /\ (o.read = "off" => o = NotConnected)
  BY ConnectionFacts DEF Good
<1>2. ASSUME NEW k, Become(c, k), k.send = o.send, k.user = o.user \/ o.user = NoUser,
             Gone(k) <=> Gone(o)
      PROVE  UNCHANGED TheFeed!vars
  <2>1. conn' = [conn EXCEPT ![c] = k] /\ hub' = hub
    BY <1>2 DEF Become
  <2>2. /\ Member' = Member /\ Left' = Left
        /\ Box' = [Box EXCEPT ![c] = Items(k.send)] /\ Box[c] = Items(o.send)
    BY <1>2, <2>1, OneViewed
  <2>3. Box' = Box
    BY <1>2, <2>2 DEF Box
  <2> QED BY <2>2, <2>3, Stutters
<1>3. CASE UpgradeHandler(c)
  <2> DEFINE k == [NotConnected EXCEPT !.read = "read", !.write = "select",
                                       !.ws = "open", !.timer = "armed"]
  <2>1. Become(c, k) /\ o = NotConnected
    BY <1>1, <1>3 DEF UpgradeHandler
  <2>2. k.send = <<>> /\ k.user = NoUser /\ o.send = <<>> /\ o.user = NoUser
    BY <2>1, NotConnectedGood DEF Connection
  <2> HIDE DEF k
  <2> QED BY <1>2, <2>1, <2>2 DEF Gone
<1>4. CASE PeerCloses(c)
  <2> DEFINE k == [o EXCEPT !.ws = "closed"]
  <2>1. Become(c, k)
    BY <1>4 DEF PeerCloses
  <2>2. k.send = o.send /\ (k.user = o.user \/ o.user = NoUser) /\ (Gone(k) <=> Gone(o))
    BY <1>1, <1>4 DEF Connection, Gone, PeerCloses
  <2> HIDE DEF k
  <2> QED BY <1>2, <2>1, <2>2
<1>5. CASE PeerVanishes(c)
  <2> DEFINE k == [o EXCEPT !.ws = "lost"]
  <2>1. Become(c, k)
    BY <1>5 DEF PeerVanishes
  <2>2. k.send = o.send /\ (k.user = o.user \/ o.user = NoUser) /\ (Gone(k) <=> Gone(o))
    BY <1>1, <1>5 DEF Connection, Gone, PeerVanishes
  <2> HIDE DEF k
  <2> QED BY <1>2, <2>1, <2>2
<1>6. CASE AuthInvalid(c)
  <2> DEFINE k == [o EXCEPT !.read = "reject"]
  <2>1. Become(c, k)
    BY <1>6 DEF AuthInvalid, Receives
  <2>2. k.send = o.send /\ (k.user = o.user \/ o.user = NoUser) /\ (Gone(k) <=> Gone(o))
    BY <1>1, <1>6 DEF Connection, Gone, AuthInvalid, Receives
  <2> HIDE DEF k
  <2> QED BY <1>2, <2>1, <2>2
<1>7. CASE ContextEndsRead(c)
  <2> DEFINE k == [o EXCEPT !.ws = "closed"]
  <2>1. Become(c, k)
    BY <1>7 DEF ContextEndsRead
  <2>2. k.send = o.send /\ (k.user = o.user \/ o.user = NoUser) /\ (Gone(k) <=> Gone(o))
    BY <1>1, <1>7 DEF Connection, Gone, ContextEndsRead
  <2> HIDE DEF k
  <2> QED BY <1>2, <2>1, <2>2
<1>8. CASE ReadFails(c) \/ RejectWritten(c)
  <2> DEFINE k == [o EXCEPT !.read = "leave", !.timer = IF o.timer = "armed" THEN "off" ELSE o.timer]
  <2>1. Become(c, k)
    BY <1>8 DEF ReadFails, RejectWritten, Leaving
  <2>2. k.send = o.send /\ (k.user = o.user \/ o.user = NoUser) /\ (Gone(k) <=> Gone(o))
    BY <1>1, <1>8 DEF Connection, Gone, ReadFails, RejectWritten, Leaving
  <2> HIDE DEF k
  <2> QED BY <1>2, <2>1, <2>2
<1>9. CASE Cancel(c)
  <2> DEFINE k == [o EXCEPT !.cancelled = TRUE, !.read = IF IsAuthenticated(c) THEN "unregister" ELSE "close"]
  <2>1. Become(c, k)
    BY <1>9 DEF Cancel, IsAuthenticated
  <2>2. k.send = o.send /\ (k.user = o.user \/ o.user = NoUser) /\ (Gone(k) <=> Gone(o))
    BY <1>1, <1>9 DEF Connection, Gone, Cancel, IsAuthenticated
  <2> HIDE DEF k
  <2> QED BY <1>2, <2>1, <2>2
<1>10. CASE CloseSocket(c)
  <2> DEFINE k == [o EXCEPT !.read = "done", !.ws = "closed"]
  <2>1. Become(c, k)
    BY <1>10 DEF CloseSocket
  <2>2. k.send = o.send /\ (k.user = o.user \/ o.user = NoUser) /\ (Gone(k) <=> Gone(o))
    BY <1>1, <1>10 DEF Connection, Gone, CloseSocket
  <2> HIDE DEF k
  <2> QED BY <1>2, <2>1, <2>2
<1>11. CASE TimerExpires(c)
  <2> DEFINE k == [o EXCEPT !.timer = IF IsAuthenticated(c) THEN "off" ELSE "expired"]
  <2>1. Become(c, k)
    BY <1>11 DEF TimerExpires
  <2>2. k.send = o.send /\ (k.user = o.user \/ o.user = NoUser) /\ (Gone(k) <=> Gone(o))
    BY <1>1, <1>11 DEF Connection, Gone, TimerExpires
  <2> HIDE DEF k
  <2> QED BY <1>2, <2>1, <2>2
<1>12. CASE TimerCloses(c)
  <2> DEFINE k == [o EXCEPT !.timer = "off", !.ws = "closed"]
  <2>1. Become(c, k)
    BY <1>12 DEF TimerCloses
  <2>2. k.send = o.send /\ (k.user = o.user \/ o.user = NoUser) /\ (Gone(k) <=> Gone(o))
    BY <1>1, <1>12 DEF Connection, Gone, TimerCloses
  <2> HIDE DEF k
  <2> QED BY <1>2, <2>1, <2>2
<1>13. CASE WriteDone(c)
  <2> DEFINE k == [o EXCEPT !.write = "select"]
  <2>1. Become(c, k)
    BY <1>13 DEF WriteDone
  <2>2. k.send = o.send /\ (k.user = o.user \/ o.user = NoUser) /\ (Gone(k) <=> Gone(o))
    BY <1>1, <1>13 DEF Connection, Gone, WriteDone
  <2> HIDE DEF k
  <2> QED BY <1>2, <2>1, <2>2
<1>14. CASE WriteFails(c) \/ PingFails(c) \/ ContextDone(c)
  <2> DEFINE k == [o EXCEPT !.write = "done", !.cancelled = TRUE]
  <2>1. Become(c, k)
    BY <1>14 DEF WriteFails, PingFails, ContextDone, EndsWrite
  <2>2. k.send = o.send /\ (k.user = o.user \/ o.user = NoUser) /\ (Gone(k) <=> Gone(o))
    BY <1>1, <1>14 DEF Connection, Gone, WriteFails, PingFails, ContextDone, EndsWrite
  <2> HIDE DEF k
  <2> QED BY <1>2, <2>1, <2>2
<1>15. ASSUME NEW u \in Users, AuthValid(c, u)
      PROVE  UNCHANGED TheFeed!vars
  <2> DEFINE k == [o EXCEPT !.user = u, !.read = "register"]
  <2>1. Become(c, k)
    BY <1>15 DEF AuthValid, Receives, IsAuthenticated
  <2>2. k.send = o.send /\ (k.user = o.user \/ o.user = NoUser) /\ (Gone(k) <=> Gone(o))
    BY <1>1, <1>15 DEF Connection, Gone, AuthValid, Receives, IsAuthenticated
  <2> HIDE DEF k
  <2> QED BY <1>2, <2>1, <2>2
<1>16. ASSUME NEW t \in Topics, Subscribe(c, t)
      PROVE  UNCHANGED TheFeed!vars
  <2> DEFINE k == [o EXCEPT !.subs = o.subs \cup {t}]
  <2>1. Become(c, k)
    BY <1>16 DEF Subscribe
  <2>2. k.send = o.send /\ (k.user = o.user \/ o.user = NoUser) /\ (Gone(k) <=> Gone(o))
    BY <1>1, <1>16 DEF Connection, Gone, Subscribe
  <2> HIDE DEF k
  <2> QED BY <1>2, <2>1, <2>2
<1>17. ASSUME NEW t \in Topics, Unsubscribe(c, t)
      PROVE  UNCHANGED TheFeed!vars
  <2> DEFINE k == [o EXCEPT !.subs = o.subs \ {t}]
  <2>1. Become(c, k)
    BY <1>17 DEF Unsubscribe
  <2>2. k.send = o.send /\ (k.user = o.user \/ o.user = NoUser) /\ (Gone(k) <=> Gone(o))
    BY <1>1, <1>17 DEF Connection, Gone, Unsubscribe
  <2> HIDE DEF k
  <2> QED BY <1>2, <2>1, <2>2
<1> QED
  BY <1>3, <1>4, <1>5, <1>6, <1>7, <1>8, <1>9, <1>10, <1>11, <1>12, <1>13, <1>14, <1>15, <1>16, <1>17 DEF AuthTimer

\* A message for a full buffer is dropped, any other is an item more.
LEMMA SentItems ==
  ASSUME NEW k \in Connection, NEW m \in Message
  PROVE  Items(Sent(k, m).send) \in {Items(k.send), Append(Items(k.send), Item(m))}
<1>1. k.send \in Seq(Message)
  BY DEF Connection
<1>2. Sent(k, m).send = k.send \/ Sent(k, m).send = Append(k.send, m)
  BY DEF Sent, Connection
<1> QED BY <1>1, <1>2, ItemsOfAppend

LEMMA AnswerSteps ==
  ASSUME Inv, NEW c \in Conns, Refuse(c) \/ SendWelcome(c)
  PROVE  TheFeed!Answer(c) \/ UNCHANGED TheFeed!vars
<1> DEFINE o == conn[c]
           n == [o EXCEPT !.read = "read"]
           m == IF SendWelcome(c) THEN Welcome ELSE Failure
           k == Sent(n, m)
<1>1. /\ o \in Connection /\ o.read \in {"read", "welcome"} /\ Len(o.send) <= BufSize
  BY ConnectionFacts DEF Refuse, SendWelcome, Receives
<1>2. Become(c, k)
  <2>1. CASE SendWelcome(c)
    BY <2>1 DEF SendWelcome
  <2>2. CASE ~SendWelcome(c)
    <3>1. Receives(c) /\ Become(c, Sent(o, Failure))
      BY <2>2 DEF Refuse
    <3>2. n = o
      BY <1>1, <3>1 DEF Receives, Connection
    <3> HIDE DEF n
    <3> QED BY <2>2, <3>1, <3>2
  <2> QED BY <2>1, <2>2
<1>3. /\ n \in Connection /\ n.send = o.send /\ n.user = o.user /\ n.read = "read"
      /\ Len(n.send) <= BufSize
  BY <1>1 DEF Connection, ReadPcs
<1>4. m \in Message /\ Item(m) = NoUser
  BY MessageFacts DEF Item
<1> HIDE DEF n, m
<1>5. /\ Items(k.send) \in {Items(o.send), Append(Items(o.send), NoUser)}
      /\ k.read = "read" /\ k.user = o.user
  BY <1>3, <1>4, SentFields, SentItems
<1> HIDE DEF k
<1>6. /\ Member' = Member /\ Left' = Left
      /\ Box' = [Box EXCEPT ![c] = Items(k.send)] /\ Box[c] = Items(o.send)
  BY <1>1, <1>2, <1>5, OneViewed DEF Become, Gone
<1>7. Box' = Box \/ Box' = [Box EXCEPT ![c] = Append(Box[c], NoUser)]
  BY <1>5, <1>6 DEF Box
<1> QED BY <1>6, <1>7, Stutters, Answers

LEMMA TakeSteps ==
  ASSUME Inv, NEW c \in Conns, TakeMessage(c)
  PROVE  TheFeed!Take(c)
<1> DEFINE o == conn[c]
           k == [o EXCEPT !.write = "write", !.send = Tail(o.send)]
<1>1. o \in Connection /\ o.send # <<>> /\ Become(c, k)
  BY ConnectionFacts DEF TakeMessage
<1>2. k.send = Tail(o.send) /\ k.user = o.user /\ k.read = o.read /\ o.send \in Seq(Message)
  BY <1>1 DEF Connection
<1> HIDE DEF k
<1>3. /\ Member' = Member /\ Left' = Left
      /\ Box' = [Box EXCEPT ![c] = Items(k.send)] /\ Box[c] = Items(o.send)
  BY <1>1, <1>2, OneViewed DEF Become, Gone
<1>4. Items(k.send) = Tail(Items(o.send)) /\ Items(o.send) # <<>>
  BY <1>1, <1>2, ItemsOfTail
<1> QED BY <1>3, <1>4, Takes

LEMMA PublishSteps ==
  ASSUME Inv, NEW t \in Topics, PublishToOne(t)
  PROVE  (\E c \in Conns : TheFeed!Post(c)) \/ UNCHANGED TheFeed!vars
<1>a. PICK c \in Conns : c = At(t)
  BY ServesItsUser
<1>b. PICK u \in Users : u = pub[t].user
  BY ServesItsUser
<1> DEFINE o == conn[c]
           m == EventOf(t, u)
           k == IF t \in o.subs THEN Sent(o, m) ELSE o
<1>1. o.user = u /\ o.read \in Listed
  BY <1>a, <1>b, ServesItsUser
<1>2. o \in Connection /\ Len(o.send) <= BufSize /\ Good(c, o, hub)
  BY <1>1, ConnectionFacts
<1>3. m \in Message /\ Item(m) = u
  BY <1>1, MessageFacts DEF Item
<1>4. conn' = [conn EXCEPT ![c] = k] /\ hub' = hub
  BY <1>a, <1>b DEF PublishToOne, Inv
<1> HIDE DEF m
<1>5. /\ Items(k.send) \in {Items(o.send), Append(Items(o.send), u)}
      /\ k.read = o.read /\ k.user = o.user
  BY <1>2, <1>3, SentFields, SentItems
<1> HIDE DEF k
<1>6. /\ Member' = Member /\ Left' = Left
      /\ Box' = [Box EXCEPT ![c] = Items(k.send)] /\ Box[c] = Items(o.send)
  BY <1>1, <1>4, <1>5, OneViewed DEF Gone
<1>7. Member[c] = u /\ u # NoUser
  <2>1. c \in Members(hub[u])
    BY <1>1, <1>2 DEF Good
  <2> QED BY <1>1, <2>1, ConstantsAssumption DEF Member, Registered
<1>8. Box' = Box \/ Box' = [Box EXCEPT ![c] = Append(Box[c], u)]
  BY <1>5, <1>6 DEF Box
<1>9. CASE Box' = Box
  BY <1>6, <1>9, Stutters
<1>10. CASE Box' = [Box EXCEPT ![c] = Append(Box[c], u)]
  <2>1. TheFeed!Post(c)
    BY <1>6, <1>7, <1>10, Posts
  <2> QED BY <2>1
<1> QED BY <1>8, <1>9, <1>10

LEMMA RegisterSteps ==
  ASSUME Inv, Inv', NEW c \in Conns, Register(c)
  PROVE  \E u \in Users : TheFeed!Join(c, u)
<1> DEFINE o == conn[c]
<1>1. o \in Connection /\ Good(c, o, hub) /\ o.read = "register"
  BY ConnectionFacts DEF Register
<1>2. conn' = [conn EXCEPT ![c].read = "welcome"]
  BY DEF Register
<1>3. /\ \A d \in Conns \ {c} : conn'[d] = conn[d]
      /\ conn'[c].read = "welcome" /\ conn'[c].user = o.user /\ conn'[c].send = o.send
  BY <1>1, <1>2 DEF Connection, Inv
<1>4. \A d \in Conns : Registered(d) <=> conn[d].user # NoUser /\ conn[d].read \in Listed
  BY ConstantsAssumption DEF Inv, Good, Connection, Registered
<1>5. \A d \in Conns : Registered(d)' <=> conn'[d].user # NoUser /\ conn'[d].read \in Listed
  BY ConstantsAssumption DEF Inv, Good, Connection, Registered
<1>6. o.user # NoUser
  BY <1>1 DEF Good
<1>7. Member[c] = NoUser /\ Member' = [Member EXCEPT ![c] = o.user]
  BY <1>1, <1>3, <1>4, <1>5, <1>6 DEF Member, Listed
<1>8. c \notin Left /\ Left' = Left
  BY <1>1, <1>3 DEF Left, IsAuthenticated
<1>9. Box' = Box
  BY <1>3 DEF Box
<1>10. PICK u \in Users : u = o.user
  BY <1>1, <1>6 DEF Connection
<1>11. TheFeed!Join(c, u)
  BY <1>7, <1>8, <1>9, <1>10, Joins
<1> QED BY <1>11

LEMMA UnregisterSteps ==
  ASSUME Inv, Inv', NEW c \in Conns, Unregister(c)
  PROVE  TheFeed!Leave(c)
<1> DEFINE o == conn[c]
<1>1. o \in Connection /\ Good(c, o, hub) /\ o.read = "unregister"
  BY ConnectionFacts DEF Unregister
<1>2. conn' = [conn EXCEPT ![c].read = "close"]
  BY DEF Unregister
<1>3. /\ \A d \in Conns \ {c} : conn'[d] = conn[d]
      /\ conn'[c].read = "close" /\ conn'[c].user = o.user /\ conn'[c].send = o.send
  BY <1>1, <1>2 DEF Connection, Inv
<1>4. \A d \in Conns : Registered(d) <=> conn[d].user # NoUser /\ conn[d].read \in Listed
  BY ConstantsAssumption DEF Inv, Good, Connection, Registered
<1>5. \A d \in Conns : Registered(d)' <=> conn'[d].user # NoUser /\ conn'[d].read \in Listed
  BY ConstantsAssumption DEF Inv, Good, Connection, Registered
<1>6. o.user # NoUser
  BY <1>1 DEF Good
<1>7. Member[c] # NoUser /\ Member' = [Member EXCEPT ![c] = NoUser]
  BY <1>1, <1>3, <1>4, <1>5, <1>6 DEF Member, Listed
<1>8. Left' = Left \cup {c}
  BY <1>1, <1>3, <1>6 DEF Left, IsAuthenticated
<1>9. Box' = Box
  BY <1>3 DEF Box
<1> QED BY <1>7, <1>8, <1>9, Leaves

LEMMA StepServes ==
  ASSUME Inv, Inv', [Next]_vars
  PROVE  [TheFeed!Next]_(TheFeed!vars)
<1>1. ASSUME conn' = conn, hub' = hub
      PROVE  UNCHANGED TheFeed!vars
  BY <1>1, Stutters DEF Member, Left, Box, Registered, IsAuthenticated
<1>2. CASE UNCHANGED vars
  BY <1>1, <1>2 DEF vars
<1>3. ASSUME NEW c \in Conns, PeerOf(c)
      PROVE  [TheFeed!Next]_(TheFeed!vars)
  BY <1>3, QuietSteps, AnswerSteps DEF PeerOf, TheFeed!Next
<1>4. ASSUME NEW c \in Conns, ReadLoop(c)
      PROVE  [TheFeed!Next]_(TheFeed!vars)
  <2>1. CASE Register(c)
    BY <2>1, RegisterSteps DEF TheFeed!Next
  <2>2. CASE Unregister(c)
    BY <2>2, UnregisterSteps DEF TheFeed!Next
  <2>3. CASE ~Register(c) /\ ~Unregister(c)
    BY <1>4, <2>3, QuietSteps, AnswerSteps DEF ReadLoop, TheFeed!Next
  <2> QED BY <2>1, <2>2, <2>3
<1>5. ASSUME NEW c \in Conns, AuthTimer(c) \/ WriteLoop(c) \/ PingFails(c)
      PROVE  [TheFeed!Next]_(TheFeed!vars)
  BY <1>5, QuietSteps, TakeSteps DEF WriteLoop, TheFeed!Next
<1>6. ASSUME NEW t \in Topics, PublishForUser(t)
      PROVE  [TheFeed!Next]_(TheFeed!vars)
  <2>1. CASE PublishToOne(t)
    BY <2>1, PublishSteps DEF TheFeed!Next
  <2>2. CASE EndPublish(t)
    BY <1>1, <2>2 DEF EndPublish
  <2> QED BY <1>6, <2>1, <2>2 DEF PublishForUser
<1>7. ASSUME NEW t \in Topics, NEW u \in Users, StartPublish(t, u)
      PROVE  UNCHANGED TheFeed!vars
  BY <1>1, <1>7 DEF StartPublish
<1> QED BY <1>2, <1>3, <1>4, <1>5, <1>6, <1>7 DEF Next

LEMMA InitServes ==
  ASSUME Init
  PROVE  TheFeed!Init
<1>1. \A c \in Conns : conn[c] = NotConnected
  BY DEF Init
<1>2. Inv
  BY InitInv
<1>3. NotConnected.user = NoUser /\ NotConnected.read = "off" /\ NotConnected.send = <<>>
  BY NotConnectedGood
<1>4. \A c \in Conns : ~Registered(c)
  BY <1>1, <1>2, <1>3 DEF Inv, Good, Registered, Listed
<1>5. Member = [c \in Conns |-> NoUser]
  BY <1>4 DEF Member
<1>6. Left = {}
  BY <1>1, <1>3 DEF Left
<1>7. Box = [c \in Conns |-> <<>>]
  <2>1. Items(<<>>) = <<>>
    BY DEF Items
  <2>2. \A c \in Conns : conn[c].send = <<>>
    BY <1>1, <1>3
  <2>3. Box = [c \in Conns |-> Items(conn[c].send)]
    BY DEF Box, Items, Item
  <2> QED BY <2>1, <2>2, <2>3
<1> QED BY <1>5, <1>6, <1>7 DEF TheFeed!Init, Member, Left, Box

\* The hub implements Feed: events are only put for clients that are in the feed of
\* their user, in the order in which they are received; nobody joins twice or comes
\* back after leaving.
THEOREM FeedServed == Spec => ServesAFeed
<1>1. Init => TheFeed!Init
  BY InitServes
<1>2. Inv /\ Inv' /\ [Next]_vars => [TheFeed!Next]_(TheFeed!vars)
  BY StepServes
<1> QED BY <1>1, <1>2, Invariance, PTL DEF Spec, ServesAFeed, TheFeed!Spec
=============================================================================
