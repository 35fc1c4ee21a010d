-------------------------------- MODULE Feed --------------------------------
(***************************************************************************)
(* What the realtime hub promises.  A client joins the feed of one user,   *)
(* once, and leaves it once.  In between, and only then, events of that    *)
(* user are put into its box; answers to its own messages may come at any  *)
(* time.  It takes from the box in the order in which things were put in.  *)
(***************************************************************************)
EXTENDS Sequences

CONSTANTS Clients, Users, NoUser

VARIABLES
    member,     \* the user whose feed a client is in, or NoUser
    left,       \* the clients that were in a feed and are not any more
    box         \* what was put for a client: a user's event, or NoUser for an answer

vars == <<member, left, box>>

Init ==
    /\ member = [c \in Clients |-> NoUser]
    /\ left = {}
    /\ box = [c \in Clients |-> <<>>]

Join(c, u) ==
    /\ member[c] = NoUser /\ c \notin left
    /\ member' = [member EXCEPT ![c] = u]
    /\ UNCHANGED <<left, box>>

Leave(c) ==
    /\ member[c] # NoUser
    /\ member' = [member EXCEPT ![c] = NoUser]
    /\ left' = left \cup {c}
    /\ UNCHANGED box

Post(c) ==
    /\ member[c] # NoUser
    /\ box' = [box EXCEPT ![c] = Append(@, member[c])]
    /\ UNCHANGED <<member, left>>

Answer(c) ==
    /\ box' = [box EXCEPT ![c] = Append(@, NoUser)]
    /\ UNCHANGED <<member, left>>

Take(c) ==
    /\ box[c] # <<>>
    /\ box' = [box EXCEPT ![c] = Tail(@)]
    /\ UNCHANGED <<member, left>>

Next ==
    \E c \in Clients :
       \/ \E u \in Users : Join(c, u)
       \/ Leave(c) \/ Post(c) \/ Answer(c) \/ Take(c)

Spec == Init /\ [][Next]_vars
=============================================================================
