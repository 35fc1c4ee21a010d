------------------------------- MODULE Outbox -------------------------------
(***************************************************************************)
(* What the handlers promise the listeners of events: an event is only     *)
(* announced after its change was committed, and a commit owes an event    *)
(* for everything it changed, which says what the change was.  Each event  *)
(* is tried once, in order: Announce takes it from what is owed, whether   *)
(* the listeners had it or the dispatch failed and was only logged.  A     *)
(* crash takes everything.                                                 *)
(***************************************************************************)
EXTENDS Sequences

CONSTANTS Requests, EntryIds, Events

VARIABLES
    table,  \* the committed entries: status and end
    owed    \* the events every request has committed and not announced

vars == <<table, owed>>

Init ==
    /\ \A e \in EntryIds : table[e].status = "none"
    /\ owed = [r \in Requests |-> <<>>]

\* ev tells how entry ev.id changes from one table to the next.
Describes(ev, before, after) ==
    LET old == before[ev.id] new == after[ev.id]
    IN CASE ev.kind = "created" -> /\ old.status = "none" /\ new.status = "live"
                                   /\ new.end = ev.end
         [] ev.kind = "updated" -> /\ old.status = "live" /\ new.status = "live"
                                   /\ new.end = ev.end
         [] ev.kind = "deleted" -> old.status = "live" /\ new.status = "gone"

Commit(r) ==
    /\ owed[r] = <<>>
    /\ owed' \in [Requests -> Seq(Events)]
    /\ \A q \in Requests \ {r} : owed'[q] = owed[q]
    /\ LET news == {owed'[r][i] : i \in DOMAIN owed'[r]}
       IN /\ \A ev \in news : Describes(ev, table, table')
          /\ \A e \in EntryIds : table'[e] # table[e] => \E ev \in news : ev.id = e

Announce(r) ==
    /\ owed[r] # <<>>
    /\ owed' = [owed EXCEPT ![r] = Tail(@)]
    /\ UNCHANGED table

Crash ==
    /\ owed' = [r \in Requests |-> <<>>]
    /\ UNCHANGED table

Next == Crash \/ \E r \in Requests : Commit(r) \/ Announce(r)

Spec == Init /\ [][Next]_vars
=============================================================================
