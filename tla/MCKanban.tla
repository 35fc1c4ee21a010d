------------------------------ MODULE MCKanban ------------------------------
(* Instances of Kanban for TLC. *)
EXTENDS Kanban, TLC

Created == {t \in TaskIds : w.task[t].status # "none"}
Views == {v \in ViewIds : w.view[v].status # "none"}
Repeating == {t \in TaskIds : w.task[t].repeating}
Limited == {b \in Buckets : w.bucket[b].limit # 0}
Filtered == {v \in ViewIds : w.view[v].filtered}

OneProject ==
    /\ \A v \in ViewIds : w.view[v].project = AnyProject
    /\ \A t \in TaskIds : w.task[t].project = AnyProject
    /\ ~Idle => tx.new.project = AnyProject

\* One task on all boards of a project that changes, or of all projects.
ManyBoards ==
    /\ Cardinality(Created) <= 1 /\ Limited \cup Filtered = {}
    /\ configs = 0 \/ (configs = 1 /\ OneProject)

\* One board with at most four buckets: several tasks, with one change of the board,
\* limits and filters when they do not repeat; or one task and long sequences of
\* changes of the board.
OneBoard ==
    /\ OneProject /\ Cardinality(Views) <= 1 /\ w.next <= 5
    /\ \/ configs = 0 /\ Limited \cup Filtered = {}
       \/ /\ configs <= 1 /\ Repeating = {}
          /\ \A v \in Filtered : w.view[v].mode = "manual"
       \/ /\ Cardinality(Created) <= 1
          /\ Repeating \cup Limited \cup Filtered = {}

Explored == ManyBoards \/ OneBoard

Symmetry == Permutations(TaskIds) \cup Permutations(ViewIds)
=============================================================================
