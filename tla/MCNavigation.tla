---------------------------- MODULE MCNavigation ----------------------------
(* A project with a view, a page that is loaded when first needed, and a   *)
(* task, which is flushed before it is left.                               *)
EXTENDS Navigation

Views == [project |-> "view"]
Shows == [project |-> "projects", view |-> "projects", teams |-> "teams", task |-> "task"]
=============================================================================
