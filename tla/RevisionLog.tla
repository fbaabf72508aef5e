---------------------------- MODULE RevisionLog ----------------------------
(***************************************************************************)
(* What the stack store promises, independent of how the handlers of       *)
(* internal/stacks interleave: every stack has a log of revisions and a    *)
(* pointer to the revision recorded last.  A deploy or rollback publishes  *)
(* one revision and moves the pointer to it in a single step; an undeploy  *)
(* drops the stack with its whole log in a single step.  Nothing else ever *)
(* changes a log: a recorded revision is neither edited nor dropped alone. *)
(***************************************************************************)
CONSTANTS Stacks,   \* stack names
          NULL      \* "no stack row"

VARIABLES log,      \* log[s]: the recorded revisions of stack s
          current   \* current[s]: the revision recorded last, or NULL

vars == <<log, current>>

Init == /\ log = [s \in Stacks |-> {}]
        /\ current = [s \in Stacks |-> NULL]

Publish(s, row) ==
  /\ \A old \in log[s] : old.revision # row.revision
  /\ log' = [log EXCEPT ![s] = @ \union {row}]
  /\ current' = [current EXCEPT ![s] = row.revision]

Drop(s) ==
  /\ current[s] # NULL
  /\ log' = [log EXCEPT ![s] = {}]
  /\ current' = [current EXCEPT ![s] = NULL]

\* Which row is published is read off the new log: this specification is a
\* property of other modules and constrains no contents.
Next == \E s \in Stacks : Drop(s) \/ \E row \in log'[s] : Publish(s, row)

Spec == Init /\ [][Next]_vars
=============================================================================
