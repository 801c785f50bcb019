-------------------------- MODULE SessionContract --------------------------
(***************************************************************************)
(* What the network library promises to the content: onAccept introduces a *)
(* session id that was never used before, on an index with no open         *)
(* session, and onRelease ends it, once.                                   *)
(***************************************************************************)
EXTENDS Naturals

CONSTANT Idx              (* indices of the session pool                     *)

VARIABLES opened, closed  (* ids given to onAccept, ids given to onRelease   *)

Id == Idx \X Nat

Init == opened = {} /\ closed = {}

OnAccept(id) ==
  /\ id \notin opened
  /\ \A other \in opened \ closed : other[1] # id[1]
  /\ opened' = opened \cup {id}
  /\ UNCHANGED closed

OnRelease(id) ==
  /\ id \in opened \ closed
  /\ closed' = closed \cup {id}
  /\ UNCHANGED opened

(* TLC evaluates the quantifiers over the ids that appear in the step.       *)
Next == \/ \E id \in opened' \ opened : OnAccept(id)
        \/ \E id \in closed' \ closed : OnRelease(id)

Spec == Init /\ [][Next]_<<opened, closed>>
=============================================================================
