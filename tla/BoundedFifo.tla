----------------------------- MODULE BoundedFifo -----------------------------
(***************************************************************************)
(* What a bounded multi-producer multi-consumer queue promises: a push     *)
(* first claims one of Cap places, the claimed values become visible in    *)
(* the order of the claims, and a pop takes the oldest visible value.      *)
(***************************************************************************)
EXTENDS Integers, Sequences

CONSTANTS Cap,    \* places in the queue
          NoValue \* no value has been popped yet

VARIABLES claimed, \* values whose push has a place but is not visible yet
          items,   \* visible values, oldest first
          out      \* the value the latest pop returned

fifoVars == <<claimed, items, out>>

Init == claimed = <<>> /\ items = <<>> /\ out = NoValue

\* Some value joins the claimed ones at the end.
Claim ==
  /\ Len(claimed) + Len(items) < Cap
  /\ claimed' # <<>>
  /\ claimed = SubSeq(claimed', 1, Len(claimed') - 1)
  /\ UNCHANGED <<items, out>>

Publish ==
  /\ claimed # <<>>
  /\ items' = Append(items, Head(claimed))
  /\ claimed' = Tail(claimed)
  /\ UNCHANGED out

Take ==
  /\ items # <<>>
  /\ out' = Head(items)
  /\ items' = Tail(items)
  /\ UNCHANGED claimed

Next == Claim \/ Publish \/ Take

Spec == Init /\ [][Next]_fifoVars
==============================================================================
