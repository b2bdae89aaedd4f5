-------------------------------- MODULE Lifo --------------------------------
(***************************************************************************)
(* What a stack promises: a push puts a value on top, a pop takes the top  *)
(* value.                                                                  *)
(***************************************************************************)
EXTENDS Sequences

CONSTANTS Poppers, Values

VARIABLES items, \* top first
          out    \* the value each popper took last

Init == items = <<>> /\ out \in [Poppers -> Values]

Push == \E v \in Values : items' = <<v>> \o items /\ UNCHANGED out

Pop == \E c \in Poppers :
  /\ items # <<>>
  /\ out' = [out EXCEPT ![c] = Head(items)]
  /\ items' = Tail(items)

Next == Push \/ Pop

Spec == Init /\ [][Next]_<<items, out>>
=============================================================================
