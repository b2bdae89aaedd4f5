---------------------------- MODULE ShortString ----------------------------
(***************************************************************************)
(* answer/stl/string.cxx: a string of up to 23 characters lies in the      *)
(* object, a longer one in an array.  The two layouts share their bytes:   *)
(* the size of a short string, with 1 in its last bit, is the low byte of  *)
(* the capacity of a long one.                                             *)
(***************************************************************************)
EXTENDS Integers, Sequences

CONSTANTS Strings,
          Literals, \* what strings are constructed from
          Chars

ShortStringAssumption == \A t \in Literals : t \in Seq(Chars)

Limit == 23
unset == <<>>

VARIABLES alive,
          low,   \* the first byte of each string
          rest,  \* the others: [chars] or [high, size]; high is capacity \div 256
          text,  \* history: what each string should hold
          failed \* strings that an append did not fit in

vars == <<alive, low, rest, text, failed>>

Init ==
  /\ alive = {} /\ failed = {}
  /\ low = [s \in Strings |-> 0] /\ rest = [s \in Strings |-> unset]
  /\ text = [s \in Strings |-> <<>>]

\* Mutant: the bit is looked for at its other end.
use_short_High(s) == low[s] < 128

\* Lines 26-28.
use_short(s) == low[s] % 2 = 1

\* Lines 42-45: one byte.
ShortByte(len) == (2 * len + 1) % 256

\* Lines 47-49 and 91-94.
size(s) == IF use_short(s) THEN low[s] \div 2 ELSE rest[s].size

Set(s, byte, bytes) == low' = [low EXCEPT ![s] = byte] /\ rest' = [rest EXCEPT ![s] = bytes]

\* Lines 52-66; the characters of a long string are not copied.
Construct(s, t) ==
  /\ s \notin alive /\ alive' = alive \cup {s}
  /\ IF Len(t) <= Limit
     THEN Set(s, ShortByte(Len(t)), [chars |-> t])
     ELSE Set(s, (2 * Len(t)) % 256, [high |-> (2 * Len(t)) \div 256, size |-> Len(t)])
  /\ text' = [text EXCEPT ![s] = t]
  /\ UNCHANGED failed

\* Lines 73-76, for a character that is there.
Write(s, i, c) ==
  /\ s \in alive /\ i \in 1..size(s)
  /\ rest' = IF use_short(s)
             THEN [rest EXCEPT ![s] = [chars |-> [@.chars EXCEPT ![i] = c]]] ELSE rest
  /\ text' = [text EXCEPT ![s][i] = c]
  /\ UNCHANGED <<alive, low, failed>>

\* Lines 78-89, also s = t: what does not fit in 23 characters is dropped, or
\* fails the assertion of line 86 in a Debug build.
AppendTo(s, t) ==
  /\ s \in alive /\ t \in alive
  /\ IF size(s) + size(t) <= Limit
     THEN /\ Set(s, ShortByte(size(s) + size(t)),
                 [chars |-> SubSeq(rest[s].chars, 1, size(s)) \o SubSeq(rest[t].chars, 1, size(t))])
          /\ text' = [text EXCEPT ![s] = @ \o text[t]]
          /\ UNCHANGED failed
     ELSE failed' = failed \cup {s} /\ UNCHANGED <<low, rest, text>>
  /\ UNCHANGED alive

\* The class has no destructor: the array of a long string stays.
Destroy(s) ==
  /\ s \in alive /\ alive' = alive \ {s}
  /\ Set(s, 0, unset)
  /\ text' = [text EXCEPT ![s] = <<>>]
  /\ failed' = failed \ {s}

Next ==
  \/ \E s \in Strings : Destroy(s) \/ \E t \in Literals : Construct(s, t)
  \/ \E s \in alive \ failed :
       \/ \E i \in {1, size(s)} \ {0}, c \in Chars : Write(s, i, c)
       \/ \E t \in Strings : AppendTo(s, t)

Spec == Init /\ [][Next]_vars

-----------------------------------------------------------------------------
\* The shared byte tells the layouts apart, at every length and after every
\* append, size() is right, and a short string holds its text, unless an append
\* was dropped.
StringsRight == \A s \in alive :
  /\ use_short(s) <=> "chars" \in DOMAIN rest[s]
  /\ s \notin failed => /\ size(s) = Len(text[s])
                        /\ use_short(s) => SubSeq(rest[s].chars, 1, size(s)) = text[s]
=============================================================================
