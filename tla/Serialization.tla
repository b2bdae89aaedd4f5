--------------------------- MODULE Serialization ---------------------------
(***************************************************************************)
(* answer/template/serialization.cxx: a traversal of an object, driven by  *)
(* its type, that copies its fundamental parts to a buffer or out of it,   *)
(* one a step, and stops at the first one that does not fit.               *)
(*                                                                         *)
(* The buffer has a part at the position at which it was written.          *)
(***************************************************************************)
EXTENDS Integers, FiniteSets, Sequences, SequencesExt

CONSTANTS Strings,              \* the strings in a book
          MaxPeople, MaxPhones, \* bounds of the vectors
          MaxRoom               \* bound: bytes of a span

NUL == "NUL"
Characters == {NUL} \cup UNION {Range(s) : s \in Strings}

SerializationAssumption ==
  /\ Strings \subseteq Seq(Characters)
  /\ MaxPeople \in Nat /\ MaxPhones \in Nat /\ MaxRoom \in Nat

\* Lines 20-42.
Phones == [number : Strings, type : {0, 1}]
People == [name : Strings, id : {7}, email : Strings, phones : SeqOf(Phones, MaxPhones)]
Books == SeqOf(People, MaxPeople)

VARIABLES book, book2, \* what is serialized, and what comes out
          room,        \* size of the span
          m_position,  \* of the archive, in the span
          at,          \* place in the book at which the traversal is
          buffer,      \* position -> part written there
          ret, ret2,   \* what serialize() and deserialize() returned
          pc

vars == <<book, book2, room, m_position, at, buffer, ret, ret2, pc>>

-----------------------------------------------------------------------------
(* archive_one() and archive_many(), lines 113-153: the parts of a book one   *)
(* after the other, a container by its size and its elements and a struct by  *)
(* its members.  A place <<i, m, j, n, k>> is, of person i, member m; there,  *)
(* of phone number j, member n; and of a string character k, or its size if k *)
(* is 0.  The size of people comes before person 1.                           *)

Start == <<0, 0, 0, 0, 0>>
Person(i) == <<i, 1, 0, 0, 0>>
Phone(i, j) == <<i, 4, j, 1, 0>>

AtEnd(b, l) == l[1] > Len(b)
InString(l) == l[2] \in {1, 3} \/ l[4] = 1
IsInt(l) == l[2] = 2 \/ l[4] = 2
IsSize(l) == l[5] = 0 /\ ~ IsInt(l)

\* Lines 125-127 and 158: the bytes of size_t, of int and the enum, of char.
Width(l) == IF IsSize(l) THEN 8 ELSE IF IsInt(l) THEN 4 ELSE 1

StringAt(b, l) ==
  IF l[2] = 1 THEN b[l[1]].name
  ELSE IF l[2] = 3 THEN b[l[1]].email
  ELSE b[l[1]].phones[l[3]].number

\* The object that is copied.
Value(b, l) ==
  IF l = Start THEN Len(b)
  ELSE IF l[2] = 2 THEN b[l[1]].id
  ELSE IF l[4] = 2 THEN b[l[1]].phones[l[3]].type
  ELSE IF ~ InString(l) THEN Len(b[l[1]].phones)
  ELSE IF IsSize(l) THEN Len(StringAt(b, l))
  ELSE StringAt(b, l)[l[5]]

\* Line 139: a container that was empty gets its size.
Blank(n, element) == [k \in 1..n |-> element]
NoPhone == [number |-> <<>>, type |-> 0]
NoPerson == [name |-> <<>>, id |-> 0, email |-> <<>>, phones |-> <<>>]

\* The book when v has been copied to a place, or been read as the size of what
\* is there.
Assigned(b, l, v) ==
  LET string == IF IsSize(l) THEN Blank(v, NUL) ELSE [StringAt(b, l) EXCEPT ![l[5]] = v]
  IN  IF l = Start THEN Blank(v, NoPerson)
      ELSE IF l[2] = 1 THEN [b EXCEPT ![l[1]].name = string]
      ELSE IF l[2] = 2 THEN [b EXCEPT ![l[1]].id = v]
      ELSE IF l[2] = 3 THEN [b EXCEPT ![l[1]].email = string]
      ELSE IF l[4] = 1 THEN [b EXCEPT ![l[1]].phones[l[3]].number = string]
      ELSE IF l[4] = 2 THEN [b EXCEPT ![l[1]].phones[l[3]].type = v]
      ELSE [b EXCEPT ![l[1]].phones = Blank(v, NoPhone)]

\* The place that follows: the next character, member, phone number or person.
Follow(b, l) ==
  IF l = Start THEN Person(1)
  ELSE IF InString(l) /\ l[5] < Len(StringAt(b, l)) THEN <<l[1], l[2], l[3], l[4], l[5] + 1>>
  ELSE IF l[2] # 4 THEN <<l[1], l[2] + 1, 0, 0, 0>>
  ELSE IF l[4] = 1 THEN <<l[1], 4, l[3], 2, 0>>
  ELSE IF l[3] < Len(b[l[1]].phones) THEN Phone(l[1], l[3] + 1)
  ELSE Person(l[1] + 1)

-----------------------------------------------------------------------------
Open(data) == room' = data /\ m_position' = 0 /\ at' = Start

Init ==
  /\ book \in Books /\ book2 = <<>>
  /\ room \in 0..MaxRoom /\ m_position = 0 /\ at = Start
  /\ buffer = <<>> /\ ret = 0 /\ ret2 = 0
  /\ pc = "serialize"

\* Mutant: a part that fits exactly is refused.
Fits_Strictly == Width(at) < room - m_position

\* Line 156.
Fits == Width(at) <= room - m_position

\* Lines 155-166; a part that does not fit ends the traversal.
archive_trivially(b, next) ==
  /\ ~ AtEnd(b, at) /\ Fits
  /\ m_position' = m_position + Width(at)
  /\ at' = Follow(next, at)
  /\ UNCHANGED <<book, room, ret, ret2, pc>>

Write ==
  /\ pc = "serialize" /\ archive_trivially(book, book)
  /\ buffer' = [p \in DOMAIN buffer \cup {m_position} |->
                  IF p = m_position THEN Value(book, at) ELSE buffer[p]]
  /\ UNCHANGED book2

Read ==
  /\ pc = "deserialize"
  /\ LET object == Assigned(book2, at, buffer[m_position])
     IN  archive_trivially(book2, object) /\ book2' = object
  /\ UNCHANGED buffer

Stops(b) == AtEnd(b, at) \/ ~ Fits

\* 0 stands for a failure.
Result(b) == IF AtEnd(b, at) THEN m_position ELSE 0

\* Lines 169-175.
serialize ==
  /\ pc = "serialize" /\ pc' = "sent"
  /\ Stops(book) /\ ret' = Result(book)
  /\ UNCHANGED <<book, book2, room, m_position, at, buffer, ret2>>

\* main() reads the span it wrote, line 205, also when the book did not fit; a
\* reader may have received less of it.
Receive ==
  /\ pc = "sent" /\ pc' = "deserialize"
  /\ \E received \in 0..room : Open(received)
  /\ UNCHANGED <<book, book2, buffer, ret, ret2>>

\* Lines 177-183.
deserialize ==
  /\ pc = "deserialize" /\ pc' = "done"
  /\ Stops(book2) /\ ret2' = Result(book2)
  /\ UNCHANGED <<book, book2, room, m_position, at, buffer, ret>>

Next == Write \/ serialize \/ Receive \/ Read \/ deserialize

Spec == Init /\ [][Next]_vars

-----------------------------------------------------------------------------
\* The parts of a book, and their bytes.
PhonePlaces(i, j, p) ==
  {<<i, 4, j, 1, k>> : k \in 0..Len(p.number)} \cup {<<i, 4, j, 2, 0>>}
PersonPlaces(i, p) ==
  {<<i, 1, 0, 0, k>> : k \in 0..Len(p.name)} \cup {<<i, 2, 0, 0, 0>>}
    \cup {<<i, 3, 0, 0, k>> : k \in 0..Len(p.email)} \cup {<<i, 4, 0, 0, 0>>}
    \cup UNION {PhonePlaces(i, j, p.phones[j]) : j \in 1..Len(p.phones)}
Places(b) == {Start} \cup UNION {PersonPlaces(i, b[i]) : i \in 1..Len(b)}

Bytes(S) == {x \in S \X (1..8) : x[2] <= Width(x[1])}
BookBytes(b) == Cardinality(Bytes(Places(b)))

\* No part is written or read beyond the span (line 156 subtracts without
\* sign), and none is read that was not written.
InsideSpan ==
  /\ m_position <= room
  /\ pc = "deserialize" /\ ~ Stops(book2) => m_position \in DOMAIN buffer

\* serialize() fails exactly when the book does not fit.
WritesOrFails ==
  pc = "sent" => ret = IF BookBytes(book) <= room THEN BookBytes(book) ELSE 0

\* deserialize() of what it wrote gives the book and the number of bytes back
\* when all of them arrived, and fails when some did not.
RoundTrip ==
  pc = "done" =>
    IF ret # 0 /\ room >= ret THEN ret2 = ret /\ book2 = book ELSE ret2 = 0
=============================================================================
