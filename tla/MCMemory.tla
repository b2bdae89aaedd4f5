------------------------------ MODULE MCMemory ------------------------------
(***************************************************************************)
(* The classes that lay data out in memory of their own or of a caller: a  *)
(* behaviour uses one of them.                                             *)
(***************************************************************************)
EXTENDS Integers, Sequences

CONSTANTS
  base, PAGE_SIZE, ObjectSize, MaxPages,
  VectorNames, Elements, Capacity, MaxSize,
  Owned, Files, Counts, Data, MaxFiles, MaxBlocks,
  Strings, MaxPeople, MaxPhones, MaxRoom

VARIABLES
  class,
  page_head, freelist_head, offset, memory, pages, held,
  alive, begin, size, heap, owned, destructors, dead, broken,
  escapes, file, block, obj, lost, value,
  book, book2, room, m_position, at, buffer, ret, ret2, pc

poolVars == <<page_head, freelist_head, offset, memory, pages, held>>
vectorVars == <<alive, begin, size, heap, owned, destructors, dead, broken>>
ownerVars == <<escapes, file, block, obj, lost, value>>
bookVars == <<book, book2, room, m_position, at, buffer, ret, ret2, pc>>

vars == <<class, poolVars, vectorVars, ownerVars, bookVars>>

Pool == INSTANCE ObjectPool
Vectors == INSTANCE Vector WITH Vectors <- VectorNames, Values <- Elements
Owners == INSTANCE RuleOfFive WITH Objects <- Owned
Archive == INSTANCE Serialization

ASSUME Constants ==
  /\ Pool!ObjectPoolAssumption /\ Vectors!VectorAssumption
  /\ Owners!RuleOfFiveAssumption /\ Archive!SerializationAssumption

\* A class that is not used does not matter: its books are not enumerated.
NoBook ==
  /\ book = <<>> /\ book2 = <<>> /\ room = 0 /\ m_position = 0 /\ at = Archive!Start
  /\ buffer = <<>> /\ ret = 0 /\ ret2 = 0 /\ pc = "done"

Init ==
  /\ class \in {"pool", "vector", "owner", "archive"}
  /\ Pool!Init /\ Vectors!Init /\ Owners!Init
  /\ class # "vector" => ~ destructors
  /\ class # "owner" => escapes = {}
  /\ IF class = "archive" THEN Archive!Init ELSE NoBook

PoolStep ==
  class = "pool" /\ Pool!Next /\ UNCHANGED <<class, vectorVars, ownerVars, bookVars>>
VectorStep ==
  class = "vector" /\ Vectors!Next /\ UNCHANGED <<class, poolVars, ownerVars, bookVars>>
OwnerStep ==
  class = "owner" /\ Owners!Next /\ UNCHANGED <<class, poolVars, vectorVars, bookVars>>
ArchiveStep ==
  class = "archive" /\ Archive!Next /\ UNCHANGED <<class, poolVars, vectorVars, ownerVars>>

Next == PoolStep \/ VectorStep \/ OwnerStep \/ ArchiveStep

Spec == Init /\ [][Next]_vars

-----------------------------------------------------------------------------
(* Values of constants that a configuration cannot write *)

TestStrings == {<<>>, <<"a">>}

-----------------------------------------------------------------------------
\* kmem_cache: no block is given out twice, lost, or laid over another one,
\* and the destructor finds every page.
PoolBlocksRight ==
  class = "pool" => Pool!BlocksPartitioned /\ Pool!BlocksApart /\ Pool!PagesListed

\* vector: lists of their own, in buffers of their own, with elements that are
\* alive.
VectorListSpec ==
  Vectors!ListSpec /\ [](class = "vector" => Vectors!BuffersOwned /\ Vectors!ElementsAlive)

\* ro5: files and arrays have one owner each, unless T throws what nobody
\* handles, and objects keep what they have when an operation throws.
ResourcesOwned == class = "owner" => Owners!ResourcesOwned /\ Owners!ObjectsIntact

\* serialization: what fits is written and read back, inside the span, and
\* nothing else is.
ArchiveRoundTrip ==
  class = "archive" => Archive!InsideSpan /\ Archive!WritesOrFails /\ Archive!RoundTrip
=============================================================================
