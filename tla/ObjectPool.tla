----------------------------- MODULE ObjectPool -----------------------------
(***************************************************************************)
(* answer/mm/object_pool.cxx: kmem_cache cuts blocks of ObjectSize out of  *)
(* pages of PAGE_SIZE and keeps the blocks it is given back in a list      *)
(* whose pointers lie in the blocks.  The pages are in a list too, whose   *)
(* pointers lie at their beginning.                                        *)
(*                                                                         *)
(* A position is a page and an offset in it.  What matters of the memory   *)
(* is the pointer a list keeps at a position; the owner of a block may     *)
(* overwrite the pointer in it.                                            *)
(***************************************************************************)
EXTENDS Integers, FiniteSets, Functions

CONSTANTS base, PAGE_SIZE, ObjectSize, \* in units of a pointer, base is one
          MaxPages                     \* bound: number of pages

\* A pointer fits in a block (ObjectSize >= base) and a block in a page: with
\* larger objects line 55 would jump back for ever.
ObjectPoolAssumption ==
  /\ base \in Nat \ {0} /\ PAGE_SIZE \in Nat /\ ObjectSize \in Nat
  /\ base <= ObjectSize /\ base + ObjectSize < PAGE_SIZE
  /\ MaxPages \in Nat \ {0}

Positions == (1..MaxPages) \X (0..PAGE_SIZE-1)
null == <<0, 0>>
junk == <<0, 1>> \* what the owner of a block left in it

VARIABLES page_head,     \* page the next blocks are cut out of
          freelist_head, offset,
          memory,        \* pointer at each position
          pages,         \* pages that exist
          held           \* blocks the client has

vars == <<page_head, freelist_head, offset, memory, pages, held>>

\* Lines 21-24: the constructor.
Init ==
  /\ page_head = <<1, 0>> /\ pages = {1}
  /\ freelist_head = null /\ offset = base
  /\ memory = [p \in Positions |-> null]
  /\ held = {}

-----------------------------------------------------------------------------
(* allocate(), lines 40-57 *)

\* Line 42.
Fits == offset + ObjectSize < PAGE_SIZE

\* Lines 43-45.
AllocateInPage ==
  /\ Fits
  /\ held' = held \cup {<<page_head[1], offset>>}
  /\ offset' = offset + ObjectSize
  /\ UNCHANGED <<page_head, freelist_head, memory, pages>>

\* Lines 47-49.
AllocateFree ==
  /\ ~ Fits /\ freelist_head # null
  /\ held' = held \cup {freelist_head}
  /\ freelist_head' = memory[freelist_head]
  /\ UNCHANGED <<page_head, offset, memory, pages>>

\* Lines 51-55, and lines 43-45 after the jump.
AllocateNewPage ==
  /\ ~ Fits /\ freelist_head = null
  /\ \E page \in (1..MaxPages) \ pages :
       /\ pages' = pages \cup {page}
       /\ memory' = [memory EXCEPT ![<<page, 0>>] = page_head]
       /\ page_head' = <<page, 0>>
       /\ held' = held \cup {<<page, base>>}
  /\ offset' = base + ObjectSize
  /\ UNCHANGED freelist_head

-----------------------------------------------------------------------------
\* Mutant: line 61 is forgotten.
Destroy_Unlinked(block) ==
  /\ held' = held \ {block}
  /\ freelist_head' = block
  /\ UNCHANGED <<page_head, offset, memory, pages>>

\* Lines 59-63.
Destroy(block) ==
  /\ held' = held \ {block}
  /\ memory' = [memory EXCEPT ![block] = freelist_head]
  /\ freelist_head' = block
  /\ UNCHANGED <<page_head, offset, pages>>

\* The client uses its block.
Use(block) ==
  /\ memory' = [memory EXCEPT ![block] = junk]
  /\ UNCHANGED <<page_head, freelist_head, offset, pages, held>>

Next ==
  \/ AllocateInPage \/ AllocateFree \/ AllocateNewPage
  \/ \E block \in held : Destroy(block) \/ Use(block)

Spec == Init /\ [][Next]_vars

-----------------------------------------------------------------------------
\* A list begins at first and has each position of S once.
Lists(first, S) ==
  LET n == Cardinality(S)
  IN  \E at \in Bijection(1..n, S) :
        /\ first = IF n = 0 THEN null ELSE at[1]
        /\ \A k \in 1..n : memory[at[k]] = IF k = n THEN null ELSE at[k + 1]

\* The blocks cut out so far.
Offsets == {o \in {base + k * ObjectSize : k \in 0..PAGE_SIZE} : o + ObjectSize < PAGE_SIZE}
Cut == {b \in pages \X Offsets : b[1] = page_head[1] => b[2] < offset}

\* A block is either with the client or once in the free list: no allocation
\* returns a block in use, and none is lost, whatever the client writes into
\* the blocks it has.
BlocksPartitioned == held \subseteq Cut /\ Lists(freelist_head, Cut \ held)

\* Two blocks the client has do not overlap, and none reaches over the
\* pointer to the next page or the end of its page.
BlocksApart ==
  \A b \in held :
    /\ base <= b[2] /\ b[2] + ObjectSize <= PAGE_SIZE
    /\ \A c \in held : b # c /\ b[1] = c[1] =>
         b[2] + ObjectSize <= c[2] \/ c[2] + ObjectSize <= b[2]

\* Lines 27-32: the destructor finds every page, each once.
PagesListed == Lists(page_head, pages \X {0})
=============================================================================
