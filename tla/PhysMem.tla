------------------------------- MODULE PhysMem --------------------------------
(***************************************************************************)
(* From the registry to a mapped tree: GetE820FromRegistry reads the list  *)
(* of physical memory ranges (reghelper.c) and adds up their lengths,      *)
(* CountForPages turns the sum into the size of the EPT pool, and          *)
(* InitEptTable allocates the pool and maps every range of the list from   *)
(* it.                                                                     *)
(*                                                                         *)
(* Addresses and lengths are in pages, at the scale of the code: tables of *)
(* 512 entries, 512 MB blocks, 0x180 pages for each.  Ept models how one   *)
(* page is mapped; here a range is one step, and what counts is which      *)
(* tables its pages need and whether the pool, sized from the amount of    *)
(* memory alone, has them.                                                 *)
(***************************************************************************)
EXTENDS Integers, Sequences, FiniteSets

CONSTANTS
  Values,     \* the lists of ranges that the registry may hold
  MaxPages    \* MAX_NUM_OF_PAGES, the size of g_ept.pages, 0x20000

\* A CM_PARTIAL_RESOURCE_DESCRIPTOR: its type, its flags if it is large, the
\* first page of its range and its length as it is stored.
Kinds == {"Memory", "Large40", "Large48", "Large64", "other"}
Descriptor == [kind : Kinds, start : Nat, length : Nat]

ASSUME ValuesAssumption == Values \subseteq Seq(Descriptor)
ASSUME MaxPagesAssumption == MaxPages \in Nat

\* The length of a range in pages: it is stored in bytes, and in units of
\* 2^8, 2^16 and 2^32 bytes.
Pages(d) ==
  CASE d.kind = "Memory"  -> d.length \div 4096
    [] d.kind = "Large40" -> d.length \div 16
    [] d.kind = "Large48" -> d.length * 16
    [] d.kind = "Large64" -> d.length * 1048576
    [] OTHER -> 0

\* Mutant: the pool has a table for every 2 MB of memory, and no others.
CountLeaves(total) == total \div 512 + 1

\* Mutant: a table for every page directory entry that a block may use.
CountGenerous(total) == 512 * (total \div 131072 + 1)

\* CountForPages: 1 GB is 262144 pages, 512 MB is 131072.
CountForPages(total) ==
  IF total < 262144 THEN 768 ELSE 384 * (total \div 131072 + 1)

-----------------------------------------------------------------------------
(* The registry.                                                           *)

\* E820_BUFFER_SIZE, and the bytes of a CM_RESOURCE_LIST of one list.
BufferSize == 10240
Bytes(v) == 20 + 20 * Len(v)

\* Mutant: the longest name of a value is allowed for.
RoomForAnyName == 24 + 510 + BufferSize

\* What NIAPGetRegKeyValue allocates for the answer: the structure, the
\* length of the name, which is the size of a pointer (reghelper.c:95), and
\* the length of the buffer.
Room == 24 + 8 + BufferSize

\* Where ZwQueryValueKey puts the data: after the fixed part of 20 bytes and
\* the 22 bytes of ".Translated", aligned in some way.
DataOffsets == {44, 48}

-----------------------------------------------------------------------------

VARIABLES
  pc,        \* where the thread of DriverEntry stands
  value,     \* the list in the registry
  buffer,    \* the list in g_PhysicalMemoryBuffer, empty when it is all zero
  i,         \* the loop counter of the two passes over the list
  total,     \* g_TotalPhysicalMemory
  sums,      \* history: the total before each descriptor
  numPages,  \* g_EptNumberOfPages
  pt, pd, pdpt    \* the tables of the tree, by the region each one maps

vars == <<pc, value, buffer, i, total, sums, numPages, pt, pd, pdpt>>
tree == <<pt, pd, pdpt>>

Init ==
  /\ pc = "open"
  /\ value \in Values
  /\ buffer = <<>>
  /\ i = 1
  /\ total = 0
  /\ sums = <<0>>
  /\ numPages = 0
  /\ pt = {} /\ pd = {} /\ pdpt = {}

\* NIAPGetRegValue: ZwOpenKey.
OpenKey ==
  /\ pc = "open"
  /\ pc' \in {"query", "failed"}
  /\ UNCHANGED <<value, buffer, i, total, sums, numPages, tree>>

\* NIAPGetRegKeyValue: no memory for the answer, no such value, or more data
\* than there is room for.
QueryFails ==
  /\ pc = "query"
  /\ pc' = "failed"
  /\ UNCHANGED <<value, buffer, i, total, sums, numPages, tree>>

\* The answer fits, and is copied if the buffer can take it; the status is
\* success also when it was not.
Query ==
  /\ pc = "query"
  /\ \E o \in DataOffsets : o + Bytes(value) <= Room
  /\ buffer' = IF Bytes(value) <= BufferSize THEN value ELSE buffer
  /\ pc' = "count"
  /\ UNCHANGED <<value, i, total, sums, numPages, tree>>

\* Mutant: a descriptor of another kind is left out of the sum.
CountRangeLenient ==
  /\ pc = "count"
  /\ i <= Len(buffer)
  /\ total' = total + Pages(buffer[i])
  /\ sums' = Append(sums, total')
  /\ i' = i + 1
  /\ UNCHANGED <<pc, value, buffer, numPages, tree>>

\* One iteration of GetE820FromRegistry; a descriptor of another kind is a
\* bug check.
CountRange ==
  /\ pc = "count"
  /\ i <= Len(buffer)
  /\ IF buffer[i].kind = "other"
     THEN pc' = "bugcheck" /\ UNCHANGED <<i, total, sums>>
     ELSE /\ total' = total + Pages(buffer[i])
          /\ sums' = Append(sums, total')
          /\ i' = i + 1
          /\ pc' = pc
  /\ UNCHANGED <<value, buffer, numPages, tree>>

\* GetE820FromRegistry returns, and InitEptTable begins.
SizePool ==
  /\ pc = "count"
  /\ i > Len(buffer)
  /\ numPages' = CountForPages(total)
  /\ pc' = "alloc"
  /\ i' = 1
  /\ UNCHANGED <<value, buffer, total, sums, tree>>

\* MmAllocateNonCachedMemory returns NULL for the root or for some page of
\* the pool; the pages before it stay allocated and nobody frees them.
AllocFails ==
  /\ pc = "alloc"
  /\ pc' = "failed"
  /\ UNCHANGED <<value, buffer, i, total, sums, numPages, tree>>

\* It returns every page.  Beyond MAX_NUM_OF_PAGES the loop writes past the
\* end of g_ept.pages.
Alloc ==
  /\ pc = "alloc"
  /\ pc' = IF numPages > MaxPages THEN "overrun" ELSE "map"
  /\ UNCHANGED <<value, buffer, i, total, sums, numPages, tree>>

\* The last page that EptMapRage maps: its bound is inclusive (ept.c:314).
LastPage(d) == d.start + Pages(d)

\* Mutant: the table before the first one is taken too.
SpannedBefore(first, last, span) == ((first - 1) \div span) .. (last \div span)

\* The tables, each mapping 512^k pages, that a range of pages needs.
Spanned(first, last, span) == (first \div span) .. (last \div span)

\* Ept->cnt, as Ept.CntIsDemand has it.
Cnt == Cardinality(pt) + Cardinality(pd) + Cardinality(pdpt)

\* EptMapRage.  When the pool runs out FindVirtualAddress returns NULL, which
\* EptMapPage dereferences.
EptMapRange(first, last) ==
  /\ pt' = pt \cup Spanned(first, last, 512)
  /\ pd' = pd \cup Spanned(first, last, 262144)
  /\ pdpt' = pdpt \cup Spanned(first, last, 134217728)
  /\ pc' = IF Cnt' > numPages THEN "fault" ELSE "map"

\* One iteration of Ept11mapping, which decodes the list once more.
MapRange ==
  /\ pc = "map"
  /\ i <= Len(buffer)
  /\ IF buffer[i].kind = "other"
     THEN pc' = "bugcheck" /\ UNCHANGED tree
     ELSE EptMapRange(buffer[i].start, LastPage(buffer[i]))
  /\ i' = i + 1
  /\ UNCHANGED <<value, buffer, total, sums, numPages>>

\* Ept11mapping and InitEptTable return STATUS_SUCCESS.
Finish ==
  /\ pc = "map"
  /\ i > Len(buffer)
  /\ pc' = "done"
  /\ UNCHANGED <<value, buffer, i, total, sums, numPages, tree>>

Next == OpenKey \/ QueryFails \/ Query \/ CountRange \/ SizePool
        \/ AllocFails \/ Alloc \/ MapRange \/ Finish

Spec == Init /\ [][Next]_vars

-----------------------------------------------------------------------------
(* Correctness.                                                            *)

\* Every variable has its type.
TypeOK ==
  /\ pc \in {"open", "query", "count", "alloc", "map", "done", "failed",
             "bugcheck", "overrun", "fault"}
  /\ value \in Values
  /\ buffer \in {value, <<>>}
  /\ i \in Nat \ {0}
  /\ total \in Nat
  /\ sums \in Seq(Nat)
  /\ numPages \in Nat
  /\ pt \subseteq Nat /\ pd \subseteq Nat /\ pdpt \subseteq Nat

\* The pool is sized from the amount of memory alone (ept.c:412) while the
\* need for tables depends on where the ranges lie.  It suffices for up to 42
\* ranges, wherever they lie, and every range less leaves 6 tables for the
\* pages that the guest touches later.
PoolHoldsRam ==
  Len(buffer) <= 42 =>
    /\ pc # "fault"
    /\ pc = "done" => Cnt + 6 * (42 - Len(buffer)) <= numPages

\* A query that reports success has copied the list, so that the driver never
\* goes on with a buffer of zeroes and no memory mapped.  The test of the
\* length (reghelper.c:44) has no other branch; what saves it is the size of
\* a pointer where the length of the name belongs (reghelper.c:95), which
\* makes the query fail before the buffer is too small.
SuccessMeansRead ==
  pc \in {"count", "alloc", "map", "done"} => buffer = value

\* A list that the driver cannot read stops the machine before any page of
\* the pool is allocated, never between two ranges (ept.c:103, 381).
BugCheckIsEarly == pc = "bugcheck" => numPages = 0 /\ tree = <<{}, {}, {}>>

\* The pool has been overrun only on a machine with 170 GB of memory: below,
\* MAX_NUM_OF_PAGES is enough for what CountForPages asks.
OverrunNeeds170GB == pc = "overrun" => total >= 170 * 262144
=============================================================================
