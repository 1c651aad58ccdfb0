---------------------------- MODULE PhysMemProofs -----------------------------
(* Theorems about PhysMem for every list of memory ranges.                  *)
EXTENDS PhysMem, FiniteSetTheorems, TLAPS

-----------------------------------------------------------------------------
(* Facts about the operators PhysMem is built from.                        *)

\* The length of a range is a number of pages.
LEMMA PagesType ==
  ASSUME NEW d \in Descriptor
  PROVE  Pages(d) \in Nat
<1>1. d.length \in Nat
  BY DEF Descriptor
<1>2. d.length \div 4096 \in Nat /\ d.length \div 16 \in Nat
      /\ d.length * 16 \in Nat /\ d.length * 1048576 \in Nat
  BY <1>1
<1> QED BY <1>2 DEF Pages

\* The pages that a table of each level maps.
Spans == {512, 262144, 134217728}

\* The tables that a range of length + 1 pages needs: two partial ones, and
\* as many as its length fills.
LEMMA SpannedBound ==
  ASSUME NEW span \in Spans, NEW first \in Nat, NEW length \in Nat
  PROVE  LET S == Spanned(first, first + length, span)
         IN /\ IsFiniteSet(S)
            /\ S \subseteq Nat
            /\ Cardinality(S) \in Nat
            /\ span * Cardinality(S) <= length + 2 * span - 1
<1> DEFINE a == first \div span
           b == (first + length) \div span
           S == a .. b
<1>1. /\ a \in Nat /\ b \in Nat /\ a <= b
      /\ span * (b - a + 1) <= length + 2 * span - 1
  <2>1. CASE span = 512 BY SMT, <2>1
  <2>2. CASE span = 262144 BY SMT, <2>2
  <2>3. CASE span = 134217728 BY SMT, <2>3
  <2> QED BY <2>1, <2>2, <2>3 DEF Spans
<1>2. IsFiniteSet(S) /\ Cardinality(S) = b - a + 1
  BY <1>1, FS_Interval
<1>3. S \subseteq Nat /\ Cardinality(S) \in Nat
  BY <1>1, <1>2
<1> HIDE DEF a, b
<1>4. span * Cardinality(S) <= length + 2 * span - 1
  BY <1>1, <1>2
<1> QED BY <1>2, <1>3, <1>4 DEF Spanned, a, b

\* S is a set of tables that the first n ranges, of total pages in all, may
\* need.
Fits(S, span, n, pages) ==
  /\ IsFiniteSet(S)
  /\ S \subseteq Nat
  /\ Cardinality(S) \in Nat
  /\ span * Cardinality(S) <= pages + (2 * span - 1) * n

\* Such tables at every level.
TreeFits(A, B, C, n, pages) ==
  /\ Fits(A, 512, n, pages)
  /\ Fits(B, 262144, n, pages)
  /\ Fits(C, 134217728, n, pages)

\* One more range keeps the bound.
LEMMA FitsGrows ==
  ASSUME NEW span \in Spans, NEW S, NEW n \in Nat, NEW pages \in Nat,
         NEW first \in Nat, NEW length \in Nat,
         Fits(S, span, n, pages)
  PROVE  Fits(S \cup Spanned(first, first + length, span), span, n + 1, pages + length)
<1> DEFINE T == Spanned(first, first + length, span)
<1>1. /\ IsFiniteSet(T) /\ T \subseteq Nat /\ Cardinality(T) \in Nat
      /\ span * Cardinality(T) <= length + 2 * span - 1
  BY SpannedBound
<1>2. IsFiniteSet(S) /\ S \subseteq Nat /\ Cardinality(S) \in Nat
  BY DEF Fits
<1>3. /\ IsFiniteSet(S \cup T)
      /\ Cardinality(S \cup T) = Cardinality(S) + Cardinality(T) - Cardinality(S \cap T)
  BY <1>1, <1>2, FS_Union
<1>4. Cardinality(S \cap T) \in Nat /\ Cardinality(S \cup T) \in Nat
  BY <1>1, <1>2, <1>3, FS_Intersection, FS_CardinalityType
<1> HIDE DEF T
<1>5. Cardinality(S \cup T) <= Cardinality(S) + Cardinality(T)
  BY <1>1, <1>2, <1>3, <1>4
<1> DEFINE s == Cardinality(S)
           t == Cardinality(T)
           u == Cardinality(S \cup T)
<1>6. /\ s \in Nat /\ t \in Nat /\ u \in Nat /\ u <= s + t
      /\ span * s <= pages + (2 * span - 1) * n
      /\ span * t <= length + 2 * span - 1
  BY <1>1, <1>2, <1>4, <1>5 DEF Fits
<1> HIDE DEF s, t, u
<1>7. span * u <= pages + length + (2 * span - 1) * (n + 1)
  <2>1. CASE span = 512 BY SMT, <1>6, <2>1
  <2>2. CASE span = 262144 BY SMT, <1>6, <2>2
  <2>3. CASE span = 134217728 BY SMT, <1>6, <2>3
  <2> QED BY <2>1, <2>2, <2>3 DEF Spans
<1> QED BY <1>2, <1>1, <1>3, <1>4, <1>7 DEF Fits, T, u

\* The empty tree is within every bound.
LEMMA FitsEmpty ==
  ASSUME NEW span \in Spans
  PROVE  Fits({}, span, 0, 0)
<1>1. IsFiniteSet({}) /\ Cardinality({}) = 0
  BY FS_EmptySet
<1>2. span \in Nat
  BY DEF Spans
<1> QED BY <1>1, <1>2 DEF Fits

-----------------------------------------------------------------------------
(* The inductive invariant.                                                *)

\* The first k - 1 ranges have been read and added up.
Counted(k) ==
  /\ Len(sums) = k
  /\ sums[1] = 0
  /\ total = sums[k]
  /\ \A j \in 1 .. k : sums[j] <= total
  /\ \A j \in 1 .. k - 1 : /\ buffer[j].kind # "other"
                          /\ sums[j + 1] = sums[j] + Pages(buffer[j])

\* The first n ranges have been mapped, with no more tables than they may need.
MappedUpTo(n) == TreeFits(pt, pd, pdpt, n, sums[n + 1])

\* The list is used only after it was read, and nothing is counted before.
ReadOK ==
  /\ pc \notin {"open", "query", "failed"} => buffer = value
  /\ pc \in {"open", "query"} => i = 1 /\ total = 0 /\ sums = <<0>>

\* The tree is empty until the pool is there.
EmptyOK ==
  /\ pc \in {"open", "query", "count", "bugcheck"} => numPages = 0
  /\ pc \in {"open", "query", "count", "bugcheck", "alloc"}
       => pt = {} /\ pd = {} /\ pdpt = {}

\* The pass that counts, and its result.
CountOK ==
  /\ pc = "count" => i \in 1 .. Len(buffer) + 1 /\ Counted(i)
  /\ pc \in {"alloc", "map", "done", "overrun"}
       => Counted(Len(buffer) + 1) /\ numPages = CountForPages(total)

\* The pass that maps.
MapOK ==
  /\ pc = "alloc" => i = 1
  /\ pc = "map" => i \in 1 .. Len(buffer) + 1 /\ MappedUpTo(i - 1)
  /\ pc = "done" => MappedUpTo(Len(buffer))

\* The two ways in which it crashes.
CrashOK ==
  /\ pc = "fault" => Len(buffer) > 42
  /\ pc = "overrun" => numPages > MaxPages

IInv == TypeOK /\ ReadOK /\ EmptyOK /\ CountOK /\ MapOK /\ CrashOK

-----------------------------------------------------------------------------
(* Init => IInv, and IInv /\ [Next]_vars => IInv'.                         *)

\* The list in the registry, and what the buffer holds of it, is a list.
LEMMA BufferType ==
  ASSUME TypeOK
  PROVE  /\ value \in Seq(Descriptor) /\ buffer \in Seq(Descriptor)
         /\ Len(buffer) \in Nat
         /\ \A k \in 1 .. Len(buffer) : buffer[k] \in Descriptor
<1>1. value \in Seq(Descriptor)
  BY ValuesAssumption DEF TypeOK
<1>2. buffer \in Seq(Descriptor)
  <2>1. CASE buffer = value BY <1>1, <2>1
  <2>2. CASE buffer = <<>> BY <2>2
  <2> QED BY <2>1, <2>2 DEF TypeOK
<1> QED BY <1>1, <1>2

LEMMA InitIInv == Init => IInv
<1> SUFFICES ASSUME Init PROVE IInv
  OBVIOUS
<1>1. TypeOK
  BY DEF Init, TypeOK
<1>2. ReadOK /\ EmptyOK /\ CountOK /\ MapOK /\ CrashOK
  BY DEF Init, ReadOK, EmptyOK, CountOK, MapOK, CrashOK
<1> QED BY <1>1, <1>2 DEF IInv

\* The steps that change pc alone and end in a state where nothing is known.
LEMMA FailsIInv ==
  ASSUME IInv, OpenKey \/ QueryFails \/ AllocFails
  PROVE  IInv'
<1> USE DEF IInv
<1>1. TypeOK'
  BY DEF OpenKey, QueryFails, AllocFails, TypeOK, tree
<1>2. ReadOK' /\ EmptyOK' /\ CountOK' /\ MapOK' /\ CrashOK'
  BY DEF OpenKey, QueryFails, AllocFails, ReadOK, EmptyOK, CountOK, MapOK, CrashOK, tree
<1> QED BY <1>1, <1>2

\* What fits the answer fits the buffer, so a query that succeeds has read
\* the list.
LEMMA QueryIInv ==
  ASSUME IInv, Query
  PROVE  IInv'
<1> USE DEF IInv
<1>1. value \in Seq(Descriptor) /\ Len(value) \in Nat
  BY BufferType
<1>2. Bytes(value) <= BufferSize
  <2>1. PICK o \in DataOffsets : o + Bytes(value) <= Room
    BY DEF Query
  <2> QED BY <1>1, <2>1 DEF DataOffsets, Room, BufferSize, Bytes
<1>3. buffer' = value
  BY <1>2 DEF Query
<1>4. TypeOK'
  BY <1>3 DEF Query, TypeOK, tree
<1>5. ReadOK' /\ EmptyOK' /\ MapOK' /\ CrashOK'
  BY <1>3 DEF Query, ReadOK, EmptyOK, MapOK, CrashOK, tree
<1>6. CountOK'
  <2>1. i' = 1 /\ total' = 0 /\ sums' = <<0>> /\ pc' = "count"
    BY DEF Query, ReadOK
  <2>2. Len(buffer') \in Nat
    BY <1>1, <1>3
  <2>3. Counted(1)'
    BY <2>1 DEF Counted
  <2> QED BY <2>1, <2>2, <2>3 DEF CountOK
<1> QED BY <1>4, <1>5, <1>6

LEMMA CountRangeIInv ==
  ASSUME IInv, CountRange
  PROVE  IInv'
<1> USE DEF IInv
<1>1. pc = "count" /\ i \in 1 .. Len(buffer) /\ Counted(i)
  BY BufferType DEF CountRange, CountOK
<1>2. CASE buffer[i].kind = "other"
  <2>1. pc' = "bugcheck" /\ UNCHANGED <<value, buffer, i, total, sums, numPages, tree>>
    BY <1>2 DEF CountRange
  <2>2. TypeOK'
    BY <2>1 DEF TypeOK, tree
  <2> QED BY <1>1, <2>1, <2>2 DEF ReadOK, EmptyOK, CountOK, MapOK, CrashOK, tree
<1>3. CASE buffer[i].kind # "other"
  <2> DEFINE p == Pages(buffer[i])
  <2>1. p \in Nat
    BY <1>1, BufferType, PagesType
  <2>2. /\ total' = total + p /\ sums' = Append(sums, total') /\ i' = i + 1
        /\ pc' = "count" /\ UNCHANGED <<value, buffer, numPages, tree>>
    BY <1>1, <1>3 DEF CountRange
  <2>3. TypeOK'
    BY <2>1, <2>2 DEF TypeOK, tree
  <2>4. ReadOK' /\ EmptyOK' /\ MapOK' /\ CrashOK'
    BY <1>1, <2>2 DEF ReadOK, EmptyOK, MapOK, CrashOK, tree
  <2>5. Counted(i)'
    <3> HIDE DEF p
    <3>1. Len(sums) = i /\ sums \in Seq(Nat) /\ total = sums[i] /\ total \in Nat
      BY <1>1 DEF Counted, TypeOK
    <3>2. /\ Len(sums') = i + 1 /\ sums'[i + 1] = total'
          /\ \A j \in 1 .. i : sums'[j] = sums[j] /\ sums[j] \in Nat
      BY <2>1, <2>2, <3>1
    <3>3. \A j \in 1 .. i + 1 : sums'[j] <= total'
      BY <1>1, <2>1, <2>2, <3>1, <3>2 DEF Counted
    <3>4. \A j \in 1 .. i : buffer[j].kind # "other" /\ sums'[j + 1] = sums'[j] + Pages(buffer[j])
      BY <1>1, <1>3, <2>2, <3>1, <3>2 DEF Counted, p
    <3>5. sums'[1] = 0
      BY <1>1, <3>2 DEF Counted
    <3>6. (i' - 1 = i) /\ i' = i + 1
      BY <1>1, <2>2
    <3> QED BY <2>2, <3>2, <3>3, <3>4, <3>5, <3>6, <1>1 DEF Counted
  <2>6. CountOK'
    BY <1>1, <2>2, <2>5, BufferType DEF CountOK, Counted
  <2> QED BY <2>3, <2>4, <2>6
<1> QED BY <1>2, <1>3

LEMMA SizePoolIInv ==
  ASSUME IInv, SizePool
  PROVE  IInv'
<1> USE DEF IInv
<1>1. Counted(Len(buffer) + 1) /\ Len(buffer) \in Nat
  BY BufferType DEF SizePool, CountOK
<1>2. CountForPages(total) \in Nat
  BY DEF CountForPages, TypeOK
<1>3. TypeOK'
  BY <1>2 DEF SizePool, TypeOK, tree
<1>4. CountOK'
  BY <1>1 DEF SizePool, CountOK, Counted
<1>5. ReadOK' /\ EmptyOK' /\ MapOK' /\ CrashOK'
  BY DEF SizePool, ReadOK, EmptyOK, MapOK, CrashOK, tree
<1> QED BY <1>3, <1>4, <1>5

\* The empty tree maps none of the ranges.
LEMMA AllocIInv ==
  ASSUME IInv, Alloc
  PROVE  IInv'
<1> USE DEF IInv
<1>1. /\ i = 1 /\ pt = {} /\ pd = {} /\ pdpt = {}
      /\ Counted(Len(buffer) + 1) /\ Len(buffer) \in Nat
  BY BufferType DEF Alloc, MapOK, EmptyOK, CountOK
<1>2. TypeOK'
  BY DEF Alloc, TypeOK, tree
<1>3. CountOK'
  BY <1>1 DEF Alloc, CountOK, Counted
<1>4. ReadOK' /\ EmptyOK' /\ CrashOK'
  BY DEF Alloc, ReadOK, EmptyOK, CrashOK, tree
<1>5. MappedUpTo(0)
  <2>1. Fits(pt, 512, 0, sums[1]) /\ Fits(pd, 262144, 0, sums[1])
        /\ Fits(pdpt, 134217728, 0, sums[1])
    BY <1>1, FitsEmpty DEF Counted, Spans
  <2> QED BY <1>1, <2>1 DEF MappedUpTo, TreeFits
<1>6. MapOK'
  BY <1>1, <1>5 DEF Alloc, MapOK, MappedUpTo, tree
<1> QED BY <1>2, <1>3, <1>4, <1>6

LEMMA FinishIInv ==
  ASSUME IInv, Finish
  PROVE  IInv'
<1> USE DEF IInv
<1>1. Len(buffer) \in Nat /\ i = Len(buffer) + 1
  BY BufferType DEF Finish, MapOK
<1>2. TypeOK'
  BY DEF Finish, TypeOK, tree
<1>3. CountOK'
  BY DEF Finish, CountOK, Counted
<1>4. ReadOK' /\ EmptyOK' /\ CrashOK'
  BY DEF Finish, ReadOK, EmptyOK, CrashOK, tree
<1>5. MappedUpTo(Len(buffer))
  BY <1>1 DEF Finish, MapOK
<1>6. MapOK'
  BY <1>5 DEF Finish, MapOK, MappedUpTo, tree
<1> QED BY <1>2, <1>3, <1>4, <1>6

\* CountForPages suffices for the tables of up to 42 ranges, and has 6 to
\* spare for every range less.
LEMMA TablesFit ==
  ASSUME NEW all \in Nat, NEW s \in Nat, s <= all, NEW n \in 0 .. 42,
         NEW A, NEW B, NEW C, TreeFits(A, B, C, n, s)
  PROVE  Cardinality(A) + Cardinality(B) + Cardinality(C) + 6 * (42 - n)
           <= CountForPages(all)
<1> DEFINE a == Cardinality(A)
           b == Cardinality(B)
           c == Cardinality(C)
<1>1. /\ a \in Nat /\ 512 * a <= s + 1023 * n
      /\ b \in Nat /\ 262144 * b <= s + 524287 * n
      /\ c \in Nat /\ 134217728 * c <= s + 268435455 * n
  BY SMT DEF TreeFits, Fits
<1> HIDE DEF a, b, c
<1>2. a \in Nat /\ b \in Nat /\ c \in Nat /\ all \in Nat /\ n \in 0 .. 42
  BY ONLY <1>1, all \in Nat, n \in 0 .. 42, SMT
<1>3. /\ 512 * a <= all + 1023 * n
      /\ 262144 * b <= all + 524287 * n
      /\ 134217728 * c <= all + 268435455 * n
  BY ONLY <1>1, <1>2, s \in Nat, s <= all, SMT
<1>4. a + b + c + 6 * (42 - n) <= CountForPages(all)
  <2>1. CASE all < 262144
    <3>1. a + b + c <= 512 + 6 * n
      BY ONLY <1>2, <1>3, <2>1, SMT
    <3> QED BY ONLY <1>2, <2>1, <3>1, SMT DEF CountForPages
  <2>2. CASE ~(all < 262144)
    <3> DEFINE q == all \div 131072
    <3>1. q \in Nat /\ q >= 2 /\ all < 131072 * (q + 1)
      BY ONLY <1>2, <2>2, SMT
    <3> HIDE DEF q
    <3>2. a + b + c + 6 * (42 - n) <= 384 * (q + 1)
      BY ONLY <1>2, <1>3, <3>1, SMT
    <3> QED BY ONLY <2>2, <3>2 DEF CountForPages, q
  <2> QED BY ONLY <2>1, <2>2
<1> QED BY <1>4, SMT DEF a, b, c

\* A range adds its tables to those that are there.
LEMMA MappedGrows ==
  ASSUME IInv, pc = "map", i \in 1 .. Len(buffer),
         EptMapRange(buffer[i].start, LastPage(buffer[i])),
         i' = i + 1, UNCHANGED <<value, buffer, total, sums, numPages>>
  PROVE  MappedUpTo(i - 1)'
<1> USE DEF IInv
<1> DEFINE d == buffer[i]
           length == Pages(d)
<1>1. /\ MappedUpTo(i - 1) /\ Counted(Len(buffer) + 1) /\ sums \in Seq(Nat)
      /\ Len(buffer) \in Nat /\ d \in Descriptor
  BY BufferType DEF MapOK, CountOK, TypeOK
<1>2. d.start \in Nat /\ length \in Nat /\ LastPage(d) = d.start + length
  BY <1>1, PagesType DEF Descriptor, LastPage
<1>3. sums[i] \in Nat /\ sums[i + 1] = sums[i] + length /\ i - 1 \in Nat
      /\ (i - 1) + 1 = i
  BY <1>1 DEF Counted
<1> HIDE DEF length
<1>4. /\ Fits(pt, 512, i - 1, sums[i])
      /\ Fits(pd, 262144, i - 1, sums[i])
      /\ Fits(pdpt, 134217728, i - 1, sums[i])
  BY ONLY <1>1, <1>3, SMT DEF MappedUpTo, TreeFits
<1>5. /\ pt' = pt \cup Spanned(d.start, d.start + length, 512)
      /\ pd' = pd \cup Spanned(d.start, d.start + length, 262144)
      /\ pdpt' = pdpt \cup Spanned(d.start, d.start + length, 134217728)
  BY <1>2, SMT DEF EptMapRange
<1>6. \A span \in Spans : \A S : Fits(S, span, i - 1, sums[i])
        => Fits(S \cup Spanned(d.start, d.start + length, span), span, i, sums[i + 1])
  BY <1>2, <1>3, FitsGrows
<1>7. i' - 1 = i
  BY <1>3
<1>8. /\ Fits(pt', 512, i, sums[i + 1])
      /\ Fits(pd', 262144, i, sums[i + 1])
      /\ Fits(pdpt', 134217728, i, sums[i + 1])
  <2>1. 512 \in Spans /\ 262144 \in Spans /\ 134217728 \in Spans
    BY SMT DEF Spans
  <2>2. Fits(pt', 512, i, sums[i + 1])
    BY ONLY <1>4, <1>5, <1>6, <2>1, SMT
  <2>3. Fits(pd', 262144, i, sums[i + 1])
    BY ONLY <1>4, <1>5, <1>6, <2>1, SMT
  <2>4. Fits(pdpt', 134217728, i, sums[i + 1])
    BY ONLY <1>4, <1>5, <1>6, <2>1, SMT
  <2> QED BY ONLY <2>2, <2>3, <2>4
<1> QED BY <1>7, <1>8, SMT DEF MappedUpTo, TreeFits

\* A range is mapped, and the pool suffices unless the list is too long.
LEMMA MapRangeIInv ==
  ASSUME IInv, MapRange
  PROVE  IInv'
<1> USE DEF IInv
<1>1. /\ pc = "map" /\ i \in 1 .. Len(buffer) /\ i' = i + 1
      /\ UNCHANGED <<value, buffer, total, sums, numPages>>
      /\ Len(buffer) \in Nat /\ Counted(Len(buffer) + 1)
      /\ numPages = CountForPages(total)
  BY BufferType DEF MapRange, MapOK, CountOK
<1>2. buffer[i].kind # "other"
  BY <1>1 DEF Counted
<1>3. EptMapRange(buffer[i].start, LastPage(buffer[i]))
  BY <1>2 DEF MapRange
<1>4. pc' \in {"map", "fault"} /\ (Cnt' > numPages <=> pc' = "fault")
  BY <1>1, <1>3, SMT DEF EptMapRange
<1>5. MappedUpTo(i - 1)'
  BY <1>1, <1>3, MappedGrows
<1>6. TypeOK'
  <2>1. pt' \subseteq Nat /\ pd' \subseteq Nat /\ pdpt' \subseteq Nat
    BY <1>5, SMT DEF MappedUpTo, TreeFits, Fits
  <2> QED BY <1>1, <1>4, <2>1 DEF TypeOK
<1>7. ReadOK' /\ EmptyOK'
  BY <1>1, <1>4 DEF ReadOK, EmptyOK
<1>8. CountOK'
  BY <1>1, <1>4 DEF CountOK, Counted
<1>9. MapOK'
  BY <1>1, <1>4, <1>5 DEF MapOK
<1>10. CrashOK'
  <2> SUFFICES ASSUME pc' = "fault", Len(buffer) <= 42 PROVE FALSE
    BY <1>1, <1>4 DEF CrashOK
  <2> DEFINE a == Cardinality(pt')
             b == Cardinality(pd')
             c == Cardinality(pdpt')
             s == sums[i + 1]
  <2>1. s \in Nat /\ s <= total /\ total \in Nat /\ i \in 0 .. 42 /\ i' - 1 = i
    BY <1>1 DEF Counted, TypeOK
  <2>2. TreeFits(pt', pd', pdpt', i, s)
    BY <1>1, <1>5, <2>1, SMT DEF MappedUpTo
  <2>3. a \in Nat /\ b \in Nat /\ c \in Nat
    BY ONLY <2>2, SMT DEF TreeFits, Fits
  <2>4. Cardinality(pt') + Cardinality(pd') + Cardinality(pdpt') + 6 * (42 - i)
          <= CountForPages(total)
    <3> HIDE DEF s
    <3>1. s \in Nat /\ s <= total /\ total \in Nat /\ i \in 0 .. 42
      BY <2>1
    <3>2. TreeFits(pt', pd', pdpt', i, s)
      BY <2>2
    <3> QED BY ONLY <3>1, <3>2, TablesFit
  <2>5. a + b + c + 6 * (42 - i) <= numPages
    BY ONLY <1>1, <2>2, <2>4, SMT
  <2>6. Cnt' = a + b + c /\ numPages' = numPages /\ numPages \in Nat
    BY <1>1, SMT DEF Cnt, TypeOK
  <2>7. Cnt' > numPages
    BY <1>1, <1>4, SMT
  <2> HIDE DEF a, b, c
  <2> QED BY ONLY <2>1, <2>3, <2>5, <2>6, <2>7, SMT
<1> QED BY <1>6, <1>7, <1>8, <1>9, <1>10

LEMMA NextIInv == IInv /\ [Next]_vars => IInv'
<1> SUFFICES ASSUME IInv, [Next]_vars PROVE IInv'
  OBVIOUS
<1>1. CASE OpenKey \/ QueryFails \/ AllocFails
  BY <1>1, FailsIInv
<1>2. CASE Query
  BY <1>2, QueryIInv
<1>3. CASE CountRange
  BY <1>3, CountRangeIInv
<1>4. CASE SizePool
  BY <1>4, SizePoolIInv
<1>5. CASE Alloc
  BY <1>5, AllocIInv
<1>6. CASE MapRange
  BY <1>6, MapRangeIInv
<1>7. CASE Finish
  BY <1>7, FinishIInv
<1>8. CASE UNCHANGED vars
  <2> USE <1>8 DEF vars
  <2>1. TypeOK' /\ ReadOK' /\ EmptyOK' /\ CrashOK'
    BY DEF IInv, TypeOK, ReadOK, EmptyOK, CrashOK
  <2>2. CountOK'
    BY DEF IInv, CountOK, Counted
  <2>3. MapOK'
    BY DEF IInv, MapOK, MappedUpTo
  <2> QED BY <2>1, <2>2, <2>3 DEF IInv
<1> QED BY <1>1, <1>2, <1>3, <1>4, <1>5, <1>6, <1>7, <1>8 DEF Next

\* The inductive invariant holds in every state.
THEOREM Invariance == Spec => []IInv
<1>1. Init => IInv
  BY InitIInv
<1>2. IInv /\ [Next]_vars => IInv'
  BY NextIInv
<1> QED BY <1>1, <1>2, PTL DEF Spec

-----------------------------------------------------------------------------
(* What follows from it.                                                   *)

\* Every variable keeps its type.
THEOREM TypeCorrect == Spec => []TypeOK
<1>1. IInv => TypeOK
  BY DEF IInv
<1> QED BY <1>1, Invariance, PTL

\* CountForPages (ept.c:394-413) asks for enough pages to map the memory of
\* any list of up to 42 ranges, wherever the ranges lie and however long they
\* are, and leaves 6 pages for every range less.
THEOREM PoolSuffices == Spec => []PoolHoldsRam
<1>1. IInv => PoolHoldsRam
  <2> SUFFICES ASSUME IInv, Len(buffer) <= 42 PROVE PoolHoldsRam
    BY DEF PoolHoldsRam
  <2>1. pc # "fault"
    BY BufferType DEF IInv, CrashOK
  <2>2. ASSUME pc = "done" PROVE Cnt + 6 * (42 - Len(buffer)) <= numPages
    <3> DEFINE n == Len(buffer)
               s == sums[n + 1]
    <3>1. /\ n \in Nat /\ Counted(n + 1) /\ sums \in Seq(Nat) /\ total \in Nat
          /\ numPages = CountForPages(total)
      BY <2>2, BufferType DEF IInv, CountOK, TypeOK
    <3>2. TreeFits(pt, pd, pdpt, n, s)
      BY <2>2, SMT DEF IInv, MapOK, MappedUpTo
    <3>3. n \in 0 .. 42 /\ s \in Nat /\ s <= total
      <4>1. n <= 42 /\ n \in Nat
        BY <3>1
      <4> HIDE DEF n
      <4>2. n + 1 \in 1 .. Len(sums)
        BY <3>1, <4>1 DEF Counted
      <4>3. s <= total
        BY <3>1 DEF Counted
      <4> QED BY <3>1, <4>1, <4>2, <4>3
    <3> HIDE DEF s, n
    <3>4. Cardinality(pt) + Cardinality(pd) + Cardinality(pdpt) + 6 * (42 - n)
            <= CountForPages(total)
      BY ONLY <3>1, <3>2, <3>3, TablesFit
    <3> QED BY ONLY <3>1, <3>4 DEF Cnt, n
  <2> QED BY <2>1, <2>2 DEF PoolHoldsRam
<1> QED BY <1>1, Invariance, PTL

\* NIAPGetRegValue never reports success without having copied the list
\* (reghelper.c:44, 95).
THEOREM QueryReads == Spec => []SuccessMeansRead
<1>1. IInv => SuccessMeansRead
  BY DEF IInv, ReadOK, SuccessMeansRead
<1> QED BY <1>1, Invariance, PTL

\* The second pass over the list (ept.c:381) never meets a descriptor that
\* the first one (ept.c:103) has let pass.
THEOREM NoLateBugCheck == Spec => []BugCheckIsEarly
<1>1. IInv => BugCheckIsEarly
  BY DEF IInv, EmptyOK, BugCheckIsEarly, tree
<1> QED BY <1>1, Invariance, PTL

\* With the size that g_ept.pages has, InitEptTable writes past its end only
\* on a machine with at least 170 GB of memory.
THEOREM OverrunIsFar ==
  ASSUME MaxPages = 131072
  PROVE  Spec => []OverrunNeeds170GB
<1>1. IInv => OverrunNeeds170GB
  <2> SUFFICES ASSUME IInv, pc = "overrun" PROVE total >= 170 * 262144
    BY DEF OverrunNeeds170GB
  <2>1. total \in Nat /\ CountForPages(total) > 131072
    BY SMT DEF IInv, TypeOK, CountOK, CrashOK
  <2> QED BY ONLY <2>1, SMT DEF CountForPages
<1> QED BY <1>1, Invariance, PTL
=============================================================================
