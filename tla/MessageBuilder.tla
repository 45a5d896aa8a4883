--------------------------- MODULE MessageBuilder ---------------------------
(***************************************************************************)
(* A message under construction: the allocators of capnp/src/message.rs,   *)
(* the arena of capnp/src/private/arena.rs, and the part of                *)
(* capnp/src/private/layout.rs that builds and reads structs.  A word is a *)
(* number of two u32, the first of which is its low half; a position is a  *)
(* segment and an index into its words, both from 0 in the code, segments  *)
(* here from 1.  Operators that change memory take the arena and return    *)
(* it.  Next to the words stands the tree that the application has built.  *)
(***************************************************************************)
EXTENDS Integers, FiniteSets, SequencesExt

CONSTANTS U16,           \* the values of a u16, 2^16 in the code
          ScratchWords,  \* the length of the scratch space
          SecondWords,   \* second_segment_words
          Suggested,     \* SUGGESTED_FIRST_SEGMENT_WORDS
          MaxWords,      \* max_segment_words
          Grow,          \* GrowHeuristically, or else FixedSize
          Sizes,         \* the StructSizes the application asks for
          Data,          \* the words it sets
          MaxDepth,      \* bound on the depth of the tree
          MaxOperations  \* bound on the operations of the application

U32 == U16 * U16

ASSUME AllocatorAssumption ==
    /\ {U16, ScratchWords, SecondWords, Suggested, MaxWords} \subseteq Nat \ {0}
    /\ SecondWords <= MaxWords /\ Suggested <= MaxWords /\ Grow \in BOOLEAN
ASSUME SizesAssumption ==
    /\ \A size \in Sizes : size.data \in 0 .. U16 - 1 /\ size.pointers \in 0 .. U16 - 1
    /\ Data \subseteq 0 .. (U32 * U32) - 1
    /\ MaxDepth \in Nat /\ MaxOperations \in Nat

VARIABLES
    arena,               \* segments, the scratch space while nobody has it, next_size
    tree,                \* for each path of pointers, the struct there: data, pointer count
    operations           \* how many operations the application has made

builder_vars == <<arena, tree, operations>>

NoWords(n) == [i \in 0 .. n - 1 |-> 0]
NoTree == [path \in {} |-> 0]

BuilderInit ==
    /\ arena = [segments |-> << >>, next_size |-> SecondWords,
                scratch |-> NoWords(ScratchWords), scratch_allocated |-> FALSE]
    /\ tree = NoTree
    /\ operations = 0

----------------------------------------------------------------------------
(* WirePointer *)

Low(w) == w % U32
High(w) == w \div U32
IsFar(w) == Low(w) % 4 = 2
Offset(w) == (IF Low(w) < U32 \div 2 THEN Low(w) ELSE Low(w) - U32) \div 4
DataSize(w) == High(w) % U16
PtrCount(w) == High(w) \div U16
WordSize(w) == DataSize(w) + PtrCount(w)
IsDoubleFar(w) == (Low(w) \div 4) % 2 = 1
FarPosition(w) == Low(w) \div 8
FarSegment(w) == High(w) + 1

StructPointer(from, to, high) == ((4 * (to - from - 1)) % U32) + U32 * high
EmptyStruct(high) == U32 - 4 + U32 * high
FarPointer(double, s, i) == 8 * i + (IF double THEN 4 ELSE 0) + 2 + U32 * (s - 1)

Get(a, s, i) == a.segments[s].words[i]
Put(a, s, i, w) == [a EXCEPT !.segments[s].words[i] = w]
Fill(a, s, i, n, w) ==
    [a EXCEPT !.segments[s].words =
        [j \in DOMAIN @ |-> IF j \in i .. i + n - 1 THEN w[j - i] ELSE @[j]]]
ZeroWords(a, s, i, n) == Fill(a, s, i, n, NoWords(n))

----------------------------------------------------------------------------
(* ScratchSpaceHeapAllocator over HeapAllocator, and BuilderArenaImpl *)

Segment(scratch, words) == [scratch |-> scratch, allocated |-> 0, words |-> words]

\* HeapAllocator::allocate_segment
HeapSegment(a, minimum_size) ==
    LET size == IF minimum_size > a.next_size THEN minimum_size ELSE a.next_size
        grown == IF size < MaxWords - a.next_size THEN a.next_size + size ELSE MaxWords IN
    [a EXCEPT !.segments = Append(@, Segment(FALSE, NoWords(size))),
              !.next_size = IF Grow THEN grown ELSE @]

\* ScratchSpaceHeapAllocator::allocate_segment
AllocateSegment(a, minimum_size) ==
    IF minimum_size < ScratchWords /\ ~ a.scratch_allocated
    THEN [a EXCEPT !.scratch_allocated = TRUE, !.segments = Append(@, Segment(TRUE, a.scratch))]
    ELSE HeapSegment(a, minimum_size)

Fits(a, s, amount) == amount <= Cardinality(DOMAIN a.segments[s].words) - a.segments[s].allocated
Allocate(a, s, amount) == [a EXCEPT !.segments[s].allocated = @ + amount]

\* allocate_anywhere: the first segment with room, or a new one.
AllocateAnywhere(a, amount) ==
    LET fit == {s \in DOMAIN a.segments : Fits(a, s, amount)}
        b == IF fit # {} THEN a ELSE AllocateSegment(a, amount)
        s == IF fit # {} THEN CHOOSE s \in fit : \A t \in fit : s <= t ELSE Len(b.segments) IN
    [arena |-> Allocate(b, s, amount), segment |-> s, index |-> b.segments[s].allocated]

\* Mutant of Rezeroed: the scratch space goes back as it is.
Dirty(seg) == seg.words

\* ScratchSpaceHeapAllocator::deallocate_segment: the words that were used are zeroed.
Rezeroed(seg) == [i \in DOMAIN seg.words |-> IF i < seg.allocated THEN 0 ELSE seg.words[i]]

\* deallocate_all; HeapAllocator::deallocate_segment resets next_size.
DeallocateAll(a) ==
    LET used == {s \in DOMAIN a.segments : a.segments[s].scratch} IN
    [segments |-> << >>, scratch_allocated |-> FALSE,
     next_size |-> IF used = DOMAIN a.segments THEN a.next_size ELSE Suggested,
     scratch |-> IF used = {} THEN a.scratch ELSE Rezeroed(a.segments[CHOOSE s \in used : TRUE])]

----------------------------------------------------------------------------
(* wire_helpers, for structs *)

RECURSIVE ZeroObject(_, _, _)
RECURSIVE ZeroPointers(_, _, _, _)

ZeroPointers(a, s, i, count) ==
    IF count = 0 THEN a ELSE ZeroPointers(ZeroObject(a, s, i), s, i + 1, count - 1)

\* zero_object_helper
ZeroStruct(a, s, tag, i) ==
    ZeroWords(ZeroPointers(a, s, i + DataSize(tag), PtrCount(tag)), s, i, WordSize(tag))

\* zero_object: what the pointer at (s, i) points to, and its landing pads.
ZeroObject(a, s, i) ==
    LET reff == Get(a, s, i)
        t == FarSegment(reff)
        j == FarPosition(reff)
        pad == Get(a, t, j) IN
    IF ~ IsFar(reff) THEN ZeroStruct(a, s, reff, i + 1 + Offset(reff))
    ELSE IF IsDoubleFar(reff)
    THEN ZeroWords(ZeroStruct(a, FarSegment(pad), Get(a, t, j + 1), FarPosition(pad)), t, j, 2)
    ELSE ZeroWords(ZeroObject(a, t, j), t, j, 1)

\* Mutant of ZeroPointerAndFars: allocate() zeroes the object that is to be copied.
ZeroNothing(a, s, i) == a

\* zero_pointer_and_fars
ZeroPointerAndFars(a, s, i) ==
    LET reff == Get(a, s, i)
        pads == IF IsDoubleFar(reff) THEN 2 ELSE 1
        b == IF IsFar(reff) THEN ZeroWords(a, FarSegment(reff), FarPosition(reff), pads) ELSE a IN
    ZeroWords(b, s, i, 1)

\* follow_builder_fars: where the object of the pointer at (s, i) is, and its tag.
Follow(a, s, i) ==
    LET reff == Get(a, s, i)
        t == FarSegment(reff)
        j == FarPosition(reff)
        pad == Get(a, t, j) IN
    IF ~ IsFar(reff) THEN [segment |-> s, index |-> i + 1 + Offset(reff), tag |-> reff]
    ELSE IF IsDoubleFar(reff)
    THEN [segment |-> FarSegment(pad), index |-> FarPosition(pad), tag |-> Get(a, t, j + 1)]
    ELSE [segment |-> t, index |-> j + 1 + Offset(pad), tag |-> pad]

\* allocate and set_struct_size: a new object for the pointer at (s, i).
NewObject(a, s, i, data, pointers) ==
    LET z == IF Get(a, s, i) = 0 THEN a ELSE ZeroObject(a, s, i)
        amount == data + pointers
        high == data + U16 * pointers
        at == z.segments[s].allocated
        far == AllocateAnywhere(z, amount + 1) IN
    IF amount = 0
    THEN [arena |-> Put(z, s, i, EmptyStruct(high)), segment |-> s, index |-> i]
    ELSE IF Fits(z, s, amount)
    THEN [arena |-> Put(Allocate(z, s, amount), s, i, StructPointer(i, at, high)),
          segment |-> s, index |-> at]
    ELSE [arena |-> Put(Put(far.arena, s, i, FarPointer(FALSE, far.segment, far.index)),
                        far.segment, far.index, StructPointer(far.index, far.index + 1, high)),
          segment |-> far.segment, index |-> far.index + 1]

\* transfer_pointer and transfer_pointer_split: the pointer at (ss, si) goes to (ds, di).
TransferPointer(a, ds, di, ss, si) ==
    LET src == Get(a, ss, si)
        target == si + 1 + Offset(src)
        pad == a.segments[ss].allocated
        double == AllocateAnywhere(a, 2) IN
    IF src = 0 \/ IsFar(src) THEN Put(a, ds, di, src)
    ELSE IF ds = ss
    THEN Put(a, ds, di, IF WordSize(src) = 0 THEN EmptyStruct(0)
                        ELSE StructPointer(di, target, High(src)))
    ELSE IF Fits(a, ss, 1)
    THEN Put(Put(Allocate(a, ss, 1), ss, pad, StructPointer(pad, target, High(src))),
             ds, di, FarPointer(FALSE, ss, pad))
    ELSE Put(Fill(double.arena, double.segment, double.index, 2,
                  0 :> FarPointer(FALSE, ss, target) @@ 1 :> U32 * High(src)),
             ds, di, FarPointer(TRUE, double.segment, double.index))

RECURSIVE TransferPointers(_, _, _, _, _, _)
TransferPointers(a, ds, di, ss, si, count) ==
    IF count = 0 THEN a
    ELSE TransferPointers(TransferPointer(a, ds, di, ss, si), ds, di + 1, ss, si + 1, count - 1)

Larger(m, n) == IF m < n THEN n ELSE m

\* get_writable_struct_pointer, without a default.
Writable(a, s, i, size) ==
    LET old == Follow(a, s, i)
        old_data == DataSize(old.tag)
        old_count == PtrCount(old.tag)
        data == Larger(old_data, size.data)
        new == NewObject(ZeroPointerAndFars(a, s, i), s, i, data, Larger(old_count, size.pointers))
        copied == Fill(new.arena, new.segment, new.index, old_data,
                       [k \in 0 .. old_data - 1 |-> Get(new.arena, old.segment, old.index + k)])
        moved == TransferPointers(copied, new.segment, new.index + data,
                                  old.segment, old.index + old_data, old_count) IN
    IF Get(a, s, i) = 0 THEN NewObject(a, s, i, size.data, size.pointers).arena
    ELSE IF size.data <= old_data /\ size.pointers <= old_count THEN a
    ELSE ZeroWords(moved, old.segment, old.index, WordSize(old.tag))

----------------------------------------------------------------------------
(* The application.  A path is the sequence of pointer fields, from 0, that leads
   from the root to a pointer. *)

Paths == {<< >>} \cup
         UNION {{Append(p, k) : k \in 0 .. tree[p].pointers - 1} :
                    p \in {q \in DOMAIN tree : Len(q) < MaxDepth}}

\* Builder::get_root_internal
Rooted == IF arena.segments # << >> THEN arena ELSE Allocate(AllocateSegment(arena, 1), 1, 1)

RECURSIVE PointerAt(_, _)
PointerAt(a, path) ==
    IF path = << >> THEN [segment |-> 1, index |-> 0]
    ELSE LET p == PointerAt(a, Front(path))
             o == Follow(a, p.segment, p.index) IN
         [segment |-> o.segment, index |-> o.index + DataSize(o.tag) + Last(path)]

Node(size) == [data |-> [k \in 1 .. size.data |-> 0], pointers |-> size.pointers]
Without(path) == [p \in {q \in DOMAIN tree : ~ IsPrefix(path, q)} |-> tree[p]]
With(t, path, node) == [p \in DOMAIN t \cup {path} |-> IF p = path THEN node ELSE t[p]]

\* PointerBuilder::init_struct: the object that was there is gone.
InitStruct(path, size) ==
    LET p == PointerAt(Rooted, path) IN
    /\ arena' = NewObject(Rooted, p.segment, p.index, size.data, size.pointers).arena
    /\ tree' = With(Without(path), path, Node(size))

\* PointerBuilder::get_struct: the object that was there has at least this size.
GetStruct(path, size) ==
    LET p == PointerAt(Rooted, path)
        old == IF path \in DOMAIN tree THEN tree[path] ELSE [data |-> << >>, pointers |-> 0]
        new == Node([data |-> Larger(Len(old.data), size.data),
                     pointers |-> Larger(old.pointers, size.pointers)]) IN
    /\ arena' = Writable(Rooted, p.segment, p.index, size)
    /\ tree' = With(tree, path, [new EXCEPT !.data =
                   [k \in DOMAIN @ |-> IF k \in DOMAIN old.data THEN old.data[k] ELSE @[k]]])

\* PointerBuilder::clear
Clear(path) ==
    LET p == PointerAt(arena, path) IN
    /\ path \in DOMAIN tree
    /\ arena' = ZeroWords(ZeroObject(arena, p.segment, p.index), p.segment, p.index, 1)
    /\ tree' = Without(path)

\* StructBuilder::set_data_field
SetData(path, k, value) ==
    LET p == PointerAt(arena, path)
        o == Follow(arena, p.segment, p.index) IN
    /\ arena' = Put(arena, o.segment, o.index + k - 1, value)
    /\ tree' = [tree EXCEPT ![path].data[k] = value]

Build ==
    /\ operations < MaxOperations
    /\ operations' = operations + 1
    /\ \/ \E path \in Paths : \E size \in Sizes : InitStruct(path, size) \/ GetStruct(path, size)
       \/ \E path \in Paths : Clear(path)
       \/ \E path \in DOMAIN tree : \E k \in DOMAIN tree[path].data, v \in Data :
              SetData(path, k, v)

\* Builder::into_allocator, and a new builder.
NewBuilder ==
    /\ arena.segments # << >>
    /\ arena' = DeallocateAll(arena)
    /\ tree' = NoTree
    /\ UNCHANGED operations

BuilderNext == Build \/ NewBuilder

BuilderSpec == BuilderInit /\ [][BuilderNext]_builder_vars

----------------------------------------------------------------------------
(* A message that is read: the words of its segments *)

\* get_segments_for_output
Output(a) ==
    [s \in DOMAIN a.segments |->
        [k \in 1 .. a.segments[s].allocated |-> a.segments[s].words[k - 1]]]

NullObject == [is |-> "null", data |-> << >>, pointers |-> << >>]
OutOfBounds == [NullObject EXCEPT !.is = "error"]

\* bounds_check
ContainsInterval(m, s, i, n) == s \in DOMAIN m /\ i >= 0 /\ i + n <= Len(m[s])

RECURSIVE ReadStructPointer(_, _, _)

ReadStruct(m, s, i, tag) ==
    IF ~ ContainsInterval(m, s, i, WordSize(tag)) THEN OutOfBounds
    ELSE [is |-> "struct", data |-> SubSeq(m[s], i + 1, i + DataSize(tag)),
          pointers |-> [k \in 1 .. PtrCount(tag) |->
                           ReadStructPointer(m, s, i + DataSize(tag) + k - 1)]]

\* read_struct_pointer and follow_fars
ReadStructPointer(m, s, i) ==
    LET reff == m[s][i + 1]
        t == FarSegment(reff)
        j == FarPosition(reff)
        pad == m[t][j + 1] IN
    IF reff = 0 THEN NullObject
    ELSE IF ~ IsFar(reff) THEN ReadStruct(m, s, i + 1 + Offset(reff), reff)
    ELSE IF ~ ContainsInterval(m, t, j, IF IsDoubleFar(reff) THEN 2 ELSE 1) THEN OutOfBounds
    ELSE IF IsDoubleFar(reff) THEN ReadStruct(m, FarSegment(pad), FarPosition(pad), m[t][j + 2])
    ELSE ReadStruct(m, t, j + 1 + Offset(pad), pad)

ReadRoot(m) == IF ContainsInterval(m, 1, 0, 1) THEN ReadStructPointer(m, 1, 0) ELSE OutOfBounds

----------------------------------------------------------------------------
(* Properties *)

BuilderTypeOK ==
    /\ \A s \in DOMAIN arena.segments :
           LET seg == arena.segments[s] IN
           /\ seg.allocated \in 0 .. Cardinality(DOMAIN seg.words)
           /\ \A i \in DOMAIN seg.words : seg.words[i] \in 0 .. (U32 * U32) - 1
    /\ arena.next_size \in 1 .. MaxWords
    /\ operations \in 0 .. MaxOperations

\* The tree that a reader should see.
RECURSIVE Tree(_, _)
Tree(t, path) ==
    IF path \notin DOMAIN t THEN NullObject
    ELSE [is |-> "struct", data |-> t[path].data,
          pointers |-> [k \in 1 .. t[path].pointers |-> Tree(t, Append(path, k - 1))]]

\* Whoever follows the pointers of the message sees the structs that were built, with
\* what was set in them and zeroes elsewhere: in one segment or through far and
\* double-far pointers, after objects were replaced, cleared, or moved because a newer
\* schema needed more room.
BuildsTheTree == arena.segments # << >> => ReadRoot(Output(arena)) = Tree(tree, << >>)

\* Memory that is not allocated is zero, so that a new object is: the rest of each
\* segment, and the scratch space when an allocator gets it back ("allocated segments
\* are initially *zeroed*", message.rs).
UnusedIsZero ==
    /\ \A s \in DOMAIN arena.segments :
           LET seg == arena.segments[s] IN
           \A i \in DOMAIN seg.words : i >= seg.allocated => seg.words[i] = 0
    /\ ~ arena.scratch_allocated => arena.scratch = NoWords(ScratchWords)
=============================================================================
