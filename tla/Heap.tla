-------------------------------- MODULE Heap --------------------------------
(***************************************************************************)
(* The guest's heap: Allocator (src/src/mem/allocator.rs), Mem::realloc    *)
(* and Mem::free (src/src/mem.rs), and malloc, realloc, posix_memalign and *)
(* free of the guest's libc (src/src/libc/stdlib.rs).                      *)
(*                                                                         *)
(* Addresses and sizes count units of MIN_CHUNK_SIZE, 16 bytes: alloc      *)
(* rounds every request up to a multiple of it.                            *)
(***************************************************************************)
EXTENDS Integers, FiniteSets

CONSTANTS
    Page,       \* PAGE_SIZE
    NullSize,   \* the null_segment_size that the program is loaded with
    StackLow,   \* MAIN_THREAD_STACK_LOW_END
    Top,        \* the end of the address space, and of the main stack
    Sizes,      \* the sizes the guest asks for
    Alignments, \* the alignments above 16 that posix_memalign is called with
    MaxOwned,   \* bound on the blocks the guest has at once
    MaxSegments, \* bound on the segments, with the null segment and the stack
    Misuse      \* what this guest program does that the heap does not cope with

ASSUME HeapAssumption ==
    /\ Page \in Nat \ {0}
    /\ StackLow \in Nat /\ Top \in Nat /\ StackLow < Top
    /\ NullSize \in Nat \ {0} /\ NullSize < StackLow
    /\ NullSize % Page = 0 /\ StackLow % Page = 0
    /\ Sizes \subseteq Nat \ {0}
    /\ Alignments \subseteq Nat \ {0}

VARIABLES
    used,    \* Allocator::used_chunks
    unused,  \* Allocator::unused_chunks
    host,    \* "up", or "panic" after a failed assert! or unwrap()
    segments, \* the used chunks of the program and of the main stack
    owned    \* the blocks the guest program has, at the size it asked for

vars == <<used, unused, host, segments, owned>>

Chunk(base, size) == [base |-> base, size |-> size]

\* Chunk::last_byte() + 1
End(c) == c.base + c.size

\* The bytes of b lie inside c.
Within(b, c) == c.base <= b.base /\ End(b) <= End(c)

MainStack == Chunk(StackLow, Top - StackLow)

\* The guest may break the precondition P only if Misuse names it.
Lawful(precondition, P) == precondition \in Misuse \/ P

NullSegment == Chunk(0, NullSize)

\* Allocator::new and set_null_segment_size: no block starts at NULL.
Init ==
    /\ segments = {MainStack, NullSegment}
    /\ used = segments
    /\ unused = {Chunk(NullSize, StackLow - NullSize)}
    /\ host = "up"
    /\ owned = {}

-----------------------------------------------------------------------------
(***************************************************************************)
(* The two maps as a value, so that one call may change them twice.  `ok`  *)
(* tells whether the assertions of Chunk::new and ChunkMap::insert held    *)
(* for every chunk that has entered one of them.                           *)
(***************************************************************************)
Heap == [used |-> used, unused |-> unused, ok |-> TRUE]

Aligned(c) == c.size >= Page => c.base % Page = 0

Enters(chunks, map) ==
    \A c \in chunks : Aligned(c) /\ \A d \in map : d.base # c.base

\* Chunks are taken out of the maps, and others put in.
Moved(heap, fromUsed, toUsed, fromUnused, toUnused) ==
    [used |-> (heap.used \ fromUsed) \cup toUsed,
     unused |-> (heap.unused \ fromUnused) \cup toUnused,
     ok |-> /\ heap.ok
            /\ Enters(toUsed, heap.used \ fromUsed)
            /\ Enters(toUnused, heap.unused \ fromUnused)]

\* The call leaves the heap like this, or panics.
Becomes(heap) ==
    /\ host' = IF heap.ok THEN "up" ELSE "panic"
    /\ used' = heap.used
    /\ unused' = heap.unused

-----------------------------------------------------------------------------
(***************************************************************************)
(* SizeBucketedChunkMap::allocate.  A bucket holds the chunks whose sizes  *)
(* have the same logarithm; which of several smallest chunks is taken      *)
(* depends on the order of past frees, and is left open here.              *)
(***************************************************************************)
BucketFor(size) == CHOOSE k \in 0 .. Top : 2 ^ k <= size /\ size < 2 ^ (k + 1)

\* Mutant: any chunk of the bucket that is large enough.
AnyIn(size, bucket) == {c \in unused : BucketFor(c.size) = bucket /\ c.size >= size}

\* allocate_in_bucket: the smallest chunks of the bucket that are large enough.
SmallestIn(size, bucket) ==
    LET fitting == {c \in unused : BucketFor(c.size) = bucket /\ c.size >= size}
    IN {c \in fitting : \A d \in fitting : c.size <= d.size}

\* The bucket of the size itself first, then the next one that is not empty.
Choices(size) ==
    LET own == BucketFor(size)
        larger == {BucketFor(c.size) : c \in unused} \ 0 .. own
        next == {b \in larger : \A other \in larger : b <= other}
    IN IF SmallestIn(size, own) # {} THEN SmallestIn(size, own)
       ELSE UNION {SmallestIn(size, b) : b \in next}

\* Mutant: what is left before the page boundary is forgotten.
RumpFromPage(chunk, size) ==
    LET base == chunk.base + size
    IN IF chunk.size = size THEN {}
       ELSE IF chunk.size - size >= Page /\ base % Page # 0
       THEN {Chunk(chunk.base + Page, chunk.size - Page)}
       ELSE {Chunk(base, chunk.size - size)}

\* What is left of a chunk; from a page on it starts at a page boundary.
Rump(chunk, size) ==
    LET base == chunk.base + size
    IN IF chunk.size = size THEN {}
       ELSE IF chunk.size - size >= Page /\ base % Page # 0
       THEN {Chunk(base, Page - size),
             Chunk(chunk.base + Page, chunk.size - Page)}
       ELSE {Chunk(base, chunk.size - size)}

\* Allocator::alloc rounds to pages from a page on.
Rounded(size) ==
    IF size < Page THEN size ELSE ((size + Page - 1) \div Page) * Page

\* The chunks that Allocator::alloc may split; if there is none it returns NULL.
Available(size) == Choices(Rounded(size))

Allocated(heap, chunk, size) ==
    Moved(heap, {}, {Chunk(chunk.base, Rounded(size))},
          {chunk}, Rump(chunk, Rounded(size)))

(***************************************************************************)
(* Allocator::free: the chunk joins the one after it, or else the one      *)
(* before, unless the whole would be a page or more and not start at a     *)
(* page boundary.  An address that no used chunk starts at is refused.     *)
(***************************************************************************)
Adjacent(heap, freed) ==
    LET after == {c \in heap.unused : c.base = End(freed)}
    IN IF after # {} THEN after ELSE {c \in heap.unused : End(c) = freed.base}

Join(c, d) == Chunk(IF c.base < d.base THEN c.base ELSE d.base, c.size + d.size)

\* Mutant: adjacent chunks are joined wherever the whole starts.
ReleasedAndJoined(heap, freed) ==
    LET adjacent == Adjacent(heap, freed)
        joined == {Join(c, freed) : c \in adjacent}
    IN Moved(heap, {freed}, {}, adjacent,
             IF adjacent # {} THEN joined ELSE {freed})

Released(heap, freed) ==
    LET adjacent == Adjacent(heap, freed)
        joined == {Join(c, freed) : c \in adjacent}
    IN Moved(heap, {freed}, {}, adjacent,
             IF adjacent # {} /\ \A c \in joined : Aligned(c) THEN joined
             ELSE adjacent \cup {freed})

AfterFree(heap, base) ==
    LET freed == {c \in heap.used : c.base = base}
    IN IF freed = {} THEN heap ELSE Released(heap, CHOOSE c \in freed : TRUE)

-----------------------------------------------------------------------------
(***************************************************************************)
(* Mem::reserve: the loader takes the segments of the program, whole       *)
(* pages, out of the heap.  A chunk that is not unused as a whole is       *)
(* skipped with a warning.                                                 *)
(***************************************************************************)
\* Chunk::trisect_by
Trisect(c, chunk) ==
    {side \in {Chunk(c.base, chunk.base - c.base),
               Chunk(End(chunk), End(c) - End(chunk))} : side.size > 0}

Reserve(chunk) ==
    /\ host = "up"
    /\ Cardinality(segments) < MaxSegments
    /\ \E c \in unused :
           /\ Within(chunk, c)
           /\ Becomes(Moved(Heap, {}, {chunk}, {c}, Trisect(c, chunk)))
    /\ segments' = segments \cup {chunk}
    /\ UNCHANGED owned

\* malloc, calloc and the Mem::alloc under them.
Malloc(size) ==
    /\ host = "up"
    /\ Cardinality(owned) < MaxOwned
    /\ \E chunk \in Available(size) :
           /\ Becomes(Allocated(Heap, chunk, size))
           /\ owned' = owned \cup {Chunk(chunk.base, size)}
    /\ UNCHANGED segments

\* posix_memalign with a large alignment: more is allocated, and the guest gets
\* the first aligned address after the word that stores the chunk's own.
PosixMemalign(alignment, size) ==
    /\ host = "up"
    /\ Cardinality(owned) < MaxOwned
    /\ \E chunk \in Available(size + alignment + 1) :
           /\ Becomes(Allocated(Heap, chunk, size + alignment + 1))
           /\ owned' = owned \cup
                  {Chunk((chunk.base \div alignment + 1) * alignment, size)}
    /\ UNCHANGED segments

\* The guest passes back an address that a chunk starts at.
PassesBack(block) ==
    /\ host = "up"
    /\ block \in owned
    /\ Lawful("free_aligned_block", \E c \in used : c.base = block.base)

\* Mem::realloc: a block whose chunk is large enough stays where it is.
ReallocInPlace(block, size) ==
    /\ PassesBack(block)
    /\ \E c \in used : c.base = block.base /\ c.size >= size
    /\ owned' = (owned \ {block}) \cup {Chunk(block.base, size)}
    /\ UNCHANGED <<used, unused, host, segments>>

\* Mutant: the new chunk is freed in place of the old one.
ReallocFreesNew(block, size) ==
    /\ PassesBack(block)
    /\ \A c \in used : c.base = block.base => c.size < size
    /\ \E chunk \in Available(size) :
           /\ Becomes(AfterFree(Allocated(Heap, chunk, size), chunk.base))
           /\ owned' = (owned \ {block}) \cup {Chunk(chunk.base, size)}
    /\ UNCHANGED segments

\* Any other is copied to a new chunk, and its own is freed.
ReallocMoved(block, size) ==
    /\ PassesBack(block)
    /\ \A c \in used : c.base = block.base => c.size < size
    /\ \E chunk \in Available(size) :
           /\ Becomes(AfterFree(Allocated(Heap, chunk, size), block.base))
           /\ owned' = (owned \ {block}) \cup {Chunk(chunk.base, size)}
    /\ UNCHANGED segments

\* The old chunk is freed even if there is no new one.  A guest that called
\* reallocf has given its block up; for one that called realloc it is alive.
ReallocFailed(block, size) ==
    /\ PassesBack(block)
    /\ \A c \in used : c.base = block.base => c.size < size
    /\ Available(size) = {}
    /\ Becomes(AfterFree(Heap, block.base))
    /\ owned' \in {owned \ {block}}
                     \cup (IF "realloc_too_large" \in Misuse THEN {owned} ELSE {})
    /\ UNCHANGED segments

Free(block) ==
    /\ PassesBack(block)
    /\ Becomes(AfterFree(Heap, block.base))
    /\ owned' = owned \ {block}
    /\ UNCHANGED segments

Next ==
    \/ \E first, pages \in 0 .. Top \div Page :
           pages > 0 /\ Reserve(Chunk(first * Page, pages * Page))
    \/ \E size \in Sizes :
           \/ Malloc(size)
           \/ \E alignment \in Alignments : PosixMemalign(alignment, size)
           \/ \E block \in owned : \/ ReallocInPlace(block, size)
                                   \/ ReallocMoved(block, size)
                                   \/ ReallocFailed(block, size)
    \/ \E block \in owned : Free(block)

Spec == Init /\ [][Next]_vars

-----------------------------------------------------------------------------
Chunks == [base : 0 .. Top, size : 1 .. Top]

\* Every variable has its type.
TypeOK ==
    /\ used \subseteq Chunks
    /\ unused \subseteq Chunks
    /\ segments \subseteq Chunks
    /\ owned \subseteq Chunks
    /\ host \in {"up", "panic"}

Covers(c, address) == c.base <= address /\ address < End(c)

\* Every address is in one chunk of one map: none is given out twice or lost,
\* whatever is split, re-aligned and joined.
Tiled ==
    /\ TypeOK
    /\ used \cap unused = {}
    /\ \A address \in 0 .. Top - 1 :
           /\ \E c \in used \cup unused : Covers(c, address)
           /\ \A c, d \in used \cup unused :
                  Covers(c, address) /\ Covers(d, address) => c = d

\* No assert! of the allocator fails: a chunk of a page or more starts at a
\* page boundary, and no chunk enters a map over another one.
NoHostPanic == host = "up"

\* A block that the guest has not freed lies inside a used chunk that is not
\* the program's and that no other block lies in.
OwnedAreUsed ==
    \A b \in owned : \E c \in used \ segments :
        Within(b, c) /\ \A other \in owned \ {b} : ~Within(other, c)

\* "stash the original allocation address [...] so `free()` can find it again"
\* (stdlib.rs:222-224): what the guest has freed is not in use.
NothingLeaks ==
    \A c \in used \ segments : \E b \in owned : Within(b, c)

\* The chunks in use are those of the guest's blocks, one each, and of the
\* program: malloc, posix_memalign, realloc in both its ways and free neither
\* lose a block nor keep one that nobody owns.
UsedIsOwned == OwnedAreUsed /\ NothingLeaks

\* The search through the buckets finds the smallest chunk that is large
\* enough, and fails only if no chunk is.
BestFit ==
    \A size \in {Rounded(s) : s \in Sizes} :
        LET fitting == {c \in unused : c.size >= size}
        IN Choices(size) = {c \in fitting : \A d \in fitting : c.size <= d.size}
=============================================================================
